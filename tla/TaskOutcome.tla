------------------------------ MODULE TaskOutcome ------------------------------
(***************************************************************************)
(* What the durable tasks of Grabowski promise, with none of the machinery *)
(* that keeps the promise: the outcome of a task is decided once and for   *)
(* ever, it is decided in the same step in which the task gives back all   *)
(* it holds, the record and then the receipt say what was decided and      *)
(* nothing else, and a task whose outcome is decided never holds anything  *)
(* again.  DurableTasks implements it.                                     *)
(***************************************************************************)

CONSTANTS
    Task,       \* the tasks
    Key,        \* the resources
    Foreign,    \* whoever else takes resources
    Outcome,    \* what can be decided
    None

VARIABLES
    decided,    \* per task: its outcome, or None
    shown,      \* per task: the outcome its record shows, or None
    filed,      \* per task: the outcome its receipt states, or None
    holder      \* per resource: who holds it, or None

vars == <<decided, shown, filed, holder>>

Init ==
    /\ decided = [t \in Task |-> None]
    /\ shown = [t \in Task |-> None]
    /\ filed = [t \in Task |-> None]
    /\ holder = [k \in Key |-> None]

\* A task whose outcome is open takes resources nobody else holds.
Take(t, K) ==
    /\ decided[t] = None
    /\ \A k \in K : holder[k] \in {None, t}
    /\ holder' = [k \in Key |-> IF k \in K THEN t ELSE holder[k]]
    /\ UNCHANGED <<decided, shown, filed>>

ForeignTakes(k) ==
    /\ holder[k] = None
    /\ holder' = [holder EXCEPT ![k] = Foreign]
    /\ UNCHANGED <<decided, shown, filed>>

\* A claim is given up, or runs out.
Drop(K) ==
    /\ holder' = [k \in Key |-> IF k \in K THEN None ELSE holder[k]]
    /\ UNCHANGED <<decided, shown, filed>>

\* The outcome and the loss of every claim are one step.
Decide(t, o) ==
    /\ decided[t] = None
    /\ decided' = [decided EXCEPT ![t] = o]
    /\ holder' = [k \in Key |-> IF holder[k] = t THEN None ELSE holder[k]]
    /\ UNCHANGED <<shown, filed>>

Show(t) ==
    /\ decided[t] # None
    /\ shown' = [shown EXCEPT ![t] = decided[t]]
    /\ UNCHANGED <<decided, filed, holder>>

File(t) ==
    /\ decided[t] # None
    /\ shown[t] = decided[t]
    /\ filed' = [filed EXCEPT ![t] = decided[t]]
    /\ UNCHANGED <<decided, shown, holder>>

Next ==
    \/ \E t \in Task : Show(t) \/ File(t)
    \/ \E t \in Task, K \in SUBSET Key : Take(t, K)
    \/ \E t \in Task, o \in Outcome : Decide(t, o)
    \/ \E k \in Key : ForeignTakes(k)
    \/ \E K \in SUBSET Key : Drop(K)

Spec == Init /\ [][Next]_vars
=============================================================================
