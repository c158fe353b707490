----------------------------- MODULE ReconcileCycle -----------------------------
(***************************************************************************)
(* How the reconciliation of durable tasks gets round to every task:       *)
(* _reconcile_candidate_batch and _reconcile_tasks_refresh_locked of       *)
(* src/grabowski_tasks.py, with the pages of pending terminalizations of   *)
(* src/grabowski_resources.py.                                             *)
(*                                                                         *)
(* A timer calls it again and again with a batch size.  One call holds the *)
(* mutation lock from beginning to end; units end beside it, and the       *)
(* process may die in it.  Two scans share a batch: one over the rows of   *)
(* tasks, one over the terminalizations that were begun and not carried    *)
(* through.  Each goes round in cycles: a cycle covers what was there when *)
(* it began, whatever arrives meanwhile, and is continued at a cursor.     *)
(* Rows that were not observed for long are looked at before that, out of  *)
(* turn.                                                                   *)
(*                                                                         *)
(* A cursor is represented by the rows behind it.                          *)
(***************************************************************************)
EXTENDS Naturals, SequencesExt

CONSTANTS
    Task,           \* task ids; one whose row is no candidate any more is
                    \* given out again, so that arrivals never end
    Failing,        \* tasks that fail: their rows stay candidates for ever
    Poison,         \* tasks whose outcome receipt can never be written
    Retired,        \* tasks whose host is retired: they are never observed again
    Limit,          \* batch_size
    ActiveLimit,    \* how much of a batch may go to rows out of turn (in the
                    \* code a fifth of it, at most 20)
    None,
    MaxAborts       \* bound: calls that are broken off

ASSUME CycleAssumption ==
    /\ Failing \subseteq Task
    /\ Poison \subseteq Task
    /\ Retired \subseteq Task
    /\ Limit \in Nat
    /\ ActiveLimit \in Nat
    /\ ActiveLimit < Limit
    /\ MaxAborts \in Nat

Phase == {"terminalization", "tasks"}
Cycle == [within : SUBSET Task, left : SUBSET Task]

ASSUME NoneAssumption == None \notin Cycle

VARIABLES
    line,       \* the rows in candidate states, in the order of the scan
    due,        \* of these, the open ones whose unit has ended unnoticed
    shut,       \* of these, the ones that failed and converged
    pending,    \* terminalizations in phase leases_revoked, in their order
    cycle,      \* the saved cycle of the task scan: the rows up to the
                \* high-water mark, and those of them behind the cursor; or None
    behind,     \* the saved cycle of the other scan: what is up to the mark and
                \* behind the cursor; or None
    turn,       \* the saved phase turn
    batch,      \* the batch that is being worked off, or None
    aborts

rows == <<line, due, shut, pending>>
vars == <<line, due, shut, pending, cycle, behind, turn, batch, aborts>>

\* The tables, the cursors and the batch, and which rows are in which of them.
TypeOK ==
    /\ line \in Seq(Task) /\ IsInjective(line)
    /\ pending \in Seq(Task) /\ IsInjective(pending)
    /\ due \cup shut \subseteq ToSet(line)
    /\ due \cap shut = {}
    /\ ToSet(pending) \cap (due \cup shut) = {}
    /\ cycle # None => cycle \in Cycle /\ cycle.left \subseteq cycle.within /\ cycle.within \subseteq ToSet(line)
    /\ behind # None => behind \subseteq ToSet(pending)
    /\ turn \in Phase
    /\ batch # None =>
          /\ batch.todo \in Seq(Task)
          /\ batch.after # None => batch.after \in Cycle
          /\ batch.turn \in Phase
    /\ aborts \in 0..MaxAborts

Init ==
    /\ line = <<>> /\ due = {} /\ shut = {} /\ pending = <<>>
    /\ cycle = None /\ behind = None /\ turn = "terminalization"
    /\ batch = None
    /\ aborts = 0

\* What of s is in S, in its order; a function, which SelectSeq is not to a prover.
Among(s, S) ==
    LET upTo[i \in 0..Len(s)] ==
            IF i = 0 THEN <<>>
            ELSE IF s[i] \in S THEN Append(upTo[i - 1], s[i]) ELSE upTo[i - 1]
    IN  upTo[Len(s)]
Without(s, S) == Among(s, ToSet(s) \ S)
First(s, n) == SubSeq(s, 1, IF n < Len(s) THEN n ELSE Len(s))

\* Mutant: the cursor is set to the first row that was not looked at.
AfterNext(s, t) == ToSet(SubSeq(s, SelectInSeq(s, LAMBDA u : u = t) + 2, Len(s)))

\* What is behind t in s.
After(s, t) == ToSet(SubSeq(s, SelectInSeq(s, LAMBDA u : u = t) + 1, Len(s)))

(***************************************************************************)
(* The rows.                                                               *)
(***************************************************************************)
\* A row is closed: it shows its verdict.  One that failed stays a candidate.
Leaving(S) == S \ Failing
Trimmed(c, S) == IF c = None THEN None
                 ELSE [within |-> c.within \ S, left |-> c.left \ S]

\* Mutant: the rows show the verdicts, and the records are not completed.
ClosedOnly(S, P) ==
    /\ line' = Without(line, Leaving(S))
    /\ due' = due \ S
    /\ shut' = shut \cup ((S \cap Failing) \ P)
    /\ pending' = pending \o Without(SetToSeq(S \cap P), ToSet(pending))

\* The verdicts of the tasks in S reach their rows, and those in P stay pending
\* because their receipts cannot be written.
Closed(S, P) ==
    /\ line' = Without(line, Leaving(S))
    /\ due' = due \ S
    /\ shut' = shut \cup ((S \cap Failing) \ P)
    /\ pending' = Without(pending, S \ P) \o Without(SetToSeq(S \cap P), ToSet(pending))

LeftPending(t) ==
    /\ due' = due \ {t}
    /\ pending' = Append(pending, t)
    /\ UNCHANGED <<line, shut>>

CursorsAfter(c, b, S, P) ==
    /\ cycle' = Trimmed(c, Leaving(S))
    /\ behind' = IF b = None THEN None ELSE b \ (S \ P)

(***************************************************************************)
(* The two scans.                                                          *)
(***************************************************************************)
\* The cycle under way, or a new one over all there is; it is saved before
\* anything is observed.
Current == IF cycle # None THEN cycle
           ELSE [within |-> ToSet(line), left |-> ToSet(line)]
Rest(l, active) == Among(l, Current.left \ active)

\* Mutant: the cursor is saved only at the end of a cycle.
CycleAfterUnmoved(l, active, n) ==
    IF Len(Rest(l, active)) <= n THEN None ELSE Current

\* The cycle after a page of n rows: at its end, or behind the last row of the
\* page.  A page without rows has no last one, and the cycle starts over.
CycleAfter(l, active, n) ==
    LET page == First(Rest(l, active), n)
    IN IF Len(Rest(l, active)) <= n THEN None
       ELSE [within |-> Current.within,
             left |-> IF page = <<>> THEN Current.within
                      ELSE Current.left \cap After(l, Last(page))]

Backlog == IF behind = None THEN pending ELSE Among(pending, behind)

\* Mutant: the scan starts from the oldest every time.
BehindAfterRestarted(n) == IF n = 0 THEN behind ELSE None

BehindAfter(n) ==
    IF n = 0 THEN behind
    ELSE IF Len(Backlog) <= n THEN None
    ELSE ToSet(Backlog) \ ToSet(First(Backlog, n))

(***************************************************************************)
(* A batch.                                                                *)
(***************************************************************************)
Least(a, b) == IF a < b THEN a ELSE b

\* With work on both sides the one whose turn it is has half of the batch, and
\* the other what that one leaves; otherwise terminalizations come first.
Shares(free, tasks, terms) ==
    LET half == (free + 1) \div 2
    IN CASE tasks = 0 \/ terms = 0 ->
               [first |-> "terminalization", terms |-> free,
                tasks |-> free - Least(free, terms), turn |-> turn]
         [] tasks # 0 /\ terms # 0 /\ turn = "terminalization" ->
               [first |-> "terminalization", terms |-> half,
                tasks |-> free - Least(half, terms), turn |-> "tasks"]
         [] tasks # 0 /\ terms # 0 /\ turn = "tasks" ->
               [first |-> "tasks", terms |-> free - Least(half, tasks),
                tasks |-> half, turn |-> "terminalization"]

\* _reconcile_candidate_batch.  Of the rows looked at out of turn those in
\* active are not fresh and are taken on.  A terminalization that cannot be
\* carried through is reported and passed over.
Select(looked, active) ==
    /\ batch = None
    /\ looked \subseteq ToSet(line) \ (shut \cup (Poison \cap ToSet(pending)))
    /\ \E share \in {Shares(Limit - Cardinality(looked),
                           Len(Rest(line, active)), Len(Backlog))} :
       \E done \in {ToSet(First(Backlog, share.terms)) \ Poison} :
       \E l \in {IF share.first = "tasks" THEN line ELSE Without(line, Leaving(done))} :
          /\ Closed(done, {})
          /\ CursorsAfter(Current, BehindAfter(share.terms), done, {})
          /\ batch' = [todo |-> SetToSeq(active)
                          \o Without(First(Rest(l, active), share.tasks),
                                     ToSet(pending) \cup shut),
                       after |-> Trimmed(CycleAfter(l, active, share.tasks), Leaving(done)),
                       turn |-> share.turn]
    /\ UNCHANGED <<turn, aborts>>

UpNext(t) == batch # None /\ batch.todo # <<>> /\ Head(batch.todo) = t

\* Mutant: an observation that is denied ends the call.
RefreshRaises(t) ==
    /\ UpNext(t)
    /\ batch' = IF t \in Retired THEN None ELSE [batch EXCEPT !.todo = Tail(@)]
    /\ UNCHANGED <<rows, cycle, behind, turn, aborts>>

\* A row that stays as it is: its task is shown to run, or is closed already, or
\* has ended unnoticed, since the observation was denied, its host is not known
\* any more, or the answer was lost (outcome_unknown).  The call goes on.
RefreshOpen(t) ==
    /\ UpNext(t)
    /\ batch' = [batch EXCEPT !.todo = Tail(@)]
    /\ UNCHANGED <<rows, cycle, behind, turn, aborts>>

\* A task that is seen to have ended is terminalized.
RefreshEnded(t) ==
    /\ UpNext(t)
    /\ t \in (due \cup ToSet(pending)) \ (Poison \cup Retired)
    /\ Closed({t}, {})
    /\ CursorsAfter(cycle, behind, {t}, {})
    /\ batch' = [batch EXCEPT !.todo = Tail(@), !.after = Trimmed(@, Leaving({t}))]
    /\ UNCHANGED <<turn, aborts>>

\* One whose receipt cannot be written is left pending, and the exception ends
\* the call.
RefreshPoison(t) ==
    /\ UpNext(t)
    /\ t \in (due \cap Poison) \ Retired
    /\ Closed({t}, {t})
    /\ CursorsAfter(cycle, behind, {t}, {t})
    /\ batch' = None
    /\ UNCHANGED <<turn, aborts>>

Observed(t) == RefreshEnded(t) \/ RefreshPoison(t)
Refreshed(t) == RefreshOpen(t) \/ Observed(t)

Save ==
    /\ batch # None /\ batch.todo = <<>>
    /\ cycle' = batch.after
    /\ turn' = batch.turn
    /\ batch' = None
    /\ UNCHANGED <<rows, behind, aborts>>

\* The process dies, perhaps between a terminalization and its projection, or
\* the refresh of a row raises: an observation breaks, or a terminalization is
\* refused under an adoption.  No cursor of the task scan is saved.
Aborts ==
    /\ batch # None
    /\ aborts < MaxAborts
    /\ aborts' = aborts + 1
    /\ \/ UNCHANGED rows
       \/ /\ batch.todo # <<>> /\ Head(batch.todo) \in due \ Retired
          /\ LeftPending(Head(batch.todo))
    /\ batch' = None
    /\ UNCHANGED <<cycle, behind, turn>>

(***************************************************************************)
(* What happens beside it.                                                 *)
(***************************************************************************)
Arrives(t) ==
    /\ batch = None
    /\ t \notin ToSet(line) \cup ToSet(pending)
    /\ line' = Append(line, t)
    /\ UNCHANGED <<due, shut, pending, cycle, behind, turn, batch, aborts>>

Ends(t) ==
    /\ t \in ToSet(line) \ (shut \cup ToSet(pending))
    /\ due' = due \cup {t}
    /\ UNCHANGED <<line, shut, pending, cycle, behind, turn, batch, aborts>>

\* Another operation notices, and carries it through or not.
Elsewhere(t) ==
    /\ batch = None
    /\ \/ /\ t \in (due \cup ToSet(pending)) \ Poison
          /\ Closed({t}, {})
          /\ CursorsAfter(cycle, behind, {t}, {})
       \/ t \in due /\ LeftPending(t) /\ UNCHANGED <<cycle, behind>>
    /\ UNCHANGED <<turn, batch, aborts>>

Page == {S \in SUBSET Task : IsFiniteSet(S) /\ Cardinality(S) <= ActiveLimit}
SelectAny == \E looked \in Page : \E active \in SUBSET looked : Select(looked, active)

Next ==
    \/ SelectAny \/ Save \/ Aborts
    \/ \E t \in Task :
          Refreshed(t) \/ Arrives(t) \/ Ends(t) \/ Elsewhere(t)

Spec == Init /\ [][Next]_vars

\* The timer calls again, and a call comes to its end.  A task whose host is there
\* is not observed in vain every time.
FairSpec ==
    /\ Spec
    /\ WF_vars(SelectAny \/ Save \/ \E t \in Task : Refreshed(t))
    /\ \A t \in Task \ Retired : SF_vars(Observed(t))

(***************************************************************************)
(* Properties.                                                             *)
(***************************************************************************)

\* A terminalization that was begun and interrupted is carried through, however
\* many are ahead of it, arrive after it or can never be carried through
\* (_recover_pending_task_terminalizations).
Recovered ==
    \A t \in Task \ Poison : t \in ToSet(pending) ~> t \notin ToSet(pending)

\* The end of every task whose host is still there is noticed by the
\* reconciliation, whatever is ahead of it in the two scans, rows that can never be
\* observed included, and however many tasks arrive behind it
\* (_reconcile_task_candidate_page).
Noticed == \A t \in Task \ Retired : t \in due ~> t \notin due

\* A batch moves the cursor of the task scan over no row it does not take on: what
\* it passes is among the rows it observes, or has failed and converged, or is left
\* to the other scan because its terminalization is pending
\* (_reconcile_candidate_batch).
NonePassedOver ==
    [][batch = None /\ batch' # None =>
          \A t \in Current.left :
             \/ batch'.after # None /\ t \in batch'.after.left
             \/ t \in ToSet(batch'.todo) \cup ToSet(pending) \cup shut]_vars
=============================================================================
