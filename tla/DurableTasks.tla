------------------------------ MODULE DurableTasks ------------------------------
(***************************************************************************)
(* The life of a durable task: src/grabowski_tasks.py with the leases and  *)
(* the terminalization records of src/grabowski_resources.py and the       *)
(* systemd units the tasks run in.                                         *)
(*                                                                         *)
(* Every operation on tasks runs under one lock (a re-entrant lock and a   *)
(* file lock), so at most one is under way: op.  Between two of its        *)
(* durable steps the process may die; then the lock is free and the rest   *)
(* of the operation is never run.  Units, other owners of resources, merge *)
(* guards and the passing of time do not take that lock and come between   *)
(* any two steps.                                                          *)
(*                                                                         *)
(* A unit is a process on a host.  What systemd shows of it is all the     *)
(* program knows, and what it shows of a unit it does not have loaded is   *)
(* the same as of one that succeeded.                                      *)
(***************************************************************************)
EXTENDS Naturals

CONSTANTS
    Task,           \* task ids
    Key,            \* resource keys
    KeysOf,         \* per task: the resources it asks for
    Foreign,        \* any other owner of leases
    None,
    MaxAttempt,     \* bound: attempts of a task
    MaxCrashes      \* bound: deaths of the operating process and of the host

ASSUME TaskAssumption ==
    /\ KeysOf \in [Task -> SUBSET Key]
    /\ Foreign \notin Task
    /\ MaxAttempt \in Nat \ {0}

Attempt == 1..MaxAttempt

\* "failed" stands for failed, timed_out and signalled.
Terminal == {"completed", "failed", "cancelled"}
State == {"launching", "running", "outcome_unknown"} \cup Terminal
Verdict == [state : Terminal, attempt : Attempt]

\* never: no such unit yet; starting: the request is on its way to systemd;
\* active: runs, and started when it was launched; late: runs, and started
\* after the launch was given up; ok: succeeded, and unloaded; bad: failed, and
\* still loaded; gone: stopped, or lost with its host.
Running == {"active", "late"}
Loaded == Running \cup {"bad"}
UnitStatus == Loaded \cup {"never", "starting", "ok", "gone"}

Row == [state : {"none"} \cup State, attempt : Attempt,
        bound : BOOLEAN, receipt : BOOLEAN]
Transition == [phase : {"leases_revoked", "projected"}, verdict : Verdict]
Lease == [owner : Task \cup {Foreign}, live : BOOLEAN]
Op == [kind : {"start", "refresh", "cancel", "resume"}, task : Task,
       step : {"insert", "stop", "renew", "launch", "maintain", "set",
               "project", "receipt", "bind", "complete"},
       attempt : Attempt, state : State]

ASSUME NoneAssumption ==
    None \notin Task \cup {Foreign} \cup Verdict \cup Transition \cup Lease \cup Op

VARIABLES
    fresh,      \* ids that no start has drawn yet
    root,       \* column execution_backend: the tasks behind the privileged
                \* broker; the others run in user units
    row,        \* the table tasks
    term,       \* the table task_terminalizations, or None
    file,       \* the verdict in the outcome receipt, or None
    lease,      \* the table leases, or None
    adopted,    \* the table task_authority_adoptions: tasks whose authority
                \* a merge guard has borrowed
    unit,       \* per task and attempt: the truth about its unit
    unheard,    \* launches that may take effect without the record knowing
    op,         \* the operation that holds the mutation lock, or None
    crashes     \* deaths so far

drawn == <<fresh, root>>
records == <<row, term, file>>
world == <<unit, unheard>>
vars == <<fresh, root, row, term, file, lease, adopted, unit, unheard, op, crashes>>

TypeOK ==
    /\ fresh \subseteq Task
    /\ root \subseteq Task
    /\ row \in [Task -> Row]
    /\ term \in [Task -> Transition \cup {None}]
    /\ file \in [Task -> Verdict \cup {None}]
    /\ lease \in [Key -> Lease \cup {None}]
    /\ adopted \subseteq Task
    /\ unit \in [Task -> [Attempt -> UnitStatus]]
    /\ unheard \subseteq Task \X Attempt
    /\ op \in Op \cup {None}
    /\ crashes \in Nat

Init ==
    /\ fresh = Task
    /\ root = {}
    /\ row = [t \in Task |-> [state |-> "none", attempt |-> 1,
                              bound |-> FALSE, receipt |-> FALSE]]
    /\ term = [t \in Task |-> None]
    /\ file = [t \in Task |-> None]
    /\ lease = [k \in Key |-> None]
    /\ adopted = {}
    /\ unit = [t \in Task |-> [n \in Attempt |-> "never"]]
    /\ unheard = {}
    /\ op = None
    /\ crashes = 0

(***************************************************************************)
(* Leases, as far as tasks use them: all keys of a task in one             *)
(* transaction.                                                            *)
(***************************************************************************)
Owned(t, k) == lease[k] # None /\ lease[k].owner = t
Held(t, k) == Owned(t, k) /\ lease[k].live
AllHeld(t) == \A k \in KeysOf[t] : Held(t, k)

\* acquire_resources takes over a row of this owner and one that expired.
Free(t, k) == lease[k] # None => lease[k].owner = t \/ ~lease[k].live

\* A terminalized owner acquires nothing.
MayAcquire(t) == term[t] = None /\ \A k \in KeysOf[t] : Free(t, k)

Granted(t) == [k \in Key |-> IF k \in KeysOf[t]
                             THEN [owner |-> t, live |-> TRUE] ELSE lease[k]]

\* Mutant: what the task asked for itself is left to run out.
WithoutExtra(t) == [k \in Key |-> IF Owned(t, k) /\ k \notin KeysOf[t]
                                  THEN None ELSE lease[k]]

WithoutOwner(t) == [k \in Key |-> IF Owned(t, k) THEN None ELSE lease[k]]

\* Renewal looks at one row after the other.  A row that is missing or has
\* expired leads to acquisition of all; a row of somebody else ends it, also
\* when that row has expired.
Lapsed(t, k) == lease[k] # None => Owned(t, k) /\ ~lease[k].live
Kept(t) == AllHeld(t) /\ UNCHANGED lease
Reacquired(t) ==
    /\ \E k \in KeysOf[t] : Lapsed(t, k)
    /\ MayAcquire(t)
    /\ lease' = Granted(t)
NotKept(t) ==
    /\ ~AllHeld(t)
    /\ \/ ~MayAcquire(t)
       \/ \E k \in KeysOf[t] : lease[k] # None /\ lease[k].owner # t
    /\ UNCHANGED lease

(***************************************************************************)
(* Units.                                                                  *)
(***************************************************************************)
\* Mutant: a unit that is not loaded is an unknown outcome.
ShowsUnloaded(u) == IF u \in Running THEN "running"
                    ELSE IF u = "bad" THEN "failed"
                    ELSE "outcome_unknown"

\* What systemd shows of a unit.  Of one it has not loaded it shows the
\* defaults: Result=success, ExecMainStatus=0, ActiveState=inactive.
Shows(u) == IF u \in Running THEN "running"
            ELSE IF u = "bad" THEN "failed"
            ELSE "completed"

\* An observation that is not answered is outcome_unknown.
Observed(t) == {Shows(unit[t][row[t].attempt]), "outcome_unknown"}

Pending(t) == term[t] # None /\ term[t].phase # "projected"
Open(t) == row[t].state \in State \ Terminal /\ term[t] = None

(***************************************************************************)
(* Operations begin.                                                       *)
(***************************************************************************)
Doing(step) == op # None /\ op.step = step
Begin(kind, t, step, n, s) ==
    /\ op = None
    /\ op' = [kind |-> kind, task |-> t, step |-> step, attempt |-> n, state |-> s]
Then(step) == op' = [op EXCEPT !.step = step]
ThenAs(step, s) == op' = [op EXCEPT !.step = step, !.state = s]
Done == op' = None

\* task_start: a new id, and all its resources before anything is recorded.
Start(t) ==
    /\ t \in fresh
    /\ MayAcquire(t)
    /\ Begin("start", t, "insert", 1, "launching")
    /\ fresh' = fresh \ {t}
    /\ root' \in {root, root \cup {t}}
    /\ lease' = Granted(t)
    /\ UNCHANGED <<records, adopted, world, crashes>>

\* Mutant: a row that shows the verdict is taken to be finished.
RecoverUnshown(t) ==
    /\ Pending(t)
    /\ ~row[t].bound
    /\ Begin("refresh", t, "project", term[t].verdict.attempt, term[t].verdict.state)
    /\ UNCHANGED <<drawn, records, lease, adopted, world, crashes>>

\* The row of a task is never touched before its pending terminalization has
\* been carried through.
Recover(t) ==
    /\ Pending(t)
    /\ Begin("refresh", t, "project", term[t].verdict.attempt, term[t].verdict.state)
    /\ UNCHANGED <<drawn, records, lease, adopted, world, crashes>>

\* task_status, and each row of a reconciliation: look at the unit first.
Refresh(t, s) ==
    /\ Open(t)
    /\ s \in Observed(t)
    /\ Begin("refresh", t, "maintain", row[t].attempt, s)
    /\ unheard' = IF s = "running" THEN unheard \ {<<t, row[t].attempt>>} ELSE unheard
    /\ UNCHANGED <<drawn, records, lease, adopted, unit, crashes>>

\* task_cancel also stops the unit of a task that has ended.
Cancel(t) ==
    /\ row[t].state # "none"
    /\ ~Pending(t)
    /\ Begin("cancel", t, "stop", row[t].attempt, row[t].state)
    /\ UNCHANGED <<drawn, records, lease, adopted, world, crashes>>

\* Mutant: an unknown outcome is retried as well.
MayRetryUnknown(t, s) ==
    s \in {"failed", "outcome_unknown"} /\ row[t].attempt < MaxAttempt

\* task_resume retries only after a failure it has seen; any other end it
\* records, and refuses.
MayRetry(t, s) == s = "failed" /\ row[t].attempt < MaxAttempt
Resume(t, s) ==
    /\ Open(t)
    /\ s \in Observed(t)
    /\ \/ /\ MayRetry(t, s)
          /\ Begin("resume", t, "renew", row[t].attempt + 1, "launching")
       \/ /\ s \in {"completed", "outcome_unknown"}
          /\ Begin("refresh", t, "set", row[t].attempt, s)
    /\ UNCHANGED <<drawn, records, lease, adopted, world, crashes>>

(***************************************************************************)
(* The steps of an operation.                                              *)
(***************************************************************************)
Insert ==
    /\ Doing("insert")
    /\ row' = [row EXCEPT ![op.task].state = "launching"]
    /\ Then("launch")
    /\ UNCHANGED <<drawn, term, file, lease, adopted, world, crashes>>

\* A start whose row cannot be written gives its leases back.
InsertFails ==
    /\ Doing("insert")
    /\ lease' = WithoutOwner(op.task)
    /\ Done
    /\ UNCHANGED <<drawn, records, adopted, world, crashes>>

\* Mutant: the retry is launched whatever became of the leases.
RenewRegardless ==
    /\ Doing("renew")
    /\ Kept(op.task) \/ Reacquired(op.task) \/ NotKept(op.task)
    /\ Then("launch")
    /\ UNCHANGED <<drawn, records, adopted, world, crashes>>

Renew ==
    /\ Doing("renew")
    /\ \/ (Kept(op.task) \/ Reacquired(op.task)) /\ Then("launch")
       \/ NotKept(op.task) /\ Done
    /\ UNCHANGED <<drawn, records, adopted, world, crashes>>

Place(t, n, u) == unit' = [unit EXCEPT ![t][n] = u]
NameFree(t, n) == unit[t][n] \notin Loaded

LaunchHeard ==
    /\ Doing("launch")
    /\ NameFree(op.task, op.attempt)
    /\ Place(op.task, op.attempt, "active")
    /\ ThenAs("set", "running")
    /\ UNCHANGED <<drawn, records, lease, adopted, unheard, crashes>>

\* The name is taken, or the launch never left, or systemd said no.
LaunchRefused ==
    /\ Doing("launch")
    /\ ThenAs("set", "failed")
    /\ UNCHANGED <<drawn, records, lease, adopted, world, crashes>>

\* Mutant: no answer is a failed launch on either path.
UnansweredFailed(t) == "failed"

\* No answer.  The broker path says so; for a user unit a timeout is a return
\* code like any other, and the launch counts as failed.
Unanswered(t) == IF t \in root THEN "outcome_unknown" ELSE "failed"
LaunchLost ==
    /\ Doing("launch")
    /\ NameFree(op.task, op.attempt)
    /\ \E u \in {"active", "starting"} :
          /\ Place(op.task, op.attempt, u)
          /\ unheard' = IF u = "starting" \/ op.task \notin root
                        THEN unheard \cup {<<op.task, op.attempt>>} ELSE unheard
    /\ ThenAs("set", Unanswered(op.task))
    /\ UNCHANGED <<drawn, records, lease, adopted, crashes>>

\* The same, and the unit was never started.
LaunchVanished ==
    /\ Doing("launch")
    /\ op.task \in root
    /\ ThenAs("set", "outcome_unknown")
    /\ UNCHANGED <<drawn, records, lease, adopted, world, crashes>>

\* A cancelled task is one whose stop was answered with success.
AfterStop(s) == IF term[op.task] # None THEN Done ELSE ThenAs("maintain", s)
StopHeard ==
    /\ Doing("stop")
    /\ unit[op.task][op.attempt] \in Loaded
    /\ IF unit[op.task][op.attempt] \in Running
       THEN Place(op.task, op.attempt, "gone") ELSE UNCHANGED unit
    /\ AfterStop("cancelled")
    /\ UNCHANGED <<drawn, records, lease, adopted, unheard, crashes>>

StopRefused ==
    /\ Doing("stop")
    /\ AfterStop(row[op.task].state)
    /\ UNCHANGED <<drawn, records, lease, adopted, world, crashes>>

StopLost ==
    /\ Doing("stop")
    /\ \/ UNCHANGED unit
       \/ unit[op.task][op.attempt] \in Running /\ Place(op.task, op.attempt, "gone")
    /\ AfterStop(IF op.task \in root THEN "outcome_unknown" ELSE row[op.task].state)
    /\ UNCHANGED <<drawn, records, lease, adopted, unheard, crashes>>

\* Leases are kept up for a task that runs or may run; failing to is reported,
\* not raised.
Maintained(t) == Kept(t) \/ Reacquired(t) \/ NotKept(t)
Maintain ==
    /\ Doing("maintain")
    /\ IF op.state \in {"running", "outcome_unknown"}
       THEN Maintained(op.task) ELSE UNCHANGED lease
    /\ IF op.kind \in {"refresh", "cancel"} THEN Then("set") ELSE Done
    /\ UNCHANGED <<drawn, records, adopted, world, crashes>>

\* _set_state with a state that is not terminal: one update of the row.
SetOpen ==
    /\ Doing("set")
    /\ op.state \notin Terminal
    /\ row' = [row EXCEPT ![op.task].state = op.state, ![op.task].attempt = op.attempt]
    /\ IF op.kind \in {"start", "resume"} THEN Then("maintain") ELSE Done
    /\ UNCHANGED <<drawn, term, file, lease, adopted, world, crashes>>

\* Mutant: the adoption is not looked at.
BeginTerminalizationAdopted ==
    /\ Doing("set")
    /\ op.state \in Terminal
    /\ term' = [term EXCEPT ![op.task] =
                   [phase |-> "leases_revoked",
                    verdict |-> [state |-> op.state, attempt |-> op.attempt]]]
    /\ lease' = WithoutOwner(op.task)
    /\ Then("project")
    /\ UNCHANGED <<drawn, row, file, adopted, world, crashes>>

\* begin_task_terminalization: the verdict is recorded and every lease of the
\* task deleted in one transaction, before the row shows anything.
BeginTerminalization ==
    /\ Doing("set")
    /\ op.state \in Terminal
    /\ op.task \notin adopted
    /\ term' = [term EXCEPT ![op.task] =
                   [phase |-> "leases_revoked",
                    verdict |-> [state |-> op.state, attempt |-> op.attempt]]]
    /\ lease' = WithoutOwner(op.task)
    /\ Then("project")
    /\ UNCHANGED <<drawn, row, file, adopted, world, crashes>>

\* It is refused while a merge guard has the task's authority.
TerminalizationRefused ==
    /\ Doing("set")
    /\ op.state \in Terminal
    /\ op.task \in adopted
    /\ Done
    /\ UNCHANGED <<drawn, records, lease, adopted, world, crashes>>

\* Mutant: the row keeps the attempt it has.
ProjectState ==
    /\ Doing("project")
    /\ row' = [row EXCEPT ![op.task].state = term[op.task].verdict.state,
                          ![op.task].bound = TRUE]
    /\ Then("receipt")
    /\ UNCHANGED <<drawn, term, file, lease, adopted, world, crashes>>

\* _apply_terminalization_projection, one durable write after the other.
Project ==
    /\ Doing("project")
    /\ row' = [row EXCEPT ![op.task].state = term[op.task].verdict.state,
                          ![op.task].attempt = term[op.task].verdict.attempt,
                          ![op.task].bound = TRUE]
    /\ Then("receipt")
    /\ UNCHANGED <<drawn, term, file, lease, adopted, world, crashes>>

\* A receipt that is there already is left as it is.
WriteReceipt ==
    /\ Doing("receipt")
    /\ file' = [file EXCEPT ![op.task] =
                   IF @ = None THEN [state |-> row[op.task].state,
                                     attempt |-> row[op.task].attempt] ELSE @]
    /\ Then("bind")
    /\ UNCHANGED <<drawn, row, term, lease, adopted, world, crashes>>

BindReceipt ==
    /\ Doing("bind")
    /\ row' = [row EXCEPT ![op.task].receipt = TRUE]
    /\ Then("complete")
    /\ UNCHANGED <<drawn, term, file, lease, adopted, world, crashes>>

CompleteTerminalization ==
    /\ Doing("complete")
    /\ term' = [term EXCEPT ![op.task].phase = "projected"]
    /\ Done
    /\ UNCHANGED <<drawn, row, file, lease, adopted, world, crashes>>

Step ==
    \/ Insert \/ InsertFails \/ Renew
    \/ LaunchHeard \/ LaunchRefused \/ LaunchLost \/ LaunchVanished
    \/ StopHeard \/ StopRefused \/ StopLost
    \/ Maintain \/ SetOpen \/ BeginTerminalization \/ TerminalizationRefused
    \/ Project \/ WriteReceipt \/ BindReceipt \/ CompleteTerminalization

(***************************************************************************)
(* What happens beside it.                                                 *)
(***************************************************************************)
\* The operating process dies, or an exception ends the operation.  A retry
\* that was launched and not yet recorded is lost sight of.
Crash ==
    /\ op # None
    /\ crashes < MaxCrashes
    /\ crashes' = crashes + 1
    /\ Done
    /\ unheard' = IF op.step = "set" /\ op.attempt # row[op.task].attempt
                  THEN unheard \cup {<<op.task, op.attempt>>} ELSE unheard
    /\ UNCHANGED <<drawn, records, lease, adopted, unit>>

\* The host of the units restarts: none of them is there any more.
HostRestart ==
    /\ crashes < MaxCrashes
    /\ crashes' = crashes + 1
    /\ unit' = [t \in Task |-> [n \in Attempt |->
                  IF unit[t][n] \in Loaded \cup {"starting"}
                  THEN "gone" ELSE unit[t][n]]]
    /\ UNCHANGED <<drawn, records, lease, adopted, unheard, op>>

\* A launch that was given up on takes effect.
Arrives(t, n) ==
    /\ unit[t][n] = "starting"
    /\ Place(t, n, "late")
    /\ UNCHANGED <<drawn, records, lease, adopted, unheard, op, crashes>>

\* The command ends, or systemd ends it at RuntimeMaxSec.
Ends(t, n) ==
    /\ unit[t][n] \in Running
    /\ \E u \in {"ok", "bad"} : Place(t, n, u)
    /\ UNCHANGED <<drawn, records, lease, adopted, unheard, op, crashes>>

ForeignTakes(k) ==
    /\ lease[k] # None => ~lease[k].live
    /\ lease' = [lease EXCEPT ![k] = [owner |-> Foreign, live |-> TRUE]]
    /\ UNCHANGED <<drawn, records, adopted, world, op, crashes>>

ForeignReleases(k) ==
    /\ Owned(Foreign, k)
    /\ lease' = [lease EXCEPT ![k] = None]
    /\ UNCHANGED <<drawn, records, adopted, world, op, crashes>>

\* A lease runs for the time limit of the command and five minutes more,
\* counted from just before the launch, so it outlives a unit that started
\* when it was launched; and an adoption ends no later than the leases.
Covered(t) ==
    \/ t \in adopted
    \/ \E n \in Attempt : unit[t][n] = "active"
    \/ op # None /\ op.task = t /\ op.step \in {"insert", "launch"}

Expires(k) ==
    /\ lease[k] # None
    /\ lease[k].live
    /\ \A t \in Task : Owned(t, k) => ~Covered(t)
    /\ lease' = [lease EXCEPT ![k].live = FALSE]
    /\ UNCHANGED <<drawn, records, adopted, world, op, crashes>>

\* A merge guard borrows the authority of a running task: only on its complete
\* set of live leases and only before it is terminalized.  That it runs was read
\* earlier, outside the transaction.
Adopt(t) ==
    /\ row[t].state \in {"running", "outcome_unknown"}
    /\ term[t] = None
    /\ KeysOf[t] # {}
    /\ AllHeld(t)
    /\ adopted' = adopted \cup {t}
    /\ UNCHANGED <<drawn, records, lease, world, op, crashes>>

AdoptionEnds(t) ==
    /\ t \in adopted
    /\ adopted' = adopted \ {t}
    /\ UNCHANGED <<drawn, records, lease, world, op, crashes>>

Next ==
    \/ \E t \in Task : Start(t) \/ Recover(t) \/ Cancel(t)
    \/ \E t \in Task, s \in State : Refresh(t, s) \/ Resume(t, s)
    \/ Step
    \/ Crash \/ HostRestart
    \/ \E t \in Task, n \in Attempt : Arrives(t, n) \/ Ends(t, n)
    \/ \E k \in Key : ForeignTakes(k) \/ ForeignReleases(k) \/ Expires(k)
    \/ \E t \in Task : Adopt(t) \/ AdoptionEnds(t)

Spec == Init /\ [][Next]_vars

\* The lock is freed; a pending terminalization and an open task come up in the
\* reconciliation again and again, and the answer is not lost every time;
\* commands and adoptions end by their time limits.
Fairness ==
    /\ WF_vars(Step)
    /\ \A t \in Task :
          /\ SF_vars(Recover(t))
          /\ SF_vars(\E s \in State \ {"outcome_unknown"} : Refresh(t, s))
          /\ WF_vars(AdoptionEnds(t))
          /\ \A n \in Attempt : WF_vars(Ends(t, n))

FairSpec == Spec /\ Fairness

(***************************************************************************)
(* Properties.                                                             *)
(***************************************************************************)

\* A task whose launch was ever confirmed is not given a verdict while its
\* unit runs (_set_state, _classify_observation, task_cancel): only a launch
\* nobody heard of can be running under a decided task.
RunningIsOpen ==
    \A t \in Task, n \in Attempt :
        unit[t][n] \in Running /\ <<t, n>> \notin unheard => term[t] = None

\* A task runs once at a time: no two attempts of it are active together,
\* whatever crashed between a retry and its record (task_resume).
OneUnit ==
    \A t \in Task, m, n \in Attempt :
        unit[t][m] \in Running /\ unit[t][n] \in Running => m = n

\* While a unit runs that started when it was launched, and its task has no
\* verdict, the task holds every resource it asked for, also when the process
\* that launched it died before it recorded the launch (task_start, task_resume,
\* _maintain_record_resources): no two such tasks share a resource.
RunsUnderLease ==
    \A t \in Task, n \in Attempt :
        unit[t][n] = "active" /\ term[t] = None => AllHeld(t)

\* A merge guard that borrowed the authority of a task can rely on it until it
\* lets go: the task is not terminalized and loses none of its leases
\* (acquire_merge_guard_resources, begin_task_terminalization).
AdoptionHolds ==
    \A t \in adopted : term[t] = None /\ AllHeld(t)

\* The verdict, the row, the receipt and the completion come in this order and
\* agree, whatever crashed between them and however often the projection was
\* repeated (_apply_terminalization_projection).
ReceiptChain ==
    \A t \in Task :
        /\ row[t].state \in Terminal <=> row[t].bound
        /\ row[t].bound =>
              /\ term[t] # None
              /\ row[t].state = term[t].verdict.state
              /\ row[t].attempt = term[t].verdict.attempt
        /\ file[t] # None => row[t].bound /\ file[t] = term[t].verdict
        /\ row[t].receipt => file[t] # None
        /\ term[t] # None /\ term[t].phase = "projected" => row[t].receipt

\* The tasks implement TaskOutcome: outcomes are decided once, together with
\* the loss of all leases, and nothing shown or filed ever says otherwise.
Abstract == INSTANCE TaskOutcome WITH
    Outcome <- Verdict,
    decided <- [t \in Task |-> IF term[t] = None THEN None ELSE term[t].verdict],
    shown <- [t \in Task |-> IF row[t].bound
                             THEN [state |-> row[t].state, attempt |-> row[t].attempt]
                             ELSE None],
    filed <- file,
    holder <- [k \in Key |-> IF lease[k] # None /\ lease[k].live
                             THEN lease[k].owner ELSE None]
ImplementsOutcome == Abstract!Spec

\* What is decided reaches the row, the receipt and the record
\* (_recover_pending_task_terminalizations).
DecidedIsCompleted == \A t \in Task : Pending(t) ~> ~Pending(t)

\* Every task that was recorded comes to an end, however its operations were
\* interrupted, unless merge guards borrow its authority again and again.
Settles ==
    \A t \in Task :
        <>[](t \notin adopted) =>
            (row[t].state # "none" ~> row[t].state \in Terminal)

\* A task behind the broker that is recorded as completed is one whose command
\* is known to have succeeded: a unit that cannot be observed is outcome_unknown
\* (docs/root-task-lifetime-v1.md).
CompletedRan ==
    \A t \in root :
        row[t].state = "completed" => unit[t][row[t].attempt] = "ok"
=============================================================================
