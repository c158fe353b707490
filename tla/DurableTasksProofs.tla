--------------------------- MODULE DurableTasksProofs ---------------------------
(***************************************************************************)
(* Proofs about durable tasks, for any number of tasks, resources,         *)
(* attempts and crashes.                                                   *)
(***************************************************************************)
EXTENDS DurableTasks, TLAPS

USE TaskAssumption, NoneAssumption

Undecided == {"insert", "renew", "launch", "maintain", "set"}
Projecting == {"project", "receipt", "bind", "complete"}

\* Where an operation is, and what it has written so far.  Only a start works on
\* a task that has no row yet.
Stages ==
    /\ \A t \in Task : term[t] # None \/ t \in adopted => row[t].state # "none"
    /\ \A t \in fresh : row[t].state = "none"
    /\ op # None =>
          /\ op.task \notin fresh
          /\ op.step = "insert" <=> row[op.task].state = "none"
          /\ op.step \in Undecided => term[op.task] = None
          /\ op.step \in Projecting => term[op.task] # None
          /\ op.step \in {"receipt", "bind", "complete"} => row[op.task].bound
          /\ op.step \in {"bind", "complete"} => file[op.task] # None
          /\ op.step = "complete" => row[op.task].receipt

LEMMA TypeInit == Init => TypeOK
  BY DEF Init, TypeOK, Row, State, Attempt, UnitStatus

LEMMA Bound ==
  /\ 1 \in Attempt
  /\ \A n \in Attempt : n < MaxAttempt => n + 1 \in Attempt
  BY DEF Attempt

LEMMA RecordTypes ==
  ASSUME TypeOK, NEW t \in Task
  PROVE  /\ row[t] \in Row
         /\ row[t].attempt \in Attempt
         /\ row[t].state # "none" => row[t].state \in State
         /\ term[t] # None => /\ term[t] \in Transition
                              /\ term[t].verdict \in Verdict
                              /\ term[t].verdict.attempt \in Attempt
                              /\ term[t].verdict.state \in Terminal
         /\ file[t] # None => file[t] \in Verdict
  BY DEF TypeOK, Row, Transition, Verdict

LEMMA OpTypes ==
  ASSUME TypeOK, op # None
  PROVE  /\ op \in Op
         /\ op.task \in Task
         /\ op.attempt \in Attempt
         /\ op.state \in State
  BY DEF TypeOK, Op

LEMMA BeginType ==
  ASSUME NEW kind \in {"start", "refresh", "cancel", "resume"}, NEW t \in Task,
         NEW step \in {"insert", "stop", "renew", "launch", "maintain", "set",
                       "project", "receipt", "bind", "complete"},
         NEW n \in Attempt, NEW s \in State, Begin(kind, t, step, n, s)
  PROVE  op' \in Op
  BY DEF Begin, Op

LEMMA ThenType ==
  ASSUME TypeOK, op # None,
         NEW step \in {"insert", "stop", "renew", "launch", "maintain", "set",
                       "project", "receipt", "bind", "complete"},
         NEW s \in State, Then(step) \/ ThenAs(step, s)
  PROVE  op' \in Op
  BY OpTypes DEF Then, ThenAs, Op

LEMMA LeaseTypes ==
  ASSUME TypeOK, NEW t \in Task
  PROVE  /\ Granted(t) \in [Key -> Lease \cup {None}]
         /\ WithoutOwner(t) \in [Key -> Lease \cup {None}]
  BY DEF TypeOK, Granted, WithoutOwner, Lease

LEMMA PlaceType ==
  ASSUME TypeOK, NEW t \in Task, NEW n \in Attempt, NEW u \in UnitStatus, Place(t, n, u)
  PROVE  unit' \in [Task -> [Attempt -> UnitStatus]]
  BY DEF TypeOK, Place

LEMMA States ==
  /\ Terminal \subseteq State
  /\ {"launching", "running", "outcome_unknown", "completed", "failed", "cancelled"} \subseteq State
  /\ {"active", "starting", "late", "ok", "bad", "gone", "never"} \subseteq UnitStatus
  BY DEF State, Terminal, UnitStatus, Loaded, Running

LEMMA TypeBegin ==
  ASSUME TypeOK, NEW t \in Task,
         \/ Start(t) \/ Recover(t) \/ Cancel(t)
         \/ \E s \in State : Refresh(t, s) \/ Resume(t, s)
  PROVE  TypeOK'
<1>. USE Bound, RecordTypes, States
<1>1. CASE Start(t)
  <2>1. op' \in Op
    BY <1>1, BeginType DEF Start
  <2>2. lease' \in [Key -> Lease \cup {None}]
    BY <1>1, LeaseTypes DEF Start
  <2>. QED  BY <1>1, <2>1, <2>2 DEF Start, TypeOK, records, world
<1>2. CASE Recover(t)
  <2>1. op' \in Op
    BY <1>2, BeginType DEF Recover, Pending
  <2>. QED  BY <1>2, <2>1 DEF Recover, TypeOK, drawn, records, world
<1>3. CASE Cancel(t)
  <2>1. op' \in Op
    BY <1>3, BeginType DEF Cancel
  <2>. QED  BY <1>3, <2>1 DEF Cancel, TypeOK, drawn, records, world
<1>4. ASSUME NEW s \in State, Refresh(t, s) PROVE TypeOK'
  <2>1. op' \in Op
    BY <1>4, BeginType DEF Refresh
  <2>. QED  BY <1>4, <2>1 DEF Refresh, TypeOK, drawn, records, world
<1>5. ASSUME NEW s \in State, Resume(t, s) PROVE TypeOK'
  <2>1. op' \in Op
    BY <1>5, BeginType DEF Resume, MayRetry
  <2>. QED  BY <1>5, <2>1 DEF Resume, TypeOK, drawn, records, world
<1>. QED  BY <1>1, <1>2, <1>3, <1>4, <1>5

\* The row of one task is written.
LEMMA RowWrite ==
  ASSUME TypeOK, NEW t \in Task, NEW r \in Row, row' = [row EXCEPT ![t] = r]
  PROVE  row' \in [Task -> Row]
  BY DEF TypeOK

LEMMA TypeStepOfOp ==
  ASSUME TypeOK, Stages, ReceiptChain, Step
  PROVE  TypeOK'
<1>. USE States DEF Doing
<1>1. CASE Insert \/ InsertFails
  <2>1. Insert => op' \in Op
    BY <1>1, ThenType DEF Insert
  <2>2. Insert => row' \in [Task -> Row]
    <3>1. Insert => [row[op.task] EXCEPT !.state = "launching"] \in Row
      BY OpTypes, RecordTypes DEF Insert, Row
    <3>. QED  BY <3>1, OpTypes DEF Insert, TypeOK
  <2>. QED
    BY <1>1, <2>1, <2>2, OpTypes, LeaseTypes
    DEF Insert, InsertFails, TypeOK, Done, drawn, records, world
<1>2. CASE Renew
  <2>1. op' \in Op \cup {None}
    BY <1>2, ThenType DEF Renew, Done
  <2>2. lease' \in [Key -> Lease \cup {None}]
    BY <1>2, OpTypes, LeaseTypes DEF Renew, Kept, Reacquired, NotKept, TypeOK
  <2>. QED  BY <1>2, <2>1, <2>2 DEF Renew, TypeOK, drawn, records, world
<1>3. CASE LaunchHeard \/ LaunchRefused \/ LaunchLost \/ LaunchVanished
  <2>1. op' \in Op
    BY <1>3, ThenType DEF LaunchHeard, LaunchRefused, LaunchLost, LaunchVanished, Unanswered
  <2>2. unit' \in [Task -> [Attempt -> UnitStatus]]
    BY <1>3, OpTypes, PlaceType
    DEF LaunchHeard, LaunchRefused, LaunchLost, LaunchVanished, TypeOK, world
  <2>3. unheard' \subseteq Task \X Attempt
    BY <1>3, OpTypes
    DEF LaunchHeard, LaunchRefused, LaunchLost, LaunchVanished, TypeOK, world
  <2>. QED
    BY <1>3, <2>1, <2>2, <2>3
    DEF LaunchHeard, LaunchRefused, LaunchLost, LaunchVanished, TypeOK, drawn, records, world
<1>4. CASE StopHeard \/ StopRefused \/ StopLost
  <2>0. row[op.task].state \in State
    BY <1>4, OpTypes, RecordTypes DEF StopHeard, StopRefused, StopLost, Stages
  <2>1. op' \in Op \cup {None}
    BY <1>4, <2>0, ThenType DEF StopHeard, StopRefused, StopLost, AfterStop, Done
  <2>2. unit' \in [Task -> [Attempt -> UnitStatus]]
    BY <1>4, OpTypes, PlaceType DEF StopHeard, StopRefused, StopLost, TypeOK, world
  <2>. QED
    BY <1>4, <2>1, <2>2 DEF StopHeard, StopRefused, StopLost, TypeOK, drawn, records, world
<1>5. CASE Maintain
  <2>1. op' \in Op \cup {None}
    BY <1>5, ThenType DEF Maintain, Done
  <2>2. lease' \in [Key -> Lease \cup {None}]
    BY <1>5, OpTypes, LeaseTypes DEF Maintain, Maintained, Kept, Reacquired, NotKept, TypeOK
  <2>. QED  BY <1>5, <2>1, <2>2 DEF Maintain, TypeOK, drawn, records, world
<1>6. CASE SetOpen
  <2>1. op' \in Op \cup {None}
    BY <1>6, ThenType DEF SetOpen, Done
  <2>2. row' \in [Task -> Row]
    <3>1. [row[op.task] EXCEPT !.state = op.state, !.attempt = op.attempt] \in Row
      BY <1>6, OpTypes, RecordTypes DEF SetOpen, Row
    <3>. QED  BY <1>6, <3>1, OpTypes DEF SetOpen, TypeOK
  <2>. QED  BY <1>6, <2>1, <2>2 DEF SetOpen, TypeOK, drawn, world
<1>7. CASE BeginTerminalization \/ TerminalizationRefused
  <2>1. op' \in Op \cup {None}
    BY <1>7, ThenType DEF BeginTerminalization, TerminalizationRefused, Done
  <2>2. lease' \in [Key -> Lease \cup {None}]
    BY <1>7, OpTypes, LeaseTypes DEF BeginTerminalization, TerminalizationRefused, TypeOK
  <2>3. term' \in [Task -> Transition \cup {None}]
    BY <1>7, OpTypes
    DEF BeginTerminalization, TerminalizationRefused, TypeOK, Transition, Verdict, records
  <2>. QED
    BY <1>7, <2>1, <2>2, <2>3
    DEF BeginTerminalization, TerminalizationRefused, TypeOK, drawn, records, world
<1>8. CASE Project
  <2>1. op' \in Op
    BY <1>8, ThenType DEF Project
  <2>2. row' \in [Task -> Row]
    <3>1. term[op.task] # None
      BY <1>8 DEF Project, Stages, Projecting
    <3>2. term[op.task].verdict.state \in State
      BY <1>8, <3>1, OpTypes, RecordTypes DEF Project
    <3>3. [row[op.task] EXCEPT !.state = term[op.task].verdict.state,
                               !.attempt = term[op.task].verdict.attempt,
                               !.bound = TRUE] \in Row
      BY <1>8, <3>1, <3>2, OpTypes, RecordTypes DEF Project, Row
    <3>. QED  BY <1>8, <3>3, OpTypes DEF Project, TypeOK
  <2>. QED  BY <1>8, <2>1, <2>2 DEF Project, TypeOK, drawn, world
<1>9. CASE WriteReceipt
  <2>1. op' \in Op
    BY <1>9, ThenType DEF WriteReceipt
  <2>2. file' \in [Task -> Verdict \cup {None}]
    <3>1. [state |-> row[op.task].state, attempt |-> row[op.task].attempt] \in Verdict
      BY <1>9, OpTypes, RecordTypes DEF WriteReceipt, Verdict, Stages, ReceiptChain, Projecting
    <3>. QED  BY <1>9, <3>1, OpTypes, RecordTypes DEF WriteReceipt, TypeOK
  <2>. QED  BY <1>9, <2>1, <2>2 DEF WriteReceipt, TypeOK, drawn, world
<1>10. CASE BindReceipt \/ CompleteTerminalization
  <2>1. op' \in Op \cup {None}
    BY <1>10, ThenType DEF BindReceipt, CompleteTerminalization, Done
  <2>2. row' \in [Task -> Row]
    <3>1. [row[op.task] EXCEPT !.receipt = TRUE] \in Row
      BY <1>10, OpTypes, RecordTypes DEF BindReceipt, CompleteTerminalization, Row
    <3>. QED  BY <1>10, <3>1, OpTypes DEF BindReceipt, CompleteTerminalization, TypeOK
  <2>3. term' \in [Task -> Transition \cup {None}]
    <3>1. CompleteTerminalization => [term[op.task] EXCEPT !.phase = "projected"] \in Transition
      BY OpTypes, RecordTypes DEF CompleteTerminalization, Stages, Projecting, Transition
    <3>. QED  BY <1>10, <3>1, OpTypes DEF BindReceipt, CompleteTerminalization, TypeOK
  <2>. QED
    BY <1>10, <2>1, <2>2, <2>3 DEF BindReceipt, CompleteTerminalization, TypeOK, drawn, world
<1>. QED
  BY <1>1, <1>2, <1>3, <1>4, <1>5, <1>6, <1>7, <1>8, <1>9, <1>10 DEF Step

LEMMA TypeBeside ==
  ASSUME TypeOK,
         \/ Crash \/ HostRestart
         \/ \E t \in Task, n \in Attempt : Arrives(t, n) \/ Ends(t, n)
         \/ \E k \in Key : ForeignTakes(k) \/ ForeignReleases(k) \/ Expires(k)
         \/ \E t \in Task : Adopt(t) \/ AdoptionEnds(t)
  PROVE  TypeOK'
<1>. USE States
<1>1. CASE Crash
  BY <1>1, OpTypes DEF Crash, TypeOK, Done, drawn, records
<1>2. CASE HostRestart
  BY <1>2 DEF HostRestart, TypeOK, drawn, records
<1>3. ASSUME NEW t \in Task, NEW n \in Attempt, Arrives(t, n) \/ Ends(t, n)
      PROVE  TypeOK'
  <2>1. unit' \in [Task -> [Attempt -> UnitStatus]]
    BY <1>3, PlaceType DEF Arrives, Ends
  <2>. QED  BY <1>3, <2>1 DEF Arrives, Ends, TypeOK, drawn, records
<1>4. ASSUME NEW k \in Key, ForeignTakes(k) \/ ForeignReleases(k) \/ Expires(k)
      PROVE  TypeOK'
  <2>1. lease' \in [Key -> Lease \cup {None}]
    <3>0. lease[k] # None => lease[k] \in Lease
      BY DEF TypeOK
    <3>1. lease[k] # None => [lease[k] EXCEPT !.live = FALSE] \in Lease
      BY <3>0 DEF Lease
    <3>2. [owner |-> Foreign, live |-> TRUE] \in Lease
      BY DEF Lease
    <3>. QED  BY <1>4, <3>1, <3>2 DEF ForeignTakes, ForeignReleases, Expires, TypeOK
  <2>. QED
    BY <1>4, <2>1 DEF ForeignTakes, ForeignReleases, Expires, TypeOK, drawn, records, world
<1>5. ASSUME NEW t \in Task, Adopt(t) \/ AdoptionEnds(t)
      PROVE  TypeOK'
  BY <1>5 DEF Adopt, AdoptionEnds, TypeOK, drawn, records, world
<1>. QED  BY <1>1, <1>2, <1>3, <1>4, <1>5

LEMMA TypeStep ==
  ASSUME TypeOK, Stages, ReceiptChain, [Next]_vars
  PROVE  TypeOK'
<1>1. CASE UNCHANGED vars
  BY <1>1 DEF vars, TypeOK
<1>. QED  BY <1>1, TypeBegin, TypeStepOfOp, TypeBeside DEF Next

-----------------------------------------------------------------------------
(***************************************************************************)
(* The order of what is written.                                           *)
(***************************************************************************)
\* Nothing of what is recorded changes.
LEMMA RecordsFrame ==
  ASSUME Stages, ReceiptChain, UNCHANGED <<row, term, file, fresh>>,
         \A t \in adopted' : t \in adopted \/ row[t].state # "none"
  PROVE  /\ ReceiptChain'
         /\ op' = None => Stages'
         /\ UNCHANGED op => Stages'
         /\ /\ op # None
            /\ op'.task = op.task
            /\ op.step # "insert" /\ op'.step # "insert" /\ op'.step \notin Projecting
            /\ op'.step \in Undecided => term[op.task] = None
            => Stages'
<1>1. ReceiptChain'
  BY DEF ReceiptChain
<1>. QED  BY <1>1 DEF Stages, Undecided, Projecting

LEMMA StagesStep ==
  ASSUME TypeOK, Stages, ReceiptChain, [Next]_vars
  PROVE  Stages' /\ ReceiptChain'
<1>1. ASSUME NEW t \in Task, Start(t) \/ Recover(t) \/ Cancel(t)
      PROVE  Stages' /\ ReceiptChain'
  <2>1. ReceiptChain'
    BY <1>1 DEF Start, Recover, Cancel, records, ReceiptChain
  <2>2. Stages'
    BY <1>1 DEF Start, Recover, Cancel, Begin, MayAcquire, Pending, drawn, records,
                Stages, Undecided, Projecting
  <2>. QED  BY <2>1, <2>2
<1>2. ASSUME NEW t \in Task, NEW s \in State, Refresh(t, s) \/ Resume(t, s)
      PROVE  Stages' /\ ReceiptChain'
  <2>1. ReceiptChain'
    BY <1>2 DEF Refresh, Resume, records, ReceiptChain
  <2>2. row[t].state # "none" /\ term[t] = None
    BY <1>2 DEF Refresh, Resume, Open, State, Terminal
  <2>3. Stages'
    BY <1>2, <2>2 DEF Refresh, Resume, Begin, drawn, records, Stages, Undecided, Projecting
  <2>. QED  BY <2>1, <2>3
<1>3. CASE Insert
  <2>1. op.task \in Task /\ term[op.task] = None /\ row' = [row EXCEPT ![op.task].state = "launching"]
    BY <1>3, OpTypes DEF Insert, Doing, Stages, Undecided
  <2>2. ~row[op.task].bound
    BY <2>1 DEF ReceiptChain
  <2>3. row'[op.task].state = "launching" /\ row'[op.task].bound = row[op.task].bound
        /\ row'[op.task].receipt = row[op.task].receipt
    BY <2>1, RecordTypes DEF TypeOK, Row
  <2>4. \A t \in Task : t # op.task => row'[t] = row[t]
    BY <2>1 DEF TypeOK
  <2>5. ReceiptChain'
    BY <1>3, <2>1, <2>2, <2>3, <2>4 DEF Insert, ReceiptChain, Terminal
  <2>6. Stages'
    BY <1>3, <2>1, <2>3, <2>4 DEF Insert, Then, Doing, Stages, Undecided, Projecting, drawn, TypeOK
  <2>. QED  BY <2>5, <2>6
<1>4. CASE InsertFails \/ Renew \/ Maintain \/ TerminalizationRefused
           \/ LaunchHeard \/ LaunchRefused \/ LaunchLost \/ LaunchVanished
           \/ StopHeard \/ StopRefused \/ StopLost
  <2>1. UNCHANGED <<row, term, file, fresh, adopted>>
    BY <1>4 DEF InsertFails, Renew, Maintain, TerminalizationRefused, LaunchHeard, LaunchRefused,
                LaunchLost, LaunchVanished, StopHeard, StopRefused, StopLost, drawn, records
  <2>2. \/ op' = None
        \/ /\ op # None /\ op'.task = op.task
           /\ op.step # "insert" /\ op'.step \in Undecided \ {"insert"}
           /\ term[op.task] = None
    BY <1>4, OpTypes
    DEF InsertFails, Renew, Maintain, TerminalizationRefused, LaunchHeard, LaunchRefused,
        LaunchLost, LaunchVanished, StopHeard, StopRefused, StopLost, AfterStop, Then, ThenAs,
        Done, Doing, Stages, Undecided, Op
  <2>3. \A t \in adopted' : t \in adopted
    BY <2>1
  <2>. QED  BY <2>1, <2>2, <2>3, RecordsFrame DEF Undecided, Projecting
<1>5. CASE SetOpen
  <2>1. /\ op # None /\ op.task \in Task /\ op.state \in State \ Terminal
        /\ term[op.task] = None
        /\ row[op.task].state # "none"
        /\ row' = [row EXCEPT ![op.task].state = op.state, ![op.task].attempt = op.attempt]
    BY <1>5, OpTypes DEF SetOpen, Doing, Stages, Undecided
  <2>2. ~row[op.task].bound
    BY <2>1 DEF ReceiptChain
  <2>3. /\ row'[op.task].state = op.state
        /\ row'[op.task].bound = row[op.task].bound
        /\ row'[op.task].receipt = row[op.task].receipt
    BY <2>1, RecordTypes DEF TypeOK, Row
  <2>4. \A t \in Task : t # op.task => row'[t] = row[t]
    BY <2>1 DEF TypeOK
  <2>5. ReceiptChain'
    BY <1>5, <2>1, <2>2, <2>3, <2>4 DEF SetOpen, ReceiptChain
  <2>6. /\ op.state # "none" /\ op.task \notin fresh /\ fresh \subseteq Task
        /\ UNCHANGED <<term, file, fresh, adopted>>
    BY <1>5, <2>1 DEF SetOpen, State, Terminal, Stages, drawn, TypeOK
  <2>7. op' = None \/ op' = [op EXCEPT !.step = "maintain"]
    BY <1>5 DEF SetOpen, Then, Done
  <2>8. op' # None => op'.step = "maintain" /\ op'.task = op.task
    BY <2>1, <2>7, OpTypes DEF Op
  <2>9. Stages'
    BY <2>1, <2>3, <2>4, <2>6, <2>8 DEF Stages, Undecided, Projecting
  <2>. QED  BY <2>5, <2>9
<1>6. CASE BeginTerminalization
  <2>1. /\ op # None /\ op.task \in Task /\ op.state \in Terminal
        /\ term[op.task] = None
        /\ row[op.task].state # "none"
    BY <1>6, OpTypes DEF BeginTerminalization, Doing, Stages, Undecided
  <2>2. /\ term'[op.task] # None
        /\ term'[op.task].phase = "leases_revoked"
        /\ \A t \in Task : t # op.task => term'[t] = term[t]
    <3>1. [phase |-> "leases_revoked",
           verdict |-> [state |-> op.state, attempt |-> op.attempt]] \in Transition
      BY <2>1, OpTypes DEF Transition, Verdict
    <3>. QED  BY <1>6, <2>1, <3>1 DEF BeginTerminalization, TypeOK
  <2>3. ~row[op.task].bound
    BY <2>1 DEF ReceiptChain
  <2>4. ReceiptChain'
    BY <1>6, <2>1, <2>2, <2>3 DEF BeginTerminalization, ReceiptChain
  <2>5. Stages'
    BY <1>6, <2>1, <2>2 DEF BeginTerminalization, Then, Doing, Stages, Undecided, Projecting, drawn
  <2>. QED  BY <2>4, <2>5
<1>7. CASE Project
  <2>1. /\ op # None /\ op.task \in Task /\ op.task \notin fresh
        /\ term[op.task] # None
        /\ row' = [row EXCEPT ![op.task].state = term[op.task].verdict.state,
                              ![op.task].attempt = term[op.task].verdict.attempt,
                              ![op.task].bound = TRUE]
    BY <1>7, OpTypes DEF Project, Doing, Stages, Projecting
  <2>2. /\ row'[op.task].state = term[op.task].verdict.state
        /\ row'[op.task].attempt = term[op.task].verdict.attempt
        /\ row'[op.task].bound
        /\ row'[op.task].receipt = row[op.task].receipt
    BY <2>1, RecordTypes DEF TypeOK, Row
  <2>3. \A t \in Task : t # op.task => row'[t] = row[t]
    BY <2>1 DEF TypeOK
  <2>4. term[op.task].verdict.state \in Terminal
    BY <2>1, RecordTypes
  <2>5. ReceiptChain'
    <3>1. UNCHANGED <<term, file>>
      BY <1>7 DEF Project
    <3>2. ASSUME NEW t \in Task, t # op.task
          PROVE  /\ row'[t].state \in Terminal <=> row'[t].bound
                 /\ row'[t].bound => /\ term'[t] # None
                                     /\ row'[t].state = term'[t].verdict.state
                                     /\ row'[t].attempt = term'[t].verdict.attempt
                 /\ file'[t] # None => row'[t].bound /\ file'[t] = term'[t].verdict
                 /\ row'[t].receipt => file'[t] # None
                 /\ term'[t] # None /\ term'[t].phase = "projected" => row'[t].receipt
      BY <3>1, <3>2, <2>3 DEF ReceiptChain
    <3>3. /\ file[op.task] # None => file[op.task] = term[op.task].verdict
          /\ row[op.task].receipt => file[op.task] # None
          /\ term[op.task] # None /\ term[op.task].phase = "projected" => row[op.task].receipt
      BY <2>1 DEF ReceiptChain
    <3>. QED  BY <3>1, <3>2, <3>3, <2>1, <2>2, <2>4 DEF ReceiptChain
  <2>6. Stages'
    <3>1. /\ UNCHANGED <<term, file, fresh, adopted>> /\ fresh \subseteq Task
          /\ op' = [op EXCEPT !.step = "receipt"]
      BY <1>7 DEF Project, Then, drawn, TypeOK
    <3>2. op'.step = "receipt" /\ op'.task = op.task
      BY <2>1, <3>1, OpTypes DEF Op
    <3>3. row'[op.task].state # "none"
      BY <2>2, <2>4 DEF Terminal
    <3>4. /\ \A t \in Task : term'[t] # None \/ t \in adopted' => row'[t].state # "none"
          /\ \A t \in fresh' : row'[t].state = "none"
      BY <2>1, <2>3, <3>1, <3>3 DEF Stages
    <3>. QED  BY <2>1, <2>2, <3>1, <3>2, <3>3, <3>4 DEF Stages, Undecided, Projecting
  <2>. QED  BY <2>5, <2>6
<1>8. CASE WriteReceipt
  <2>1. /\ op # None /\ op.task \in Task
        /\ row[op.task].bound
    BY <1>8, OpTypes DEF WriteReceipt, Doing, Stages
  <2>2. /\ file'[op.task] = term[op.task].verdict
        /\ term[op.task].verdict # None
        /\ \A t \in Task : t # op.task => file'[t] = file[t]
    <3>1. /\ term[op.task] # None
          /\ row[op.task].state = term[op.task].verdict.state
          /\ row[op.task].attempt = term[op.task].verdict.attempt
          /\ file[op.task] # None => file[op.task] = term[op.task].verdict
      BY <2>1 DEF ReceiptChain
    <3>2. /\ term[op.task].verdict \in Verdict
          /\ term[op.task].verdict = [state |-> row[op.task].state, attempt |-> row[op.task].attempt]
      BY <2>1, <3>1, RecordTypes DEF Verdict
    <3>. QED  BY <1>8, <2>1, <3>1, <3>2 DEF WriteReceipt, TypeOK
  <2>3. ReceiptChain'
    BY <1>8, <2>1, <2>2 DEF WriteReceipt, ReceiptChain
  <2>4. Stages'
    BY <1>8, <2>1, <2>2 DEF WriteReceipt, Then, Doing, Stages, Undecided, Projecting, drawn
  <2>. QED  BY <2>3, <2>4
<1>9. CASE BindReceipt
  <2>1. /\ op # None /\ op.task \in Task
        /\ file[op.task] # None
        /\ row' = [row EXCEPT ![op.task].receipt = TRUE]
    BY <1>9, OpTypes DEF BindReceipt, Doing, Stages
  <2>2. /\ row'[op.task].state = row[op.task].state
        /\ row'[op.task].attempt = row[op.task].attempt
        /\ row'[op.task].bound = row[op.task].bound
        /\ row'[op.task].receipt
    BY <2>1, RecordTypes DEF TypeOK, Row
  <2>3. \A t \in Task : t # op.task => row'[t] = row[t]
    BY <2>1 DEF TypeOK
  <2>4. ReceiptChain'
    BY <1>9, <2>1, <2>2, <2>3 DEF BindReceipt, ReceiptChain
  <2>5. Stages'
    BY <1>9, <2>1, <2>2, <2>3 DEF BindReceipt, Then, Doing, Stages, Undecided, Projecting, drawn
  <2>. QED  BY <2>4, <2>5
<1>10. CASE CompleteTerminalization
  <2>1. /\ op # None /\ op.task \in Task
        /\ row[op.task].receipt
        /\ term[op.task] # None
        /\ term' = [term EXCEPT ![op.task].phase = "projected"]
    BY <1>10, OpTypes DEF CompleteTerminalization, Doing, Stages, Projecting
  <2>2. /\ term'[op.task].verdict = term[op.task].verdict
        /\ term'[op.task] # None
        /\ \A t \in Task : t # op.task => term'[t] = term[t]
    <3>1. [term[op.task] EXCEPT !.phase = "projected"] \in Transition
      BY <2>1, RecordTypes DEF Transition
    <3>. QED  BY <2>1, <3>1, RecordTypes DEF TypeOK, Transition
  <2>3. ReceiptChain'
    BY <1>10, <2>1, <2>2 DEF CompleteTerminalization, ReceiptChain
  <2>4. Stages'
    BY <1>10, <2>1, <2>2 DEF CompleteTerminalization, Done, Stages, drawn
  <2>. QED  BY <2>3, <2>4
<1>11. CASE \/ Crash \/ HostRestart
            \/ \E t \in Task, n \in Attempt : Arrives(t, n) \/ Ends(t, n)
            \/ \E k \in Key : ForeignTakes(k) \/ ForeignReleases(k) \/ Expires(k)
            \/ \E t \in Task : Adopt(t) \/ AdoptionEnds(t)
            \/ UNCHANGED vars
  <2>1. UNCHANGED <<row, term, file, fresh>>
    BY <1>11 DEF Crash, HostRestart, Arrives, Ends, ForeignTakes, ForeignReleases, Expires,
                 Adopt, AdoptionEnds, drawn, records, vars
  <2>2. op' = None \/ UNCHANGED op
    BY <1>11 DEF Crash, HostRestart, Arrives, Ends, ForeignTakes, ForeignReleases, Expires,
                 Adopt, AdoptionEnds, Done, vars
  <2>3. \A t \in adopted' : t \in adopted \/ row[t].state # "none"
    BY <1>11 DEF Crash, HostRestart, Arrives, Ends, ForeignTakes, ForeignReleases, Expires,
                 Adopt, AdoptionEnds, vars
  <2>. QED  BY <2>1, <2>2, <2>3, RecordsFrame
<1>. QED
  BY <1>1, <1>2, <1>3, <1>4, <1>5, <1>6, <1>7, <1>8, <1>9, <1>10, <1>11 DEF Next, Step

LEMMA ChainInvariant == Spec => [](TypeOK /\ Stages /\ ReceiptChain)
<1>1. Init => TypeOK /\ Stages /\ ReceiptChain
  BY TypeInit DEF Init, Stages, ReceiptChain, Terminal
<1>2. TypeOK /\ Stages /\ ReceiptChain /\ [Next]_vars => (TypeOK /\ Stages /\ ReceiptChain)'
  BY TypeStep, StagesStep
<1>. QED  BY <1>1, <1>2, PTL DEF Spec

\* The tables, what runs, and the operation under way keep their types.
THEOREM TypeCorrect == Spec => []TypeOK
  BY ChainInvariant, PTL

\* Verdict, row, receipt and completion agree, wherever an operation was broken
\* off.
THEOREM ReceiptChainHolds == Spec => []ReceiptChain
  BY ChainInvariant, PTL

-----------------------------------------------------------------------------
(***************************************************************************)
(* The tasks implement TaskOutcome.                                        *)
(***************************************************************************)
Decided(t) == IF term[t] = None THEN None ELSE term[t].verdict
Shown(t) == IF row[t].bound THEN [state |-> row[t].state, attempt |-> row[t].attempt] ELSE None
Holder(k) == IF lease[k] # None /\ lease[k].live THEN lease[k].owner ELSE None

\* Steps that only change who holds what.
LEMMA LeaseStep ==
  ASSUME TypeOK, UNCHANGED records,
         \/ \E t \in Task : \/ MayAcquire(t) /\ lease' = Granted(t)
                            \/ lease' = WithoutOwner(t)
         \/ \E k \in Key : ForeignTakes(k) \/ ForeignReleases(k) \/ Expires(k)
         \/ UNCHANGED lease
  PROVE  [Abstract!Next]_(Abstract!vars)
<1>. USE DEF records, Abstract!Next, Abstract!vars
<1>1. ASSUME NEW t \in Task, MayAcquire(t), lease' = Granted(t)
      PROVE  Abstract!Take(t, KeysOf[t])
  <2>1. \A k \in KeysOf[t] : Holder(k) \in {None, t}
    BY <1>1 DEF MayAcquire, Free, Holder
  <2>2. \A k \in Key : Holder(k)' = IF k \in KeysOf[t] THEN t ELSE Holder(k)
    <3>1. [owner |-> t, live |-> TRUE] \in Lease
      BY DEF Lease
    <3>. QED  BY <1>1, <3>1 DEF Granted, Holder
  <2>. QED  BY <1>1, <2>1, <2>2 DEF Abstract!Take, MayAcquire, Holder
<1>2. ASSUME NEW t \in Task, lease' = WithoutOwner(t)
      PROVE  \E K \in SUBSET Key : Abstract!Drop(K)
  <2>1. PICK K \in SUBSET Key : K = {k \in Key : Owned(t, k)}
    OBVIOUS
  <2>2. \A k \in Key : Holder(k)' = IF k \in K THEN None ELSE Holder(k)
    BY <1>2, <2>1 DEF WithoutOwner, Holder, Owned
  <2>3. Abstract!Drop(K)
    BY <2>2 DEF Abstract!Drop, Holder
  <2>. QED  BY <2>3
<1>3. ASSUME NEW k \in Key, ForeignTakes(k)
      PROVE  Abstract!ForeignTakes(k)
  <2>1. Holder(k) = None
    BY <1>3 DEF ForeignTakes, Holder
  <2>2. \A l \in Key : Holder(l)' = IF l = k THEN Foreign ELSE Holder(l)
    <3>1. [owner |-> Foreign, live |-> TRUE] \in Lease
      BY DEF Lease
    <3>. QED  BY <1>3, <3>1 DEF ForeignTakes, Holder, TypeOK
  <2>. QED  BY <2>1, <2>2 DEF Abstract!ForeignTakes, Holder
<1>4. ASSUME NEW k \in Key, ForeignReleases(k) \/ Expires(k)
      PROVE  Abstract!Drop({k})
  <2>1. lease'[k] # None => ~lease'[k].live
    <3>1. lease[k] # None => lease[k] \in Lease
      BY DEF TypeOK
    <3>2. Expires(k) => lease[k] # None /\ lease'[k] = [lease[k] EXCEPT !.live = FALSE]
      BY DEF Expires, TypeOK
    <3>3. Expires(k) => lease'[k].live = FALSE
      BY <3>1, <3>2 DEF Lease
    <3>4. ForeignReleases(k) => lease'[k] = None
      BY DEF ForeignReleases, TypeOK
    <3>. QED  BY <1>4, <3>3, <3>4
  <2>2. \A l \in Key : Holder(l)' = IF l \in {k} THEN None ELSE Holder(l)
    BY <1>4, <2>1 DEF ForeignReleases, Expires, Holder, TypeOK
  <2>. QED  BY <2>2 DEF Abstract!Drop, Holder
<1>5. \A t \in Task : KeysOf[t] \in SUBSET Key
  OBVIOUS
<1>6. \A k \in Key : {k} \in SUBSET Key
  OBVIOUS
<1>7. ASSUME UNCHANGED lease PROVE UNCHANGED Abstract!vars
  BY <1>7
<1>8. ASSUME \E t \in Task : \/ MayAcquire(t) /\ lease' = Granted(t)
                            \/ lease' = WithoutOwner(t)
      PROVE  Abstract!Next
  BY <1>1, <1>2, <1>5, <1>8
<1>9. ASSUME \E k \in Key : ForeignTakes(k) \/ ForeignReleases(k) \/ Expires(k)
      PROVE  Abstract!Next
  BY <1>3, <1>4, <1>6, <1>9
<1>. QED  BY <1>7, <1>8, <1>9

\* Steps that leave what is decided, shown and filed, and the leases, as they are.
LEMMA QuietStep ==
  ASSUME TypeOK, UNCHANGED lease,
         \A t \in Task : Decided(t)' = Decided(t) /\ Shown(t)' = Shown(t) /\ file'[t] = file[t],
         file' \in [Task -> Verdict \cup {None}]
  PROVE  UNCHANGED Abstract!vars
<1>1. [t \in Task |-> Decided(t)]' = [t \in Task |-> Decided(t)]
  OBVIOUS
<1>2. [t \in Task |-> Shown(t)]' = [t \in Task |-> Shown(t)]
  OBVIOUS
<1>3. file' = file
  BY DEF TypeOK
<1>. QED  BY <1>1, <1>2, <1>3 DEF Abstract!vars, Decided, Shown

LEMMA OutcomeStep ==
  ASSUME TypeOK, Stages, ReceiptChain, [Next]_vars
  PROVE  [Abstract!Next]_(Abstract!vars)
<1>. USE DEF Abstract!Next
<1>1. ASSUME NEW t \in Task, Start(t) \/ Recover(t) \/ Cancel(t)
      PROVE  [Abstract!Next]_(Abstract!vars)
  BY <1>1, LeaseStep DEF Start, Recover, Cancel
<1>2. ASSUME NEW t \in Task, NEW s \in State, Refresh(t, s) \/ Resume(t, s)
      PROVE  [Abstract!Next]_(Abstract!vars)
  BY <1>2, LeaseStep DEF Refresh, Resume
<1>3. CASE InsertFails \/ Renew \/ Maintain \/ TerminalizationRefused
           \/ LaunchHeard \/ LaunchRefused \/ LaunchLost \/ LaunchVanished
           \/ StopHeard \/ StopRefused \/ StopLost
  <2>1. UNCHANGED records /\ op.task \in Task
    BY <1>3, OpTypes
    DEF InsertFails, Renew, Maintain, TerminalizationRefused, LaunchHeard, LaunchRefused,
        LaunchLost, LaunchVanished, StopHeard, StopRefused, StopLost, Doing, records
  <2>2. \/ MayAcquire(op.task) /\ lease' = Granted(op.task)
        \/ lease' = WithoutOwner(op.task)
        \/ UNCHANGED lease
    BY <1>3
    DEF InsertFails, Renew, Maintain, Maintained, Kept, Reacquired, NotKept,
        TerminalizationRefused, LaunchHeard, LaunchRefused,
        LaunchLost, LaunchVanished, StopHeard, StopRefused, StopLost
  <2>. QED  BY <2>1, <2>2, LeaseStep
<1>4. CASE Insert \/ SetOpen
  <2>1. /\ op.task \in Task /\ term[op.task] = None /\ UNCHANGED <<term, file, lease>>
        /\ row' \in [Task -> Row]
    BY <1>4, OpTypes, TypeStepOfOp DEF Insert, SetOpen, Doing, Stages, Undecided, Step, TypeOK
  <2>2. \A t \in Task : row'[t].bound = row[t].bound /\ (t # op.task => row'[t] = row[t])
    BY <1>4, <2>1, RecordTypes DEF Insert, SetOpen, TypeOK, Row
  <2>3. ~row[op.task].bound
    BY <2>1 DEF ReceiptChain
  <2>. QED  BY <2>1, <2>2, <2>3, QuietStep DEF Decided, Shown, TypeOK
<1>5. CASE BeginTerminalization
  <2>1. op.task \in Task /\ op.state \in Terminal /\ op.attempt \in Attempt /\ term[op.task] = None
    BY <1>5, OpTypes DEF BeginTerminalization, Doing, Stages, Undecided
  <2>2. PICK t \in Task : t = op.task
    BY <2>1
  <2>3. PICK o \in Verdict : o = [state |-> op.state, attempt |-> op.attempt]
    BY <2>1 DEF Verdict
  <2>4. [phase |-> "leases_revoked", verdict |-> o] \in Transition
    BY DEF Transition
  <2>5. \A u \in Task : Decided(u)' = IF u = t THEN o ELSE Decided(u)
    BY <1>5, <2>2, <2>3, <2>4 DEF BeginTerminalization, Decided, TypeOK
  <2>6. \A k \in Key : Holder(k)' = IF Holder(k) = t THEN None ELSE Holder(k)
    BY <1>5, <2>2 DEF BeginTerminalization, WithoutOwner, Owned, Holder
  <2>7. Abstract!Decide(t, o)
    BY <1>5, <2>1, <2>2, <2>5, <2>6 DEF BeginTerminalization, Abstract!Decide, Decided, Holder
  <2>. QED  BY <2>7
<1>6. CASE Project
  <2>1. op # None /\ op.task \in Task /\ term[op.task] # None
    BY <1>6, OpTypes DEF Project, Doing, Stages, Projecting
  <2>2. PICK t \in Task : t = op.task
    BY <2>1
  <2>3. /\ term[t] # None
        /\ row' = [row EXCEPT ![t].state = term[t].verdict.state,
                              ![t].attempt = term[t].verdict.attempt,
                              ![t].bound = TRUE]
    BY <1>6, <2>1, <2>2 DEF Project
  <2>4. /\ row'[t].bound
        /\ row'[t].state = term[t].verdict.state
        /\ row'[t].attempt = term[t].verdict.attempt
    BY <2>3, RecordTypes DEF TypeOK, Row
  <2>5. /\ term[t].verdict \in Verdict
        /\ term[t].verdict = [state |-> term[t].verdict.state, attempt |-> term[t].verdict.attempt]
    BY <2>3, RecordTypes DEF Verdict
  <2>6. Decided(t) # None /\ Shown(t)' = Decided(t)
    BY <2>3, <2>4, <2>5 DEF Shown, Decided
  <2>7. \A u \in Task : u # t => Shown(u)' = Shown(u)
    BY <2>3 DEF Shown, TypeOK
  <2>8. Abstract!Show(t)
    BY <1>6, <2>6, <2>7 DEF Project, Abstract!Show, Shown, Decided
  <2>. QED  BY <2>8
<1>7. CASE WriteReceipt
  <2>1. op.task \in Task /\ row[op.task].bound
    BY <1>7, OpTypes DEF WriteReceipt, Doing, Stages
  <2>2. PICK t \in Task : t = op.task
    BY <2>1
  <2>3. /\ term[t] # None
        /\ row[t].bound
        /\ row[t].state = term[t].verdict.state
        /\ row[t].attempt = term[t].verdict.attempt
        /\ file[t] # None => file[t] = term[t].verdict
    BY <2>1, <2>2 DEF ReceiptChain
  <2>4. /\ term[t].verdict \in Verdict
        /\ term[t].verdict = [state |-> row[t].state, attempt |-> row[t].attempt]
    BY <2>3, RecordTypes DEF Verdict
  <2>5. Decided(t) = term[t].verdict /\ Decided(t) # None /\ Shown(t) = Decided(t)
    BY <2>3, <2>4 DEF Decided, Shown
  <2>6. file' = [file EXCEPT ![t] = Decided(t)]
    BY <1>7, <2>2, <2>3, <2>4, <2>5 DEF WriteReceipt, TypeOK
  <2>7. Abstract!File(t)
    BY <1>7, <2>5, <2>6 DEF WriteReceipt, Abstract!File, Shown, Decided
  <2>. QED  BY <2>7
<1>8. CASE BindReceipt
  <2>1. op.task \in Task /\ row' = [row EXCEPT ![op.task].receipt = TRUE]
    BY <1>8, OpTypes DEF BindReceipt, Doing
  <2>2. \A t \in Task : /\ row'[t].state = row[t].state
                        /\ row'[t].attempt = row[t].attempt
                        /\ row'[t].bound = row[t].bound
    BY <2>1, RecordTypes DEF TypeOK, Row
  <2>. QED  BY <1>8, <2>2, QuietStep DEF BindReceipt, Decided, Shown, TypeOK
<1>9. CASE CompleteTerminalization
  <2>1. /\ op.task \in Task /\ term[op.task] # None
        /\ term' = [term EXCEPT ![op.task].phase = "projected"]
    BY <1>9, OpTypes DEF CompleteTerminalization, Doing, Stages, Projecting
  <2>2. /\ term'[op.task].verdict = term[op.task].verdict
        /\ term'[op.task] # None
        /\ \A t \in Task : t # op.task => term'[t] = term[t]
    <3>1. [term[op.task] EXCEPT !.phase = "projected"] \in Transition
      BY <2>1, RecordTypes DEF Transition
    <3>. QED  BY <2>1, <3>1, RecordTypes DEF TypeOK, Transition
  <2>3. \A t \in Task : Decided(t)' = Decided(t)
    BY <2>1, <2>2 DEF Decided
  <2>. QED  BY <1>9, <2>3, QuietStep DEF CompleteTerminalization, Shown, TypeOK
<1>10. CASE \/ Crash \/ HostRestart
            \/ \E t \in Task, n \in Attempt : Arrives(t, n) \/ Ends(t, n)
            \/ \E t \in Task : Adopt(t) \/ AdoptionEnds(t)
            \/ UNCHANGED vars
  BY <1>10, LeaseStep DEF Crash, HostRestart, Arrives, Ends, Adopt, AdoptionEnds, records, vars
<1>11. CASE \E k \in Key : ForeignTakes(k) \/ ForeignReleases(k) \/ Expires(k)
  BY <1>11, LeaseStep DEF ForeignTakes, ForeignReleases, Expires
<1>. QED
  BY <1>1, <1>2, <1>3, <1>4, <1>5, <1>6, <1>7, <1>8, <1>9, <1>10, <1>11 DEF Next, Step

\* Outcomes are decided once, together with the loss of all leases, and nothing
\* that is shown or filed ever says otherwise.
THEOREM OutcomeImplemented == Spec => ImplementsOutcome
<1>1. Init => Abstract!Init
  BY DEF Init, Abstract!Init
<1>2. TypeOK /\ Stages /\ ReceiptChain /\ [Next]_vars => [Abstract!Next]_(Abstract!vars)
  BY OutcomeStep
<1>. QED  BY <1>1, <1>2, ChainInvariant, PTL DEF Spec, Abstract!Spec, ImplementsOutcome

-----------------------------------------------------------------------------
(***************************************************************************)
(* What runs, and under which leases.                                      *)
(***************************************************************************)
Quiet == {"never", "ok", "bad", "gone"}
Untouched(t) == \A n \in Attempt : unit[t][n] = "never"
Heard(t, n) == unit[t][n] \in Running /\ <<t, n>> \notin unheard

\* The attempt the row shows, or the next one if that one is over.
Aims(t, n) ==
    \/ n = row[t].attempt
    \/ n = row[t].attempt + 1 /\ unit[t][row[t].attempt] \in Quiet

\* A task without a row has run nothing.
Unborn ==
    \A t \in Task : row[t].state = "none" => row[t].attempt = 1 /\ Untouched(t)

\* The attempts before the recorded one are over, and the one after it runs only
\* if the recorded one is over too.
Order ==
    \A t \in Task, n \in Attempt :
        /\ n < row[t].attempt => unit[t][n] \in Quiet
        /\ n = row[t].attempt + 1 =>
              unit[t][n] \in Quiet \/ unit[t][row[t].attempt] \in Quiet
        /\ n > row[t].attempt + 1 => unit[t][n] = "never"

\* What an operation is about to launch, to stop or to record.
Target ==
    op # None =>
        /\ op.step \in Undecided \cup {"stop"} => Aims(op.task, op.attempt)
        /\ op.step \in {"insert", "launch"} /\ op.attempt = row[op.task].attempt =>
              Untouched(op.task)
        /\ op.step = "renew" => op.attempt # row[op.task].attempt

Decisions == \A t \in Task : term[t] # None => Aims(t, term[t].verdict.attempt)

\* What is launched is launched under the leases.
Lawful == op # None /\ op.step \in {"insert", "launch"} => AllHeld(op.task)

\* A request on its way is one nobody heard of.
Sent == \A t \in Task, n \in Attempt : unit[t][n] = "starting" => <<t, n>> \in unheard

\* A unit that was heard of is the recorded one, or about to be recorded.
Known ==
    \A t \in Task, n \in Attempt :
        Heard(t, n) =>
            /\ term[t] = None
            /\ \/ n = row[t].attempt
               \/ Doing("set") /\ op.task = t /\ op.attempt = n

\* Nobody is about to decide on a task whose unit was heard of and runs.
Observant ==
    op # None /\ op.step \in {"maintain", "set"} /\ op.state \in Terminal =>
        ~Heard(op.task, op.attempt)

Base == TypeOK /\ Stages /\ ReceiptChain
Attempts == Unborn /\ Order /\ Target /\ Decisions
Hearing == Sent /\ Known /\ Observant
Holding == Lawful /\ RunsUnderLease /\ AdoptionHolds

-----------------------------------------------------------------------------
(***************************************************************************)
(* What a step can do to a unit, a row, a record and a lease.              *)
(***************************************************************************)
LEMMA UnitEffect ==
  ASSUME TypeOK, [Next]_vars, NEW t \in Task, NEW n \in Attempt
  PROVE  \/ unit'[t][n] = unit[t][n]
         \/ unit[t][n] # "never" /\ unit'[t][n] \in {"ok", "bad", "gone"}
         \/ unit[t][n] = "starting" /\ unit'[t][n] = "late"
         \/ /\ op # None /\ op.task = t /\ op.attempt = n
            /\ LaunchHeard \/ LaunchLost
<1>. USE DEF Loaded, Running
<1>1. CASE UNCHANGED unit
  BY <1>1
<1>2. CASE LaunchHeard \/ LaunchLost
  <2>1. op # None /\ op.task \in Task /\ op.attempt \in Attempt
    BY <1>2, OpTypes DEF LaunchHeard, LaunchLost, Doing
  <2>2. t # op.task \/ n # op.attempt => unit'[t][n] = unit[t][n]
    BY <1>2, <2>1 DEF LaunchHeard, LaunchLost, Place, TypeOK
  <2>. QED  BY <1>2, <2>1, <2>2
<1>3. CASE StopHeard \/ StopLost
  <2>1. op # None /\ op.task \in Task /\ op.attempt \in Attempt
    BY <1>3, OpTypes DEF StopHeard, StopLost, Doing
  <2>2. \/ UNCHANGED unit
        \/ unit[op.task][op.attempt] \in Running /\ Place(op.task, op.attempt, "gone")
    BY <1>3 DEF StopHeard, StopLost
  <2>. QED  BY <2>1, <2>2 DEF Place, TypeOK
<1>4. CASE HostRestart
  BY <1>4 DEF HostRestart, TypeOK
<1>5. ASSUME NEW u \in Task, NEW m \in Attempt, Arrives(u, m) \/ Ends(u, m)
      PROVE  \/ unit'[t][n] = unit[t][n]
             \/ unit[t][n] # "never" /\ unit'[t][n] \in {"ok", "bad", "gone"}
             \/ unit[t][n] = "starting" /\ unit'[t][n] = "late"
  BY <1>5 DEF Arrives, Ends, Place, TypeOK
<1>6. \/ UNCHANGED unit \/ LaunchHeard \/ LaunchLost \/ StopHeard \/ StopLost \/ HostRestart
      \/ \E u \in Task, m \in Attempt : Arrives(u, m) \/ Ends(u, m)
  BY DEF Next, Step, vars, Start, Recover, Cancel, Refresh, Resume, Insert, InsertFails, Renew,
         LaunchRefused, LaunchVanished, StopRefused, Maintain, SetOpen, BeginTerminalization,
         TerminalizationRefused, Project, WriteReceipt, BindReceipt, CompleteTerminalization,
         Crash, ForeignTakes, ForeignReleases, Expires, Adopt, AdoptionEnds, world
<1>. QED  BY <1>1, <1>2, <1>3, <1>4, <1>5, <1>6

LEMMA RowEffect ==
  ASSUME TypeOK, Stages, [Next]_vars, NEW t \in Task
  PROVE  \/ row'[t].attempt = row[t].attempt /\ row'[t].state = row[t].state
         \/ Insert /\ row'[t].attempt = row[t].attempt /\ row'[t].state # "none"
         \/ /\ SetOpen /\ op # None /\ op.task = t
            /\ row'[t].attempt = op.attempt /\ row'[t].state # "none"
         \/ /\ Project /\ op # None /\ op.task = t /\ term[t] # None
            /\ row'[t].attempt = term[t].verdict.attempt /\ row'[t].state # "none"
<1>1. CASE UNCHANGED row
  BY <1>1
<1>2. CASE Insert
  BY <1>2, OpTypes, RecordTypes DEF Insert, Doing, TypeOK, Row
<1>3. CASE SetOpen
  <2>1. op # None /\ op.task \in Task /\ op.state # "none"
    BY <1>3, OpTypes DEF SetOpen, Doing, State, Terminal
  <2>2. row' = [row EXCEPT ![op.task].state = op.state, ![op.task].attempt = op.attempt]
    BY <1>3 DEF SetOpen
  <2>3. row'[op.task].state = op.state /\ row'[op.task].attempt = op.attempt
    BY <2>1, <2>2, RecordTypes DEF TypeOK, Row
  <2>4. t # op.task => row'[t] = row[t]
    BY <2>1, <2>2 DEF TypeOK
  <2>. QED  BY <1>3, <2>1, <2>3, <2>4
<1>4. CASE Project
  <2>1. op # None /\ op.task \in Task /\ term[op.task] # None
    BY <1>4, OpTypes DEF Project, Doing, Stages, Projecting
  <2>2. row' = [row EXCEPT ![op.task].state = term[op.task].verdict.state,
                           ![op.task].attempt = term[op.task].verdict.attempt,
                           ![op.task].bound = TRUE]
    BY <1>4 DEF Project
  <2>3. /\ row'[op.task].state = term[op.task].verdict.state
        /\ row'[op.task].attempt = term[op.task].verdict.attempt
    BY <2>1, <2>2, RecordTypes DEF TypeOK, Row
  <2>4. t # op.task => row'[t] = row[t]
    BY <2>1, <2>2 DEF TypeOK
  <2>5. row'[op.task].state # "none"
    BY <2>1, <2>3, RecordTypes DEF Terminal
  <2>. QED  BY <1>4, <2>1, <2>3, <2>4, <2>5
<1>5. CASE BindReceipt
  BY <1>5, OpTypes, RecordTypes DEF BindReceipt, Doing, TypeOK, Row
<1>6. UNCHANGED row \/ Insert \/ SetOpen \/ Project \/ BindReceipt
  BY DEF Next, Step, vars, Start, Recover, Cancel, Refresh, Resume, InsertFails, Renew,
         LaunchHeard, LaunchLost, LaunchRefused, LaunchVanished, StopHeard, StopLost, StopRefused,
         Maintain, BeginTerminalization, TerminalizationRefused, WriteReceipt,
         CompleteTerminalization, Crash, HostRestart, Arrives, Ends, ForeignTakes,
         ForeignReleases, Expires, Adopt, AdoptionEnds, records
<1>. QED  BY <1>1, <1>2, <1>3, <1>4, <1>5, <1>6

LEMMA TermEffect ==
  ASSUME TypeOK, Stages, [Next]_vars, NEW t \in Task
  PROVE  \/ term'[t] = term[t]
         \/ term[t] # None /\ term'[t] # None /\ term'[t].verdict = term[t].verdict
         \/ /\ BeginTerminalization /\ op # None /\ op.task = t /\ term[t] = None
            /\ term'[t] # None /\ term'[t].verdict.attempt = op.attempt
<1>1. CASE BeginTerminalization
  <2>1. /\ op # None /\ op.task \in Task /\ op.attempt \in Attempt /\ op.state \in Terminal
        /\ term[op.task] = None
    BY <1>1, OpTypes DEF BeginTerminalization, Doing, Stages, Undecided
  <2>2. [phase |-> "leases_revoked",
         verdict |-> [state |-> op.state, attempt |-> op.attempt]] \in Transition
    BY <2>1 DEF Transition, Verdict
  <2>. QED  BY <1>1, <2>1, <2>2 DEF BeginTerminalization, TypeOK
<1>2. CASE CompleteTerminalization
  <2>1. op # None /\ op.task \in Task /\ term[op.task] # None
    BY <1>2, OpTypes DEF CompleteTerminalization, Doing, Stages, Projecting
  <2>2. [term[op.task] EXCEPT !.phase = "projected"] \in Transition
    BY <2>1, RecordTypes DEF Transition
  <2>3. [term[op.task] EXCEPT !.phase = "projected"].verdict = term[op.task].verdict
    BY <2>1, RecordTypes DEF Transition
  <2>. QED  BY <1>2, <2>1, <2>2, <2>3 DEF CompleteTerminalization, TypeOK
<1>3. UNCHANGED term \/ BeginTerminalization \/ CompleteTerminalization
  BY DEF Next, Step, vars, Start, Recover, Cancel, Refresh, Resume, Insert, InsertFails, Renew,
         LaunchHeard, LaunchLost, LaunchRefused, LaunchVanished, StopHeard, StopLost, StopRefused,
         Maintain, SetOpen, Project, TerminalizationRefused, WriteReceipt, BindReceipt,
         Crash, HostRestart, Arrives, Ends, ForeignTakes,
         ForeignReleases, Expires, Adopt, AdoptionEnds, records
<1>. QED  BY <1>1, <1>2, <1>3

-----------------------------------------------------------------------------
(***************************************************************************)
(* Attempts.                                                               *)
(***************************************************************************)
Launching == LaunchHeard \/ LaunchLost

LEMMA LaunchFacts ==
  ASSUME TypeOK, Stages, Target, Launching
  PROVE  /\ op # None /\ op.step = "launch" /\ op.task \in Task /\ op.attempt \in Attempt
         /\ term[op.task] = None /\ row[op.task].state # "none"
         /\ Aims(op.task, op.attempt)
         /\ op.attempt = row[op.task].attempt => Untouched(op.task)
         /\ UNCHANGED <<row, term, lease, adopted>>
  BY OpTypes DEF Launching, LaunchHeard, LaunchLost, Doing, Stages, Undecided, Target, records

LEMMA UnbornStep ==
  ASSUME Base, Attempts, [Next]_vars
  PROVE  Unborn'
<1>. USE DEF Base, Attempts
<1>1. ASSUME NEW t \in Task, row'[t].state = "none"
      PROVE  row'[t].attempt = 1 /\ \A n \in Attempt : unit'[t][n] = "never"
  <2>1. row[t].state = "none" /\ row'[t].attempt = row[t].attempt
    BY <1>1, RowEffect
  <2>2. \A n \in Attempt : unit[t][n] = "never"
    BY <2>1 DEF Unborn, Untouched
  <2>3. ~(op # None /\ op.task = t /\ Launching)
    BY <2>1, LaunchFacts
  <2>4. \A n \in Attempt : unit'[t][n] = "never"
    BY <2>2, <2>3, UnitEffect DEF Launching
  <2>. QED  BY <2>1, <2>4 DEF Unborn
<1>. QED  BY <1>1 DEF Unborn, Untouched

\* A unit that is over stays over unless it is launched.
LEMMA QuietKept ==
  ASSUME TypeOK, [Next]_vars, NEW t \in Task, NEW n \in Attempt, unit[t][n] \in Quiet,
         ~(Launching /\ op # None /\ op.task = t /\ op.attempt = n)
  PROVE  unit'[t][n] \in Quiet
  BY UnitEffect DEF Quiet, Launching

LEMMA NeverKept ==
  ASSUME TypeOK, [Next]_vars, NEW t \in Task, NEW n \in Attempt, unit[t][n] = "never",
         ~(Launching /\ op # None /\ op.task = t /\ op.attempt = n)
  PROVE  unit'[t][n] = "never"
  BY UnitEffect DEF Launching

\* The recorded attempt is the one it was, or the next after the recorded one is
\* over.
LEMMA AttemptEffect ==
  ASSUME Base, Attempts, [Next]_vars, NEW t \in Task
  PROVE  /\ row[t].attempt \in Attempt /\ row'[t].attempt \in Attempt
         /\ \/ row'[t].attempt = row[t].attempt
            \/ /\ row'[t].attempt = row[t].attempt + 1
               /\ unit[t][row[t].attempt] \in Quiet
               /\ SetOpen \/ Project
<1>. USE DEF Base, Attempts
<1>0. row[t].attempt \in Attempt /\ row'[t].attempt \in Attempt
  BY RecordTypes, TypeStep DEF TypeOK, Row
<1>1. CASE SetOpen /\ op # None /\ op.task = t /\ row'[t].attempt = op.attempt
  BY <1>0, <1>1 DEF SetOpen, Doing, Target, Undecided, Aims
<1>2. CASE Project /\ term[t] # None /\ row'[t].attempt = term[t].verdict.attempt
  BY <1>0, <1>2 DEF Decisions, Aims
<1>. QED  BY <1>0, <1>1, <1>2, RowEffect

LEMMA OrderStep ==
  ASSUME Base, Attempts, [Next]_vars
  PROVE  Order'
<1>. USE DEF Base, Attempts
<1>1. SUFFICES ASSUME NEW t \in Task, NEW n \in Attempt
               PROVE  /\ n < row'[t].attempt => unit'[t][n] \in Quiet
                      /\ n = row'[t].attempt + 1 =>
                            unit'[t][n] \in Quiet \/ unit'[t][row'[t].attempt] \in Quiet
                      /\ n > row'[t].attempt + 1 => unit'[t][n] = "never"
  BY DEF Order
<1>2. PICK a \in Attempt : a = row[t].attempt
  BY AttemptEffect
<1>3. PICK b \in Attempt : b = row'[t].attempt
  BY AttemptEffect
<1>o. \A m \in Attempt :
        /\ m < a => unit[t][m] \in Quiet
        /\ m = a + 1 => unit[t][m] \in Quiet \/ unit[t][a] \in Quiet
        /\ m > a + 1 => unit[t][m] = "never"
  BY <1>2 DEF Order
<1>4. CASE Launching /\ op # None /\ op.task = t
  <2>1. b = a /\ op.attempt \in Attempt
    BY <1>2, <1>3, <1>4, LaunchFacts
  <2>2. \/ op.attempt = a /\ \A m \in Attempt : unit[t][m] = "never"
        \/ op.attempt = a + 1 /\ unit[t][a] \in Quiet
    BY <1>2, <1>4, LaunchFacts DEF Aims, Untouched
  <2>3. \A m \in Attempt : m # op.attempt =>
          /\ unit[t][m] \in Quiet => unit'[t][m] \in Quiet
          /\ unit[t][m] = "never" => unit'[t][m] = "never"
    BY QuietKept, NeverKept
  <2>4. CASE op.attempt = a /\ \A m \in Attempt : unit[t][m] = "never"
    BY <1>3, <2>1, <2>3, <2>4 DEF Attempt, Quiet
  <2>5. CASE op.attempt = a + 1 /\ unit[t][a] \in Quiet
    BY <1>3, <1>o, <2>1, <2>3, <2>5 DEF Attempt
  <2>. QED  BY <2>2, <2>4, <2>5
<1>5. CASE ~(Launching /\ op # None /\ op.task = t)
  <2>1. \A m \in Attempt :
          /\ unit[t][m] \in Quiet => unit'[t][m] \in Quiet
          /\ unit[t][m] = "never" => unit'[t][m] = "never"
    BY <1>5, QuietKept, NeverKept
  <2>2. CASE b = a
    BY <1>3, <1>o, <2>1, <2>2
  <2>3. CASE b = a + 1 /\ unit[t][a] \in Quiet
    BY <1>3, <1>o, <2>1, <2>3 DEF Attempt, Quiet
  <2>. QED  BY <1>2, <1>3, <2>2, <2>3, AttemptEffect
<1>. QED  BY <1>4, <1>5

LEMMA AimsKept ==
  ASSUME TypeOK, [Next]_vars, NEW t \in Task, NEW n, Aims(t, n),
         row'[t].attempt = row[t].attempt,
         ~(Launching /\ op # None /\ op.task = t /\ op.attempt = row[t].attempt)
  PROVE  Aims(t, n)'
<1>1. row[t].attempt \in Attempt
  BY RecordTypes
<1>2. unit[t][row[t].attempt] \in Quiet => unit'[t][row'[t].attempt] \in Quiet
  BY <1>1, QuietKept
<1>. QED  BY <1>2 DEF Aims

LEMMA DecisionsStep ==
  ASSUME Base, Attempts, [Next]_vars
  PROVE  Decisions'
<1>. USE DEF Base, Attempts
<1>1. SUFFICES ASSUME NEW t \in Task, term'[t] # None
               PROVE  Aims(t, term[t].verdict.attempt)'
  BY DEF Decisions
<1>2. CASE BeginTerminalization /\ op # None /\ op.task = t /\ term'[t].verdict.attempt = op.attempt
  <2>1. Aims(t, op.attempt) /\ UNCHANGED <<row, unit>>
    BY <1>2 DEF BeginTerminalization, Doing, Target, Undecided, world
  <2>. QED  BY <1>2, <2>1 DEF Aims
<1>3. CASE term[t] # None /\ term'[t].verdict = term[t].verdict
  <2>1. Aims(t, term[t].verdict.attempt)
    BY <1>3 DEF Decisions
  <2>2. ~(Launching /\ op # None /\ op.task = t)
    BY <1>3, LaunchFacts
  <2>3. CASE row'[t].attempt = row[t].attempt
    BY <1>3, <2>1, <2>2, <2>3, AimsKept DEF Aims
  <2>4. CASE SetOpen /\ op # None /\ op.task = t
    BY <1>3, <2>4 DEF SetOpen, Doing, Stages, Undecided
  <2>5. CASE row'[t].attempt = term[t].verdict.attempt
    BY <1>3, <2>5 DEF Aims
  <2>. QED  BY <2>3, <2>4, <2>5, RowEffect
<1>. QED  BY <1>1, <1>2, <1>3, TermEffect

\* What an operation that goes on does to its target.
LEMMA SameTarget ==
  ASSUME Base, Attempts, [Next]_vars, op # None, op' # None,
         op'.task = op.task, op'.attempt = op.attempt,
         op.step \in Undecided \cup {"stop"},
         row'[op.task].attempt = row[op.task].attempt,
         ~Launching,
         op'.step \in {"insert", "launch"} =>
            op.step \in {"insert", "launch", "renew"},
         op'.step = "renew" => op.step = "renew"
  PROVE  Target'
<1>. USE DEF Base, Attempts
<1>1. op.task \in Task
  BY OpTypes
<1>2. Aims(op.task, op.attempt)'
  BY <1>1, AimsKept DEF Target, Aims
<1>3. Untouched(op.task) => Untouched(op.task)'
  BY <1>1, NeverKept DEF Untouched
<1>. QED  BY <1>1, <1>2, <1>3 DEF Target, Aims, Untouched

\* How the operation under way goes on.
LEMMA OpEffect ==
  ASSUME [Next]_vars
  PROVE  \/ op' = None \/ UNCHANGED op
         \/ \E t \in Task : Start(t) \/ Recover(t) \/ Cancel(t)
         \/ \E t \in Task, s \in State : Refresh(t, s) \/ Resume(t, s)
         \/ /\ op # None
            /\ \/ Insert \/ Launching \/ Renew \/ LaunchRefused \/ LaunchVanished
               \/ StopHeard \/ StopRefused \/ StopLost \/ Maintain \/ SetOpen
               \/ BeginTerminalization \/ Project \/ WriteReceipt \/ BindReceipt
  BY DEF Next, Step, vars, Launching, Insert, InsertFails, Renew, LaunchHeard, LaunchLost,
         LaunchRefused, LaunchVanished, StopHeard, StopLost, StopRefused, Maintain, SetOpen,
         BeginTerminalization, Project, TerminalizationRefused, WriteReceipt, BindReceipt,
         CompleteTerminalization, Crash, HostRestart, Arrives, Ends, ForeignTakes,
         ForeignReleases, Expires, Adopt, AdoptionEnds, Doing, Done

LEMMA TargetStep ==
  ASSUME Base, Attempts, [Next]_vars
  PROVE  Target'
<1>. USE DEF Base, Attempts
<1>1. CASE op' = None
  BY <1>1 DEF Target
<1>2. ASSUME NEW t \in Task, Start(t)
      PROVE  Target'
  <2>1. row[t].state = "none" /\ row[t].attempt = 1 /\ Untouched(t)
    BY <1>2 DEF Start, Stages, Unborn
  <2>. QED
    BY <1>2, <2>1 DEF Start, Begin, Target, Aims, Untouched, records, world
<1>3. ASSUME NEW t \in Task, Recover(t) \/ Cancel(t)
      PROVE  Target'
  <2>1. UNCHANGED <<row, unit>>
    BY <1>3 DEF Recover, Cancel, records, world
  <2>2. \/ op'.step = "project"
        \/ op'.step = "stop" /\ op'.task = t /\ op'.attempt = row[t].attempt
    BY <1>3 DEF Recover, Cancel, Begin
  <2>. QED  BY <2>1, <2>2 DEF Target, Aims, Undecided
<1>4. ASSUME NEW t \in Task, NEW s \in State, Refresh(t, s) \/ Resume(t, s)
      PROVE  Target'
  <2>1. row[t].attempt \in Attempt
    BY RecordTypes
  <2>2. s = "failed" /\ s \in Observed(t) => unit[t][row[t].attempt] \in Quiet
    BY DEF Observed, Shows, Quiet
  <2>3. UNCHANGED <<row, unit>>
    BY <1>4 DEF Refresh, Resume, records, world
  <2>4. \/ op' = [kind |-> "resume", task |-> t, step |-> "renew",
                  attempt |-> row[t].attempt + 1, state |-> "launching"]
           /\ unit[t][row[t].attempt] \in Quiet
        \/ \E p \in {"maintain", "set"} :
              op' = [kind |-> "refresh", task |-> t, step |-> p,
                     attempt |-> row[t].attempt, state |-> s]
    BY <1>4, <2>2 DEF Refresh, Resume, MayRetry, Begin
  <2>. QED  BY <2>1, <2>3, <2>4 DEF Target, Aims, Attempt
<1>5. CASE op # None /\ Insert
  <2>1. /\ op.task \in Task /\ op.step = "insert" /\ op' = [op EXCEPT !.step = "launch"]
        /\ op \in Op /\ row[op.task].state = "none"
    BY <1>5, OpTypes DEF Insert, Doing, Then, Stages
  <2>2. op'.task = op.task /\ op'.attempt = op.attempt /\ op'.step = "launch" /\ op' # None
    BY <2>1 DEF Op
  <2>3. row'[op.task].attempt = row[op.task].attempt
    BY <1>5, <2>1, RecordTypes DEF Insert, TypeOK, Row
  <2>4. ~Launching
    BY <2>1 DEF Launching, LaunchHeard, LaunchLost, Doing
  <2>. QED  BY <1>5, <2>1, <2>2, <2>3, <2>4, SameTarget DEF Undecided
<1>6. CASE op # None /\ Launching
  <2>1. op.task \in Task /\ op.attempt \in Attempt /\ Aims(op.task, op.attempt)
        /\ row[op.task].attempt \in Attempt /\ UNCHANGED row
    BY <1>6, LaunchFacts, RecordTypes
  <2>2. \E s \in State : op' = [op EXCEPT !.step = "set", !.state = s]
    BY <1>6 DEF Launching, LaunchHeard, LaunchLost, ThenAs, Unanswered, State, Terminal
  <2>3. op'.task = op.task /\ op'.attempt = op.attempt /\ op'.step = "set"
    BY <1>6, <2>2, OpTypes DEF Op
  <2>4. op.attempt # row[op.task].attempt =>
           unit[op.task][row[op.task].attempt] \in Quiet
           /\ unit'[op.task][row[op.task].attempt] \in Quiet
    BY <2>1, QuietKept DEF Aims
  <2>5. Aims(op.task, op.attempt)'
    BY <2>1, <2>4, <2>3 DEF Aims
  <2>. QED  BY <2>3, <2>5 DEF Target, Aims
<1>7. CASE /\ op # None /\ op' # None /\ ~Launching
           /\ \/ Renew \/ LaunchRefused \/ LaunchVanished
              \/ StopHeard \/ StopRefused \/ StopLost \/ Maintain
  <2>1. /\ op \in Op /\ op.task \in Task /\ op.step \in Undecided \cup {"stop"}
        /\ op.step # "insert" /\ UNCHANGED row
    BY <1>7, OpTypes
    DEF Renew, LaunchRefused, LaunchVanished, StopHeard, StopRefused, StopLost, Maintain, Doing,
        Undecided, records
  <2>2. op'.task = op.task /\ op'.attempt = op.attempt
        /\ op'.step \in {"launch", "set", "maintain"}
        /\ (op'.step = "launch" => op.step = "renew")
    BY <1>7, <2>1
    DEF Renew, LaunchRefused, LaunchVanished, StopHeard, StopRefused, StopLost, Maintain, Doing,
        AfterStop, Then, ThenAs, Done, Op
  <2>. QED  BY <1>7, <2>1, <2>2, SameTarget
<1>8. CASE op # None /\ op' # None /\ SetOpen
  <2>1. op.task \in Task /\ op \in Op /\ row'[op.task].attempt = op.attempt
    BY <1>8, OpTypes, RecordTypes DEF SetOpen, TypeOK, Row
  <2>2. op'.task = op.task /\ op'.attempt = op.attempt /\ op'.step = "maintain"
    BY <1>8, <2>1 DEF SetOpen, Then, Done, Op
  <2>. QED  BY <2>1, <2>2 DEF Target, Aims
<1>9. CASE /\ op # None /\ op' # None
           /\ BeginTerminalization \/ Project \/ WriteReceipt \/ BindReceipt
  <2>1. op \in Op
    BY <1>9, OpTypes
  <2>2. op'.step \in {"project", "receipt", "bind", "complete"}
    BY <1>9, <2>1 DEF BeginTerminalization, Project, WriteReceipt, BindReceipt, Then, Op
  <2>. QED  BY <2>2 DEF Target, Undecided
<1>10. CASE UNCHANGED op /\ op # None
  <2>1. op.task \in Task
    BY <1>10, OpTypes
  <2>2. ~Launching /\ ~SetOpen /\ ~Project /\ ~Insert
    BY <1>10, OpTypes DEF Launching, LaunchHeard, LaunchLost, SetOpen, Project, Insert,
                Then, ThenAs, Done, Doing, Op
  <2>3. row'[op.task].attempt = row[op.task].attempt
    BY <2>1, <2>2, RowEffect
  <2>4. CASE op.step \in Undecided \cup {"stop"}
    BY <1>10, <2>2, <2>3, <2>4, SameTarget
  <2>5. CASE op.step \notin Undecided \cup {"stop"}
    BY <1>10, <2>5 DEF Target, Undecided
  <2>. QED  BY <2>4, <2>5
<1>11. CASE UNCHANGED op /\ op = None
  BY <1>11 DEF Target
<1>. QED
  BY <1>1, <1>2, <1>3, <1>4, <1>5, <1>6, <1>7, <1>8, <1>9, <1>10, <1>11, OpEffect

-----------------------------------------------------------------------------
(***************************************************************************)
(* What was heard of.                                                      *)
(***************************************************************************)
\* A unit is heard of when an observation shows it, and in no other way.
LEMMA UnheardEffect ==
  ASSUME TypeOK, [Next]_vars, NEW t \in Task, NEW n \in Attempt,
         <<t, n>> \in unheard, <<t, n>> \notin unheard'
  PROVE  /\ op = None /\ n = row[t].attempt /\ term[t] = None
         /\ unit[t][n] \in Running
         /\ UNCHANGED <<unit, row, term>>
<1>1. PICK u \in Task, s \in State : Refresh(u, s)
  BY DEF Next, Step, vars, Start, Recover, Cancel, Resume, Insert, InsertFails, Renew,
         LaunchHeard, LaunchLost, LaunchRefused, LaunchVanished, StopHeard, StopLost, StopRefused,
         Maintain, SetOpen, BeginTerminalization, Project, TerminalizationRefused, WriteReceipt,
         BindReceipt, CompleteTerminalization, Crash, HostRestart, Arrives, Ends, ForeignTakes,
         ForeignReleases, Expires, Adopt, AdoptionEnds, world
<1>2. s = "running" /\ u = t /\ n = row[t].attempt
  BY <1>1 DEF Refresh
<1>. QED  BY <1>1, <1>2 DEF Refresh, Begin, Open, Observed, Shows, records

LEMMA SentStep ==
  ASSUME Base, Attempts, Hearing, [Next]_vars
  PROVE  Sent'
<1>. USE DEF Base, Attempts, Hearing
<1>1. SUFFICES ASSUME NEW t \in Task, NEW n \in Attempt, unit'[t][n] = "starting"
               PROVE  <<t, n>> \in unheard'
  BY DEF Sent
<1>2. CASE unit[t][n] = "starting"
  BY <1>2, UnheardEffect DEF Sent, Running
<1>3. CASE Launching /\ op # None /\ op.task = t /\ op.attempt = n
  <2>1. \A u \in UnitStatus : Place(t, n, u) => unit'[t][n] = u
    BY DEF Place, TypeOK
  <2>. QED
    BY <1>1, <1>3, <2>1, States DEF Launching, LaunchHeard, LaunchLost
<1>. QED  BY <1>1, <1>2, <1>3, UnitEffect DEF Launching

\* How a unit comes to run and to be heard of.
LEMMA HeardEffect ==
  ASSUME TypeOK, Sent, [Next]_vars, NEW t \in Task, NEW n \in Attempt, Heard(t, n)'
  PROVE  \/ Heard(t, n)
         \/ /\ op = None /\ n = row[t].attempt /\ term[t] = None
            /\ unit[t][n] \in Running /\ UNCHANGED <<unit, row, term>>
         \/ Launching /\ op # None /\ op.task = t /\ op.attempt = n
<1>1. unit'[t][n] \in Running /\ <<t, n>> \notin unheard'
  BY DEF Heard
<1>2. CASE unit[t][n] = "starting"
  BY <1>1, <1>2, UnheardEffect DEF Sent, Running
<1>3. CASE unit[t][n] \in Running
  BY <1>1, <1>3, UnheardEffect DEF Heard
<1>. QED  BY <1>1, <1>2, <1>3, UnitEffect DEF Launching, Running

LEMMA KnownStep ==
  ASSUME Base, Attempts, Hearing, [Next]_vars
  PROVE  Known'
<1>. USE DEF Base, Attempts, Hearing
<1>1. SUFFICES ASSUME NEW t \in Task, NEW n \in Attempt, Heard(t, n)'
               PROVE  /\ term'[t] = None
                      /\ \/ n = row'[t].attempt
                         \/ op' # None /\ op'.step = "set" /\ op'.task = t /\ op'.attempt = n
  BY DEF Known, Doing
<1>2. CASE Launching /\ op # None /\ op.task = t /\ op.attempt = n
  <2>1. term[t] = None /\ UNCHANGED term /\ op \in Op
    BY <1>2, LaunchFacts, OpTypes
  <2>2. \E s \in State : op' = [op EXCEPT !.step = "set", !.state = s]
    BY <1>2 DEF Launching, LaunchHeard, LaunchLost, ThenAs, Unanswered, State, Terminal
  <2>3. op' \in Op /\ op'.step = "set" /\ op'.task = t /\ op'.attempt = n
    BY <1>2, <2>1, <2>2 DEF Op
  <2>. QED  BY <2>1, <2>3
<1>3. CASE Heard(t, n)
  <2>1. /\ term[t] = None
        /\ unit[t][n] \in Running
        /\ \/ n = row[t].attempt
           \/ op # None /\ op.step = "set" /\ op.task = t /\ op.attempt = n
    BY <1>3 DEF Known, Doing, Heard
  <2>2. ASSUME op # None, op.task = t, op.step = "set", n = row[t].attempt
        PROVE  op.attempt = n
    <3>1. unit[t][row[t].attempt] \notin Quiet
      BY <2>1, <2>2 DEF Quiet, Running
    <3>. QED  BY <2>2, <3>1 DEF Target, Undecided, Aims
  <2>3. ASSUME op # None, op.task = t, op.step = "set", op.state \in Terminal
        PROVE  FALSE
    <3>1. op.attempt = n
      BY <2>1, <2>2, <2>3
    <3>. QED  BY <1>3, <2>3, <3>1 DEF Observant
  <2>4. term'[t] = None
    <3>1. ~(BeginTerminalization /\ op # None /\ op.task = t)
      BY <2>3 DEF BeginTerminalization, Doing
    <3>. QED  BY <2>1, <3>1, TermEffect
  <2>5. CASE SetOpen /\ op # None /\ op.task = t /\ row'[t].attempt = op.attempt
    BY <2>1, <2>2, <2>4, <2>5 DEF SetOpen, Doing
  <2>6. CASE row'[t].attempt = row[t].attempt
    <3>1. CASE n = row[t].attempt
      BY <2>4, <2>6, <3>1
    <3>2. CASE n # row[t].attempt /\ op # None /\ op.step = "set" /\ op.task = t /\ op.attempt = n
      <4>1. ~Crash
        <5>1. Crash => <<t, n>> \in unheard'
          BY <3>2 DEF Crash
        <5>. QED  BY <5>1, <1>1 DEF Heard
      <4>2. ~TerminalizationRefused /\ ~BeginTerminalization
        BY <2>3, <3>2 DEF TerminalizationRefused, BeginTerminalization
      <4>3. ~SetOpen
        <5>1. SetOpen => row'[t].attempt = op.attempt
          BY <3>2, OpTypes, RecordTypes DEF SetOpen, TypeOK, Row
        <5>. QED  BY <5>1, <2>6, <3>2
      <4>4. UNCHANGED op
        BY <3>2, <4>1, <4>2, <4>3
        DEF Next, Step, vars, Start, Recover, Cancel, Refresh, Resume, Begin, Insert, InsertFails,
            Renew, LaunchHeard, LaunchLost, LaunchRefused, LaunchVanished, StopHeard, StopLost,
            StopRefused, Maintain, Project, WriteReceipt, BindReceipt, CompleteTerminalization,
            HostRestart, Arrives, Ends, ForeignTakes, ForeignReleases, Expires, Adopt,
            AdoptionEnds, Doing
      <4>. QED  BY <2>4, <3>2, <4>4
    <3>. QED  BY <2>1, <3>1, <3>2
  <2>7. CASE Project /\ term[t] # None
    BY <2>1, <2>7
  <2>8. CASE Insert /\ row'[t].attempt = row[t].attempt
    BY <2>6, <2>8
  <2>. QED  BY <2>5, <2>6, <2>7, <2>8, RowEffect
<1>. QED  BY <1>1, <1>2, <1>3, HeardEffect

LEMMA ObservantStep ==
  ASSUME Base, Attempts, Hearing, [Next]_vars
  PROVE  Observant'
<1>. USE DEF Base, Attempts, Hearing
<1>0. op' # None => op' \in Op /\ op'.task \in Task /\ op'.attempt \in Attempt
  BY TypeStep DEF TypeOK, Op
<1>1. SUFFICES ASSUME op' # None, op'.step \in {"maintain", "set"}, op'.state \in Terminal,
                      NEW v \in Task, op'.task = v, NEW n \in Attempt, op'.attempt = n,
                      unit'[v][n] \in Running, <<v, n>> \notin unheard'
               PROVE  FALSE
  BY <1>0 DEF Observant, Heard
<1>h. \/ Heard(v, n)
      \/ op = None
      \/ Launching /\ op # None
  BY <1>1, HeardEffect DEF Heard
<1>2. ASSUME NEW t \in Task, Start(t) \/ Recover(t) \/ Cancel(t)
      PROVE  FALSE
  BY <1>1, <1>2 DEF Start, Recover, Cancel, Begin
<1>3. ASSUME NEW t \in Task, NEW s \in State, Refresh(t, s) \/ Resume(t, s)
      PROVE  FALSE
  <2>1. op'.task = t /\ op'.attempt = row[t].attempt /\ op'.state = s /\ s \in Observed(t)
        /\ UNCHANGED unit
    BY <1>1, <1>3 DEF Refresh, Resume, Begin, world
  <2>2. unit'[t][row[t].attempt] \notin Running
    BY <1>1, <2>1 DEF Observed, Shows, Terminal
  <2>. QED  BY <1>1, <2>1, <2>2 DEF Heard, Refresh, Resume
<1>4. CASE op # None /\ Launching
  <2>1. op \in Op /\ op.task \in Task /\ op.attempt \in Attempt
    BY <1>4, OpTypes
  <2>2. CASE LaunchHeard
    BY <1>1, <2>1, <2>2 DEF LaunchHeard, ThenAs, Op, Terminal
  <2>3. CASE LaunchLost
    <3>1. op'.state = Unanswered(op.task) /\ op'.task = op.task /\ op'.attempt = op.attempt
      BY <2>1, <2>3 DEF LaunchLost, ThenAs, Op
    <3>2. op.task \notin root
      BY <1>1, <3>1 DEF Unanswered, Terminal
    <3>3. <<op.task, op.attempt>> \in unheard'
      BY <2>3, <3>2 DEF LaunchLost
    <3>. QED  BY <1>1, <3>1, <3>3 DEF Heard
  <2>. QED  BY <1>4, <2>2, <2>3 DEF Launching
<1>5. CASE op # None /\ LaunchRefused
  <2>1. op.step = "launch" /\ op.task = v /\ op.attempt = n
    BY <1>1, <1>5, OpTypes DEF LaunchRefused, Doing, ThenAs, Op
  <2>2. unit[v][n] \in Running /\ Heard(v, n)
    BY <1>1, <1>5 DEF Heard, LaunchRefused, world
  <2>3. n = row[v].attempt
    BY <2>1, <2>2 DEF Known, Doing
  <2>4. Untouched(v)
    BY <1>5, <2>1, <2>3 DEF Target
  <2>. QED  BY <2>2, <2>4 DEF Untouched, Running
<1>6. CASE op # None /\ LaunchVanished
  BY <1>1, <1>6, OpTypes DEF LaunchVanished, ThenAs, Op, Terminal
<1>7. CASE op # None /\ (StopHeard \/ StopRefused \/ StopLost)
  <2>1. op \in Op /\ op.task \in Task /\ op.attempt \in Attempt /\ term[op.task] = None
    BY <1>1, <1>7, OpTypes DEF StopHeard, StopRefused, StopLost, AfterStop, Done
  <2>2. row[op.task].state \notin Terminal
    BY <2>1 DEF ReceiptChain
  <2>3. CASE StopHeard
    <3>1. op'.task = op.task /\ op'.attempt = op.attempt
      BY <2>1, <2>3 DEF StopHeard, AfterStop, ThenAs, Op
    <3>2. unit'[op.task][op.attempt] \notin Running
      BY <2>1, <2>3 DEF StopHeard, Place, TypeOK, Running, Loaded
    <3>. QED  BY <1>1, <3>1, <3>2 DEF Heard
  <2>4. CASE StopRefused \/ StopLost
    <3>1. op'.state \in {row[op.task].state, "outcome_unknown"}
      BY <2>1, <2>4 DEF StopRefused, StopLost, AfterStop, ThenAs, Op
    <3>. QED  BY <1>1, <2>2, <3>1 DEF Terminal
  <2>. QED  BY <1>7, <2>3, <2>4
<1>8. CASE op # None /\ Maintain
  <2>1. op \in Op /\ op.step = "maintain" /\ op' = [op EXCEPT !.step = "set"]
        /\ UNCHANGED <<unit, unheard>>
    BY <1>1, <1>8, OpTypes DEF Maintain, Doing, Then, Done, world
  <2>2. op'.task = op.task /\ op'.attempt = op.attempt /\ op'.state = op.state
    BY <2>1 DEF Op
  <2>. QED  BY <1>1, <1>8, <2>1, <2>2 DEF Heard, Observant
<1>9. CASE op # None /\ SetOpen
  BY <1>1, <1>9, OpTypes DEF SetOpen, Then, Done, Op
<1>10. CASE /\ op # None
            /\ \/ Insert \/ Renew \/ BeginTerminalization \/ Project \/ WriteReceipt \/ BindReceipt
  <2>1. op \in Op
    BY <1>10, OpTypes
  <2>2. op' = None \/ op'.step \in {"launch", "project", "receipt", "bind", "complete"}
    BY <1>10, <2>1
    DEF Insert, Renew, BeginTerminalization, Project, WriteReceipt, BindReceipt, Then, Done, Op
  <2>. QED  BY <1>1, <2>2
<1>11. CASE UNCHANGED op
  <2>1. op # None /\ op.task = v /\ op.attempt = n
    BY <1>1, <1>11
  <2>2. CASE Heard(v, n)
    BY <1>1, <1>11, <2>1, <2>2 DEF Observant
  <2>3. CASE Launching
    BY <1>4, <2>1, <2>3
  <2>. QED  BY <1>h, <2>1, <2>2, <2>3
<1>. QED
  BY <1>1, <1>2, <1>3, <1>4, <1>5, <1>6, <1>7, <1>8, <1>9, <1>10, <1>11, OpEffect

-----------------------------------------------------------------------------
(***************************************************************************)
(* Leases.                                                                 *)
(***************************************************************************)
LEMMA LiveRow ==
  ASSUME NEW t \in Task
  PROVE  [owner |-> t, live |-> TRUE] # None
<1>1. [owner |-> t, live |-> TRUE] \in Lease
  BY DEF Lease
<1>. QED  BY <1>1

\* What a task is granted takes nothing from a task that holds all it needs.
LEMMA GrantKeeps ==
  ASSUME NEW t \in Task, NEW u \in Task, AllHeld(t), MayAcquire(u), lease' = Granted(u)
  PROVE  AllHeld(t)'
<1>1. SUFFICES ASSUME NEW k \in KeysOf[t] PROVE Held(t, k)'
  BY DEF AllHeld
<1>2. k \in Key /\ lease[k] # None /\ lease[k].owner = t /\ lease[k].live
  BY DEF AllHeld, Held, Owned
<1>3. [owner |-> u, live |-> TRUE] # None
  BY LiveRow
<1>4. CASE k \in KeysOf[u]
  BY <1>2, <1>3, <1>4 DEF MayAcquire, Free, Granted, Held, Owned
<1>5. CASE k \notin KeysOf[u]
  BY <1>2, <1>5 DEF Granted, Held, Owned
<1>. QED  BY <1>4, <1>5

LEMMA GrantHolds ==
  ASSUME NEW t \in Task, lease' = Granted(t)
  PROVE  AllHeld(t)'
<1>1. [owner |-> t, live |-> TRUE] # None
  BY LiveRow
<1>. QED  BY <1>1 DEF Granted, AllHeld, Held, Owned

LEMMA LeaseEffect ==
  ASSUME Base, [Next]_vars, NEW t \in Task, AllHeld(t)
  PROVE  \/ AllHeld(t)'
         \/ op # None /\ op.task = t /\ (InsertFails \/ BeginTerminalization)
         \/ ~Covered(t)
<1>. USE DEF Base
<1>0. \A k \in KeysOf[t] : k \in Key /\ lease[k] # None /\ lease[k].owner = t /\ lease[k].live
  BY DEF AllHeld, Held, Owned
<1>1. CASE UNCHANGED lease
  BY <1>1 DEF AllHeld, Held, Owned
<1>2. ASSUME NEW u \in Task, MayAcquire(u), lease' = Granted(u)
      PROVE  AllHeld(t)'
  BY <1>2, GrantKeeps
<1>3. CASE op # None /\ (InsertFails \/ BeginTerminalization)
  <2>1. lease' = WithoutOwner(op.task)
    BY <1>3 DEF InsertFails, BeginTerminalization
  <2>2. CASE op.task # t
    BY <1>0, <2>1, <2>2 DEF WithoutOwner, AllHeld, Held, Owned
  <2>. QED  BY <1>3, <2>2
<1>4. ASSUME NEW k \in Key, ForeignTakes(k) \/ ForeignReleases(k)
      PROVE  AllHeld(t)'
  <2>1. k \notin KeysOf[t]
    BY <1>0, <1>4 DEF ForeignTakes, ForeignReleases, Owned
  <2>2. \A l \in KeysOf[t] : lease'[l] = lease[l]
    BY <1>0, <1>4, <2>1 DEF ForeignTakes, ForeignReleases, TypeOK
  <2>. QED  BY <1>0, <2>2 DEF AllHeld, Held, Owned
<1>5. ASSUME NEW k \in Key, Expires(k)
      PROVE  AllHeld(t)' \/ ~Covered(t)
  <2>1. CASE k \in KeysOf[t]
    BY <1>0, <1>5, <2>1 DEF Expires, Owned
  <2>2. CASE k \notin KeysOf[t]
    <3>1. \A l \in KeysOf[t] : lease'[l] = lease[l]
      BY <1>0, <1>5, <2>2 DEF Expires, TypeOK
    <3>. QED  BY <1>0, <3>1 DEF AllHeld, Held, Owned
  <2>. QED  BY <2>1, <2>2
<1>6. \/ UNCHANGED lease
      \/ \E u \in Task : MayAcquire(u) /\ lease' = Granted(u)
      \/ op # None /\ (InsertFails \/ BeginTerminalization)
      \/ \E k \in Key : ForeignTakes(k) \/ ForeignReleases(k) \/ Expires(k)
  BY OpTypes
  DEF Next, Step, vars, Start, Recover, Cancel, Refresh, Resume, Insert, InsertFails, Renew, Kept,
      Reacquired, NotKept, Maintained, LaunchHeard, LaunchLost, LaunchRefused, LaunchVanished,
      StopHeard, StopLost, StopRefused, Maintain, SetOpen, BeginTerminalization, Project,
      TerminalizationRefused, WriteReceipt, BindReceipt, CompleteTerminalization, Crash,
      HostRestart, Arrives, Ends, Adopt, AdoptionEnds, Doing
<1>. QED  BY <1>1, <1>2, <1>3, <1>4, <1>5, <1>6

LEMMA LawfulStep ==
  ASSUME Base, Attempts, Holding, [Next]_vars
  PROVE  Lawful'
<1>. USE DEF Base, Attempts, Holding
<1>0. op' # None => op'.task \in Task
  BY TypeStep DEF TypeOK, Op
<1>1. SUFFICES ASSUME op' # None, op'.step \in {"insert", "launch"},
                      NEW v \in Task, op'.task = v
               PROVE  AllHeld(v)'
  BY <1>0 DEF Lawful, AllHeld, Held, Owned
<1>2. ASSUME NEW t \in Task, Start(t)
      PROVE  AllHeld(v)'
  <2>1. v = t /\ lease' = Granted(t)
    BY <1>1, <1>2 DEF Start, Begin
  <2>. QED  BY <2>1, GrantHolds
<1>3. ASSUME NEW t \in Task, Recover(t) \/ Cancel(t)
      PROVE  FALSE
  BY <1>1, <1>3 DEF Recover, Cancel, Begin
<1>4. ASSUME NEW t \in Task, NEW s \in State, Refresh(t, s) \/ Resume(t, s)
      PROVE  FALSE
  BY <1>1, <1>4 DEF Refresh, Resume, Begin
<1>5. CASE op # None /\ Insert
  <2>1. op.task = v /\ op.step = "insert" /\ UNCHANGED lease
    BY <1>1, <1>5, OpTypes DEF Insert, Doing, Then, Op
  <2>2. AllHeld(v)
    BY <1>5, <2>1 DEF Lawful
  <2>. QED  BY <2>1, <2>2 DEF AllHeld, Held, Owned
<1>6. CASE op # None /\ Renew
  <2>1. op.task = v
    BY <1>1, <1>6, OpTypes DEF Renew, Then, Done, Op
  <2>2. (AllHeld(v) /\ UNCHANGED lease) \/ lease' = Granted(v)
    BY <1>1, <1>6, <2>1 DEF Renew, Kept, Reacquired, Done
  <2>3. CASE AllHeld(v) /\ UNCHANGED lease
    BY <2>3 DEF AllHeld, Held, Owned
  <2>. QED  BY <2>2, <2>3, GrantHolds
<1>7. CASE UNCHANGED op /\ op # None
  <2>1. op.step \in {"insert", "launch"} /\ op.task = v
    BY <1>1, <1>7
  <2>2. AllHeld(v) /\ Covered(v)
    BY <1>7, <2>1 DEF Lawful, Covered
  <2>3. ~InsertFails /\ ~BeginTerminalization
    BY <1>7, <2>1 DEF InsertFails, BeginTerminalization, Done, Doing
  <2>. QED  BY <2>2, <2>3, LeaseEffect
<1>8. CASE /\ op # None
           /\ \/ Launching \/ LaunchRefused \/ LaunchVanished
              \/ StopHeard \/ StopRefused \/ StopLost \/ Maintain \/ SetOpen
              \/ BeginTerminalization \/ Project \/ WriteReceipt \/ BindReceipt
  <2>1. op \in Op
    BY <1>8, OpTypes
  <2>2. op' = None \/ op'.step \in {"set", "maintain", "project", "receipt", "bind", "complete"}
    BY <1>8, <2>1
    DEF Launching, LaunchHeard, LaunchLost, LaunchRefused, LaunchVanished, StopHeard, StopRefused,
        StopLost, AfterStop, Maintain, SetOpen, BeginTerminalization, Project, WriteReceipt,
        BindReceipt, Then, ThenAs, Done, Op
  <2>. QED  BY <1>1, <2>2
<1>. QED
  BY <1>1, <1>2, <1>3, <1>4, <1>5, <1>6, <1>7, <1>8, OpEffect

LEMMA RunsStep ==
  ASSUME Base, Attempts, Holding, [Next]_vars
  PROVE  RunsUnderLease'
<1>. USE DEF Base, Attempts, Holding
<1>1. SUFFICES ASSUME NEW t \in Task, NEW n \in Attempt, unit'[t][n] = "active", term'[t] = None
               PROVE  AllHeld(t)'
  BY DEF RunsUnderLease, AllHeld, Held, Owned
<1>2. CASE Launching /\ op # None /\ op.task = t
  BY <1>2, LaunchFacts DEF Lawful, AllHeld, Held, Owned
<1>3. CASE unit[t][n] = "active"
  <2>1. term[t] = None
    BY <1>1, TermEffect
  <2>2. AllHeld(t) /\ Covered(t)
    BY <1>3, <2>1 DEF RunsUnderLease, Covered
  <2>3. ~(BeginTerminalization /\ op # None /\ op.task = t)
    <3>1. BeginTerminalization /\ op # None /\ op.task = t =>
             term'[t] = [phase |-> "leases_revoked",
                         verdict |-> [state |-> op.state, attempt |-> op.attempt]]
      BY DEF BeginTerminalization, TypeOK
    <3>2. BeginTerminalization /\ op # None =>
             [phase |-> "leases_revoked",
              verdict |-> [state |-> op.state, attempt |-> op.attempt]] \in Transition
      BY OpTypes DEF BeginTerminalization, Transition, Verdict
    <3>. QED  BY <1>1, <3>1, <3>2
  <2>4. ~(InsertFails /\ op # None /\ op.task = t)
    BY <1>3 DEF InsertFails, Doing, Stages, Unborn, Untouched
  <2>. QED  BY <2>2, <2>3, <2>4, LeaseEffect
<1>. QED  BY <1>1, <1>2, <1>3, UnitEffect DEF Launching

LEMMA AdoptionStep ==
  ASSUME Base, Attempts, Holding, [Next]_vars
  PROVE  AdoptionHolds'
<1>. USE DEF Base, Attempts, Holding
<1>1. SUFFICES ASSUME NEW t, t \in adopted'
               PROVE  term'[t] = None /\ AllHeld(t)'
  BY DEF AdoptionHolds, AllHeld, Held, Owned
<1>2. CASE t \in adopted
  <2>1. t \in Task /\ term[t] = None /\ AllHeld(t) /\ Covered(t) /\ row[t].state # "none"
    BY <1>2 DEF AdoptionHolds, Covered, TypeOK, Stages
  <2>2. ~(BeginTerminalization /\ op # None /\ op.task = t)
    BY <1>2 DEF BeginTerminalization
  <2>3. ~(InsertFails /\ op # None /\ op.task = t)
    BY <2>1 DEF InsertFails, Doing, Stages
  <2>. QED  BY <2>1, <2>2, <2>3, LeaseEffect, TermEffect
<1>3. CASE t \notin adopted
  <2>1. Adopt(t) /\ t \in Task
    BY <1>1, <1>3
    DEF Next, Step, vars, Start, Recover, Cancel, Refresh, Resume, Insert, InsertFails, Renew,
        LaunchHeard, LaunchLost, LaunchRefused, LaunchVanished, StopHeard, StopLost, StopRefused,
        Maintain, SetOpen, BeginTerminalization, Project, TerminalizationRefused, WriteReceipt,
        BindReceipt, CompleteTerminalization, Crash, HostRestart, Arrives, Ends, ForeignTakes,
        ForeignReleases, Expires, Adopt, AdoptionEnds
  <2>. QED  BY <2>1 DEF Adopt, records, AllHeld, Held, Owned
<1>. QED  BY <1>2, <1>3

-----------------------------------------------------------------------------
LEMMA ExecutionInvariant == Spec => [](Base /\ Attempts /\ Hearing /\ Holding)
<1>1. Init => Base /\ Attempts /\ Hearing /\ Holding
  <2>1. Init => Base
    BY TypeInit DEF Init, Base, Stages, ReceiptChain, Terminal
  <2>2. Init => Attempts
    BY DEF Init, Attempts, Unborn, Untouched, Order, Quiet, Target, Decisions
  <2>3. Init => Hearing /\ Holding
    BY DEF Init, Hearing, Sent, Known, Heard, Observant, Holding, Lawful, RunsUnderLease,
           AdoptionHolds, Running
  <2>. QED  BY <2>1, <2>2, <2>3
<1>2. Base /\ Attempts /\ Hearing /\ Holding /\ [Next]_vars =>
         (Base /\ Attempts /\ Hearing /\ Holding)'
  <2>. SUFFICES ASSUME Base, Attempts, Hearing, Holding, [Next]_vars
                PROVE  (Base /\ Attempts /\ Hearing /\ Holding)'
    OBVIOUS
  <2>1. Base'
    BY TypeStep, StagesStep DEF Base
  <2>2. Attempts'
    BY UnbornStep, OrderStep, TargetStep, DecisionsStep DEF Attempts
  <2>3. Hearing'
    BY SentStep, KnownStep, ObservantStep DEF Hearing
  <2>4. Holding'
    BY LawfulStep, RunsStep, AdoptionStep DEF Holding
  <2>. QED  BY <2>1, <2>2, <2>3, <2>4
<1>. QED  BY <1>1, <1>2, PTL DEF Spec

\* Only a launch nobody heard of can be running under a decided task.
THEOREM RunningIsOpenHolds == Spec => []RunningIsOpen
<1>1. Hearing => RunningIsOpen
  BY DEF Hearing, Known, Heard, RunningIsOpen
<1>. QED  BY <1>1, ExecutionInvariant, PTL

\* A task runs once at a time, whatever crashed between a retry and its record.
THEOREM OneUnitHolds == Spec => []OneUnit
<1>1. Base /\ Attempts => OneUnit
  <2>1. SUFFICES ASSUME Base, Attempts, NEW t \in Task, NEW m \in Attempt, NEW n \in Attempt,
                        unit[t][m] \in Running, unit[t][n] \in Running
                 PROVE  m = n
    BY DEF OneUnit
  <2>2. PICK a \in Attempt : a = row[t].attempt
    BY <2>1, RecordTypes DEF Base
  <2>3. \A l \in {m, n} : l = a \/ l = a + 1
    BY <2>1, <2>2 DEF Attempts, Order, Quiet, Running, Attempt
  <2>4. ~(unit[t][a] \in Running /\ a + 1 \in Attempt /\ unit[t][a + 1] \in Running)
    BY <2>1, <2>2 DEF Attempts, Order, Quiet, Running
  <2>. QED  BY <2>1, <2>3, <2>4
<1>. QED  BY <1>1, ExecutionInvariant, PTL

\* What runs and has no verdict runs under all the leases it asked for.
THEOREM RunsUnderLeaseHolds == Spec => []RunsUnderLease
<1>1. Holding => RunsUnderLease
  BY DEF Holding
<1>. QED  BY <1>1, ExecutionInvariant, PTL

\* A borrowed authority lasts until it is let go.
THEOREM AdoptionLasts == Spec => []AdoptionHolds
<1>1. Holding => AdoptionHolds
  BY DEF Holding
<1>. QED  BY <1>1, ExecutionInvariant, PTL
=============================================================================
