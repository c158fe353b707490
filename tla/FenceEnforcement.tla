---------------------------- MODULE FenceEnforcement -----------------------------
(***************************************************************************)
(* The peers that mutate under the fence                                   *)
(* (src/src/grabowski_operator_fence_enforcement.py), the RPC between them *)
(* and the coordinator, and the coordinator's store (OperatorFence).       *)
(*                                                                         *)
(* A peer keeps one durable record: the highest generation it has seen and *)
(* at most one pending effect with its phase.  Every RPC is a step of its  *)
(* own, and so is every durable write; a peer may crash between any two    *)
(* steps.  A request may be lost, answered in vain, or executed after its  *)
(* caller has given up on it.                                              *)
(*                                                                         *)
(* A session id and an intent digest are fresh with every operation id, so *)
(* the operation stands for all three.  The coordinator's clock only moves *)
(* forward here (OperatorFence has the other case), so updated_at never    *)
(* denies anything and is instantiated by the clock; leases last one tick  *)
(* and time passes only while a lease is live, which is the only time it   *)
(* can be told from standing still.                                        *)
(***************************************************************************)
EXTENDS Integers, FiniteSets

CONSTANTS
    Peer,           \* the two operators
    MaxOps,         \* bound: operations per peer
    MaxGeneration,  \* bound: generations the store may issue
    MaxFaults,      \* bound: crashes, lost calls and interrupted acquires
    MaxLate,        \* bound: abandoned requests still on their way
    None

ASSUME EnforcementBounds ==
    /\ MaxOps \in Nat /\ MaxGeneration \in Nat
    /\ MaxFaults \in Nat /\ MaxLate \in Nat

Op == Peer \X (1..MaxOps)
Evidence == {"completion", "recovery", "reconciliation"}
Outcome == {"effect_applied", "effect_not_applied", "outcome_unknown"}

VARIABLES
    \* the coordinator
    clock, generation, writer, inflight, anchor,
    settlements, lastSettlement, events,
    \* the durable state of each peer
    pending,    \* the pending effect with its phase, or None
    minSeen,    \* minimum_generation_seen
    \* the running process of each peer
    mode,       \* what the holder of the local locks is doing; "idle": nobody
    call,       \* the RPC it waits for, or None
    used,       \* how many operations it has prepared
    \* the world
    effect,     \* what became of the domain effect of each operation
    late,       \* abandoned requests that may still be executed
    faults      \* faults spent

fenceVars == <<generation, writer, inflight, anchor, settlements, lastSettlement, events>>
peerVars == <<pending, minSeen, mode, call, used>>
worldVars == <<effect, late, faults>>
vars == <<clock, fenceVars, peerVars, worldVars>>

Store == INSTANCE OperatorFence WITH
    Owner <- Peer, Session <- Op, Intent <- Op, LeaseSeconds <- {1},
    MaxClock <- MaxGeneration, updatedAt <- clock

Phase == {"prepared", "granted", "begun", "dispatching",
          "completion_ready", "outcome_unknown", "settled"}

Pending ==
    [op : Op, phase : Phase, generation : Nat \cup {None},
     outcome : Outcome \cup {None}, evidence : Evidence \cup {None}]

Request ==
    [peer : Peer, kind : {"acquire", "begin", "settle", "release", "status"},
     op : Op, generation : Nat \cup {None}, outcome : Outcome \cup {None},
     evidence : Evidence \cup {None}, seen : Nat]

\* What status reports of the row and of the last settlement.
Snapshot ==
    [generation : Nat, writer : Peer \cup {None}, live : BOOLEAN,
     inflight : Op \cup {None}, last : Store!Settlement \cup {None}]

\* code: "ok", one of the two denials the peers tell apart, or another denial.
Reply ==
    [code : {"ok", "writer_active", "grant_expired", "denied"},
     status : Snapshot \cup {None}]

\* The RPC a peer waits for; a status call carries the reason it was made.
Reason == {"acquire", "begin", "settle", "release", "acquire denied",
           "begin expired", "release failed", "unknown outcome"}

Call == [reason : Reason, denial : {"none", "writer_active", "denied"},
         request : Request, reply : Reply \cup {None}]

Mode == {"idle", "beginning", "recovering", "token", "effect",
         "succeeded", "raised", "finishing", "aborting"}

\* NULL, on disk and on the wire, is not a value.
ASSUME NoneAssumption ==
    /\ None \notin Peer /\ None \notin Nat /\ None \notin Outcome
    /\ None \notin Pending /\ None \notin Call /\ None \notin Reply
    /\ None \notin Snapshot
    /\ None \notin Store!Writer /\ None \notin Store!Inflight
    /\ None \notin Store!Settlement

TypeOK ==
    /\ Store!TypeOK
    /\ pending \in [Peer -> Pending \cup {None}]
    /\ minSeen \in [Peer -> Nat]
    /\ mode \in [Peer -> Mode]
    /\ call \in [Peer -> Call \cup {None}]
    /\ used \in [Peer -> 0..MaxOps]
    /\ effect \in [Op -> {"none", "running", "applied", "failed"}]
    /\ late \subseteq Request
    /\ faults \in 0..MaxFaults

Init ==
    /\ clock = 0
    /\ generation = 0 /\ writer = None /\ inflight = None /\ anchor = 0
    /\ settlements = {} /\ lastSettlement = None /\ events = {}
    /\ pending = [p \in Peer |-> None]
    /\ minSeen = [p \in Peer |-> 0]
    /\ mode = [p \in Peer |-> "idle"]
    /\ call = [p \in Peer |-> None]
    /\ used = [p \in Peer |-> 0]
    /\ effect = [op \in Op |-> "none"]
    /\ late = {}
    /\ faults = 0
-----------------------------------------------------------------------------
(* The coordinator executes a request and answers it.                       *)

Answer(code) == [code |-> code, status |-> None]

\* Grants carry the generation, status reads carry the whole snapshot.
Observed ==
    [generation |-> generation,
     writer |-> IF writer = None THEN None ELSE writer.owner,
     live |-> Store!Live,
     inflight |-> IF inflight = None THEN None ELSE inflight.op,
     last |-> lastSettlement]

Granted(g) ==
    [code |-> "ok",
     status |-> [generation |-> g, writer |-> None, live |-> TRUE,
                 inflight |-> None, last |-> None]]

ExecAcquire(r, reply) ==
    \/ Store!AcquireNew(r.peer, r.op, 1, r.seen) /\ reply = Granted(generation + 1)
    \/ Store!AcquireAgain(r.peer, r.op, r.seen) /\ reply = Granted(generation)
    \/ /\ ~Store!MayGrant(r.seen) /\ ~Store!MayAcquireAgain(r.peer, r.op, r.seen)
       /\ reply = Answer(IF Store!WriterActive(r.peer, r.op, r.seen)
                         THEN "writer_active" ELSE "denied")
       /\ UNCHANGED fenceVars

ExecBegin(r, reply) ==
    LET who == r.peer
        g   == r.generation
    IN  \/ /\ \/ Store!BeginNew(who, r.op, g, r.op, r.op, r.seen)
              \/ Store!BeginAgain(who, r.op, g, r.op, r.op, r.seen)
           /\ reply = Answer("ok")
        \/ /\ Store!GrantExpired(who, r.op, g, r.op, r.op, r.seen)
           /\ reply = Answer("grant_expired")
           /\ UNCHANGED fenceVars
        \/ /\ ~Store!MayBeginAgain(who, r.op, g, r.op, r.op, r.seen)
           /\ \/ ~Store!MayBegin(who, r.op, g, r.op, r.op, r.seen)
              \/ inflight # None
           /\ reply = Answer("denied")
           /\ UNCHANGED fenceVars

ExecSettle(r, reply) ==
    LET who == r.peer
        g   == r.generation
        out == r.outcome
        ev  == r.evidence
        terminal == out \in Store!Terminal
    IN  \/ /\ reply = Answer("ok")
           /\ \/ terminal /\ Store!SettleTerminal(who, r.op, g, r.op, r.op, out, ev, r.seen)
              \/ terminal /\ Store!SettleAgain(who, r.op, r.op, r.op, out, ev, r.seen)
              \/ terminal /\ Store!SettleDisputed(who, r.op, r.op, r.op, out, ev, r.seen)
              \/ ~terminal /\ Store!SettleUnknown(who, r.op, g, r.op, r.op, ev, r.seen)
        \/ /\ ~Store!MaySettle(who, r.op, g, r.op, r.op, r.seen)
           /\ terminal => /\ ~Store!MaySettleAgain(who, r.op, r.op, r.op, out, ev, r.seen)
                          /\ ~Store!MayDispute(who, r.op, r.op, r.op, out, ev, r.seen)
           /\ reply = Answer("denied")
           /\ UNCHANGED fenceVars

ExecRelease(r, reply) ==
    \/ Store!Release(r.peer, r.op, r.generation, r.seen) /\ reply = Answer("ok")
    \/ /\ ~Store!MayRelease(r.peer, r.op, r.generation, r.seen)
       /\ reply = Answer("denied")
       /\ UNCHANGED fenceVars

ExecStatus(reply) ==
    reply = [code |-> "ok", status |-> Observed] /\ UNCHANGED fenceVars

\* Every request opens the store first, so it finds the anchor repaired.
Execute(r, reply) ==
    /\ anchor = generation
    /\ \/ r.kind = "acquire" /\ ExecAcquire(r, reply)
       \/ r.kind = "begin" /\ ExecBegin(r, reply)
       \/ r.kind = "settle" /\ ExecSettle(r, reply)
       \/ r.kind = "release" /\ ExecRelease(r, reply)
       \/ r.kind = "status" /\ ExecStatus(reply)

\* Everything the coordinator can answer to r in this state.
Replies ==
    {Answer(c) : c \in {"ok", "writer_active", "grant_expired", "denied"}}
      \cup {Granted(generation), Granted(generation + 1)}
      \cup {[code |-> "ok", status |-> Observed]}

Waiting(p) == call[p] # None /\ call[p].reply = None

Serve(p) ==
    /\ Waiting(p)
    /\ \E reply \in Replies :
          /\ Execute(call[p].request, reply)
          /\ call' = [call EXCEPT ![p].reply = reply]
    /\ UNCHANGED <<clock, pending, minSeen, mode, used, worldVars>>

\* A request whose caller has given up arrives after all.
ServeLate ==
    \E r \in late :
        /\ \E reply \in Replies : Execute(r, reply)
        /\ late' = late \ {r}
        /\ UNCHANGED <<clock, peerVars, effect, faults>>

DropLate ==
    \E r \in late :
        /\ late' = late \ {r}
        /\ UNCHANGED <<clock, fenceVars, peerVars, effect, faults>>

\* The coordinator dies between the anchor and the commit of an acquire.
InterruptAcquire(p) ==
    /\ Waiting(p)
    /\ call[p].request.kind = "acquire"
    /\ faults < MaxFaults
    /\ Store!AcquireInterrupted(call[p].request.seen)
    /\ faults' = faults + 1
    /\ UNCHANGED <<clock, peerVars, effect, late>>

RepairAnchor ==
    /\ Store!OpenStore
    /\ UNCHANGED <<clock, peerVars, worldVars>>

Tick ==
    /\ Store!Live
    /\ clock' = clock + 1
    /\ UNCHANGED <<fenceVars, peerVars, worldVars>>

\* Somebody reconciles the effect in flight, having found it applied.
ReconcileEffect(p) ==
    /\ inflight # None
    /\ effect[inflight.op] = "applied"
    /\ Store!Reconcile(p, generation, inflight.op, inflight.intent,
                       "reconciliation", minSeen[p])
    /\ UNCHANGED <<clock, peerVars, worldVars>>
-----------------------------------------------------------------------------
(* A peer's side.                                                           *)

Idle(p) == call[p] = None
Phased(p, phase) == pending[p] # None /\ pending[p].phase = phase

\* Durable writes of the local record.
Write(p, record) == pending' = [pending EXCEPT ![p] = record]
SeeAtLeast(p, g) ==
    minSeen' = [minSeen EXCEPT ![p] = IF @ >= g THEN @ ELSE g]

RequestOf(p, kind) ==
    LET bound == kind \in {"begin", "settle", "release"}
        field(name) == IF kind = "settle" THEN pending[p][name] ELSE None
    IN  [peer |-> p, kind |-> kind, op |-> pending[p].op,
         generation |-> IF bound THEN pending[p].generation ELSE None,
         outcome |-> field("outcome"), evidence |-> field("evidence"),
         seen |-> minSeen[p]]

\* A new RPC takes the place of the one just answered.
Ask(p, kind, reason, denial) ==
    call' = [call EXCEPT ![p] =
               [reason |-> reason, denial |-> denial,
                request |-> RequestOf(p, kind), reply |-> None]]

Hangup(p) == call' = [call EXCEPT ![p] = None]

\* The exception leaves begin/finish/abort: the locks are released and the
\* durable record stays as it was last written.
Raise(p) ==
    /\ Hangup(p)
    /\ mode' = [mode EXCEPT ![p] = "idle"]

Answered(p, reason) ==
    call[p] # None /\ call[p].reason = reason /\ call[p].reply # None
Code(p) == call[p].reply.code
Status(p) == call[p].reply.status

\* begin_fence_enforcement with an effect still pending: recovery first.
Recover(p) ==
    /\ mode[p] = "idle"
    /\ pending[p] # None
    /\ mode' = [mode EXCEPT ![p] = "recovering"]
    /\ UNCHANGED <<clock, fenceVars, pending, minSeen, call, used, worldVars>>

\* begin_fence_enforcement with nothing pending, or nothing any more.
Prepare(p) ==
    /\ mode[p] \in {"idle", "recovering"}
    /\ pending[p] = None
    /\ used[p] < MaxOps
    /\ used' = [used EXCEPT ![p] = @ + 1]
    /\ Write(p, [op |-> <<p, used[p] + 1>>, phase |-> "prepared",
                  generation |-> None, outcome |-> None, evidence |-> None])
    /\ mode' = [mode EXCEPT ![p] = "beginning"]
    /\ UNCHANGED <<clock, fenceVars, minSeen, call, worldVars>>

\* The RPC that the phase calls for.
SendNext(p) ==
    /\ mode[p] \in {"beginning", "recovering", "finishing", "aborting"}
    /\ Idle(p)
    /\ \/ Phased(p, "prepared") /\ Ask(p, "acquire", "acquire", "none")
       \/ Phased(p, "granted") /\ Ask(p, "begin", "begin", "none")
       \/ Phased(p, "completion_ready") /\ Ask(p, "settle", "settle", "none")
       \/ Phased(p, "settled") /\ Ask(p, "release", "release", "none")
       \/ Phased(p, "outcome_unknown") /\ Ask(p, "status", "unknown outcome", "none")
    /\ UNCHANGED <<clock, fenceVars, pending, minSeen, mode, used, worldVars>>

\* The outcome is written down before it is reported.
CompletionReady(p, outcome, evidence) ==
    Write(p, [pending[p] EXCEPT !.phase = "completion_ready",
                                 !.outcome = outcome, !.evidence = evidence])

\* Mutant: recovery takes a marked dispatch for one that never happened.
DecideNotApplied(p) ==
    /\ Idle(p)
    /\ mode[p] \in {"recovering", "aborting"}
    /\ Phased(p, "begun") \/ Phased(p, "dispatching")
    /\ CompletionReady(p, "effect_not_applied", "recovery")
    /\ UNCHANGED <<clock, fenceVars, minSeen, mode, call, used, worldVars>>

\* Mutant: recovery has no answer for a marked dispatch.
DecideBegunOnly(p) ==
    /\ Idle(p)
    /\ mode[p] \in {"recovering", "aborting"}
    /\ Phased(p, "begun")
    /\ CompletionReady(p, "effect_not_applied", "recovery")
    /\ UNCHANGED <<clock, fenceVars, minSeen, mode, call, used, worldVars>>

\* Recovery and abort decide by the phase alone what became of the effect.
DecideOutcome(p) ==
    /\ Idle(p)
    /\ \/ /\ mode[p] \in {"recovering", "aborting"}
          /\ Phased(p, "begun")
          /\ CompletionReady(p, "effect_not_applied", "recovery")
       \/ /\ mode[p] = "recovering"
          /\ Phased(p, "dispatching")
          /\ CompletionReady(p, "outcome_unknown", "recovery")
    /\ UNCHANGED <<clock, fenceVars, minSeen, mode, call, used, worldVars>>

AcquireAnswered(p) ==
    LET granted == Code(p) = "ok" /\ Status(p).generation > minSeen[p]
    IN  /\ Answered(p, "acquire")
        /\ \/ /\ granted
              /\ Write(p, [pending[p] EXCEPT !.phase = "granted",
                                              !.generation = Status(p).generation])
              /\ SeeAtLeast(p, Status(p).generation)
              /\ Hangup(p)
              /\ UNCHANGED mode
           \/ /\ ~granted /\ Code(p) # "ok" /\ mode[p] = "recovering"
              /\ Ask(p, "status", "acquire denied", Code(p))
              /\ UNCHANGED <<pending, minSeen, mode>>
           \/ /\ ~granted /\ (Code(p) = "ok" \/ mode[p] # "recovering")
              /\ Raise(p)
              /\ UNCHANGED <<pending, minSeen>>
        /\ UNCHANGED <<clock, fenceVars, used, worldVars>>

\* Forget the pending effect and go on with the request that asked.
Forget(p) ==
    /\ Write(p, None)
    /\ Hangup(p)
    /\ mode' = [mode EXCEPT ![p] =
                  IF @ = "recovering" /\ used[p] < MaxOps THEN @ ELSE "idle"]

\* _fence_status refuses a snapshot older than the high-water mark.
Believable(p) == Status(p).generation >= minSeen[p]

\* A read of status decides whether the pending effect may be forgotten.
StatusAnswered(p, reason, forget) ==
    /\ Answered(p, reason)
    /\ \/ /\ Believable(p) /\ forget
          /\ Forget(p)
          /\ SeeAtLeast(p, Status(p).generation)
       \/ /\ ~(Believable(p) /\ forget)
          /\ Raise(p)
          /\ UNCHANGED <<pending, minSeen>>
    /\ UNCHANGED <<clock, fenceVars, used, worldVars>>

\* prepared: another peer holds the fence and has nothing in flight.
AcquireDenied(p) ==
    StatusAnswered(p, "acquire denied",
        /\ call[p].denial = "writer_active"
        /\ Status(p).inflight = None
        /\ Status(p).writer # p)

BeginAnswered(p) ==
    /\ Answered(p, "begin")
    /\ \/ /\ Code(p) = "ok"
          /\ Write(p, [pending[p] EXCEPT !.phase = "begun"])
          /\ mode' = [mode EXCEPT ![p] = IF @ = "beginning" THEN "token" ELSE @]
          /\ Hangup(p)
       \/ /\ Code(p) = "grant_expired" /\ mode[p] = "recovering"
          /\ Ask(p, "status", "begin expired", "none")
          /\ UNCHANGED <<pending, mode>>
       \/ /\ Code(p) # "ok"
          /\ Code(p) = "grant_expired" => mode[p] # "recovering"
          /\ Raise(p)
          /\ UNCHANGED pending
    /\ UNCHANGED <<clock, fenceVars, minSeen, used, worldVars>>

\* granted, and the grant expired before begin: release it, if it is still
\* exactly ours.
BeginExpired(p) ==
    LET ours == /\ Believable(p)
                /\ Status(p).generation = pending[p].generation
                /\ Status(p).inflight = None
                /\ Status(p).writer = p
                /\ ~Status(p).live
    IN  /\ Answered(p, "begin expired")
        /\ \/ ours /\ Ask(p, "release", "release", "none") /\ UNCHANGED mode
           \/ ~ours /\ Raise(p)
        /\ UNCHANGED <<clock, fenceVars, pending, minSeen, used, worldVars>>

SettleAnswered(p) ==
    LET unknown == pending[p].outcome = "outcome_unknown"
    IN  /\ Answered(p, "settle")
        /\ \/ /\ Code(p) = "ok" /\ unknown
              /\ Write(p, [pending[p] EXCEPT !.phase = "outcome_unknown"])
              /\ Raise(p)
           \/ /\ Code(p) = "ok" /\ ~unknown
              /\ Write(p, [pending[p] EXCEPT !.phase = "settled"])
              /\ Hangup(p)
              /\ UNCHANGED mode
           \/ /\ Code(p) # "ok"
              /\ Raise(p)
              /\ UNCHANGED pending
        /\ UNCHANGED <<clock, fenceVars, minSeen, used, worldVars>>

ReleaseAnswered(p) ==
    /\ Answered(p, "release")
    /\ \/ Code(p) = "ok" /\ Forget(p)
       \/ /\ Code(p) # "ok"
          /\ Ask(p, "status", "release failed", "none")
          /\ UNCHANGED <<pending, mode>>
    /\ UNCHANGED <<clock, fenceVars, minSeen, used, worldVars>>

\* Mutant: only a newer generation proves that the grant is gone.
ReleaseFailedNewerOnly(p) ==
    StatusAnswered(p, "release failed",
        /\ Status(p).inflight = None
        /\ Status(p).generation > pending[p].generation)

ReleaseFailed(p) ==
    StatusAnswered(p, "release failed",
        /\ Status(p).inflight = None
        /\ \/ Status(p).generation > pending[p].generation
           \/ Status(p).writer # p)

\* Mutant: an unknown outcome is forgotten when the lease has run out.
UnknownForgotten(p) ==
    StatusAnswered(p, "unknown outcome", ~Status(p).live)

\* outcome_unknown: cleared only by a reconciliation that is still the last
\* settlement of the fence.
UnknownAnswered(p) ==
    LET last == Status(p).last
    IN  StatusAnswered(p, "unknown outcome",
            /\ Status(p).inflight = None
            /\ last # None
            /\ last.generation = pending[p].generation
            /\ last.owner = p
            /\ last.op = pending[p].op
            /\ last.outcome = "effect_applied"
            /\ last.source = "reconcile")

\* mark_fence_dispatching, and the domain tool starts.
Dispatch(p) ==
    /\ mode[p] = "token"
    /\ Phased(p, "begun")
    /\ Write(p, [pending[p] EXCEPT !.phase = "dispatching"])
    /\ mode' = [mode EXCEPT ![p] = "effect"]
    /\ effect' = [effect EXCEPT ![pending[p].op] = "running"]
    /\ UNCHANGED <<clock, fenceVars, minSeen, call, used, late, faults>>

\* The request is cancelled after the mark was written: the abort that
\* follows refuses (`fence_abort_after_dispatch_forbidden').
DispatchCancelled(p) ==
    /\ mode[p] = "token"
    /\ Phased(p, "begun")
    /\ Write(p, [pending[p] EXCEPT !.phase = "dispatching"])
    /\ Raise(p)
    /\ UNCHANGED <<clock, fenceVars, minSeen, used, worldVars>>

\* abort_fence_before_dispatch
Abort(p) ==
    /\ mode[p] = "token"
    /\ mode' = [mode EXCEPT ![p] = "aborting"]
    /\ UNCHANGED <<clock, fenceVars, pending, minSeen, call, used, worldVars>>

\* The tool returns, or raises with its effect applied or not.
EffectEnds(p) ==
    /\ mode[p] = "effect"
    /\ \/ /\ effect' = [effect EXCEPT ![pending[p].op] = "applied"]
          /\ mode' = [mode EXCEPT ![p] = "succeeded"]
       \/ /\ \E what \in {"applied", "failed"} :
                effect' = [effect EXCEPT ![pending[p].op] = what]
          /\ mode' = [mode EXCEPT ![p] = "raised"]
    /\ UNCHANGED <<clock, fenceVars, pending, minSeen, call, used, late, faults>>

\* finish_fence_success and finish_fence_unknown
Finish(p) ==
    /\ \/ /\ mode[p] = "succeeded"
          /\ CompletionReady(p, "effect_applied", "completion")
       \/ /\ mode[p] = "raised"
          /\ CompletionReady(p, "outcome_unknown", "completion")
    /\ Phased(p, "dispatching")
    /\ mode' = [mode EXCEPT ![p] = "finishing"]
    /\ UNCHANGED <<clock, fenceVars, minSeen, call, used, worldVars>>

-----------------------------------------------------------------------------
(* Faults.                                                                  *)

\* What may become of the request of an abandoned call.
Abandon(p) ==
    \/ late' = late
    \/ /\ Waiting(p)
       /\ call[p].request.kind # "status"
       /\ Cardinality(late) < MaxLate
       /\ late' = late \cup {call[p].request}

\* The call fails: no connection, a timeout, or an answer lost on the way.
CallFails(p) ==
    /\ call[p] # None
    /\ faults < MaxFaults
    /\ faults' = faults + 1
    /\ Abandon(p)
    /\ \/ /\ call[p].reason = "release"
          /\ Ask(p, "status", "release failed", "none")
          /\ UNCHANGED mode
       \/ call[p].reason # "release" /\ Raise(p)
    /\ UNCHANGED <<clock, fenceVars, pending, minSeen, used, effect>>

\* The peer's process dies; an effect it was running did or did not happen.
Crash(p) ==
    /\ mode[p] # "idle"
    /\ faults < MaxFaults
    /\ faults' = faults + 1
    /\ Abandon(p)
    /\ Raise(p)
    /\ effect' \in
         IF mode[p] = "effect"
         THEN {[effect EXCEPT ![pending[p].op] = what] : what \in {"applied", "failed"}}
         ELSE {effect}
    /\ UNCHANGED <<clock, fenceVars, pending, minSeen, used>>

-----------------------------------------------------------------------------
\* The steps of a peer that is neither stopped nor idle by choice.
Work(p) ==
    \/ SendNext(p) \/ DecideOutcome(p)
    \/ AcquireAnswered(p) \/ AcquireDenied(p)
    \/ BeginAnswered(p) \/ BeginExpired(p)
    \/ SettleAnswered(p) \/ ReleaseAnswered(p) \/ ReleaseFailed(p)
    \/ UnknownAnswered(p)
    \/ Dispatch(p) \/ DispatchCancelled(p) \/ Abort(p)
    \/ EffectEnds(p) \/ Finish(p)

Coordinator ==
    \/ \E p \in Peer : Serve(p)
    \/ ServeLate
    \/ RepairAnchor
    \/ Tick

Next ==
    \/ \E p \in Peer : Recover(p) \/ Prepare(p) \/ Work(p)
    \/ \E p \in Peer : CallFails(p) \/ Crash(p) \/ InterruptAcquire(p)
    \/ \E p \in Peer : ReconcileEffect(p)
    \/ DropLate
    \/ Coordinator

Spec == Init /\ [][Next]_vars

-----------------------------------------------------------------------------
(* Safety. *)

Unsettled(op) == ~Store!SettledOp(op)

\* Effects exclude each other: a domain effect runs only while the fence has
\* exactly it in flight under the grant its peer holds, and not settled.
EffectsFenced ==
    \A op \in Op : effect[op] = "running" =>
        /\ inflight # None /\ inflight.op = op /\ inflight.state = "begun"
        /\ Unsettled(op)
        /\ \E p \in Peer : /\ pending[p] # None /\ pending[p].op = op
                           /\ Store!Holds(p, op, pending[p].generation)

\* The ledger tells the truth: an effect recorded as not applied was never
\* dispatched, whatever crashed, and one its writer recorded as applied was
\* applied.
RecordIsTrue ==
    \A x \in settlements :
        /\ x.outcome = "effect_not_applied" => effect[x.op] = "none"
        /\ x.outcome = "effect_applied" => effect[x.op] = "applied"

\* Whatever is in flight at the coordinator is pending at the peer that owns
\* it, in a phase from which its recovery can still speak about it.
NoOrphanInFlight ==
    inflight # None =>
        LET pd == pending[writer.owner]
        IN  /\ pd # None
            /\ pd.op = inflight.op
            /\ pd.phase \in {"granted", "begun", "dispatching",
                              "completion_ready", "outcome_unknown"}
            /\ pd.generation = generation

\* The phase a peer has written down is never ahead of the coordinator.
PhaseIsBacked ==
    \A p \in Peer : pending[p] # None =>
        LET op == pending[p].op
            flying == inflight # None /\ inflight.op = op
            row(out, src) == \E x \in settlements :
                                x.op = op /\ x.outcome = out /\ x.source = src
        IN  CASE pending[p].phase \in {"begun", "dispatching"} ->
                    flying /\ inflight.state = "begun"
              [] pending[p].phase = "completion_ready" ->
                    \/ flying
                    \/ pending[p].outcome # "outcome_unknown"
                         /\ row(pending[p].outcome, "writer")
                    \/ pending[p].outcome = "outcome_unknown"
                         /\ row("effect_applied", "reconcile")
              [] pending[p].phase = "outcome_unknown" ->
                    \/ flying /\ inflight.state = "outcome_unknown"
                    \/ row("effect_applied", "reconcile")
              [] pending[p].phase = "settled" -> row(pending[p].outcome, "writer")
              [] OTHER -> Unsettled(op)

-----------------------------------------------------------------------------
(* Liveness.  Faults stop (they are bounded), a started process goes on, the *)
(* coordinator serves what it is sent, time passes, and a peer that has an   *)
(* effect pending keeps receiving mutations, each of which runs the recovery *)
(* first.  Nobody is obliged to begin or to reconcile anything.              *)
Fairness ==
    /\ \A p \in Peer : WF_vars(Work(p)) /\ WF_vars(Recover(p)) /\ WF_vars(Serve(p))
    /\ WF_vars(RepairAnchor)
    /\ WF_vars(Tick)

FairSpec == Spec /\ Fairness

\* Its own peer has op pending in one of the phases.
PendingIs(op, phases) ==
    LET pd == pending[op[1]] IN pd # None /\ pd.op = op /\ pd.phase \in phases

InFlightUnknown(op) ==
    inflight # None /\ inflight.op = op /\ inflight.state = "outcome_unknown"

\* A begun effect is spoken for, whatever crashes: it ends as settled, or in
\* flight with its outcome declared unknown, so that it can be reconciled.
BegunIsAccounted ==
    \A op \in Op : (inflight # None /\ inflight.op = op)
        ~> (Store!SettledOp(op) \/ InFlightUnknown(op))

\* The writer's knowledge of an outcome is not lost: once it is written down,
\* the coordinator's ledger gets that very outcome.
OutcomeIsDelivered ==
    \A op \in Op, out \in Store!Terminal :
        (PendingIs(op, {"completion_ready"}) /\ pending[op[1]].outcome = out)
            ~> (\E x \in settlements : x.op = op /\ x.outcome = out)

\* A settled effect is forgotten, unless somebody else's is in flight for
\* good: the release is retried, or status shows that the grant is gone.
SettledIsForgotten ==
    \A op \in Op : ~<>[](PendingIs(op, {"settled"}) /\ inflight = None)

\* A prepared effect is never stuck on its own: with nothing in flight the
\* acquire succeeds, or the pending effect is dropped for a live writer.
PreparedMovesOn ==
    \A op \in Op : ~<>[](PendingIs(op, {"prepared"}) /\ inflight = None)

\* docs/operator-fence-heimberry-v1.md: an unknown outcome blocks until reconciliation has
\* resolved the in-flight record.
ReconciledUnblocks ==
    \A op \in Op : (PendingIs(op, {"outcome_unknown"}) /\ Store!SettledOp(op))
                      ~> ~PendingIs(op, {"outcome_unknown"})
=============================================================================
