------------------------------ MODULE OperatorFence ------------------------------
(***************************************************************************)
(* The fence coordinator's durable store                                   *)
(* (src/src/grabowski_operator_fence.py): one SQLite row that says which    *)
(* peer is the writer, under which generation and until when, and which    *)
(* effect is in flight; the table of settled effects; the table of effect  *)
(* events; and the generation anchor, a file beside the database.          *)
(*                                                                         *)
(* Every operation is one BEGIN IMMEDIATE transaction, so it is one atomic *)
(* action here.  The one exception is acquire, which replaces the anchor   *)
(* file before it commits the row: AcquireInterrupted is the crash between *)
(* the two.  A denied operation rolls back and is not a step.              *)
(*                                                                         *)
(* Left out because no transition depends on them: the acquire reason (it  *)
(* only separates two denials of a live holder), fencing-mark digests and  *)
(* the recorded timestamps.  The operation name is part of the intent.     *)
(***************************************************************************)
EXTENDS Integers, FiniteSets

CONSTANTS
    Owner,          \* peers; the RPC layer injects the peer as owner/reconciler
    Session,        \* client sessions
    Op,             \* operation ids
    Intent,         \* intent digests (with the operation name)
    Evidence,       \* evidence digests
    LeaseSeconds,   \* lease lengths a client may ask for
    MaxClock,       \* bound: largest value of the coordinator's clock
    MaxGeneration,  \* bound: no grant is issued beyond this generation
    None            \* SQL NULL

Terminal == {"effect_applied", "effect_not_applied"}

Writer == [owner : Owner, session : Session, until : Nat]

Inflight == [op : Op, intent : Intent, state : {"begun", "outcome_unknown"}]

Settlement ==
    [generation : Nat, owner : Owner, session : Session, op : Op,
     intent : Intent, outcome : Terminal, evidence : Evidence,
     source : {"writer", "reconcile"}, reconciler : Owner \cup {None}]

\* The UNIQUE key of effect_events, so that union is INSERT OR IGNORE.
EventType == {"outcome_unknown", "reconcile", "writer_dispute"}

Event ==
    [type : EventType, op : Op, actor : Owner,
     outcome : Terminal \cup {"outcome_unknown"}, evidence : Evidence]

\* _lease_seconds accepts positive lengths only.
ASSUME LeaseAssumption == LeaseSeconds \subseteq Nat \ {0}

ASSUME BoundAssumption == MaxClock \in Nat /\ MaxGeneration \in Nat

\* NULL is neither a row nor a value of a column.
ASSUME NoneAssumption ==
    /\ None \notin Writer
    /\ None \notin Inflight
    /\ None \notin Settlement
    /\ None \notin Owner

VARIABLES
    clock,          \* time.time() of the coordinator's host
    generation,     \* fence_state.generation
    writer,         \* owner, session digest and lease of fence_state, or None
    inflight,       \* the inflight_* columns, or None
    updatedAt,      \* fence_state.updated_at_unix
    anchor,         \* the generation in the anchor file
    settlements,    \* rows of settlements
    lastSettlement, \* the row of settlements inserted last, or None
    events          \* keys of effect_events

rowVars == <<generation, writer, inflight, updatedAt>>
logVars == <<settlements, lastSettlement, events>>
storeVars == <<rowVars, anchor, logVars>>
vars == <<clock, storeVars>>

-----------------------------------------------------------------------------
(* What the operations test. *)

\* The two checks every writing operation starts with; `seen' is the
\* caller's minimum_generation_seen.
ClockSane == clock >= updatedAt
NotRolledBack(seen) == generation >= seen

Live == writer # None /\ writer.until > clock

IsHolder(o, s) == writer # None /\ writer.owner = o /\ writer.session = s

\* _require_holder: the lease is not part of it.
Holds(o, s, g) == generation = g /\ IsHolder(o, s)

SettledOp(op) == \E x \in settlements : x.op = op
SettledIntent(i) == \E x \in settlements : x.intent = i

\* _require_inflight
InflightIs(g, op, i) ==
    generation = g /\ inflight # None /\ inflight.op = op /\ inflight.intent = i

-----------------------------------------------------------------------------
StoreInit ==
    /\ clock \in 0..MaxClock
    /\ generation = 0
    /\ writer = None
    /\ inflight = None
    /\ updatedAt = clock
    /\ anchor = 0
    /\ settlements = {}
    /\ lastSettlement = None
    /\ events = {}

\* Mutant: the lease alone decides; an unresolved effect is taken over.
MayGrantOverInflight(seen) ==
    /\ ClockSane
    /\ NotRolledBack(seen)
    /\ ~Live
    /\ anchor = generation
    /\ generation < MaxGeneration

\* Mutant: the row is trusted without reading the anchor.
MayGrantPastAnchor(seen) ==
    /\ ClockSane
    /\ NotRolledBack(seen)
    /\ ~Live
    /\ inflight = None
    /\ generation < MaxGeneration

\* When acquire issues a new grant: nobody's lease is live, nothing is in
\* flight, and the anchor agrees with the row.
MayGrant(seen) ==
    /\ ClockSane
    /\ NotRolledBack(seen)
    /\ ~Live
    /\ inflight = None
    /\ anchor = generation
    /\ generation < MaxGeneration

AcquireNew(o, s, ttl, seen) ==
    /\ MayGrant(seen)
    /\ anchor' = generation + 1
    /\ generation' = generation + 1
    /\ writer' = [owner |-> o, session |-> s, until |-> clock + ttl]
    /\ updatedAt' = clock
    /\ UNCHANGED <<inflight, logVars>>

\* A live holder that acquires again gets the grant it already has.
MayAcquireAgain(o, s, seen) ==
    ClockSane /\ NotRolledBack(seen) /\ Live /\ IsHolder(o, s)

AcquireAgain(o, s, seen) ==
    MayAcquireAgain(o, s, seen) /\ UNCHANGED storeVars

\* The denial `writer_active': somebody else's lease is live.
WriterActive(o, s, seen) ==
    ClockSane /\ NotRolledBack(seen) /\ Live /\ ~IsHolder(o, s)

\* Mutant: the row is committed first and the anchor replaced afterwards.
AcquireInterruptedAfterCommit(seen) ==
    /\ MayGrant(seen)
    /\ generation' = generation + 1
    /\ UNCHANGED <<writer, inflight, updatedAt, anchor, logVars>>

\* The process dies after the anchor was replaced and before COMMIT.
AcquireInterrupted(seen) ==
    /\ MayGrant(seen)
    /\ anchor' = generation + 1
    /\ UNCHANGED <<rowVars, logVars>>

Renew(o, s, g, ttl, seen) ==
    /\ ClockSane
    /\ NotRolledBack(seen)
    /\ Holds(o, s, g)
    /\ Live
    /\ writer' = [writer EXCEPT !.until = IF @ >= clock + ttl THEN @ ELSE clock + ttl]
    /\ updatedAt' = clock
    /\ UNCHANGED <<generation, inflight, anchor, logVars>>

\* What begin tests before it looks at the effect in flight and the lease.
MayBegin(o, s, g, op, i, seen) ==
    /\ ClockSane
    /\ NotRolledBack(seen)
    /\ Holds(o, s, g)
    /\ ~SettledOp(op)
    /\ ~SettledIntent(i)

BeginNew(o, s, g, op, i, seen) ==
    /\ MayBegin(o, s, g, op, i, seen)
    /\ inflight = None
    /\ Live
    /\ inflight' = [op |-> op, intent |-> i, state |-> "begun"]
    /\ updatedAt' = clock
    /\ UNCHANGED <<generation, writer, anchor, logVars>>

\* Beginning the effect that is already in flight succeeds, lease or not.
MayBeginAgain(o, s, g, op, i, seen) ==
    MayBegin(o, s, g, op, i, seen) /\ InflightIs(g, op, i)

BeginAgain(o, s, g, op, i, seen) ==
    MayBeginAgain(o, s, g, op, i, seen) /\ UNCHANGED storeVars

\* The denial `grant_expired' of begin.
GrantExpired(o, s, g, op, i, seen) ==
    MayBegin(o, s, g, op, i, seen) /\ inflight = None /\ ~Live

\* Mutant: an expired writer may not report any more.
MaySettleLive(o, s, g, op, i, seen) ==
    /\ NotRolledBack(seen)
    /\ ~SettledOp(op)
    /\ ~SettledIntent(i)
    /\ ClockSane
    /\ Holds(o, s, g)
    /\ InflightIs(g, op, i)
    /\ Live

\* The guard shared by the two settlements that find the effect in flight.
MaySettle(o, s, g, op, i, seen) ==
    /\ NotRolledBack(seen)
    /\ ~SettledOp(op)
    /\ ~SettledIntent(i)
    /\ ClockSane
    /\ Holds(o, s, g)
    /\ InflightIs(g, op, i)

\* Mutant: the event is recorded, the effect in flight is not marked.
SettleUnknownUnmarked(o, s, g, op, i, ev, seen) ==
    /\ MaySettle(o, s, g, op, i, seen)
    /\ events' = events \cup
         {[type |-> "outcome_unknown", op |-> op, actor |-> o,
           outcome |-> "outcome_unknown", evidence |-> ev]}
    /\ UNCHANGED <<rowVars, anchor, settlements, lastSettlement>>

SettleUnknown(o, s, g, op, i, ev, seen) ==
    /\ MaySettle(o, s, g, op, i, seen)
    /\ events' = events \cup
         {[type |-> "outcome_unknown", op |-> op, actor |-> o,
           outcome |-> "outcome_unknown", evidence |-> ev]}
    /\ inflight' = [inflight EXCEPT !.state = "outcome_unknown"]
    /\ updatedAt' = IF inflight.state = "outcome_unknown" THEN updatedAt ELSE clock
    /\ UNCHANGED <<generation, writer, anchor, settlements, lastSettlement>>

\* Mutant: the settlement is inserted and the effect stays in flight.
InsertOnly(row) ==
    /\ settlements' = settlements \cup {row}
    /\ lastSettlement' = row
    /\ updatedAt' = clock
    /\ UNCHANGED inflight

\* _insert_settlement followed by _clear_inflight
Insert(row) ==
    /\ settlements' = settlements \cup {row}
    /\ lastSettlement' = row
    /\ inflight' = None
    /\ updatedAt' = clock

SettleTerminal(o, s, g, op, i, out, ev, seen) ==
    /\ MaySettle(o, s, g, op, i, seen)
    /\ Insert([generation |-> g, owner |-> o, session |-> s, op |-> op,
               intent |-> i, outcome |-> out, evidence |-> ev,
               source |-> "writer", reconciler |-> None])
    /\ UNCHANGED <<generation, writer, anchor, events>>

\* The rows of the same writer for the same operation and intent.
SameActorRows(o, s, op, i) ==
    {x \in settlements : x.op = op /\ x.owner = o /\ x.session = s /\ x.intent = i}

\* The writer repeats the settlement it made: same answer, no change, and
\* the clock is not looked at.
MaySettleAgain(o, s, op, i, out, ev, seen) ==
    /\ NotRolledBack(seen)
    /\ \E x \in SameActorRows(o, s, op, i) :
          x.source = "writer" /\ x.outcome = out /\ x.evidence = ev

SettleAgain(o, s, op, i, out, ev, seen) ==
    MaySettleAgain(o, s, op, i, out, ev, seen) /\ UNCHANGED storeVars

\* The writer reports another terminal outcome than the recorded one.
MayDispute(o, s, op, i, out, ev, seen) ==
    /\ NotRolledBack(seen)
    /\ ClockSane
    /\ \E x \in SameActorRows(o, s, op, i) :
          ~(x.source = "writer" /\ x.outcome = out /\ x.evidence = ev)

SettleDisputed(o, s, op, i, out, ev, seen) ==
    /\ MayDispute(o, s, op, i, out, ev, seen)
    /\ events' = events \cup
         {[type |-> "writer_dispute", op |-> op, actor |-> o,
           outcome |-> out, evidence |-> ev]}
    /\ UNCHANGED <<rowVars, anchor, settlements, lastSettlement>>

\* Any peer may reconcile, but only an unknown outcome of a writer whose
\* lease has expired, and only to effect_applied.
Reconcile(r, g, op, i, ev, seen) ==
    /\ NotRolledBack(seen)
    /\ ~SettledOp(op)
    /\ ~SettledIntent(i)
    /\ ClockSane
    /\ InflightIs(g, op, i)
    /\ ~Live
    /\ inflight.state = "outcome_unknown"
    /\ Insert([generation |-> g, owner |-> writer.owner, session |-> writer.session,
               op |-> op, intent |-> i, outcome |-> "effect_applied",
               evidence |-> ev, source |-> "reconcile", reconciler |-> r])
    /\ events' = events \cup
         {[type |-> "reconcile", op |-> op, actor |-> r,
           outcome |-> "effect_applied", evidence |-> ev]}
    /\ UNCHANGED <<generation, writer, anchor>>

MayRelease(o, s, g, seen) ==
    ClockSane /\ NotRolledBack(seen) /\ Holds(o, s, g) /\ inflight = None

Release(o, s, g, seen) ==
    /\ MayRelease(o, s, g, seen)
    /\ writer' = None
    /\ updatedAt' = clock
    /\ UNCHANGED <<generation, inflight, anchor, logVars>>

\* Mutant: an owner whose lease has expired blocks the repair.
OpenStoreUnowned ==
    /\ anchor > generation
    /\ ClockSane
    /\ inflight = None
    /\ writer = None
    /\ generation' = anchor
    /\ updatedAt' = clock
    /\ UNCHANGED <<writer, inflight, anchor, logVars>>

\* Opening the store: an anchor ahead of a quiet row is adopted.
OpenStore ==
    /\ anchor > generation
    /\ ClockSane
    /\ inflight = None
    /\ ~Live
    /\ generation' = anchor
    /\ writer' = None
    /\ updatedAt' = clock
    /\ UNCHANGED <<inflight, anchor, logVars>>

\* Opening the store raises: anchor ahead of an effect, a grant or the clock.
OpenFails ==
    anchor > generation /\ (~ClockSane \/ inflight # None \/ Live)

-----------------------------------------------------------------------------
(* Requests: a peer may send anything well formed, with any generation it    *)
(* may have been granted, and a high-water mark it may have seen.           *)

Seen == 0..anchor
Generations == 1..anchor

OwnerStep(o, s) ==
    \/ \E ttl \in LeaseSeconds, seen \in Seen : AcquireNew(o, s, ttl, seen)
    \/ \E seen \in Seen : AcquireAgain(o, s, seen)
    \/ \E g \in Generations, ttl \in LeaseSeconds, seen \in Seen : Renew(o, s, g, ttl, seen)
    \/ \E g \in Generations, seen \in Seen : Release(o, s, g, seen)

EffectStep(o, s, op, i) ==
    \E seen \in Seen :
        \/ \E g \in Generations : BeginNew(o, s, g, op, i, seen)
        \/ \E g \in Generations : BeginAgain(o, s, g, op, i, seen)
        \/ \E ev \in Evidence :
             \/ \E g \in Generations : SettleUnknown(o, s, g, op, i, ev, seen)
             \/ \E g \in Generations, out \in Terminal :
                   SettleTerminal(o, s, g, op, i, out, ev, seen)
             \/ \E out \in Terminal : SettleAgain(o, s, op, i, out, ev, seen)
             \/ \E out \in Terminal : SettleDisputed(o, s, op, i, out, ev, seen)
             \/ \E g \in Generations : Reconcile(o, g, op, i, ev, seen)

StoreStep ==
    /\ \/ \E o \in Owner, s \in Session : OwnerStep(o, s)
       \/ \E o \in Owner, s \in Session, op \in Op, i \in Intent : EffectStep(o, s, op, i)
       \/ \E seen \in Seen : AcquireInterrupted(seen)
       \/ OpenStore
    /\ UNCHANGED clock

\* The wall clock: it may be stepped in either direction.
ClockStep ==
    /\ clock' \in 0..MaxClock
    /\ UNCHANGED storeVars

ClockAdvance ==
    /\ clock' \in clock..MaxClock
    /\ UNCHANGED storeVars

StoreNext == StoreStep \/ ClockStep

Spec == StoreInit /\ [][StoreNext]_vars

\* The same store on a host whose clock never runs backwards.
SteadySpec == StoreInit /\ [][StoreStep \/ ClockAdvance]_vars
-----------------------------------------------------------------------------
(* Properties. *)

\* Type correctness of the row, the anchor file and the two tables.
TypeOK ==
    /\ clock \in Nat
    /\ generation \in Nat
    /\ writer \in Writer \cup {None}
    /\ inflight \in Inflight \cup {None}
    /\ updatedAt \in Nat
    /\ anchor \in Nat
    /\ settlements \subseteq Settlement
    /\ lastSettlement \in Settlement \cup {None}
    /\ events \subseteq Event

\* The anchor file is written before the row is committed and repaired only
\* from the file: it never falls behind the row, and a crash in acquire
\* leaves it at most one generation ahead, however often that happens.
AnchorBrackets == anchor \in {generation, generation + 1}

\* An effect is in flight only under a grant: neither release nor opening
\* the store takes the owner away from a row whose effect is unresolved.
EffectHasWriter == inflight # None => writer # None /\ generation > 0

\* One operation, one intent, one settlement; and what is in flight has not
\* been settled under its operation id or under its intent digest.
SettledOnce ==
    /\ \A x, y \in settlements : (x.op = y.op \/ x.intent = y.intent) => x = y
    /\ inflight # None => ~SettledOp(inflight.op) /\ ~SettledIntent(inflight.intent)

\* Nothing is reconciled, or even marked unknown, without a trace that the
\* writer itself said so: the event by the owner of the grant survives.
UnknownIsTraced ==
    LET Traced(op, o) == \E e \in events :
            e.type = "outcome_unknown" /\ e.op = op /\ e.actor = o
    IN  /\ \A x \in settlements : x.source = "reconcile" =>
               x.outcome = "effect_applied" /\ Traced(x.op, x.owner)
        /\ (inflight # None /\ inflight.state = "outcome_unknown") =>
               Traced(inflight.op, writer.owner)

\* The takeover barrier: while an effect is in flight, generation, owner and
\* session stay what they are, until a settlement of exactly that effect
\* under exactly that grant is recorded; lease expiry does not matter.
BarrierStep ==
    inflight # None =>
        \/ /\ inflight' # None
           /\ inflight'.op = inflight.op
           /\ inflight'.intent = inflight.intent
           /\ generation' = generation
           /\ writer' # None
           /\ writer'.owner = writer.owner
           /\ writer'.session = writer.session
        \/ /\ inflight' = None
           /\ \E x \in settlements' :
                 /\ x.op = inflight.op
                 /\ x.intent = inflight.intent
                 /\ x.generation = generation
                 /\ x.owner = writer.owner
                 /\ x.session = writer.session
TakeoverBarrier == [][BarrierStep]_vars

\* A grant never reuses a generation, not even one that a crashed acquire
\* may have announced through the anchor: a new holder's generation is
\* above the anchor as it was before the grant.
FreshStep ==
    (writer' # None /\ (writer = None \/ generation' # generation
                          \/ writer'.owner # writer.owner
                          \/ writer'.session # writer.session))
        => generation' > anchor
FreshGeneration == [][FreshStep]_vars

\* No request takes lease time away from a grant that stands: an idempotent
\* acquire returns it as it is, and a renewal for less keeps the longer one.
LeaseKeptStep ==
    (writer # None /\ writer' # None /\ generation' = generation)
        => writer'.until >= writer.until
LeaseKept == [][LeaseKeptStep]_vars

\* On a host whose clock never runs backwards the store can always be
\* opened again, whatever crashed before: an anchor that is ahead finds
\* neither an effect in flight nor a live grant.
AlwaysOpens == ~OpenFails

\* The store implements the ledger: epoch is the generation, the open effect
\* the one in flight, the record the pairs of the settlements table.
Ledger == INSTANCE FenceLedger WITH
    Outcome <- Terminal,
    epoch <- generation,
    open <- IF inflight = None THEN None ELSE inflight.op,
    recorded <- {<<x.op, x.outcome>> : x \in settlements}
ImplementsLedger == Ledger!Spec
=============================================================================
