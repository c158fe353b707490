--------------------------- MODULE OperatorFenceProofs ---------------------------
(***************************************************************************)
(* Proofs about the coordinator's store for every set of peers, sessions,  *)
(* operations, intents, lease lengths and every bound.                     *)
(***************************************************************************)
EXTENDS OperatorFence, TLAPS

USE DEF Terminal

\* Types alone are not inductive: a reconciliation copies the owner of the
\* row, so it needs that an effect in flight has one.
Basic == TypeOK /\ EffectHasWriter

\* Basic, initially and in every step.
LEMMA BasicInit == StoreInit => Basic
  BY LeaseAssumption, BoundAssumption, NoneAssumption
  DEF StoreInit, Basic, TypeOK, EffectHasWriter

\* Every step of the store keeps Basic: one case for each action.
LEMMA BasicStep == Basic /\ [StoreNext]_vars => Basic'
<1>. USE LeaseAssumption, BoundAssumption, NoneAssumption
<1>. SUFFICES ASSUME Basic, [StoreNext]_vars PROVE Basic'
  OBVIOUS
<1>. USE DEF Basic, EffectHasWriter, TypeOK, rowVars, logVars, storeVars
<1>1. ASSUME NEW o \in Owner, NEW s \in Session, NEW ttl \in LeaseSeconds,
             NEW seen \in Seen, AcquireNew(o, s, ttl, seen), UNCHANGED clock
      PROVE  Basic'
  BY <1>1 DEF AcquireNew, Writer
<1>2. ASSUME NEW seen \in Seen, AcquireInterrupted(seen), UNCHANGED clock
      PROVE  Basic'
  BY <1>2 DEF AcquireInterrupted
<1>3. ASSUME NEW o \in Owner, NEW s \in Session, NEW ttl \in LeaseSeconds,
             NEW g \in Generations, NEW seen \in Seen,
             Renew(o, s, g, ttl, seen), UNCHANGED clock
      PROVE  Basic'
  BY <1>3 DEF Renew, Live, Writer
<1>4. ASSUME NEW o \in Owner, NEW s \in Session, NEW g \in Generations,
             NEW op \in Op, NEW i \in Intent, NEW seen \in Seen,
             BeginNew(o, s, g, op, i, seen), UNCHANGED clock
      PROVE  Basic'
  BY <1>4 DEF BeginNew, MayBegin, Holds, IsHolder, Inflight, Generations
<1>5. ASSUME NEW o \in Owner, NEW s \in Session, NEW g \in Generations,
             NEW op \in Op, NEW i \in Intent, NEW ev \in Evidence, NEW seen \in Seen,
             SettleUnknown(o, s, g, op, i, ev, seen), UNCHANGED clock
      PROVE  Basic'
  BY <1>5 DEF SettleUnknown, MaySettle, InflightIs, Inflight, Event, EventType
<1>6. ASSUME NEW o \in Owner, NEW s \in Session, NEW g \in Generations,
             NEW op \in Op, NEW i \in Intent, NEW out \in Terminal,
             NEW ev \in Evidence, NEW seen \in Seen,
             SettleTerminal(o, s, g, op, i, out, ev, seen), UNCHANGED clock
      PROVE  Basic'
  BY <1>6 DEF SettleTerminal, MaySettle, Holds, Insert, Settlement
<1>7. ASSUME NEW o \in Owner, NEW s \in Session, NEW op \in Op, NEW i \in Intent,
             NEW out \in Terminal, NEW ev \in Evidence, NEW seen \in Seen,
             SettleDisputed(o, s, op, i, out, ev, seen), UNCHANGED clock
      PROVE  Basic'
  BY <1>7 DEF SettleDisputed, Event, EventType
<1>8. ASSUME NEW r \in Owner, NEW g \in Generations, NEW op \in Op,
             NEW i \in Intent, NEW ev \in Evidence, NEW seen \in Seen,
             Reconcile(r, g, op, i, ev, seen), UNCHANGED clock
      PROVE  Basic'
  BY <1>8 DEF Reconcile, InflightIs, Insert, Settlement, Event, EventType, Writer
<1>9. CASE OpenStore /\ UNCHANGED clock
  BY <1>9 DEF OpenStore
<1>10. CASE ClockStep
  BY <1>10 DEF ClockStep
<1>11. CASE UNCHANGED vars
  BY <1>11 DEF vars
<1>12. ASSUME NEW o \in Owner, NEW s \in Session, NEW g \in Generations, NEW seen \in Seen,
             Release(o, s, g, seen), UNCHANGED clock
      PROVE  Basic'
  BY <1>12 DEF Release, MayRelease
<1>13. CASE UNCHANGED <<clock, storeVars>>
  BY <1>13
<1>. QED
  BY <1>1, <1>2, <1>3, <1>4, <1>5, <1>6, <1>7, <1>8, <1>9, <1>10, <1>11, <1>12, <1>13
  DEF StoreNext, StoreStep, OwnerStep, EffectStep, AcquireAgain, BeginAgain, SettleAgain

\* Basic is an invariant of the store.
LEMMA BasicCorrect == Spec => []Basic
  BY BasicInit, BasicStep, PTL DEF Spec

\* Type correctness, for every value of the constants.
THEOREM TypeCorrect == Spec => []TypeOK
  BY BasicCorrect, PTL DEF Basic

\* Nothing is in flight without the grant it was begun under: release and
\* the repair of the anchor both refuse a row with an unresolved effect.
THEOREM EffectHasWriterCorrect == Spec => []EffectHasWriter
  BY BasicCorrect, PTL DEF Basic

-----------------------------------------------------------------------------
\* What a step may do to generation and anchor.
LEMMA AnchorSteps ==
  ASSUME [StoreNext]_vars
  PROVE  \/ UNCHANGED <<generation, anchor>>
         \/ /\ anchor = generation
            /\ anchor' = generation + 1
            /\ generation' \in {generation, generation + 1}
         \/ /\ anchor > generation
            /\ anchor' = anchor
            /\ generation' = anchor
<1>. DEFINE Goal == \/ UNCHANGED <<generation, anchor>>
                    \/ /\ anchor = generation
                       /\ anchor' = generation + 1
                       /\ generation' \in {generation, generation + 1}
                    \/ /\ anchor > generation
                       /\ anchor' = anchor
                       /\ generation' = anchor
<1>. USE DEF storeVars, rowVars, logVars
<1>1. ASSUME NEW o \in Owner, NEW s \in Session, OwnerStep(o, s) PROVE Goal
  BY <1>1 DEF OwnerStep, AcquireNew, MayGrant, AcquireAgain, Renew, Release
<1>2. ASSUME NEW o \in Owner, NEW s \in Session, NEW op \in Op, NEW i \in Intent,
             EffectStep(o, s, op, i)
      PROVE  UNCHANGED <<generation, anchor>>
  BY <1>2 DEF EffectStep, BeginNew, BeginAgain, SettleUnknown, SettleTerminal,
              SettleAgain, SettleDisputed, Reconcile
<1>3. ASSUME NEW seen \in Seen, AcquireInterrupted(seen) PROVE Goal
  BY <1>3 DEF AcquireInterrupted, MayGrant
<1>4. CASE OpenStore
  BY <1>4 DEF OpenStore
<1>5. CASE UNCHANGED storeVars
  BY <1>5
<1>. QED
  BY <1>1, <1>2, <1>3, <1>4, <1>5 DEF StoreNext, StoreStep, ClockStep, vars

\* The anchor file is never behind the row and at most one generation ahead.
THEOREM AnchorCorrect == Spec => []AnchorBrackets
<1>1. StoreInit => AnchorBrackets
  BY DEF StoreInit, AnchorBrackets
<1>2. Basic /\ AnchorBrackets /\ [StoreNext]_vars => AnchorBrackets'
  <2>. SUFFICES ASSUME Basic, AnchorBrackets, [StoreNext]_vars PROVE AnchorBrackets'
    OBVIOUS
  <2>. QED  BY AnchorSteps DEF Basic, TypeOK, AnchorBrackets
<1>. QED
  BY <1>1, <1>2, BasicCorrect, PTL DEF Spec

-----------------------------------------------------------------------------
(* What a step may do to the effect in flight and to the settlements: leave  *)
(* both alone, begin an effect that is settled nowhere, declare its outcome  *)
(* unknown, or close it with one row of its own.                             *)
Begun ==
    /\ inflight = None
    /\ inflight' \in Inflight
    /\ ~SettledOp(inflight'.op)
    /\ ~SettledIntent(inflight'.intent)
    /\ settlements' = settlements
    /\ inflight'.state = "begun"

MarkedUnknown ==
    /\ inflight # None
    /\ inflight' = [inflight EXCEPT !.state = "outcome_unknown"]
    /\ settlements' = settlements
    /\ \E e \in events' :
          e.type = "outcome_unknown" /\ e.op = inflight.op /\ e.actor = writer.owner

ClosedBy(x) ==
    /\ inflight # None
    /\ inflight' = None
    /\ ~SettledOp(inflight.op)
    /\ ~SettledIntent(inflight.intent)
    /\ settlements' = settlements \cup {x}
    /\ x.op = inflight.op
    /\ x.intent = inflight.intent
    /\ x.generation = generation
    /\ x.owner = writer.owner
    /\ x.session = writer.session
    /\ x.source = "reconcile" =>
          inflight.state = "outcome_unknown" /\ x.outcome = "effect_applied"

TableStep ==
    \/ UNCHANGED <<inflight, settlements>>
    \/ Begun
    \/ MarkedUnknown
    \/ \E x \in Settlement : ClosedBy(x)

\* These four are all that can happen to the two.
LEMMA TableSteps ==
  ASSUME Basic, [StoreNext]_vars
  PROVE  TableStep
<1>. USE DEF storeVars, rowVars, logVars
<1>1. ASSUME NEW o \in Owner, NEW s \in Session, OwnerStep(o, s) PROVE TableStep
  BY <1>1 DEF TableStep, OwnerStep, AcquireNew, AcquireAgain, Renew, Release
<1>2. ASSUME NEW o \in Owner, NEW s \in Session, NEW op \in Op, NEW i \in Intent,
             EffectStep(o, s, op, i)
      PROVE  TableStep
  <2>1. ASSUME NEW seen \in Seen, NEW g \in Generations, BeginNew(o, s, g, op, i, seen)
        PROVE  Begun
    BY <2>1 DEF BeginNew, MayBegin, Begun, Inflight
  <2>2. ASSUME NEW seen \in Seen, NEW g \in Generations, NEW ev \in Evidence,
               SettleUnknown(o, s, g, op, i, ev, seen)
        PROVE  MarkedUnknown
    <3>. DEFINE e == [type |-> "outcome_unknown", op |-> op, actor |-> o,
                      outcome |-> "outcome_unknown", evidence |-> ev]
    <3>1. inflight # None /\ inflight.op = op /\ writer.owner = o
      BY <2>2 DEF SettleUnknown, MaySettle, InflightIs, Holds, IsHolder
    <3>2. e \in events'
      BY <2>2 DEF SettleUnknown
    <3>3. e.type = "outcome_unknown" /\ e.op = op /\ e.actor = o
      OBVIOUS
    <3>4. /\ inflight' = [inflight EXCEPT !.state = "outcome_unknown"]
          /\ settlements' = settlements
      BY <2>2 DEF SettleUnknown
    <3>. QED  BY <3>1, <3>2, <3>3, <3>4 DEF MarkedUnknown
  <2>3. ASSUME NEW seen \in Seen, NEW g \in Generations, NEW ev \in Evidence,
               NEW out \in Terminal, SettleTerminal(o, s, g, op, i, out, ev, seen)
        PROVE  \E x \in Settlement : ClosedBy(x)
    <3>. DEFINE x == [generation |-> g, owner |-> o, session |-> s, op |-> op,
                      intent |-> i, outcome |-> out, evidence |-> ev,
                      source |-> "writer", reconciler |-> None]
    <3>1. x \in Settlement
      BY <2>3 DEF SettleTerminal, MaySettle, Holds, Basic, TypeOK, Settlement
    <3>2. ClosedBy(x)
      BY <2>3 DEF SettleTerminal, MaySettle, InflightIs, Holds, IsHolder, Insert, ClosedBy
    <3>. QED  BY <3>1, <3>2
  <2>4. ASSUME NEW seen \in Seen, NEW g \in Generations, NEW ev \in Evidence,
               Reconcile(o, g, op, i, ev, seen)
        PROVE  \E x \in Settlement : ClosedBy(x)
    <3>. DEFINE x == [generation |-> g, owner |-> writer.owner,
                      session |-> writer.session, op |-> op, intent |-> i,
                      outcome |-> "effect_applied", evidence |-> ev,
                      source |-> "reconcile", reconciler |-> o]
    <3>1. x \in Settlement
      BY <2>4 DEF Reconcile, InflightIs, Basic, EffectHasWriter, TypeOK, Settlement, Writer
    <3>2. ClosedBy(x)
      BY <2>4 DEF Reconcile, InflightIs, Insert, ClosedBy
    <3>. QED  BY <3>1, <3>2
  <2>5. ASSUME NEW seen \in Seen, NEW g \in Generations, BeginAgain(o, s, g, op, i, seen)
        PROVE  UNCHANGED <<inflight, settlements>>
    BY <2>5 DEF BeginAgain
  <2>6. ASSUME NEW seen \in Seen, NEW ev \in Evidence, NEW out \in Terminal,
               \/ SettleAgain(o, s, op, i, out, ev, seen)
               \/ SettleDisputed(o, s, op, i, out, ev, seen)
        PROVE  UNCHANGED <<inflight, settlements>>
    BY <2>6 DEF SettleAgain, SettleDisputed
  <2>. QED
    BY <1>2, <2>1, <2>2, <2>3, <2>4, <2>5, <2>6 DEF EffectStep, TableStep
<1>3. ASSUME NEW seen \in Seen, AcquireInterrupted(seen) PROVE TableStep
  BY <1>3 DEF AcquireInterrupted, TableStep
<1>4. CASE OpenStore
  BY <1>4 DEF OpenStore, TableStep
<1>5. CASE UNCHANGED storeVars
  BY <1>5 DEF TableStep
<1>. QED
  BY <1>1, <1>2, <1>3, <1>4, <1>5 DEF StoreNext, StoreStep, ClockStep, vars

\* Events are only ever added.
LEMMA EventsKept ==
  ASSUME [StoreNext]_vars
  PROVE  events \subseteq events'
<1>. USE DEF storeVars, rowVars, logVars
<1>1. ASSUME NEW o \in Owner, NEW s \in Session, OwnerStep(o, s) PROVE events' = events
  BY <1>1 DEF OwnerStep, AcquireNew, AcquireAgain, Renew, Release
<1>2. ASSUME NEW o \in Owner, NEW s \in Session, NEW op \in Op, NEW i \in Intent,
             EffectStep(o, s, op, i)
      PROVE  events \subseteq events'
  BY <1>2 DEF EffectStep, BeginNew, BeginAgain, SettleUnknown, SettleTerminal,
              SettleAgain, SettleDisputed, Reconcile
<1>. QED
  BY <1>1, <1>2 DEF StoreNext, StoreStep, ClockStep, vars, AcquireInterrupted, OpenStore

\* While an effect is in flight its grant does not change.
LEMMA GrantKept ==
  ASSUME [StoreNext]_vars, inflight # None, Basic
  PROVE  /\ generation' = generation
         /\ writer' # None
         /\ writer'.owner = writer.owner
         /\ writer'.session = writer.session
<1>. DEFINE Goal == /\ generation' = generation
                    /\ writer' # None
                    /\ writer'.owner = writer.owner
                    /\ writer'.session = writer.session
<1>. USE NoneAssumption, LeaseAssumption DEF storeVars, rowVars, logVars, Basic, EffectHasWriter
<1>1. ASSUME NEW o \in Owner, NEW s \in Session, OwnerStep(o, s) PROVE Goal
  <2>1. ASSUME NEW g \in Generations, NEW ttl \in LeaseSeconds, NEW seen \in Seen,
               Renew(o, s, g, ttl, seen)
        PROVE  Goal
    <3>1. writer' \in Writer /\ writer'.owner = writer.owner /\ writer'.session = writer.session
      BY <2>1 DEF Renew, TypeOK, Writer
    <3>. QED  BY <2>1, <3>1 DEF Renew
  <2>. QED
    BY <1>1, <2>1 DEF OwnerStep, AcquireNew, MayGrant, AcquireAgain, Release, MayRelease
<1>2. ASSUME NEW o \in Owner, NEW s \in Session, NEW op \in Op, NEW i \in Intent,
             EffectStep(o, s, op, i)
      PROVE  Goal
  BY <1>2 DEF EffectStep, BeginNew, BeginAgain, SettleUnknown, SettleTerminal,
              SettleAgain, SettleDisputed, Reconcile
<1>. QED
  BY <1>1, <1>2 DEF StoreNext, StoreStep, ClockStep, vars, AcquireInterrupted, OpenStore

\* Beginning an effect does not move the generation.
LEMMA BegunKeepsGeneration ==
  ASSUME [StoreNext]_vars, inflight' # inflight
  PROVE  generation' = generation
<1>. USE DEF storeVars, rowVars, logVars
<1>1. ASSUME NEW o \in Owner, NEW s \in Session, OwnerStep(o, s)
      PROVE  inflight' = inflight
  BY <1>1 DEF OwnerStep, AcquireNew, AcquireAgain, Renew, Release
<1>2. ASSUME NEW o \in Owner, NEW s \in Session, NEW op \in Op, NEW i \in Intent,
             EffectStep(o, s, op, i)
      PROVE  generation' = generation
  BY <1>2 DEF EffectStep, BeginNew, BeginAgain, SettleUnknown, SettleTerminal,
              SettleAgain, SettleDisputed, Reconcile
<1>. QED
  BY <1>1, <1>2 DEF StoreNext, StoreStep, ClockStep, vars, AcquireInterrupted, OpenStore

\* One settlement for an operation and for an intent, and none for what is
\* in flight.
THEOREM SettledOnceCorrect == Spec => []SettledOnce
<1>. USE NoneAssumption
<1>1. StoreInit => SettledOnce
  BY DEF StoreInit, SettledOnce
<1>2. Basic /\ SettledOnce /\ [StoreNext]_vars => SettledOnce'
  <2>. SUFFICES ASSUME Basic, SettledOnce, [StoreNext]_vars PROVE SettledOnce'
    OBVIOUS
  <2>. USE DEF SettledOnce, SettledOp, SettledIntent
  <2>1. CASE UNCHANGED <<inflight, settlements>>
    BY <2>1
  <2>2. CASE Begun
    BY <2>2 DEF Begun
  <2>3. CASE MarkedUnknown
    BY <2>3 DEF MarkedUnknown, Basic, TypeOK, Inflight
  <2>4. ASSUME NEW x \in Settlement, ClosedBy(x) PROVE SettledOnce'
    BY <2>4 DEF ClosedBy
  <2>. QED  BY <2>1, <2>2, <2>3, <2>4, TableSteps DEF TableStep
<1>. QED
  BY <1>1, <1>2, BasicCorrect, PTL DEF Spec

\* No unknown outcome and no reconciliation without the writer's own event.
THEOREM UnknownIsTracedCorrect == Spec => []UnknownIsTraced
<1>. USE NoneAssumption
<1>1. StoreInit => UnknownIsTraced
  BY DEF StoreInit, UnknownIsTraced
<1>2. Basic /\ UnknownIsTraced /\ [StoreNext]_vars => UnknownIsTraced'
  <2>. SUFFICES ASSUME Basic, UnknownIsTraced, [StoreNext]_vars PROVE UnknownIsTraced'
    OBVIOUS
  <2>. USE EventsKept, GrantKept DEF UnknownIsTraced
  <2>1. CASE UNCHANGED <<inflight, settlements>>
    BY <2>1
  <2>2. CASE Begun
    BY <2>2 DEF Begun
  <2>3. CASE MarkedUnknown
    BY <2>3 DEF MarkedUnknown, Basic, TypeOK, Inflight
  <2>4. ASSUME NEW x \in Settlement, ClosedBy(x) PROVE UnknownIsTraced'
    BY <2>4 DEF ClosedBy
  <2>. QED  BY <2>1, <2>2, <2>3, <2>4, TableSteps DEF TableStep
<1>. QED
  BY <1>1, <1>2, BasicCorrect, PTL DEF Spec

\* Ownership, generation and session survive until exactly this effect is
\* settled: lease expiry, crashes and clock steps included.
THEOREM TakeoverBarrierHolds == Spec => TakeoverBarrier
<1>1. Basic /\ [StoreNext]_vars => [BarrierStep]_vars
  <2>. SUFFICES ASSUME Basic, [StoreNext]_vars PROVE BarrierStep
    OBVIOUS
  <2>. SUFFICES ASSUME inflight # None PROVE BarrierStep
    BY DEF BarrierStep
  <2>. USE NoneAssumption, GrantKept DEF BarrierStep
  <2>1. CASE UNCHANGED <<inflight, settlements>>
    BY <2>1
  <2>2. CASE Begun
    BY <2>2 DEF Begun
  <2>3. CASE MarkedUnknown
    BY <2>3 DEF MarkedUnknown, Basic, TypeOK, Inflight
  <2>4. ASSUME NEW x \in Settlement, ClosedBy(x) PROVE BarrierStep
    BY <2>4 DEF ClosedBy
  <2>. QED  BY <2>1, <2>2, <2>3, <2>4, TableSteps DEF TableStep
<1>. QED
  BY <1>1, BasicCorrect, PTL DEF Spec, TakeoverBarrier

\* No generation is granted twice, and none that a crashed acquire announced.
THEOREM FreshGenerationHolds == Spec => FreshGeneration
<1>1. Basic /\ AnchorBrackets /\ [StoreNext]_vars => [FreshStep]_vars
  <2>. SUFFICES ASSUME Basic, AnchorBrackets, [StoreNext]_vars PROVE FreshStep
    OBVIOUS
  <2>. USE NoneAssumption, LeaseAssumption DEF storeVars, rowVars, logVars, FreshStep, Basic, TypeOK
  <2>1. ASSUME NEW o \in Owner, NEW s \in Session, OwnerStep(o, s) PROVE FreshStep
    <3>1. ASSUME NEW g \in Generations, NEW ttl \in LeaseSeconds, NEW seen \in Seen,
                 Renew(o, s, g, ttl, seen)
          PROVE  FreshStep
      BY <3>1 DEF Renew, Live, Writer
    <3>2. ASSUME NEW ttl \in LeaseSeconds, NEW seen \in Seen, AcquireNew(o, s, ttl, seen)
          PROVE  FreshStep
      BY <3>2 DEF AcquireNew, MayGrant
    <3>. QED  BY <2>1, <3>1, <3>2 DEF OwnerStep, AcquireAgain, Release
  <2>2. ASSUME NEW o \in Owner, NEW s \in Session, NEW op \in Op, NEW i \in Intent,
               EffectStep(o, s, op, i)
        PROVE  UNCHANGED <<generation, writer>>
    BY <2>2 DEF EffectStep, BeginNew, BeginAgain, SettleUnknown, SettleTerminal,
                SettleAgain, SettleDisputed, Reconcile
  <2>. QED
    BY <2>1, <2>2 DEF StoreNext, StoreStep, ClockStep, vars, AcquireInterrupted, OpenStore
<1>. QED
  BY <1>1, BasicCorrect, AnchorCorrect, PTL DEF Spec, FreshGeneration

\* A grant that stands never loses lease time to a request.
THEOREM LeaseKeptHolds == Spec => LeaseKept
<1>1. Basic /\ [StoreNext]_vars => [LeaseKeptStep]_vars
  <2>. SUFFICES ASSUME Basic, [StoreNext]_vars PROVE LeaseKeptStep
    OBVIOUS
  <2>. USE NoneAssumption, LeaseAssumption
       DEF storeVars, rowVars, logVars, LeaseKeptStep, Basic, TypeOK, Writer
  <2>1. ASSUME NEW o \in Owner, NEW s \in Session, OwnerStep(o, s) PROVE LeaseKeptStep
    <3>1. ASSUME NEW g \in Generations, NEW ttl \in LeaseSeconds, NEW seen \in Seen,
                 Renew(o, s, g, ttl, seen)
          PROVE  LeaseKeptStep
      BY <3>1 DEF Renew, Live
    <3>. QED  BY <2>1, <3>1 DEF OwnerStep, AcquireNew, AcquireAgain, Release
  <2>2. ASSUME NEW o \in Owner, NEW s \in Session, NEW op \in Op, NEW i \in Intent,
               EffectStep(o, s, op, i)
        PROVE  UNCHANGED writer
    BY <2>2 DEF EffectStep, BeginNew, BeginAgain, SettleUnknown, SettleTerminal,
                SettleAgain, SettleDisputed, Reconcile
  <2>. QED
    BY <2>1, <2>2 DEF StoreNext, StoreStep, ClockStep, vars, AcquireInterrupted, OpenStore
<1>. QED
  BY <1>1, BasicCorrect, PTL DEF Spec, LeaseKept

-----------------------------------------------------------------------------
\* The store implements the ledger: every step is a step of FenceLedger or
\* leaves generation, open effect and recorded outcomes alone.
THEOREM LedgerImplemented == Spec => ImplementsLedger
<1>. USE NoneAssumption
<1>. DEFINE Recorded == {<<x.op, x.outcome>> : x \in settlements}
            OpenOp == IF inflight = None THEN None ELSE inflight.op
<1>1. StoreInit => Ledger!Init
  BY DEF StoreInit, Ledger!Init
<1>2. Basic /\ AnchorBrackets /\ SettledOnce /\ [StoreNext]_vars
        => [Ledger!Next]_Ledger!ledgerVars
  <2>. SUFFICES ASSUME Basic, AnchorBrackets, SettledOnce, [StoreNext]_vars
                PROVE  Ledger!Next \/ UNCHANGED Ledger!ledgerVars
    OBVIOUS
  <2>. USE DEF Basic, TypeOK
  <2>1. CASE UNCHANGED <<inflight, settlements>>
    <3>1. CASE generation' = generation
      BY <2>1, <3>1 DEF Ledger!ledgerVars
    <3>2. CASE generation' # generation
      <4>1. inflight = None
        BY <3>2, GrantKept
      <4>2. generation' \in Nat /\ generation' > generation
        BY <3>2, AnchorSteps
      <4>. QED  BY <2>1, <4>1, <4>2 DEF Ledger!Next, Ledger!NewEpoch
    <3>. QED  BY <3>1, <3>2
  <2>2. CASE Begun
    <3>1. generation' = generation
      BY <2>2, BegunKeepsGeneration DEF Begun
    <3>2. /\ inflight' # None /\ inflight'.op \in Op
          /\ \A out \in Terminal : <<inflight'.op, out>> \notin Recorded
      BY <2>2 DEF Begun, Inflight, SettledOp
    <3>3. Ledger!Open(inflight'.op)
      BY <2>2, <3>1, <3>2 DEF Begun, Ledger!Open
    <3>. QED  BY <3>2, <3>3 DEF Ledger!Next
  <2>3. CASE MarkedUnknown
    <3>1. inflight' # None /\ inflight'.op = inflight.op
      BY <2>3 DEF MarkedUnknown, Inflight
    <3>. QED
      BY <2>3, <3>1, GrantKept DEF MarkedUnknown, Ledger!ledgerVars
  <2>4. ASSUME NEW x \in Settlement, ClosedBy(x) PROVE Ledger!Next
    <3>1. Recorded' = Recorded \cup {<<inflight.op, x.outcome>>}
      BY <2>4 DEF ClosedBy
    <3>2. Ledger!Close(inflight.op, x.outcome)
      BY <2>4, <3>1, GrantKept DEF ClosedBy, Ledger!Close
    <3>3. inflight.op \in Op /\ x.outcome \in Terminal
      BY <2>4 DEF ClosedBy, Settlement
    <3>. QED  BY <3>2, <3>3 DEF Ledger!Next
  <2>. QED  BY <2>1, <2>2, <2>3, <2>4, TableSteps DEF TableStep
<1>. QED
  BY <1>1, <1>2, BasicCorrect, AnchorCorrect, SettledOnceCorrect, PTL
  DEF Spec, ImplementsLedger, Ledger!Spec

-----------------------------------------------------------------------------
(* A clock that never runs backwards.                                        *)

\* updated_at is in the past, and an anchor that is ahead finds a quiet row:
\* nothing in flight and no live lease, neither of which can come back,
\* because beginning and renewing need a lease that is still live.
Quiet ==
    /\ updatedAt <= clock
    /\ anchor > generation => inflight = None /\ ~Live

SteadyNext == StoreStep \/ ClockAdvance

\* A host whose clock only advances is a special case of any host.
LEMMA SteadyIsAny ==
  ASSUME TypeOK, [SteadyNext]_vars
  PROVE  [StoreNext]_vars
  BY BoundAssumption DEF SteadyNext, StoreNext, ClockAdvance, ClockStep, TypeOK

\* Every step under such a clock keeps Quiet.
LEMMA QuietStep ==
  ASSUME Basic, Quiet, [SteadyNext]_vars
  PROVE  Quiet'
<1>. USE LeaseAssumption, NoneAssumption
     DEF Basic, TypeOK, Quiet, Live, ClockSane, storeVars, rowVars, logVars
<1>1. ASSUME NEW o \in Owner, NEW s \in Session, OwnerStep(o, s), UNCHANGED clock
      PROVE  Quiet'
  BY <1>1 DEF OwnerStep, AcquireNew, AcquireAgain, MayAcquireAgain, Renew, Release
<1>2. ASSUME NEW o \in Owner, NEW s \in Session, NEW op \in Op, NEW i \in Intent,
             EffectStep(o, s, op, i), UNCHANGED clock
      PROVE  Quiet'
  <2>1. ASSUME NEW seen \in Seen, NEW g \in Generations,
               \/ BeginNew(o, s, g, op, i, seen)
               \/ BeginAgain(o, s, g, op, i, seen)
        PROVE  Quiet'
    BY <1>2, <2>1 DEF BeginNew, BeginAgain
  <2>2. ASSUME NEW seen \in Seen, NEW ev \in Evidence, NEW g \in Generations, NEW out \in Terminal,
               \/ SettleUnknown(o, s, g, op, i, ev, seen)
               \/ SettleTerminal(o, s, g, op, i, out, ev, seen)
               \/ Reconcile(o, g, op, i, ev, seen)
        PROVE  Quiet'
    BY <1>2, <2>2 DEF SettleUnknown, SettleTerminal, MaySettle, Reconcile, InflightIs, Insert
  <2>3. ASSUME NEW seen \in Seen, NEW ev \in Evidence, NEW out \in Terminal,
               \/ SettleAgain(o, s, op, i, out, ev, seen)
               \/ SettleDisputed(o, s, op, i, out, ev, seen)
        PROVE  Quiet'
    BY <1>2, <2>3 DEF SettleAgain, SettleDisputed
  <2>. QED  BY <1>2, <2>1, <2>2, <2>3 DEF EffectStep
<1>3. ASSUME NEW seen \in Seen, AcquireInterrupted(seen), UNCHANGED clock
      PROVE  Quiet'
  BY <1>3 DEF AcquireInterrupted, MayGrant
<1>4. CASE OpenStore /\ UNCHANGED clock
  BY <1>4 DEF OpenStore
<1>5. CASE ClockAdvance
  BY <1>5, BoundAssumption DEF ClockAdvance, Writer
<1>6. CASE UNCHANGED vars
  BY <1>6 DEF vars
<1>. QED
  BY <1>1, <1>2, <1>3, <1>4, <1>5, <1>6 DEF SteadyNext, StoreStep

\* Whatever crashes, a coordinator whose clock never runs backwards can open
\* its store.
THEOREM AlwaysOpensHolds == SteadySpec => []AlwaysOpens
<1>1. StoreInit => Quiet
  BY DEF StoreInit, Quiet
<1>2. Basic /\ Quiet /\ [SteadyNext]_vars => Basic' /\ Quiet'
  <2>. SUFFICES ASSUME Basic, Quiet, [SteadyNext]_vars PROVE Basic' /\ Quiet'
    OBVIOUS
  <2>1. [StoreNext]_vars
    BY SteadyIsAny DEF Basic
  <2>. QED  BY <2>1, BasicStep, QuietStep
<1>3. Basic /\ Quiet => AlwaysOpens
  BY DEF Basic, TypeOK, Quiet, AlwaysOpens, OpenFails, ClockSane
<1>. QED
  BY BasicInit, <1>1, <1>2, <1>3, PTL DEF SteadySpec, SteadyNext
=============================================================================
