------------------------- MODULE FenceEnforcementProofs -------------------------
(***************************************************************************)
(* Two peers, the RPC and the store together: type correctness, the mutual *)
(* exclusion of domain effects, the truth of the ledger, and the two links *)
(* between the local record and the coordinator on which they rest, for    *)
(* any number of operations, generations, faults and late requests.        *)
(*                                                                         *)
(* The invariant: what a peer has written down is backed by the store      *)
(* (Backed), a call belongs to the phase it was made in (CallFits) and its *)
(* answer is still true (AnswerHolds), and no request that is on its way   *)
(* can do what its peer does not stand for any more (Requests): a begin is *)
(* either for the grant the peer has on record or can never succeed again, *)
(* a settlement is the peer's own word or about an effect already settled. *)
(***************************************************************************)
EXTENDS FenceEnforcement, TLAPS

Settled(op) == \E x \in settlements : x.op = op
Flying(op, state) == inflight # None /\ inflight.op = op /\ inflight.state = state
InFlight(op) == inflight # None /\ inflight.op = op
Row(op, out, src) == \E x \in settlements : x.op = op /\ x.outcome = out /\ x.source = src

\* The grant g of op is not there any more, and will not come back.
Gone(op, g) == ~(generation = g /\ writer # None /\ writer.session = op)

-----------------------------------------------------------------------------
(* The store. *)

\* Who holds the fence holds it for an operation of its own, and what is in
\* flight is that operation, not settled.
Held ==
    /\ writer # None => writer.session[1] = writer.owner
    /\ inflight # None =>
          writer # None /\ inflight.op = writer.session /\ ~Settled(inflight.op)

\* What is in flight is on record at its peer.
Owned ==
    inflight # None =>
        /\ pending[writer.owner] # None
        /\ pending[writer.owner].op = inflight.op
        /\ pending[writer.owner].phase \notin {"prepared", "settled"}
        /\ pending[writer.owner].generation = generation

Rows ==
    /\ lastSettlement # None => lastSettlement \in settlements
    /\ \A x \in settlements :
          /\ x.op[2] <= used[x.op[1]]
          /\ x.outcome = "effect_not_applied" => effect[x.op] = "none"
          /\ x.outcome = "effect_applied" => effect[x.op] = "applied"

-----------------------------------------------------------------------------
(* A peer. *)

Numbered(p) ==
    /\ pending[p] # None => pending[p].op[1] = p /\ pending[p].op[2] <= used[p]
    /\ \A n \in 1..MaxOps : n > used[p] => effect[<<p, n>>] = "none"

Generated(p) ==
    /\ minSeen[p] <= generation
    /\ pending[p] # None =>
          IF pending[p].phase = "prepared" THEN pending[p].generation = None
          ELSE pending[p].generation \in Nat /\ pending[p].generation <= minSeen[p]

Reported(p) == pending[p].phase \in {"completion_ready", "outcome_unknown", "settled"}

\* The phase is backed by the store, and by what became of the effect.
Backed(p) ==
    pending[p] # None =>
        LET pd == pending[p]
            op == pending[p].op
        IN  /\ pd.phase \in {"prepared", "granted"} =>
                  ~Settled(op) /\ effect[op] = "none" /\ (InFlight(op) => Flying(op, "begun"))
            /\ pd.phase = "begun" => Flying(op, "begun") /\ effect[op] = "none"
            /\ pd.phase = "dispatching" => Flying(op, "begun")
            /\ Reported(p) =>
                  /\ pd.outcome \in Outcome /\ pd.evidence \in Evidence
                  /\ pd.outcome = "effect_not_applied" => effect[op] = "none"
                  /\ pd.outcome = "effect_applied" => effect[op] = "applied"
            /\ pd.phase = "completion_ready" =>
                  IF pd.outcome = "outcome_unknown"
                  THEN InFlight(op) \/ Row(op, "effect_applied", "reconcile")
                  ELSE /\ Flying(op, "begun") \/ Settled(op)
                       /\ \A x \in settlements : x.op = op =>
                             x.source = "writer" /\ x.outcome = pd.outcome
                             /\ x.evidence = pd.evidence
            /\ pd.phase = "outcome_unknown" =>
                  /\ pd.outcome = "outcome_unknown"
                  /\ Flying(op, "outcome_unknown") \/ Row(op, "effect_applied", "reconcile")
            /\ pd.phase = "settled" => Row(op, pd.outcome, "writer")

\* What the process is doing, and the effect it runs.
ModeOK(p) ==
    /\ mode[p] = "token" => pending[p] # None /\ pending[p].phase = "begun"
    /\ mode[p] \in {"effect", "succeeded", "raised"} =>
          pending[p] # None /\ pending[p].phase = "dispatching"
    /\ mode[p] = "effect" => effect[pending[p].op] = "running"
    /\ mode[p] = "succeeded" => effect[pending[p].op] = "applied"
    /\ mode[p] \in {"idle", "token", "effect", "succeeded", "raised"} => call[p] = None
    /\ \A n \in 1..MaxOps : effect[<<p, n>>] = "running" =>
          mode[p] = "effect" /\ pending[p].op = <<p, n>>

\* The phases in which a call is made for a reason.
Fits(reason, phase) ==
    /\ reason \in {"acquire", "acquire denied"} => phase = "prepared"
    /\ reason \in {"begin", "begin expired"} => phase = "granted"
    /\ reason = "settle" => phase = "completion_ready"
    /\ reason = "unknown outcome" => phase = "outcome_unknown"
    /\ reason \in {"release", "release failed"} => phase \in {"granted", "settled"}

\* A call is made in its phase and about what is on record.
CallFits(p) ==
    call[p] # None =>
        LET c == call[p]
        IN  /\ pending[p] # None
            /\ Fits(c.reason, pending[p].phase)
            /\ c.request.peer = p /\ c.request.op = pending[p].op
            /\ IF c.reason \in {"acquire", "begin", "settle", "release"}
               THEN c.request.kind = c.reason ELSE c.request.kind = "status"
            /\ c.reason \in {"begin", "settle", "release"} =>
                  c.request.generation = pending[p].generation
            /\ c.reason = "settle" =>
                  /\ c.request.outcome = pending[p].outcome
                  /\ c.request.evidence = pending[p].evidence

\* What a status read showed is still a bound on what is there.
StillShown(s) ==
    /\ s # None
    /\ s.generation <= generation
    /\ s.generation = generation /\ writer # None => s.writer = writer.owner
    /\ s.last # None => s.last \in settlements

\* An answer that has not been read yet is still true.
AnswerHolds(p) ==
    call[p] # None /\ call[p].reply # None =>
        LET c == call[p]
            pd == pending[p]
            ok == call[p].reply.code = "ok"
        IN  /\ c.reason = "acquire" => c.reply.code # "grant_expired"
            /\ c.reason = "acquire" /\ ok =>
                  c.reply.status # None /\ c.reply.status.generation <= generation
            /\ c.reason = "begin" /\ ok => Flying(pd.op, "begun")
            /\ c.reason = "settle" /\ ok =>
                  IF pd.outcome = "outcome_unknown"
                  THEN Flying(pd.op, "outcome_unknown") \/ Row(pd.op, "effect_applied", "reconcile")
                  ELSE Row(pd.op, pd.outcome, "writer")
            /\ c.reason = "release" /\ ok => Gone(pd.op, pd.generation)
            /\ c.request.kind = "status" => StillShown(c.reply.status)

\* The requests of p that may still be executed.
OnTheWay(p, r) == (r \in late /\ r.peer = p) \/ (call[p] # None /\ r = call[p].request)

Stands(p, r) ==
    /\ pending[p] # None
    /\ pending[p].op = r.op
    /\ r.kind = "begin" => pending[p].generation = r.generation
    /\ r.kind = "settle" => /\ Reported(p)
                            /\ pending[p].outcome = r.outcome
                            /\ pending[p].evidence = r.evidence

Requests(p) ==
    \A r \in Request : OnTheWay(p, r) =>
        /\ r.op[1] = p /\ r.op[2] <= used[p]
        /\ r.kind = "begin" =>
              /\ r.generation \in Nat /\ r.generation <= generation
              /\ Stands(p, r) \/ Settled(r.op) \/ Gone(r.op, r.generation)
        /\ r.kind = "settle" =>
              /\ r.outcome \in Outcome /\ r.evidence \in Evidence
              /\ Stands(p, r) \/ Settled(r.op)

PeerInv(p) ==
    /\ Numbered(p) /\ Generated(p) /\ Backed(p)
    /\ ModeOK(p) /\ CallFits(p) /\ AnswerHolds(p) /\ Requests(p)

IInv == TypeOK /\ Held /\ Owned /\ Rows /\ \A p \in Peer : PeerInv(p)

-----------------------------------------------------------------------------
(* What a step may do to the store. *)

\* Nothing that the invariant speaks of; anchor and events may change.
Quiet == UNCHANGED <<generation, writer, inflight, settlements, lastSettlement>>

Granting(r) ==
    /\ r.kind = "acquire"
    /\ inflight = None /\ inflight' = None
    /\ generation' = generation + 1
    /\ writer' \in Store!Writer /\ writer'.owner = r.peer /\ writer'.session = r.op
    /\ UNCHANGED <<settlements, lastSettlement>>

Beginning(r) ==
    /\ r.kind = "begin"
    /\ Store!Holds(r.peer, r.op, r.generation)
    /\ inflight = None
    /\ inflight' = [op |-> r.op, intent |-> r.op, state |-> "begun"]
    /\ ~Settled(r.op)
    /\ UNCHANGED <<generation, writer, settlements, lastSettlement>>

\* One row more, which closes what was in flight.
Closing(op, out, src) ==
    /\ inflight # None /\ inflight.op = op
    /\ inflight' = None
    /\ \E x \in Store!Settlement :
          /\ x.op = op /\ x.outcome = out /\ x.source = src
          /\ settlements' = settlements \cup {x}
          /\ lastSettlement' = x
    /\ UNCHANGED <<generation, writer>>

Settling(r) ==
    /\ r.kind = "settle" /\ r.outcome \in Store!Terminal
    /\ Store!Holds(r.peer, r.op, r.generation)
    /\ Closing(r.op, r.outcome, "writer")
    /\ \A x \in settlements' \ settlements : x.evidence = r.evidence

Doubting(r) ==
    /\ r.kind = "settle" /\ r.outcome = "outcome_unknown"
    /\ Store!Holds(r.peer, r.op, r.generation)
    /\ inflight # None /\ inflight.op = r.op
    /\ inflight' = [inflight EXCEPT !.state = "outcome_unknown"]
    /\ UNCHANGED <<generation, writer, settlements, lastSettlement>>

Releasing(r) ==
    /\ r.kind = "release"
    /\ Store!Holds(r.peer, r.op, r.generation)
    /\ inflight = None /\ inflight' = None
    /\ writer' = None
    /\ UNCHANGED <<generation, settlements, lastSettlement>>

Served(r) ==
    Quiet \/ Granting(r) \/ Beginning(r) \/ Settling(r) \/ Doubting(r) \/ Releasing(r)

\* A request with an outcome and its evidence, where it reports one.
WellFormed(r) ==
    /\ r \in Request
    /\ r.kind = "settle" => r.outcome \in Outcome /\ r.evidence \in Evidence

\* Executing a request does one of these.
LEMMA ServedStep ==
  ASSUME TypeOK, UNCHANGED clock, NEW r, WellFormed(r), NEW reply, Execute(r, reply)
  PROVE  Served(r) /\ Store!TypeOK'
<1>. USE NoneAssumption DEF fenceVars, TypeOK, Store!TypeOK, Store!Terminal, WellFormed, Request
<1>1. CASE r.kind = "acquire" /\ ExecAcquire(r, reply)
  <2>1. CASE Store!AcquireNew(r.peer, r.op, 1, r.seen)
    <3>1. writer' \in Store!Writer
      BY <2>1 DEF Store!AcquireNew, Store!Writer
    <3>. QED
      BY <1>1, <2>1, <3>1 DEF Store!AcquireNew, Store!MayGrant, Store!Writer, Store!logVars, Served, Granting
  <2>2. CASE UNCHANGED fenceVars
    BY <2>2 DEF Served, Quiet
  <2>3. CASE Store!AcquireAgain(r.peer, r.op, r.seen)
    BY <2>3 DEF Served, Quiet, Store!AcquireAgain, Store!storeVars, Store!rowVars, Store!logVars
  <2>. QED  BY <1>1, <2>1, <2>2, <2>3 DEF ExecAcquire
<1>2. CASE r.kind = "begin" /\ ExecBegin(r, reply)
  <2>1. CASE Store!BeginNew(r.peer, r.op, r.generation, r.op, r.op, r.seen)
    <3>1. inflight' \in Store!Inflight
      BY <2>1 DEF Store!BeginNew, Store!Inflight
    <3>. QED
      BY <1>2, <2>1, <3>1 DEF Store!BeginNew, Store!MayBegin, Store!logVars, Store!SettledOp, Settled,
          Served, Beginning
  <2>2. CASE UNCHANGED fenceVars
    BY <2>2 DEF Served, Quiet
  <2>3. CASE Store!BeginAgain(r.peer, r.op, r.generation, r.op, r.op, r.seen)
    BY <2>3 DEF Served, Quiet, Store!BeginAgain, Store!storeVars, Store!rowVars, Store!logVars
  <2>. QED  BY <1>2, <2>1, <2>2, <2>3 DEF ExecBegin
<1>3. CASE r.kind = "settle" /\ ExecSettle(r, reply)
  <2>1. CASE r.outcome \in Store!Terminal
             /\ Store!SettleTerminal(r.peer, r.op, r.generation, r.op, r.op, r.outcome, r.evidence, r.seen)
    <3>. DEFINE x == [generation |-> r.generation, owner |-> r.peer, session |-> r.op, op |-> r.op,
               intent |-> r.op, outcome |-> r.outcome, evidence |-> r.evidence,
               source |-> "writer", reconciler |-> None]
    <3>1. x \in Store!Settlement
      BY <1>3, <2>1 DEF Store!SettleTerminal, Store!MaySettle, Store!Holds, Store!Settlement
    <3>2. settlements' = settlements \cup {x} /\ lastSettlement' = x /\ inflight' = None
      BY <2>1 DEF Store!SettleTerminal, Store!Insert
    <3>3. inflight # None /\ inflight.op = r.op /\ Store!Holds(r.peer, r.op, r.generation)
          /\ UNCHANGED <<clock, generation, writer, anchor, events>>
      BY <2>1 DEF Store!SettleTerminal, Store!MaySettle, Store!InflightIs
    <3>4. Settling(r)
      BY <1>3, <2>1, <3>1, <3>2, <3>3 DEF Settling, Closing
    <3>. QED  BY <3>1, <3>2, <3>3, <3>4 DEF Served
  <2>2. CASE UNCHANGED fenceVars
    BY <2>2 DEF Served, Quiet
  <2>3. CASE Store!SettleAgain(r.peer, r.op, r.op, r.op, r.outcome, r.evidence, r.seen)
    BY <2>3 DEF Served, Quiet, Store!SettleAgain, Store!storeVars, Store!rowVars, Store!logVars
  <2>4. CASE r.outcome \in Store!Terminal
             /\ Store!SettleDisputed(r.peer, r.op, r.op, r.op, r.outcome, r.evidence, r.seen)
    BY <1>3, <2>4 DEF Served, Quiet, Store!SettleDisputed, Store!rowVars, Store!Event, Store!EventType
  <2>5. CASE r.outcome \notin Store!Terminal
             /\ Store!SettleUnknown(r.peer, r.op, r.generation, r.op, r.op, r.evidence, r.seen)
    <3>1. r.outcome = "outcome_unknown"
      BY <1>3, <2>5 DEF Outcome
    <3>2. inflight' \in Store!Inflight /\ events' \subseteq Store!Event
      BY <1>3, <2>5 DEF Store!SettleUnknown, Store!MaySettle, Store!InflightIs, Store!Inflight, Store!Event, Store!EventType
    <3>. QED
      BY <1>3, <2>5, <3>1, <3>2 DEF Store!SettleUnknown, Store!MaySettle, Store!InflightIs, Served, Doubting
  <2>. QED  BY <1>3, <2>1, <2>2, <2>3, <2>4, <2>5 DEF ExecSettle
<1>4. CASE r.kind = "release" /\ ExecRelease(r, reply)
  BY <1>4 DEF ExecRelease, Store!Release, Store!MayRelease, Store!logVars, Served, Quiet, Releasing
<1>5. CASE r.kind = "status" /\ ExecStatus(reply)
  BY <1>5 DEF ExecStatus, Served, Quiet
<1>. QED
  BY <1>1, <1>2, <1>3, <1>4, <1>5 DEF Execute

Reconciling ==
    /\ inflight # None /\ inflight.state = "outcome_unknown"
    /\ effect[inflight.op] = "applied"
    /\ Closing(inflight.op, "effect_applied", "reconcile")

Repairing ==
    /\ inflight = None /\ inflight' = None
    /\ generation' \in Nat /\ generation' > generation
    /\ writer' = None
    /\ UNCHANGED <<settlements, lastSettlement>>

StoreMove ==
    \/ Quiet
    \/ \E r \in Request : OnTheWay(r.peer, r) /\ Served(r)
    \/ Reconciling
    \/ Repairing

\* What a peer has on record, and the world, are left alone.
PeersKept == UNCHANGED <<pending, minSeen, mode, used, effect>>

\* Generations go up, settlements stay, and a grant is never given back.
Forward ==
    /\ generation' \in Nat /\ generation <= generation'
    /\ settlements \subseteq settlements'
    /\ generation' = generation /\ writer' # None => writer # None /\ writer' = writer

\* Every store step goes forward.
LEMMA ForwardStep ==
  ASSUME TypeOK, StoreMove PROVE Forward
<1>. USE DEF Forward, TypeOK, Store!TypeOK
<1>1. ASSUME NEW r \in Request, Served(r) PROVE Forward
  BY <1>1 DEF Served, Quiet, Granting, Beginning, Settling, Closing, Doubting, Releasing
<1>2. CASE Reconciling
  BY <1>2 DEF Reconciling, Closing
<1>3. CASE Quiet \/ Repairing
  BY <1>3 DEF Quiet, Repairing
<1>. QED  BY <1>1, <1>2, <1>3 DEF StoreMove

\* Only a request that its peer stands for changes what is in flight.
LEMMA ActsByStanding ==
  ASSUME IInv, NEW r \in Request, OnTheWay(r.peer, r),
         Beginning(r) \/ Settling(r) \/ Doubting(r)
  PROVE  Stands(r.peer, r) /\ r.op[1] = r.peer
<1>1. r.peer \in Peer
  BY DEF Request
<1>2. Requests(r.peer)
  BY <1>1 DEF IInv, PeerInv
<1>3. CASE Beginning(r)
  BY <1>2, <1>3 DEF Requests, Beginning, Gone, Store!Holds, Store!IsHolder
<1>4. CASE Settling(r) \/ Doubting(r)
  <2>1. ~Settled(r.op)
    BY <1>4 DEF IInv, Held, Settling, Doubting, Closing
  <2>. QED  BY <1>2, <1>4, <2>1 DEF Requests, Settling, Doubting
<1>. QED  BY <1>3, <1>4

\* What a store step can mean for the effect that a peer has pending.
SameFor(op) ==
    /\ InFlight(op) \/ InFlight(op)' => inflight' = inflight
    /\ settlements \subseteq settlements'
    /\ \A x \in settlements' : x.op = op => x \in settlements

BegunNow(p) ==
    /\ ~InFlight(pending[p].op) /\ ~Settled(pending[p].op)
    /\ Flying(pending[p].op, "begun")'
    /\ settlements' = settlements
    /\ pending[p].phase \notin {"prepared", "settled"}
    /\ pending[p].generation = generation

SettledNow(p) ==
    /\ InFlight(pending[p].op) /\ Reported(p) /\ ~Settled(pending[p].op)
    /\ \E x \in Store!Settlement :
          /\ x.op = pending[p].op /\ x.outcome = pending[p].outcome
          /\ x.evidence = pending[p].evidence
          /\ x.source = "writer" /\ x.outcome # "outcome_unknown"
          /\ settlements' = settlements \cup {x}

DoubtedNow(p) ==
    /\ InFlight(pending[p].op) /\ Reported(p) /\ ~Settled(pending[p].op)
    /\ pending[p].outcome = "outcome_unknown"
    /\ Flying(pending[p].op, "outcome_unknown")'
    /\ settlements' = settlements

ReconciledNow(p) ==
    /\ Flying(pending[p].op, "outcome_unknown") /\ ~Settled(pending[p].op)
    /\ \E x \in Store!Settlement :
          /\ x.op = pending[p].op /\ x.outcome = "effect_applied" /\ x.source = "reconcile"
          /\ settlements' = settlements \cup {x}

OpMove(p) ==
    \/ SameFor(pending[p].op)
    \/ BegunNow(p) \/ SettledNow(p) \/ DoubtedNow(p) \/ ReconciledNow(p)

\* For the effect a peer has pending, every store step is one of these.
LEMMA OpMoves ==
  ASSUME IInv, StoreMove, PeersKept, NEW p \in Peer, pending[p] # None
  PROVE  OpMove(p)
<1>. DEFINE op == pending[p].op
<1>. USE NoneAssumption
<1>1. op[1] = p /\ op' = op
  BY DEF IInv, PeerInv, Numbered, PeersKept
<1>2. ASSUME NEW r \in Request, OnTheWay(r.peer, r), Served(r) PROVE OpMove(p)
  <2>1. CASE Quiet \/ Granting(r) \/ Releasing(r)
    BY <2>1 DEF Quiet, Granting, Releasing, OpMove, SameFor, InFlight
  <2>2. CASE Beginning(r)
    <3>1. Stands(r.peer, r) /\ r.op[1] = r.peer
      BY <1>2, <2>2, ActsByStanding
    <3>2. CASE r.op = op
      <4>1. r.peer = p
        BY <1>1, <3>1, <3>2
      <4>2. ~InFlight(op) /\ ~Settled(op) /\ settlements' = settlements
        BY <2>2, <3>2 DEF Beginning, InFlight
      <4>3. Flying(op, "begun")'
        <5>1. inflight' \in [op : {op}, intent : {op}, state : {"begun"}]
          BY <2>2, <3>2 DEF Beginning
        <5>2. inflight' # None
          <6>1. inflight' \in Store!Inflight
            BY <5>1 DEF Store!Inflight, IInv, TypeOK, Pending
          <6>. QED  BY <6>1
        <5>. QED  BY <1>1, <5>1, <5>2 DEF Flying
      <4>4. pending[p].generation = generation /\ generation \in Nat
        BY <2>2, <3>1, <4>1 DEF Stands, Beginning, Store!Holds, IInv, TypeOK, Store!TypeOK
      <4>5. pending[p].phase \notin {"prepared", "settled"}
        <5>1. pending[p].phase # "prepared"
          BY <4>4 DEF IInv, PeerInv, Generated
        <5>2. pending[p].phase # "settled"
          BY <4>2 DEF IInv, PeerInv, Backed, Row, Settled
        <5>. QED  BY <5>1, <5>2
      <4>. QED  BY <4>2, <4>3, <4>4, <4>5 DEF OpMove, BegunNow
    <3>3. CASE r.op # op
      <4>1. ~InFlight(op) /\ ~InFlight(op)'
        BY <1>1, <2>2, <3>3 DEF Beginning, InFlight
      <4>. QED  BY <2>2, <4>1 DEF Beginning, OpMove, SameFor
    <3>. QED  BY <3>2, <3>3
  <2>3. CASE Settling(r)
    <3>1. Stands(r.peer, r) /\ r.op[1] = r.peer
      BY <1>2, <2>3, ActsByStanding
    <3>2. CASE r.op = op
      <4>1. r.peer = p
        BY <1>1, <3>1, <3>2
      <4>2. InFlight(op) /\ ~Settled(op)
        BY <2>3, <3>2 DEF Settling, Closing, InFlight, IInv, Held
      <4>3. Reported(p) /\ pending[p].outcome = r.outcome /\ pending[p].evidence = r.evidence
        BY <2>3, <3>1, <4>1 DEF Stands, Settling
      <4>. QED
        BY <2>3, <3>2, <4>2, <4>3
        DEF Settling, Closing, OpMove, SettledNow, Store!Terminal, Settled
    <3>3. CASE r.op # op
      BY <2>3, <3>3 DEF Settling, Closing, InFlight, OpMove, SameFor
    <3>. QED  BY <3>2, <3>3
  <2>4. CASE Doubting(r)
    <3>1. Stands(r.peer, r) /\ r.op[1] = r.peer
      BY <1>2, <2>4, ActsByStanding
    <3>2. inflight' \in Store!Inflight /\ inflight'.op = r.op /\ inflight'.state = "outcome_unknown"
      BY <2>4 DEF Doubting, IInv, TypeOK, Store!TypeOK, Store!Inflight
    <3>3. CASE r.op = op
      <4>1. r.peer = p
        BY <1>1, <3>1, <3>3
      <4>2. InFlight(op) /\ ~Settled(op)
        BY <2>4, <3>3 DEF Doubting, InFlight, IInv, Held
      <4>3. Reported(p) /\ pending[p].outcome = "outcome_unknown"
        BY <2>4, <3>1, <4>1 DEF Stands, Doubting
      <4>4. Flying(op, "outcome_unknown")'
        BY <1>1, <3>2, <3>3 DEF Flying
      <4>. QED
        BY <2>4, <4>2, <4>3, <4>4 DEF Doubting, OpMove, DoubtedNow
    <3>4. CASE r.op # op
      <4>1. ~InFlight(op) /\ ~InFlight(op)'
        BY <1>1, <2>4, <3>2, <3>4 DEF Doubting, InFlight
      <4>. QED  BY <2>4, <4>1 DEF Doubting, OpMove, SameFor
    <3>. QED  BY <3>3, <3>4
  <2>. QED  BY <1>2, <2>1, <2>2, <2>3, <2>4 DEF Served
<1>3. CASE Reconciling
  <2>1. CASE inflight.op = op
    <3>1. Flying(op, "outcome_unknown") /\ ~Settled(op)
      BY <1>3, <2>1 DEF Reconciling, Flying, IInv, Held
    <3>. QED  BY <1>3, <2>1, <3>1 DEF Reconciling, Closing, OpMove, ReconciledNow
  <2>2. CASE inflight.op # op
    BY <1>3, <2>2 DEF Reconciling, Closing, InFlight, OpMove, SameFor
  <2>. QED  BY <2>1, <2>2
<1>4. CASE Quiet \/ Repairing
  BY <1>4 DEF Quiet, Repairing, OpMove, SameFor, InFlight
<1>. QED  BY <1>2, <1>3, <1>4 DEF StoreMove

-----------------------------------------------------------------------------
(* A store step keeps the invariant. *)

\* A store step leaves the fence with an operation of the holder's own.
LEMMA HeldKept ==
  ASSUME IInv, StoreMove PROVE Held'
<1>. USE NoneAssumption DEF Held, Settled
<1>1. Held /\ TypeOK
  BY DEF IInv
<1>2. ASSUME NEW r \in Request, OnTheWay(r.peer, r), Served(r) PROVE Held'
  <2>1. CASE Quiet \/ Releasing(r)
    BY <1>1, <2>1 DEF Quiet, Releasing
  <2>2. CASE Granting(r)
    <3>1. r.op[1] = r.peer
      BY <1>2 DEF IInv, PeerInv, Requests, Request
    <3>. QED  BY <2>2, <3>1 DEF Granting
  <2>3. CASE Beginning(r)
    BY <1>1, <2>3 DEF Beginning, Store!Holds, Store!IsHolder
  <2>4. CASE Settling(r)
    BY <1>1, <2>4 DEF Settling, Closing
  <2>5. CASE Doubting(r)
    <3>1. inflight'.op = inflight.op
      BY <1>1, <2>5 DEF Doubting, TypeOK, Store!TypeOK, Store!Inflight
    <3>. QED  BY <1>1, <2>5, <3>1 DEF Doubting
  <2>. QED  BY <1>2, <2>1, <2>2, <2>3, <2>4, <2>5 DEF Served
<1>3. CASE Reconciling
  BY <1>1, <1>3 DEF Reconciling, Closing
<1>4. CASE Quiet \/ Repairing
  BY <1>1, <1>4 DEF Quiet, Repairing
<1>. QED  BY <1>2, <1>3, <1>4 DEF StoreMove

\* What a store step leaves in flight is on record at its peer.
LEMMA OwnedKept ==
  ASSUME IInv, StoreMove, PeersKept PROVE Owned'
<1>. USE NoneAssumption DEF Owned
<1>1. Owned /\ TypeOK
  BY DEF IInv
<1>2. ASSUME NEW r \in Request, OnTheWay(r.peer, r), Served(r) PROVE Owned'
  <2>1. CASE Quiet \/ Granting(r) \/ Settling(r) \/ Releasing(r)
    BY <1>1, <2>1 DEF Quiet, Granting, Settling, Closing, Releasing, PeersKept
  <2>2. CASE Beginning(r)
    <3>. DEFINE p == r.peer
    <3>1. p \in Peer
      BY DEF Request
    <3>2. Stands(p, r) /\ r.op[1] = p
      BY <1>2, <2>2, ActsByStanding
    <3>3. pending[p] # None /\ pending[p].op = r.op /\ pending[p].generation = generation
          /\ generation \in Nat
      BY <1>1, <2>2, <3>2 DEF Beginning, Stands, Store!Holds, TypeOK, Store!TypeOK
    <3>4. pending[p].phase \notin {"prepared", "settled"}
      <4>1. pending[p].phase # "prepared"
        BY <3>1, <3>3 DEF IInv, PeerInv, Generated
      <4>2. pending[p].phase # "settled"
        BY <2>2, <3>1, <3>3 DEF IInv, PeerInv, Backed, Row, Settled, Beginning
      <4>. QED  BY <4>1, <4>2
    <3>5. writer' = writer /\ writer.owner = p /\ inflight'.op = r.op /\ generation' = generation
      BY <2>2 DEF Beginning, Store!Holds, Store!IsHolder
    <3>. QED  BY <3>3, <3>4, <3>5 DEF PeersKept
  <2>3. CASE Doubting(r)
    <3>1. inflight'.op = inflight.op
      BY <1>1, <2>3 DEF Doubting, TypeOK, Store!TypeOK, Store!Inflight
    <3>. QED  BY <1>1, <2>3, <3>1 DEF Doubting, PeersKept
  <2>. QED  BY <1>2, <2>1, <2>2, <2>3 DEF Served
<1>3. CASE Quiet \/ Reconciling \/ Repairing
  BY <1>1, <1>3 DEF Quiet, Reconciling, Closing, Repairing, PeersKept
<1>. QED  BY <1>2, <1>3 DEF StoreMove

\* The peer whose effect is in flight.
LEMMA WhoFlies ==
  ASSUME IInv, inflight # None
  PROVE  \E p \in Peer : /\ p = inflight.op[1] /\ pending[p] # None
                         /\ pending[p].op = inflight.op /\ InFlight(pending[p].op)
  <1>1. writer \in Store!Writer /\ writer.owner \in Peer /\ writer.owner = inflight.op[1]
    BY NoneAssumption DEF IInv, Held, TypeOK, Store!TypeOK, Store!Writer
  <1>. QED  BY <1>1 DEF IInv, Owned, InFlight

\* A store step records only what is true of the effects.
LEMMA RowsKept ==
  ASSUME IInv, StoreMove, PeersKept PROVE Rows'
<1>. USE DEF Rows
<1>1. Rows /\ TypeOK
  BY DEF IInv
<1>2. ASSUME NEW x \in Store!Settlement, inflight # None, x.op = inflight.op,
             settlements' = settlements \cup {x}, lastSettlement' = x,
             \/ x.outcome = "effect_applied" /\ effect[x.op] = "applied"
             \/ \E r \in Request : OnTheWay(r.peer, r) /\ Settling(r) /\ x.outcome = r.outcome
      PROVE  Rows'
  <2>1. PICK p \in Peer : /\ p = inflight.op[1] /\ pending[p] # None
                          /\ pending[p].op = inflight.op
    BY <1>2, WhoFlies
  <2>2. x.op[2] <= used[x.op[1]]
    BY <1>2, <2>1 DEF IInv, PeerInv, Numbered
  <2>3. /\ x.outcome = "effect_not_applied" => effect[x.op] = "none"
        /\ x.outcome = "effect_applied" => effect[x.op] = "applied"
    <3>1. CASE x.outcome = "effect_applied" /\ effect[x.op] = "applied"
      BY <3>1
    <3>2. ASSUME NEW r \in Request, OnTheWay(r.peer, r), Settling(r), x.outcome = r.outcome
          PROVE  /\ x.outcome = "effect_not_applied" => effect[x.op] = "none"
                 /\ x.outcome = "effect_applied" => effect[x.op] = "applied"
      <4>1. Stands(r.peer, r) /\ r.op[1] = r.peer /\ r.op = inflight.op
        BY <3>2, ActsByStanding DEF Settling, Closing
      <4>2. Reported(p) /\ pending[p].outcome = r.outcome
        BY <2>1, <3>2, <4>1 DEF Stands, Settling
      <4>. QED  BY <1>2, <2>1, <3>2, <4>2 DEF IInv, PeerInv, Backed
    <3>. QED  BY <1>2, <3>1, <3>2
  <2>. QED  BY <1>1, <1>2, <2>2, <2>3 DEF PeersKept
<1>3. ASSUME NEW r \in Request, OnTheWay(r.peer, r), Served(r) PROVE Rows'
  <2>1. CASE Settling(r)
    BY <1>2, <1>3, <2>1 DEF Settling, Closing
  <2>. QED
    BY <1>1, <1>3, <2>1 DEF Served, Quiet, Granting, Beginning, Doubting, Releasing, PeersKept
<1>4. CASE Reconciling
  BY <1>2, <1>4 DEF Reconciling, Closing
<1>5. CASE Quiet \/ Repairing
  BY <1>1, <1>5 DEF Quiet, Repairing, PeersKept
<1>. QED  BY <1>3, <1>4, <1>5 DEF StoreMove

\* A store step does not take the backing from any phase.
LEMMA BackedKept ==
  ASSUME IInv, StoreMove, PeersKept, NEW p \in Peer PROVE Backed(p)'
<1>. SUFFICES ASSUME pending[p] # None PROVE Backed(p)'
  BY DEF Backed, PeersKept
<1>. DEFINE op == pending[p].op
<1>. USE NoneAssumption
<1>1. Backed(p) /\ OpMove(p) /\ pending' = pending /\ effect' = effect
  BY OpMoves DEF IInv, PeerInv, PeersKept
<1>2. settlements \subseteq settlements'
  BY ForwardStep DEF Forward, IInv
<1>. USE DEF Backed, Reported, Flying, InFlight, Settled, Row
<1>3. CASE SameFor(op)
  BY <1>1, <1>2, <1>3 DEF SameFor
<1>4. CASE BegunNow(p)
  BY <1>1, <1>2, <1>4 DEF BegunNow
<1>5. CASE SettledNow(p)
  BY <1>1, <1>2, <1>5 DEF SettledNow
<1>6. CASE DoubtedNow(p)
  BY <1>1, <1>2, <1>6 DEF DoubtedNow
<1>7. CASE ReconciledNow(p)
  BY <1>1, <1>2, <1>7 DEF ReconciledNow
<1>. QED  BY <1>1, <1>3, <1>4, <1>5, <1>6, <1>7 DEF OpMove

\* Calls and late requests are what they were, but for answers and losses.
SameCall(p) ==
    /\ call'[p] # None <=> call[p] # None
    /\ call[p] # None => call'[p].reason = call[p].reason /\ call'[p].request = call[p].request

\* A store step leaves the rest of what is known of a peer as it was.
LEMMA PeerKept ==
  ASSUME IInv, StoreMove, PeersKept, late' \subseteq late, NEW p \in Peer, SameCall(p)
  PROVE  Numbered(p)' /\ Generated(p)' /\ ModeOK(p)' /\ CallFits(p)' /\ Requests(p)'
<1>1. TypeOK /\ Numbered(p) /\ Generated(p) /\ ModeOK(p) /\ CallFits(p) /\ Requests(p)
  BY DEF IInv, PeerInv
<1>2. Forward
  BY <1>1, ForwardStep
<1>. USE DEF PeersKept
<1>3. Numbered(p)'
  BY <1>1 DEF Numbered
<1>4. Generated(p)'
  BY <1>1, <1>2 DEF Generated, Forward, TypeOK, Store!TypeOK
<1>5. ModeOK(p)'
  BY <1>1 DEF ModeOK, SameCall
<1>6. CallFits(p)'
  BY <1>1 DEF CallFits, SameCall
<1>7. Requests(p)'
  <2>. SUFFICES ASSUME NEW r \in Request, OnTheWay(p, r)'
                PROVE  /\ r.op[1] = p /\ r.op[2] <= used'[p]
                       /\ r.kind = "begin" =>
                             /\ r.generation \in Nat /\ r.generation <= generation'
                             /\ Stands(p, r)' \/ Settled(r.op)' \/ Gone(r.op, r.generation)'
                       /\ r.kind = "settle" =>
                             /\ r.outcome \in Outcome /\ r.evidence \in Evidence
                             /\ Stands(p, r)' \/ Settled(r.op)'
    BY DEF Requests
  <2>1. OnTheWay(p, r)
    BY DEF OnTheWay, SameCall
  <2>2. Stands(p, r) <=> Stands(p, r)'
    BY DEF Stands, Reported
  <2>3. Settled(r.op) => Settled(r.op)'
    BY <1>2 DEF Settled, Forward
  <2>4. r.generation \in Nat /\ r.generation <= generation /\ Gone(r.op, r.generation)
          => Gone(r.op, r.generation)'
    BY <1>1, <1>2 DEF Gone, Forward, TypeOK, Store!TypeOK
  <2>5. r.generation \in Nat /\ r.generation <= generation => r.generation <= generation'
    BY <1>1, <1>2 DEF Forward, TypeOK, Store!TypeOK
  <2>. QED  BY <1>1, <2>1, <2>2, <2>3, <2>4, <2>5 DEF Requests
<1>. QED  BY <1>3, <1>4, <1>5, <1>6, <1>7

\* An answer that was true before a store step is true after it.
LEMMA AnswerKept ==
  ASSUME IInv, StoreMove, PeersKept, NEW p \in Peer, call'[p] = call[p]
  PROVE  AnswerHolds(p)'
<1>. SUFFICES ASSUME call[p] # None, call[p].reply # None
              PROVE  AnswerHolds(p)'
  BY DEF AnswerHolds
<1>. DEFINE op == pending[p].op
<1>. USE NoneAssumption
<1>1. /\ TypeOK /\ AnswerHolds(p) /\ CallFits(p) /\ Generated(p) /\ Backed(p)
      /\ pending[p] # None /\ OpMove(p) /\ Forward /\ pending' = pending
  BY OpMoves, ForwardStep DEF IInv, PeerInv, PeersKept, CallFits
<1>2. call[p] \in Call /\ call[p].reply \in Reply
  BY <1>1 DEF TypeOK, Call
<1>3. ASSUME call[p].reason = "acquire", call[p].reply.code = "ok"
      PROVE  call[p].reply.status # None /\ call[p].reply.status.generation <= generation'
  <2>1. call[p].reply.status \in Snapshot /\ call[p].reply.status.generation <= generation
    BY <1>1, <1>2, <1>3 DEF AnswerHolds, Reply
  <2>. QED  BY <1>1, <2>1 DEF Forward, TypeOK, Store!TypeOK, Snapshot
<1>4. ASSUME call[p].reason = "begin", call[p].reply.code = "ok"
      PROVE  Flying(op, "begun")'
  <2>1. pending[p].phase = "granted" /\ Flying(op, "begun")
    BY <1>1, <1>4 DEF AnswerHolds, CallFits, Fits
  <2>. QED
    BY <1>1, <2>1 DEF OpMove, SameFor, BegunNow, SettledNow, DoubtedNow, ReconciledNow,
       Reported, Flying, InFlight
<1>5. ASSUME call[p].reason = "settle", call[p].reply.code = "ok"
      PROVE  IF pending[p].outcome = "outcome_unknown"
             THEN Flying(op, "outcome_unknown")' \/ Row(op, "effect_applied", "reconcile")'
             ELSE Row(op, pending[p].outcome, "writer")'
  <2>1. IF pending[p].outcome = "outcome_unknown"
        THEN Flying(op, "outcome_unknown") \/ Row(op, "effect_applied", "reconcile")
        ELSE Row(op, pending[p].outcome, "writer")
    BY <1>1, <1>5 DEF AnswerHolds
  <2>. QED
    BY <1>1, <2>1 DEF OpMove, Forward, SameFor, BegunNow, SettledNow, DoubtedNow, ReconciledNow,
       Flying, InFlight, Row
<1>6. ASSUME call[p].reason = "release", call[p].reply.code = "ok"
      PROVE  Gone(op, pending[p].generation)'
  <2>1. Gone(op, pending[p].generation) /\ pending[p].generation \in Nat
        /\ pending[p].generation <= generation
    BY <1>1, <1>6 DEF AnswerHolds, CallFits, Fits, Generated, TypeOK, Store!TypeOK
  <2>. QED  BY <1>1, <2>1 DEF Gone, Forward, TypeOK, Store!TypeOK
<1>7. ASSUME call[p].request.kind = "status"
      PROVE  StillShown(call[p].reply.status)'
  <2>1. StillShown(call[p].reply.status) /\ call[p].reply.status \in Snapshot \cup {None}
    BY <1>1, <1>2, <1>7 DEF AnswerHolds, Reply
  <2>2. StillShown(call[p].reply.status)' <=> (LET s == call[p].reply.status IN
          /\ s # None /\ s.generation <= generation'
          /\ s.generation = generation' /\ writer' # None => s.writer = writer'.owner
          /\ s.last # None => s.last \in settlements')
    BY DEF StillShown
  <2>. QED
    BY <1>1, <2>1, <2>2 DEF Forward, StillShown, TypeOK, Store!TypeOK, Snapshot
<1>. QED  BY <1>1, <1>3, <1>4, <1>5, <1>6, <1>7 DEF AnswerHolds

\* What the coordinator answers is true when it is given.
LEMMA AnswerTrue ==
  ASSUME IInv, PeersKept, UNCHANGED clock, NEW p \in Peer, call[p] # None,
         NEW reply \in Reply, Execute(call[p].request, reply), WellFormed(call[p].request),
         call'[p] = [call[p] EXCEPT !.reply = reply]
  PROVE  AnswerHolds(p)'
<1>. DEFINE r == call[p].request
            op == pending[p].op
<1>. USE NoneAssumption
<1>1. /\ TypeOK /\ Held /\ Rows /\ CallFits(p) /\ Generated(p) /\ Backed(p)
      /\ pending[p] # None /\ pending' = pending /\ call[p] \in Call
  BY DEF IInv, PeerInv, PeersKept, CallFits, TypeOK
<1>2. /\ call'[p] # None /\ call'[p].reason = call[p].reason /\ call'[p].request = r
      /\ call'[p].reply = reply
  BY <1>1 DEF Call
<1>3. r.peer = p /\ r.op = op
  BY <1>1 DEF CallFits
<1>4. ASSUME call[p].reason = "acquire", reply.code = "ok"
      PROVE  reply.status # None /\ reply.status.generation <= generation'
  <2>1. r.kind = "acquire" /\ ExecAcquire(r, reply)
    BY <1>1, <1>4 DEF CallFits, Execute
  <2>2. \/ reply = Granted(generation + 1) /\ generation' = generation + 1
        \/ reply = Granted(generation) /\ generation' = generation
    BY <1>4, <2>1 DEF ExecAcquire, Answer, Store!AcquireNew, Store!AcquireAgain, Store!storeVars,
       Store!rowVars
  <2>3. \A g \in Nat : Granted(g).status \in Snapshot /\ Granted(g).status.generation = g
    BY DEF Granted, Snapshot
  <2>. QED  BY <1>1, <2>2, <2>3 DEF TypeOK, Store!TypeOK
<1>5. ASSUME call[p].reason = "begin", reply.code = "ok"
      PROVE  Flying(op, "begun")'
  <2>1. r.kind = "begin" /\ ExecBegin(r, reply) /\ pending[p].phase = "granted"
    BY <1>1, <1>5 DEF CallFits, Execute, Fits
  <2>2. CASE Store!BeginNew(r.peer, r.op, r.generation, r.op, r.op, r.seen)
    <3>1. inflight' \in Store!Inflight /\ inflight'.op = op /\ inflight'.state = "begun"
      BY <1>3, <2>2 DEF WellFormed, Request, Store!BeginNew, Store!Inflight
    <3>. QED  BY <1>1, <3>1 DEF Flying
  <2>3. CASE Store!BeginAgain(r.peer, r.op, r.generation, r.op, r.op, r.seen)
    <3>1. InFlight(op) /\ inflight' = inflight
      BY <1>3, <2>3 DEF Store!BeginAgain, Store!MayBeginAgain, Store!InflightIs, Store!storeVars,
         Store!rowVars, InFlight
    <3>. QED  BY <1>1, <2>1, <3>1 DEF Backed, Flying
  <2>. QED  BY <1>5, <2>1, <2>2, <2>3 DEF ExecBegin, Answer
<1>6. ASSUME call[p].reason = "settle", reply.code = "ok"
      PROVE  IF pending[p].outcome = "outcome_unknown"
             THEN Flying(op, "outcome_unknown")'
             ELSE Row(op, pending[p].outcome, "writer")'
  <2>1. /\ r.kind = "settle" /\ ExecSettle(r, reply) /\ pending[p].phase = "completion_ready"
        /\ r.outcome = pending[p].outcome /\ r.evidence = pending[p].evidence
        /\ r.outcome \in Outcome
    BY <1>1, <1>6 DEF CallFits, Execute, Fits, WellFormed
  <2>2. CASE r.outcome \notin Store!Terminal
             /\ Store!SettleUnknown(r.peer, r.op, r.generation, r.op, r.op, r.evidence, r.seen)
    <3>1. inflight' \in Store!Inflight /\ inflight'.op = op /\ inflight'.state = "outcome_unknown"
      BY <1>1, <1>3, <2>2 DEF Store!SettleUnknown, Store!MaySettle, Store!InflightIs,
         Store!Inflight, TypeOK, Store!TypeOK
    <3>. QED  BY <1>1, <2>1, <2>2, <3>1 DEF Flying, Outcome, Store!Terminal
  <2>3. CASE /\ r.outcome \in Store!Terminal
             /\ Store!SettleTerminal(r.peer, r.op, r.generation, r.op, r.op, r.outcome, r.evidence, r.seen)
    <3>1. \E x \in settlements' : x.op = op /\ x.outcome = r.outcome /\ x.source = "writer"
      BY <1>3, <2>3 DEF Store!SettleTerminal, Store!Insert
    <3>. QED  BY <1>1, <2>1, <2>3, <3>1 DEF Row, Store!Terminal
  <2>4. CASE /\ r.outcome \in Store!Terminal
             /\ Store!SettleAgain(r.peer, r.op, r.op, r.op, r.outcome, r.evidence, r.seen)
    <3>1. \E x \in settlements' : x.op = op /\ x.outcome = r.outcome /\ x.source = "writer"
      BY <1>3, <2>4 DEF Store!SettleAgain, Store!MaySettleAgain, Store!SameActorRows,
         Store!storeVars, Store!logVars
    <3>. QED  BY <1>1, <2>1, <2>4, <3>1 DEF Row, Store!Terminal
  <2>5. CASE /\ r.outcome \in Store!Terminal
             /\ Store!SettleDisputed(r.peer, r.op, r.op, r.op, r.outcome, r.evidence, r.seen)
    <3>1. \E x \in settlements : x.op = op
              /\ ~(x.source = "writer" /\ x.outcome = r.outcome /\ x.evidence = r.evidence)
      BY <1>3, <2>5 DEF Store!SettleDisputed, Store!MayDispute, Store!SameActorRows
    <3>. QED  BY <1>1, <2>1, <2>5, <3>1 DEF Backed, Store!Terminal
  <2>. QED  BY <1>6, <2>1, <2>2, <2>3, <2>4, <2>5 DEF ExecSettle, Answer
<1>7. ASSUME call[p].reason = "release", reply.code = "ok"
      PROVE  Gone(op, pending[p].generation)'
  <2>1. r.kind = "release" /\ ExecRelease(r, reply)
    BY <1>1, <1>7 DEF CallFits, Execute
  <2>. QED  BY <1>7, <2>1 DEF ExecRelease, Answer, Store!Release, Gone
<1>8. ASSUME r.kind = "status"
      PROVE  StillShown(reply.status)'
  <2>1. reply.status = Observed /\ UNCHANGED fenceVars
    BY <1>8 DEF Execute, ExecStatus
  <2>2. /\ Observed \in Snapshot
        /\ Observed.generation = generation
        /\ writer # None => Observed.writer = writer.owner
        /\ Observed.last = lastSettlement
    BY <1>1 DEF Observed, Snapshot, TypeOK, Store!TypeOK, Store!Writer, Store!Inflight, Store!Live
  <2>. QED  BY <1>1, <2>1, <2>2 DEF StillShown, fenceVars, Rows, TypeOK, Store!TypeOK
<1>9. call[p].reason = "acquire" => reply.code # "grant_expired"
  BY <1>1 DEF CallFits, Execute, ExecAcquire, Answer, Granted
<1>. QED
  BY <1>1, <1>2, <1>4, <1>5, <1>6, <1>7, <1>8, <1>9 DEF AnswerHolds, StillShown

\* Together: a store step keeps the invariant if the answers it gives are true.
LEMMA StoreMoveKeeps ==
  ASSUME IInv, StoreMove, PeersKept, TypeOK', late' \subseteq late,
         \A p \in Peer : SameCall(p) /\ AnswerHolds(p)'
  PROVE  IInv'
<1>1. Held' /\ Owned' /\ Rows'
  BY HeldKept, OwnedKept, RowsKept
<1>2. ASSUME NEW p \in Peer PROVE PeerInv(p)'
  BY BackedKept, PeerKept DEF PeerInv
<1>. QED  BY <1>1, <1>2 DEF IInv

\* A store step that answers nobody keeps the invariant.
LEMMA CallsKeptKeeps ==
  ASSUME IInv, StoreMove, PeersKept, TypeOK', late' \subseteq late, call' = call
  PROVE  IInv'
  BY AnswerKept, StoreMoveKeeps DEF SameCall

\* Everything the coordinator is asked is well formed.
LEMMA AskedWellFormed ==
  ASSUME IInv, NEW p \in Peer, NEW r \in Request, OnTheWay(p, r)
  PROVE  WellFormed(r)
  BY DEF IInv, PeerInv, Requests, WellFormed

\* A request is executed and answered.
LEMMA ServeKeeps ==
  ASSUME IInv, NEW p \in Peer, Serve(p) PROVE IInv'
<1>. DEFINE r == call[p].request
<1>. USE NoneAssumption
<1>1. TypeOK /\ CallFits(p) /\ call[p] # None /\ call[p] \in Call /\ r \in Request
  BY DEF IInv, PeerInv, Serve, Waiting, TypeOK, Call
<1>2. r.peer = p /\ OnTheWay(r.peer, r)
  BY <1>1 DEF CallFits, OnTheWay
<1>3. WellFormed(r)
  BY <1>1, <1>2, AskedWellFormed
<1>4. PICK reply \in Replies : /\ Execute(r, reply)
                               /\ call' = [call EXCEPT ![p].reply = reply]
  BY DEF Serve
<1>5. reply \in Reply
  <2>1. Observed \in Snapshot
    BY <1>1 DEF Observed, Snapshot, TypeOK, Store!TypeOK, Store!Writer, Store!Inflight, Store!Live
  <2>2. Granted(generation) \in Reply /\ Granted(generation + 1) \in Reply
    BY <1>1 DEF Granted, Reply, Snapshot, TypeOK, Store!TypeOK
  <2>. QED  BY <1>4, <2>1, <2>2 DEF Replies, Answer, Reply
<1>6. UNCHANGED clock /\ PeersKept /\ late' = late /\ faults' = faults
  BY DEF Serve, worldVars, PeersKept
<1>7. Served(r) /\ Store!TypeOK'
  BY <1>1, <1>3, <1>4, <1>6, ServedStep
<1>8. /\ call'[p] = [call[p] EXCEPT !.reply = reply] /\ call'[p] \in Call
      /\ \A q \in Peer : q # p => call'[q] = call[q]
      /\ call' \in [Peer -> Call \cup {None}]
  BY <1>1, <1>4, <1>5 DEF TypeOK, Call
<1>9. TypeOK'
  BY <1>1, <1>6, <1>7, <1>8 DEF TypeOK, PeersKept
<1>10. StoreMove
  BY <1>1, <1>2, <1>7 DEF StoreMove
<1>11. ASSUME NEW q \in Peer PROVE SameCall(q) /\ AnswerHolds(q)'
  <2>1. CASE q = p
    <3>1. SameCall(p)
      BY <1>1, <1>8 DEF SameCall, Call
    <3>2. AnswerHolds(p)'
      BY <1>1, <1>3, <1>4, <1>5, <1>6, <1>8, AnswerTrue
    <3>. QED  BY <2>1, <3>1, <3>2
  <2>2. CASE q # p
    BY <1>6, <1>8, <1>10, <2>2, AnswerKept DEF SameCall
  <2>. QED  BY <2>1, <2>2
<1>. QED  BY <1>6, <1>9, <1>10, <1>11, StoreMoveKeeps

\* A request is executed and nobody is there for the answer.
LEMMA ServeLateKeeps ==
  ASSUME IInv, ServeLate PROVE IInv'
<1>1. PICK r \in late :
        /\ \E reply \in Replies : Execute(r, reply)
        /\ late' = late \ {r}
        /\ UNCHANGED <<clock, peerVars, effect, faults>>
  BY DEF ServeLate
<1>2. TypeOK /\ r \in Request /\ r.peer \in Peer /\ OnTheWay(r.peer, r)
  BY DEF IInv, TypeOK, Request, OnTheWay
<1>3. WellFormed(r)
  BY <1>2, AskedWellFormed
<1>4. Served(r) /\ Store!TypeOK'
  BY <1>1, <1>2, <1>3, ServedStep
<1>5. PeersKept /\ call' = call
  BY <1>1 DEF PeersKept, peerVars
<1>6. TypeOK'
  BY <1>1, <1>2, <1>4, <1>5 DEF TypeOK, PeersKept
<1>. QED
  BY <1>1, <1>2, <1>4, <1>5, <1>6, CallsKeptKeeps DEF StoreMove

\* A late request is lost.
LEMMA DropLateKeeps ==
  ASSUME IInv, DropLate PROVE IInv'
<1>1. TypeOK' /\ PeersKept /\ call' = call /\ late' \subseteq late /\ Quiet
  BY DEF IInv, DropLate, TypeOK, Store!TypeOK, PeersKept, peerVars, fenceVars, Quiet
<1>. QED  BY <1>1, CallsKeptKeeps DEF StoreMove

\* The coordinator dies in an acquire: only the anchor has moved.
LEMMA InterruptAcquireKeeps ==
  ASSUME IInv, NEW p \in Peer, InterruptAcquire(p) PROVE IInv'
<1>1. TypeOK' /\ PeersKept /\ call' = call /\ late' \subseteq late /\ Quiet
  BY EnforcementBounds DEF IInv, InterruptAcquire, Store!AcquireInterrupted, Store!rowVars, Store!logVars,
     TypeOK, Store!TypeOK, PeersKept, peerVars, Quiet
<1>. QED  BY <1>1, CallsKeptKeeps DEF StoreMove

\* The repair of the anchor finds nothing in flight.
LEMMA RepairAnchorKeeps ==
  ASSUME IInv, RepairAnchor PROVE IInv'
<1>1. TypeOK' /\ PeersKept /\ call' = call /\ late' \subseteq late /\ Repairing
  BY DEF IInv, RepairAnchor, Store!OpenStore, Store!logVars,
     TypeOK, Store!TypeOK, PeersKept, peerVars, worldVars, Repairing
<1>. QED  BY <1>1, CallsKeptKeeps DEF StoreMove

\* Time passes.
LEMMA TickKeeps ==
  ASSUME IInv, Tick PROVE IInv'
<1>1. TypeOK' /\ PeersKept /\ call' = call /\ late' \subseteq late /\ Quiet
  BY DEF IInv, Tick, TypeOK, Store!TypeOK, PeersKept, peerVars, worldVars, fenceVars, Quiet
<1>. QED  BY <1>1, CallsKeptKeeps DEF StoreMove

\* A reconciliation records an effect that was applied.
LEMMA ReconcileEffectKeeps ==
  ASSUME IInv, NEW p \in Peer, ReconcileEffect(p) PROVE IInv'
<1>. USE NoneAssumption
<1>. DEFINE x == [generation |-> generation, owner |-> writer.owner, session |-> writer.session,
               op |-> inflight.op, intent |-> inflight.intent, outcome |-> "effect_applied",
               evidence |-> "reconciliation", source |-> "reconcile", reconciler |-> p]
<1>1. /\ TypeOK /\ inflight \in Store!Inflight /\ writer \in Store!Writer
      /\ inflight.state = "outcome_unknown" /\ effect[inflight.op] = "applied"
  BY DEF IInv, Held, ReconcileEffect, Store!Reconcile, TypeOK, Store!TypeOK
<1>2. x \in Store!Settlement
  BY <1>1 DEF Store!Settlement, Store!Terminal, Store!Writer, Store!Inflight, Evidence, TypeOK, Store!TypeOK
<1>3. /\ settlements' = settlements \cup {x} /\ lastSettlement' = x /\ inflight' = None
      /\ UNCHANGED <<clock, generation, writer, anchor, peerVars, worldVars>>
      /\ events' = events \cup
           {[type |-> "reconcile", op |-> inflight.op, actor |-> p,
             outcome |-> "effect_applied", evidence |-> "reconciliation"]}
  BY DEF ReconcileEffect, Store!Reconcile, Store!Insert
<1>4. events' \subseteq Store!Event
  BY <1>1, <1>3 DEF Store!Event, Store!EventType, Store!Terminal, Store!Inflight, Evidence, TypeOK, Store!TypeOK
<1>5. TypeOK'
  BY <1>1, <1>2, <1>3, <1>4 DEF TypeOK, Store!TypeOK, peerVars, worldVars
<1>6. Reconciling
  BY <1>1, <1>2, <1>3 DEF Reconciling, Closing
<1>7. PeersKept /\ call' = call /\ late' = late
  BY <1>3 DEF PeersKept, peerVars, worldVars
<1>. QED  BY <1>5, <1>6, <1>7, CallsKeptKeeps DEF StoreMove

-----------------------------------------------------------------------------
(* A step of a peer. *)

\* The store is left alone, and so is whatever belongs to another peer; the
\* request of an abandoned call may join those that are on their way.
PeerMove(p) ==
    /\ UNCHANGED <<clock, fenceVars>>
    /\ \A q \in Peer : q # p =>
          /\ pending'[q] = pending[q] /\ minSeen'[q] = minSeen[q] /\ mode'[q] = mode[q]
          /\ call'[q] = call[q] /\ used'[q] = used[q]
    /\ \A op \in Op : op[1] # p => effect'[op] = effect[op]
    /\ \A r \in late' : r \in late \/ (call[p] # None /\ r = call[p].request)

\* A peer's step leaves what is known of every other peer as it was.
LEMMA OthersKept ==
  ASSUME IInv, NEW p \in Peer, PeerMove(p), NEW q \in Peer, q # p
  PROVE  PeerInv(q)'
<1>1. /\ TypeOK /\ Numbered(q) /\ Generated(q) /\ Backed(q) /\ ModeOK(q)
      /\ CallFits(q) /\ AnswerHolds(q) /\ Requests(q) /\ CallFits(p)
  BY DEF IInv, PeerInv
<1>2. /\ pending'[q] = pending[q] /\ minSeen'[q] = minSeen[q] /\ mode'[q] = mode[q]
      /\ call'[q] = call[q] /\ used'[q] = used[q]
      /\ UNCHANGED fenceVars
  BY DEF PeerMove
<1>3. \A n \in 1..MaxOps : effect'[<<q, n>>] = effect[<<q, n>>]
  BY DEF PeerMove, Op
<1>4. pending[q] # None => effect'[pending[q].op] = effect[pending[q].op]
  BY <1>1 DEF PeerMove, Numbered, TypeOK, Pending
<1>. USE DEF fenceVars
<1>5. Numbered(q)' /\ Generated(q)' /\ CallFits(q)'
  BY <1>1, <1>2, <1>3 DEF Numbered, Generated, CallFits
<1>6. Backed(q)'
  BY <1>1, <1>2, <1>4 DEF Backed, Reported, Flying, InFlight, Settled, Row
<1>7. ModeOK(q)'
  BY <1>1, <1>2, <1>3, <1>4 DEF ModeOK
<1>8. AnswerHolds(q)'
  BY <1>1, <1>2 DEF AnswerHolds, Flying, Row, Gone, StillShown
<1>9. Requests(q)'
  <2>. SUFFICES ASSUME NEW r \in Request, OnTheWay(q, r)'
                PROVE  OnTheWay(q, r)
    BY <1>1, <1>2 DEF Requests, Stands, Reported, Settled, Gone
  <2>. QED  BY <1>1, <1>2 DEF OnTheWay, PeerMove, CallFits
<1>. QED  BY <1>5, <1>6, <1>7, <1>8, <1>9 DEF PeerInv

\* A request that its peer stands for is still stood for, or harmless.
StillStands(p) ==
    \A r \in Request : OnTheWay(p, r) /\ Stands(p, r) =>
        \/ Stands(p, r)'
        \/ /\ r.kind = "begin" => Settled(r.op) \/ Gone(r.op, r.generation)
           /\ r.kind = "settle" => Settled(r.op)

\* A peer's step leaves no request on its way that it does not stand for.
LEMMA RequestsMove ==
  ASSUME IInv, NEW p \in Peer, PeerMove(p), TypeOK', used'[p] >= used[p],
         Numbered(p)', Generated(p)', Backed(p)', CallFits(p)', StillStands(p)
  PROVE  Requests(p)'
<1>. USE NoneAssumption
<1>. SUFFICES ASSUME NEW r \in Request, OnTheWay(p, r)'
              PROVE  /\ r.op[1] = p /\ r.op[2] <= used'[p]
                     /\ r.kind = "begin" =>
                           /\ r.generation \in Nat /\ r.generation <= generation'
                           /\ Stands(p, r)' \/ Settled(r.op)' \/ Gone(r.op, r.generation)'
                     /\ r.kind = "settle" =>
                           /\ r.outcome \in Outcome /\ r.evidence \in Evidence
                           /\ Stands(p, r)' \/ Settled(r.op)'
  BY DEF Requests
<1>1. UNCHANGED fenceVars
  BY DEF PeerMove
<1>2. CASE OnTheWay(p, r)
  <2>1. Requests(p) /\ TypeOK
    BY DEF IInv, PeerInv
  <2>2. r.op[2] <= used'[p]
    <3>1. used[p] \in Nat /\ used'[p] \in Nat /\ r.op[2] \in Nat
      BY <2>1 DEF TypeOK, Request, Op
    <3>. QED  BY <1>2, <2>1, <3>1 DEF Requests
  <2>3. Settled(r.op) <=> Settled(r.op)'
    BY <1>1 DEF fenceVars, Settled
  <2>4. Gone(r.op, r.generation) <=> Gone(r.op, r.generation)'
    BY <1>1 DEF fenceVars, Gone
  <2>. QED  BY <1>1, <1>2, <2>1, <2>2, <2>3, <2>4 DEF Requests, StillStands, fenceVars
<1>3. CASE ~OnTheWay(p, r)
  <2>1. /\ call'[p] # None /\ r = call'[p].request
    BY <1>3 DEF OnTheWay, PeerMove
  <2>2. /\ pending'[p] # None /\ r.op = pending'[p].op
        /\ r.kind = "begin" => /\ r.generation = pending'[p].generation
                               /\ pending'[p].phase = "granted"
        /\ r.kind = "settle" => /\ r.outcome = pending'[p].outcome
                                /\ r.evidence = pending'[p].evidence
                                /\ pending'[p].phase = "completion_ready"
    BY <2>1 DEF CallFits, Fits, TypeOK, Call, Reason
  <2>3. r.op[1] = p /\ r.op[2] <= used'[p]
    BY <2>2 DEF Numbered
  <2>4. r.kind = "begin" => r.generation \in Nat /\ r.generation <= generation' /\ Stands(p, r)'
    BY <2>2 DEF Generated, Stands, TypeOK, Store!TypeOK
  <2>5. r.kind = "settle" => r.outcome \in Outcome /\ r.evidence \in Evidence /\ Stands(p, r)'
    BY <2>2 DEF Backed, Reported, Stands
  <2>. QED  BY <2>3, <2>4, <2>5
<1>. QED  BY <1>2, <1>3

\* Together: what is left to show of a peer's step.
LEMMA PeerMoveKeeps ==
  ASSUME IInv, NEW p \in Peer, PeerMove(p), TypeOK', Owned', Rows', used'[p] >= used[p],
         Numbered(p)', Generated(p)', Backed(p)', ModeOK(p)', CallFits(p)',
         call'[p] # None => call'[p].reply = None,
         StillStands(p)
  PROVE  IInv'
<1>1. Held'
  BY DEF IInv, Held, PeerMove, fenceVars, Settled
<1>2. AnswerHolds(p)'
  BY DEF AnswerHolds
<1>3. PeerInv(p)'
  BY <1>2, RequestsMove DEF PeerInv
<1>. QED  BY <1>1, <1>3, OthersKept DEF IInv

\* What becomes of an abandoned call's request, and of the faults counted.
Abandoned(p) ==
    /\ \A r \in late' : r \in late \/ (call[p] # None /\ r = call[p].request)
    /\ late' \subseteq Request
    /\ faults' \in 0..MaxFaults

Busy == {"beginning", "recovering", "finishing", "aborting"}

\* Who waits for an answer is in the middle of an operation.
LEMMA WaitingIsBusy ==
  ASSUME IInv, NEW p \in Peer, call[p] # None
  PROVE  mode[p] \in Busy /\ pending[p] # None /\ pending[p] \in Pending
         /\ call[p] \in Call /\ Fits(call[p].reason, pending[p].phase)
  BY DEF IInv, PeerInv, TypeOK, Mode, Busy, ModeOK, CallFits

\* The RPC asked for a reason.
AskedFor(kind, reason) ==
    IF reason \in {"acquire", "begin", "settle", "release"} THEN kind = reason ELSE kind = "status"

\* A new RPC is sent about what is on record.
LEMMA AskKeeps ==
  ASSUME IInv, NEW p \in Peer, pending[p] # None, mode[p] \in Busy,
         NEW kind \in {"acquire", "begin", "settle", "release", "status"},
         NEW reason \in Reason, NEW denial \in {"none", "writer_active", "denied"},
         Ask(p, kind, reason, denial), AskedFor(kind, reason), Fits(reason, pending[p].phase),
         UNCHANGED <<clock, fenceVars, pending, minSeen, mode, used, effect>>, Abandoned(p)
  PROVE  IInv'
<1>. USE NoneAssumption
<1>. DEFINE c == [reason |-> reason, denial |-> denial, request |-> RequestOf(p, kind), reply |-> None]
<1>1. /\ TypeOK /\ Owned /\ Rows /\ Numbered(p) /\ Generated(p) /\ Backed(p) /\ ModeOK(p)
      /\ pending[p] \in Pending
  BY DEF IInv, PeerInv, TypeOK
<1>2. RequestOf(p, kind) \in Request
  BY <1>1 DEF RequestOf, Request, Pending, TypeOK
<1>3. c \in Call
  BY <1>2 DEF Call
<1>4. call' = [call EXCEPT ![p] = c] /\ call'[p] = c /\ call' \in [Peer -> Call \cup {None}]
  BY <1>1, <1>3 DEF Ask, TypeOK
<1>5. TypeOK'
  BY <1>1, <1>4 DEF TypeOK, Store!TypeOK, fenceVars, Abandoned
<1>6. PeerMove(p)
  BY <1>1, <1>4 DEF PeerMove, Abandoned, TypeOK
<1>7. Owned' /\ Rows' /\ Numbered(p)' /\ Generated(p)'
  BY <1>1 DEF Owned, Rows, Numbered, Generated, fenceVars
<1>8. Backed(p)'
  BY <1>1 DEF Backed, Reported, Flying, InFlight, Settled, Row, fenceVars
<1>9. ModeOK(p)'
  BY <1>1 DEF ModeOK, Busy
<1>10. CallFits(p)'
  BY <1>1, <1>4 DEF CallFits, RequestOf, AskedFor
<1>11. StillStands(p)
  BY DEF StillStands, Stands, Reported
<1>12. call'[p].reply = None /\ used'[p] >= used[p]
  BY <1>1, <1>4 DEF TypeOK
<1>. QED  BY <1>5, <1>6, <1>7, <1>8, <1>9, <1>10, <1>11, <1>12, PeerMoveKeeps

\* The call is over, or there was none; the process is elsewhere or gone.
LEMMA HangupKeeps ==
  ASSUME IInv, NEW p \in Peer, mode[p] # "effect",
         NEW m \in {"idle", "recovering", "aborting"},
         call' = [call EXCEPT ![p] = None], mode' = [mode EXCEPT ![p] = m],
         UNCHANGED <<clock, fenceVars, pending, minSeen, used, effect>>, Abandoned(p)
  PROVE  IInv'
<1>. USE NoneAssumption
<1>1. /\ TypeOK /\ Owned /\ Rows /\ Numbered(p) /\ Generated(p) /\ Backed(p) /\ ModeOK(p)
  BY DEF IInv, PeerInv, TypeOK
<1>2. call'[p] = None /\ mode'[p] = m
  BY <1>1 DEF TypeOK
<1>3. TypeOK'
  BY <1>1 DEF TypeOK, Store!TypeOK, fenceVars, Abandoned, Mode
<1>4. PeerMove(p)
  BY <1>1 DEF PeerMove, Abandoned, TypeOK
<1>5. Owned' /\ Rows' /\ Numbered(p)' /\ Generated(p)'
  BY <1>1 DEF Owned, Rows, Numbered, Generated, fenceVars
<1>6. Backed(p)'
  BY <1>1 DEF Backed, Reported, Flying, InFlight, Settled, Row, fenceVars
<1>7. ModeOK(p)' /\ CallFits(p)'
  BY <1>1, <1>2 DEF ModeOK, CallFits
<1>8. StillStands(p)
  BY DEF StillStands, Stands, Reported
<1>9. used'[p] >= used[p]
  BY <1>1 DEF TypeOK
<1>. QED  BY <1>2, <1>3, <1>4, <1>5, <1>6, <1>7, <1>8, <1>9, PeerMoveKeeps

-----------------------------------------------------------------------------
(* The steps that only ask, wait or give up. *)

\* Recovery begins.
LEMMA RecoverKeeps ==
  ASSUME IInv, NEW p \in Peer, Recover(p) PROVE IInv'
<1>1. TypeOK /\ mode[p] = "idle" /\ call[p] = None
  BY DEF IInv, PeerInv, ModeOK, Recover
<1>2. call' = [call EXCEPT ![p] = None] /\ mode' = [mode EXCEPT ![p] = "recovering"]
  BY <1>1 DEF Recover, TypeOK
<1>3. UNCHANGED <<clock, fenceVars, pending, minSeen, used, effect>> /\ Abandoned(p)
  BY <1>1 DEF Recover, worldVars, Abandoned, TypeOK
<1>. QED  BY <1>1, <1>2, <1>3, HangupKeeps

\* The mutation is given up before its dispatch.
LEMMA AbortKeeps ==
  ASSUME IInv, NEW p \in Peer, Abort(p) PROVE IInv'
<1>1. TypeOK /\ mode[p] = "token" /\ call[p] = None
  BY DEF IInv, PeerInv, ModeOK, Abort
<1>2. call' = [call EXCEPT ![p] = None] /\ mode' = [mode EXCEPT ![p] = "aborting"]
  BY <1>1 DEF Abort, TypeOK
<1>3. UNCHANGED <<clock, fenceVars, pending, minSeen, used, effect>> /\ Abandoned(p)
  BY <1>1 DEF Abort, worldVars, Abandoned, TypeOK
<1>. QED  BY <1>1, <1>2, <1>3, HangupKeeps

\* The RPC that the phase calls for.
LEMMA SendNextKeeps ==
  ASSUME IInv, NEW p \in Peer, SendNext(p) PROVE IInv'
<1>1. TypeOK /\ mode[p] \in Busy
  BY DEF IInv, SendNext, Busy
<1>2. UNCHANGED <<clock, fenceVars, pending, minSeen, mode, used, effect>> /\ Abandoned(p)
  BY <1>1 DEF SendNext, worldVars, Abandoned, TypeOK
<1>3. CASE Phased(p, "prepared") /\ Ask(p, "acquire", "acquire", "none")
  BY <1>1, <1>2, <1>3, AskKeeps DEF Phased, AskedFor, Fits, Reason
<1>4. CASE Phased(p, "granted") /\ Ask(p, "begin", "begin", "none")
  BY <1>1, <1>2, <1>4, AskKeeps DEF Phased, AskedFor, Fits, Reason
<1>5. CASE Phased(p, "completion_ready") /\ Ask(p, "settle", "settle", "none")
  BY <1>1, <1>2, <1>5, AskKeeps DEF Phased, AskedFor, Fits, Reason
<1>6. CASE Phased(p, "settled") /\ Ask(p, "release", "release", "none")
  BY <1>1, <1>2, <1>6, AskKeeps DEF Phased, AskedFor, Fits, Reason
<1>7. CASE Phased(p, "outcome_unknown") /\ Ask(p, "status", "unknown outcome", "none")
  BY <1>1, <1>2, <1>7, AskKeeps DEF Phased, AskedFor, Fits, Reason
<1>. QED  BY <1>3, <1>4, <1>5, <1>6, <1>7 DEF SendNext

\* An exception, or a timeout, ends the operation.
LEMMA RaiseKeeps ==
  ASSUME IInv, NEW p \in Peer, call[p] # None, Raise(p),
         UNCHANGED <<clock, fenceVars, pending, minSeen, used, effect>>, Abandoned(p)
  PROVE  IInv'
<1>1. mode[p] # "effect"
  BY WaitingIsBusy DEF Busy
<1>. QED  BY <1>1, HangupKeeps DEF Raise, Hangup

\* A fault leaves at most the abandoned request behind.
LEMMA AbandonStep ==
  ASSUME TypeOK, NEW p \in Peer, Abandon(p), faults < MaxFaults, faults' = faults + 1
  PROVE  Abandoned(p)
<1>1. faults' \in 0..MaxFaults
  BY EnforcementBounds DEF TypeOK
<1>2. CASE late' = late
  BY <1>1, <1>2 DEF Abandoned, TypeOK
<1>3. CASE Waiting(p) /\ late' = late \cup {call[p].request}
  <2>1. call[p] # None /\ call[p].request \in Request
    BY <1>3 DEF Waiting, TypeOK, Call
  <2>. QED  BY <1>1, <1>3, <2>1 DEF Abandoned, TypeOK
<1>. QED  BY <1>2, <1>3 DEF Abandon

\* A call fails, and with it the operation or only the release.
LEMMA CallFailsKeeps ==
  ASSUME IInv, NEW p \in Peer, CallFails(p) PROVE IInv'
<1>1. /\ call[p] # None /\ mode[p] \in Busy /\ pending[p] # None /\ call[p] \in Call
      /\ Fits(call[p].reason, pending[p].phase) /\ TypeOK
  BY WaitingIsBusy DEF CallFails, IInv
<1>2. UNCHANGED <<clock, fenceVars, pending, minSeen, used, effect>>
  BY DEF CallFails
<1>3. Abandoned(p)
  BY <1>1, AbandonStep DEF CallFails
<1>4. CASE /\ call[p].reason = "release"
           /\ Ask(p, "status", "release failed", "none") /\ UNCHANGED mode
  <2>1. Fits("release failed", pending[p].phase)
    BY <1>1, <1>4 DEF Fits
  <2>. QED  BY <1>1, <1>2, <1>3, <1>4, <2>1, AskKeeps DEF AskedFor, Reason
<1>5. CASE Raise(p)
  BY <1>1, <1>2, <1>3, <1>5, RaiseKeeps
<1>. QED  BY <1>4, <1>5 DEF CallFails

\* The grant expired before begin: release it or give up.
LEMMA BeginExpiredKeeps ==
  ASSUME IInv, NEW p \in Peer, BeginExpired(p) PROVE IInv'
<1>1. /\ call[p] # None /\ call[p].reason = "begin expired" /\ TypeOK
      /\ mode[p] \in Busy /\ pending[p] # None /\ Fits(call[p].reason, pending[p].phase)
  BY WaitingIsBusy DEF BeginExpired, Answered, IInv
<1>2. UNCHANGED <<clock, fenceVars, pending, minSeen, used, effect>> /\ Abandoned(p)
  BY <1>1 DEF BeginExpired, worldVars, Abandoned, TypeOK
<1>3. CASE Ask(p, "release", "release", "none") /\ UNCHANGED mode
  <2>1. Fits("release", pending[p].phase)
    BY <1>1 DEF Fits
  <2>. QED  BY <1>1, <1>2, <1>3, <2>1, AskKeeps DEF AskedFor, Reason
<1>4. CASE Raise(p)
  BY <1>1, <1>2, <1>4, RaiseKeeps
<1>. QED  BY <1>3, <1>4 DEF BeginExpired

-----------------------------------------------------------------------------
(* The steps that write the local record. *)

\* The pending effect with another phase, and what came with it: it remains
\* the effect it was, under the generation and with the outcome it had.
Writes(p, w, m, g) ==
    /\ pending[p] # None /\ w \in Pending /\ m \in Mode /\ g \in Nat
    /\ pending' = [pending EXCEPT ![p] = w]
    /\ minSeen' = [minSeen EXCEPT ![p] = g]
    /\ call' = [call EXCEPT ![p] = None]
    /\ mode' = [mode EXCEPT ![p] = m]
    /\ UNCHANGED <<clock, fenceVars, used, effect, late, faults>>
    /\ w.op = pending[p].op /\ w.phase # "prepared"
    /\ w.generation \in Nat /\ w.generation <= g /\ g <= generation
    /\ pending[p].generation \in {None, w.generation}
    /\ Reported(p) =>
          /\ w.outcome = pending[p].outcome /\ w.evidence = pending[p].evidence
          /\ w.phase \in {"completion_ready", "outcome_unknown", "settled"}

\* Such a write keeps the invariant if its phase is backed.
LEMMA WriteKeeps ==
  ASSUME IInv, NEW p \in Peer, NEW w, NEW m, NEW g, Writes(p, w, m, g), Backed(p)', ModeOK(p)'
  PROVE  IInv'
<1>. USE DEF Writes
<1>. USE NoneAssumption
<1>1. /\ TypeOK /\ Held /\ Owned /\ Rows /\ Numbered(p) /\ Generated(p) /\ Requests(p)
  BY DEF IInv, PeerInv
<1>2. pending'[p] = w /\ minSeen'[p] = g /\ call'[p] = None /\ w # None
  BY <1>1 DEF TypeOK
<1>3. TypeOK'
  BY <1>1 DEF TypeOK, Store!TypeOK, fenceVars
<1>4. PeerMove(p)
  BY <1>1 DEF PeerMove, TypeOK
<1>5. Settled(w.op)' => Settled(w.op)
  BY DEF Settled, fenceVars
<1>6. Owned'
  <2>. SUFFICES ASSUME inflight # None, writer.owner = p
                PROVE  /\ w.op = inflight.op /\ w.generation = generation
                       /\ w.phase # "settled"
    BY <1>1, <1>2 DEF Owned, fenceVars, TypeOK
  <2>1. w.op = inflight.op /\ ~Settled(w.op) /\ w.generation = generation
    BY <1>1 DEF Owned, Held, TypeOK, Store!TypeOK
  <2>2. w.phase # "settled"
    BY <1>2, <2>1 DEF Backed, Row, Settled, fenceVars
  <2>. QED  BY <2>1, <2>2
<1>7. Rows'
  BY <1>1 DEF Rows, fenceVars
<1>8. Numbered(p)' /\ Generated(p)' /\ CallFits(p)'
  BY <1>1, <1>2 DEF Numbered, Generated, CallFits, fenceVars
<1>9. StillStands(p)
  <2>. SUFFICES ASSUME NEW r \in Request, OnTheWay(p, r), Stands(p, r) PROVE Stands(p, r)'
    BY DEF StillStands
  <2>1. r.kind = "begin" => w.generation = r.generation
    BY <1>1 DEF Stands, Requests
  <2>. QED  BY <1>2, <2>1 DEF Stands, Reported
<1>10. used'[p] >= used[p]
  BY <1>1 DEF TypeOK
<1>. QED
  BY <1>2, <1>3, <1>4, <1>6, <1>7, <1>8, <1>9, <1>10, PeerMoveKeeps

\* The answer to acquire: a grant above all that was seen before, or none.
LEMMA AcquireAnsweredKeeps ==
  ASSUME IInv, NEW p \in Peer, AcquireAnswered(p) PROVE IInv'
<1>. USE NoneAssumption
<1>1. /\ call[p] # None /\ call[p].reason = "acquire" /\ call[p].reply # None
      /\ mode[p] \in Busy /\ pending[p] # None /\ pending[p] \in Pending /\ call[p] \in Call
      /\ pending[p].phase = "prepared" /\ TypeOK
  BY WaitingIsBusy DEF AcquireAnswered, Answered, IInv, Fits
<1>2. UNCHANGED <<clock, fenceVars, used, effect, late, faults>>
  BY DEF AcquireAnswered, worldVars
<1>3. Abandoned(p)
  BY <1>1, <1>2 DEF Abandoned, TypeOK
<1>4. CASE /\ Code(p) = "ok" /\ Status(p).generation > minSeen[p]
           /\ Write(p, [pending[p] EXCEPT !.phase = "granted", !.generation = Status(p).generation])
           /\ SeeAtLeast(p, Status(p).generation)
           /\ Hangup(p)
           /\ UNCHANGED mode
  <2>. DEFINE w == [pending[p] EXCEPT !.phase = "granted", !.generation = Status(p).generation]
              g == Status(p).generation
  <2>1. g \in Nat /\ g <= generation /\ ~(minSeen[p] >= g)
    <3>1. AnswerHolds(p) /\ call[p].reply \in Reply
      BY <1>1 DEF IInv, PeerInv, Call
    <3>2. Status(p) \in Snapshot /\ g <= generation
      BY <1>1, <1>4, <3>1 DEF AnswerHolds, Code, Status, Reply
    <3>. QED  BY <1>1, <1>4, <3>2 DEF Snapshot, TypeOK
  <2>2. w \in Pending /\ w.op = pending[p].op /\ w.phase = "granted" /\ w.generation = g
    BY <1>1, <2>1 DEF Pending, Phase
  <2>3. pending' = [pending EXCEPT ![p] = w] /\ minSeen' = [minSeen EXCEPT ![p] = g]
    BY <1>4, <2>1 DEF Write, SeeAtLeast
  <2>4. call' = [call EXCEPT ![p] = None] /\ mode' = [mode EXCEPT ![p] = mode[p]]
        /\ mode[p] \in Mode
    BY <1>1, <1>4 DEF Hangup, TypeOK
  <2>5. pending[p].generation = None /\ ~Reported(p)
    BY <1>1 DEF IInv, PeerInv, Generated, Reported
  <2>6. Backed(p)'
    <3>1. Backed(p) /\ pending'[p] = w
      BY <1>1, <2>3 DEF IInv, PeerInv, TypeOK
    <3>. QED
      BY <1>1, <1>2, <2>2, <3>1
      DEF Backed, Reported, Flying, InFlight, Settled, Row, fenceVars
  <2>7. ModeOK(p)'
    <3>1. ModeOK(p) /\ pending'[p] = w /\ mode'[p] = mode[p]
      BY <1>1, <2>3, <2>4 DEF IInv, PeerInv, TypeOK
    <3>. QED  BY <1>1, <1>2, <3>1 DEF ModeOK, Busy
  <2>8. Writes(p, w, mode[p], g)
    BY <1>1, <1>2, <2>1, <2>2, <2>3, <2>4, <2>5 DEF Writes
  <2>. QED  BY <2>6, <2>7, <2>8, WriteKeeps
<1>5. CASE /\ Code(p) # "ok" /\ Ask(p, "status", "acquire denied", Code(p))
           /\ UNCHANGED <<pending, minSeen, mode>> /\ mode[p] = "recovering"
  <2>1. Code(p) \in {"writer_active", "denied"}
    BY <1>1, <1>5 DEF IInv, PeerInv, AnswerHolds, Code, Call, Reply
  <2>. QED
    BY <1>1, <1>2, <1>3, <1>5, <2>1, AskKeeps DEF AskedFor, Fits, Reason
<1>6. CASE Raise(p) /\ UNCHANGED <<pending, minSeen>>
  BY <1>1, <1>2, <1>3, <1>6, RaiseKeeps
<1>. QED  BY <1>4, <1>5, <1>6 DEF AcquireAnswered

\* The answer to begin.
LEMMA BeginAnsweredKeeps ==
  ASSUME IInv, NEW p \in Peer, BeginAnswered(p) PROVE IInv'
<1>. USE NoneAssumption
<1>1. /\ call[p] # None /\ call[p].reason = "begin" /\ call[p].reply # None
      /\ mode[p] \in Busy /\ pending[p] # None /\ pending[p] \in Pending
      /\ pending[p].phase = "granted" /\ TypeOK
  BY WaitingIsBusy DEF BeginAnswered, Answered, IInv, Fits
<1>2. UNCHANGED <<clock, fenceVars, minSeen, used, effect, late, faults>>
  BY DEF BeginAnswered, worldVars
<1>3. Abandoned(p)
  BY <1>1, <1>2 DEF Abandoned, TypeOK
<1>4. CASE /\ Code(p) = "ok"
           /\ Write(p, [pending[p] EXCEPT !.phase = "begun"])
           /\ mode' = [mode EXCEPT ![p] = IF @ = "beginning" THEN "token" ELSE @]
           /\ Hangup(p)
  <2>. DEFINE w == [pending[p] EXCEPT !.phase = "begun"]
              m == IF mode[p] = "beginning" THEN "token" ELSE mode[p]
              g == minSeen[p]
  <2>1. w \in Pending /\ w.op = pending[p].op /\ w.phase = "begun"
        /\ w.generation = pending[p].generation
    BY <1>1 DEF Pending, Phase
  <2>2. /\ w.generation \in Nat /\ w.generation <= g /\ g \in Nat /\ g <= generation
        /\ ~Reported(p) /\ m \in Mode
    BY <1>1, <2>1 DEF IInv, PeerInv, Generated, Reported, TypeOK, Mode, Busy
  <2>3. /\ pending' = [pending EXCEPT ![p] = w] /\ minSeen' = [minSeen EXCEPT ![p] = g]
        /\ call' = [call EXCEPT ![p] = None] /\ mode' = [mode EXCEPT ![p] = m]
    BY <1>1, <1>2, <1>4 DEF Write, Hangup, TypeOK
  <2>4. Writes(p, w, m, g)
    BY <1>1, <1>2, <2>1, <2>2, <2>3 DEF Writes
  <2>5. Backed(p)'
    <3>1. Flying(pending[p].op, "begun")
      BY <1>1, <1>4 DEF IInv, PeerInv, AnswerHolds, Code
    <3>2. Backed(p) /\ pending'[p] = w
      BY <1>1, <2>3 DEF IInv, PeerInv, TypeOK
    <3>. QED
      BY <1>1, <1>2, <2>1, <3>1, <3>2 DEF Backed, Reported, Flying, fenceVars
  <2>6. ModeOK(p)'
    <3>1. /\ ModeOK(p) /\ pending'[p] = w /\ mode'[p] = m /\ call'[p] = None
          /\ w # None
      BY <1>1, <2>1, <2>3 DEF IInv, PeerInv, TypeOK
    <3>. QED  BY <1>1, <1>2, <2>1, <3>1 DEF ModeOK, Busy
  <2>. QED  BY <2>4, <2>5, <2>6, WriteKeeps
<1>5. CASE Ask(p, "status", "begin expired", "none") /\ UNCHANGED <<pending, mode>>
  BY <1>1, <1>2, <1>3, <1>5, AskKeeps DEF AskedFor, Fits, Reason
<1>6. CASE Raise(p) /\ UNCHANGED pending
  BY <1>1, <1>2, <1>3, <1>6, RaiseKeeps
<1>. QED  BY <1>4, <1>5, <1>6 DEF BeginAnswered

\* The answer to settle.
LEMMA SettleAnsweredKeeps ==
  ASSUME IInv, NEW p \in Peer, SettleAnswered(p) PROVE IInv'
<1>. USE NoneAssumption
<1>1. /\ call[p] # None /\ call[p].reason = "settle" /\ call[p].reply # None
      /\ mode[p] \in Busy /\ pending[p] # None /\ pending[p] \in Pending
      /\ pending[p].phase = "completion_ready" /\ TypeOK /\ Backed(p) /\ ModeOK(p)
  BY WaitingIsBusy DEF SettleAnswered, Answered, IInv, PeerInv, Fits
<1>2. UNCHANGED <<clock, fenceVars, minSeen, used, effect, late, faults>>
  BY DEF SettleAnswered, worldVars
<1>3. Abandoned(p)
  BY <1>1, <1>2 DEF Abandoned, TypeOK
<1>4. ASSUME NEW phase \in {"outcome_unknown", "settled"}, NEW m \in Mode,
             Code(p) = "ok", Write(p, [pending[p] EXCEPT !.phase = phase]), Hangup(p),
             phase = "outcome_unknown" <=> pending[p].outcome = "outcome_unknown",
             mode' = [mode EXCEPT ![p] = m], m \in Busy \cup {"idle"}
      PROVE  IInv'
  <2>. DEFINE w == [pending[p] EXCEPT !.phase = phase]
              g == minSeen[p]
  <2>1. w \in Pending /\ w.op = pending[p].op /\ w.phase = phase
        /\ w.generation = pending[p].generation /\ w.outcome = pending[p].outcome
        /\ w.evidence = pending[p].evidence
    BY <1>1 DEF Pending, Phase
  <2>2. /\ w.generation \in Nat /\ w.generation <= g /\ g \in Nat /\ g <= generation
    BY <1>1, <2>1 DEF IInv, PeerInv, Generated, TypeOK
  <2>3. /\ pending' = [pending EXCEPT ![p] = w] /\ minSeen' = [minSeen EXCEPT ![p] = g]
        /\ call' = [call EXCEPT ![p] = None]
    BY <1>1, <1>2, <1>4 DEF Write, Hangup, TypeOK
  <2>4. Writes(p, w, m, g)
    BY <1>1, <1>2, <1>4, <2>1, <2>2, <2>3 DEF Writes
  <2>5. pending'[p] = w /\ mode'[p] = m /\ call'[p] = None /\ w # None
    BY <1>1, <1>4, <2>1, <2>3 DEF TypeOK
  <2>6. Backed(p)'
    <3>1. IF pending[p].outcome = "outcome_unknown"
          THEN Flying(pending[p].op, "outcome_unknown") \/ Row(pending[p].op, "effect_applied", "reconcile")
          ELSE Row(pending[p].op, pending[p].outcome, "writer")
      BY <1>1, <1>4 DEF IInv, PeerInv, AnswerHolds, Code
    <3>. QED
      BY <1>1, <1>2, <1>4, <2>1, <2>5, <3>1 DEF Backed, Reported, Flying, Row, fenceVars
  <2>7. ModeOK(p)'
    BY <1>1, <1>2, <1>4, <2>1, <2>5 DEF ModeOK, Busy
  <2>. QED  BY <2>4, <2>6, <2>7, WriteKeeps
<1>5. CASE /\ Code(p) = "ok" /\ pending[p].outcome = "outcome_unknown"
           /\ Write(p, [pending[p] EXCEPT !.phase = "outcome_unknown"])
           /\ Raise(p)
  BY <1>4, <1>5 DEF Raise, Mode
<1>6. CASE /\ Code(p) = "ok" /\ pending[p].outcome # "outcome_unknown"
           /\ Write(p, [pending[p] EXCEPT !.phase = "settled"])
           /\ Hangup(p) /\ UNCHANGED mode
  <2>1. mode' = [mode EXCEPT ![p] = mode[p]] /\ mode[p] \in Mode
    BY <1>1, <1>6 DEF TypeOK
  <2>. QED  BY <1>1, <1>4, <1>6, <2>1
<1>7. CASE Raise(p) /\ UNCHANGED pending
  BY <1>1, <1>2, <1>3, <1>7, RaiseKeeps
<1>. QED  BY <1>5, <1>6, <1>7 DEF SettleAnswered

\* Nothing that is on its way can bring back what has been forgotten.
Forgettable(p) ==
    \/ pending[p].phase = "prepared"
    \/ pending[p].phase \in {"granted", "settled"} /\ Gone(pending[p].op, pending[p].generation)
    \/ Settled(pending[p].op)

\* The pending effect is forgotten.
LEMMA ForgetKeeps ==
  ASSUME IInv, NEW p \in Peer, call[p] # None, Forget(p), Forgettable(p),
         NEW g \in Nat, minSeen' = [minSeen EXCEPT ![p] = g], g <= generation,
         UNCHANGED <<clock, fenceVars, used, effect, late, faults>>
  PROVE  IInv'
<1>. USE NoneAssumption
<1>1. /\ TypeOK /\ Held /\ Owned /\ Rows /\ Numbered(p) /\ Generated(p) /\ Requests(p)
      /\ Backed(p) /\ ModeOK(p) /\ mode[p] \in Busy /\ pending[p] # None
  BY WaitingIsBusy DEF IInv, PeerInv
<1>2. /\ pending' = [pending EXCEPT ![p] = None] /\ call' = [call EXCEPT ![p] = None]
      /\ \E m \in {"recovering", "idle"} : mode' = [mode EXCEPT ![p] = m]
  BY <1>1 DEF Forget, Write, Hangup, TypeOK
<1>3. pending'[p] = None /\ minSeen'[p] = g /\ call'[p] = None /\ mode'[p] \in {"recovering", "idle"}
  BY <1>1, <1>2 DEF TypeOK
<1>4. TypeOK'
  BY <1>1, <1>2 DEF TypeOK, Store!TypeOK, fenceVars, Mode
<1>5. PeerMove(p)
  BY <1>1, <1>2 DEF PeerMove, TypeOK
<1>6. Owned'
  <2>. SUFFICES ASSUME inflight # None PROVE writer.owner # p
    BY <1>1, <1>2 DEF Owned, Held, fenceVars, TypeOK, Store!TypeOK, Store!Writer
  <2>. QED  BY <1>1 DEF Owned, Held, Forgettable, Gone
<1>7. Rows' /\ Numbered(p)' /\ Generated(p)' /\ CallFits(p)' /\ Backed(p)'
  BY <1>1, <1>3 DEF Rows, Numbered, Generated, CallFits, Backed, fenceVars
<1>8. ModeOK(p)'
  BY <1>1, <1>3 DEF ModeOK, Busy
<1>9. StillStands(p)
  <2>. SUFFICES ASSUME NEW r \in Request, OnTheWay(p, r), Stands(p, r)
                PROVE  /\ r.kind = "begin" => Settled(r.op) \/ Gone(r.op, r.generation)
                       /\ r.kind = "settle" => Settled(r.op)
    BY DEF StillStands
  <2>1. r.kind = "begin" => pending[p].phase # "prepared"
    BY <1>1 DEF Stands, Requests, Generated
  <2>2. r.kind = "settle" => Reported(p)
    BY DEF Stands
  <2>3. pending[p].phase = "settled" => Settled(r.op)
    BY <1>1 DEF Backed, Row, Settled, Stands
  <2>. QED  BY <2>1, <2>2, <2>3 DEF Forgettable, Stands, Reported
<1>10. used'[p] >= used[p]
  BY <1>1 DEF TypeOK
<1>. QED
  BY <1>3, <1>4, <1>5, <1>6, <1>7, <1>8, <1>9, <1>10, PeerMoveKeeps

\* A status read that has not been used yet.
StatusRead(p, reason) ==
    /\ Answered(p, reason)
    /\ reason \in {"acquire denied", "release failed", "unknown outcome"}

\* What the read shows still bounds what is there.
LEMMA StatusShows ==
  ASSUME IInv, NEW p \in Peer, NEW reason, StatusRead(p, reason)
  PROVE  Status(p) \in Snapshot /\ StillShown(Status(p))
<1>1. call[p] \in Call /\ call[p].request.kind = "status" /\ AnswerHolds(p)
  BY WaitingIsBusy DEF IInv, PeerInv, StatusRead, Answered, CallFits
<1>. QED
  BY <1>1 DEF AnswerHolds, StatusRead, Answered, Status, StillShown, Call, Reply

\* The read bears out that the effect can be forgotten.
LEMMA StatusForgetKeeps ==
  ASSUME IInv, NEW p \in Peer, NEW reason, StatusRead(p, reason), Forget(p), Forgettable(p),
         SeeAtLeast(p, Status(p).generation), UNCHANGED <<clock, fenceVars, used, worldVars>>
  PROVE  IInv'
<1>1. call[p] # None /\ TypeOK /\ Generated(p)
  BY DEF StatusRead, Answered, IInv, PeerInv
<1>2. Status(p).generation \in Nat /\ Status(p).generation <= generation
  BY StatusShows DEF Snapshot, StillShown
<1>3. PICK g \in Nat : g <= generation /\ minSeen' = [minSeen EXCEPT ![p] = g]
  BY <1>1, <1>2 DEF SeeAtLeast, Generated, TypeOK
<1>. QED  BY <1>1, <1>3, ForgetKeeps DEF worldVars

\* The read does not bear it out.
LEMMA StatusRaiseKeeps ==
  ASSUME IInv, NEW p \in Peer, NEW reason, StatusRead(p, reason), Raise(p),
         UNCHANGED <<clock, fenceVars, pending, minSeen, used, worldVars>>
  PROVE  IInv'
<1>1. call[p] # None /\ Abandoned(p)
  BY DEF StatusRead, Answered, IInv, TypeOK, Abandoned, worldVars
<1>. QED  BY <1>1, RaiseKeeps DEF worldVars

\* A prepared effect has nothing on its way that could begin it.
LEMMA AcquireDeniedKeeps ==
  ASSUME IInv, NEW p \in Peer, AcquireDenied(p) PROVE IInv'
<1>1. StatusRead(p, "acquire denied")
  BY DEF AcquireDenied, StatusAnswered, StatusRead
<1>2. Forgettable(p)
  BY <1>1, WaitingIsBusy DEF StatusRead, Answered, Fits, Forgettable
<1>. QED
  BY <1>1, <1>2, StatusForgetKeeps, StatusRaiseKeeps DEF AcquireDenied, StatusAnswered

\* The grant is gone: a newer generation, or another writer under it.
LEMMA ReleaseFailedKeeps ==
  ASSUME IInv, NEW p \in Peer, ReleaseFailed(p) PROVE IInv'
<1>1. StatusRead(p, "release failed")
  BY DEF ReleaseFailed, StatusAnswered, StatusRead
<1>2. /\ pending[p].phase \in {"granted", "settled"}
      /\ TypeOK /\ Generated(p) /\ Held /\ pending[p] # None /\ Numbered(p)
  BY <1>1, WaitingIsBusy DEF StatusRead, Answered, Fits, IInv, PeerInv
<1>3. ASSUME Believable(p),
             Status(p).generation > pending[p].generation \/ Status(p).writer # p
      PROVE  Forgettable(p)
  <2>. SUFFICES ASSUME generation = pending[p].generation, writer # None, writer.session = pending[p].op
                PROVE  FALSE
    BY <1>2 DEF Forgettable, Gone
  <2>1. writer.owner = p
    BY <1>2 DEF Held, Numbered
  <2>2. pending[p].generation \in Nat /\ pending[p].generation <= minSeen[p] /\ minSeen[p] \in Nat
    BY <1>2 DEF Generated, TypeOK
  <2>3. Status(p).generation = generation
    <3>1. Status(p).generation \in Nat /\ Status(p).generation <= generation
      BY <1>1, StatusShows DEF Snapshot, StillShown
    <3>2. Status(p).generation >= minSeen[p]
      BY <1>3 DEF Believable
    <3>. QED  BY <2>2, <3>1, <3>2
  <2>4. Status(p).writer = writer.owner
    BY <1>1, <2>3, StatusShows DEF StillShown
  <2>. QED  BY <1>2, <1>3, <2>1, <2>2, <2>3, <2>4
<1>. QED
  BY <1>1, <1>3, StatusForgetKeeps, StatusRaiseKeeps DEF ReleaseFailed, StatusAnswered

\* The unknown outcome has been settled by a reconciliation.
LEMMA UnknownAnsweredKeeps ==
  ASSUME IInv, NEW p \in Peer, UnknownAnswered(p) PROVE IInv'
<1>1. StatusRead(p, "unknown outcome")
  BY DEF UnknownAnswered, StatusAnswered, StatusRead
<1>2. ASSUME Status(p).last # None, Status(p).last.op = pending[p].op
      PROVE  Forgettable(p)
  BY <1>1, <1>2, StatusShows DEF StillShown, Forgettable, Settled
<1>. QED
  BY <1>1, <1>2, StatusForgetKeeps, StatusRaiseKeeps DEF UnknownAnswered, StatusAnswered

\* The answer to release.
LEMMA ReleaseAnsweredKeeps ==
  ASSUME IInv, NEW p \in Peer, ReleaseAnswered(p) PROVE IInv'
<1>1. /\ call[p] # None /\ call[p].reason = "release" /\ call[p].reply # None
      /\ mode[p] \in Busy /\ pending[p] # None
      /\ pending[p].phase \in {"granted", "settled"} /\ TypeOK /\ Generated(p)
  BY WaitingIsBusy DEF ReleaseAnswered, Answered, IInv, PeerInv, Fits
<1>2. UNCHANGED <<clock, fenceVars, minSeen, used, effect, late, faults>>
  BY DEF ReleaseAnswered, worldVars
<1>3. CASE Code(p) = "ok" /\ Forget(p)
  <2>1. Forgettable(p)
    BY <1>1, <1>3 DEF IInv, PeerInv, AnswerHolds, Code, Forgettable
  <2>2. minSeen' = [minSeen EXCEPT ![p] = minSeen[p]] /\ minSeen[p] \in Nat /\ minSeen[p] <= generation
    BY <1>1, <1>2 DEF TypeOK, Generated
  <2>. QED  BY <1>1, <1>2, <1>3, <2>1, <2>2, ForgetKeeps
<1>4. CASE Ask(p, "status", "release failed", "none") /\ UNCHANGED <<pending, mode>>
  <2>1. Fits("release failed", pending[p].phase) /\ Abandoned(p)
    BY <1>1, <1>2 DEF Fits, Abandoned, TypeOK
  <2>. QED  BY <1>1, <1>2, <1>4, <2>1, AskKeeps DEF AskedFor, Reason
<1>. QED  BY <1>3, <1>4 DEF ReleaseAnswered

\* An outcome is written down before it is reported.
LEMMA CompletionReadyKeeps ==
  ASSUME IInv, NEW p \in Peer, NEW outcome \in Outcome, NEW evidence \in Evidence,
         NEW m \in Busy, mode' = [mode EXCEPT ![p] = m], call[p] = None,
         CompletionReady(p, outcome, evidence),
         Phased(p, "begun") \/ Phased(p, "dispatching"), mode[p] # "effect",
         outcome = "effect_not_applied" => effect[pending[p].op] = "none",
         outcome = "effect_applied" => effect[pending[p].op] = "applied",
         UNCHANGED <<clock, fenceVars, minSeen, call, used, worldVars>>
  PROVE  IInv'
<1>. USE NoneAssumption
<1>. DEFINE w == [pending[p] EXCEPT !.phase = "completion_ready",
                                    !.outcome = outcome, !.evidence = evidence]
            g == minSeen[p]
<1>1. /\ TypeOK /\ Held /\ Generated(p) /\ Backed(p) /\ ModeOK(p) /\ pending[p] # None
      /\ pending[p] \in Pending /\ pending[p].phase \in {"begun", "dispatching"}
  BY DEF IInv, PeerInv, Phased, TypeOK
<1>2. /\ w \in Pending /\ w.op = pending[p].op /\ w.phase = "completion_ready"
      /\ w.generation = pending[p].generation /\ w.outcome = outcome /\ w.evidence = evidence
  BY <1>1 DEF Pending, Phase
<1>3. /\ w.generation \in Nat /\ w.generation <= g /\ g \in Nat /\ g <= generation /\ ~Reported(p)
  BY <1>1, <1>2 DEF Generated, Reported, TypeOK
<1>4. /\ pending' = [pending EXCEPT ![p] = w] /\ minSeen' = [minSeen EXCEPT ![p] = g]
      /\ call' = [call EXCEPT ![p] = None] /\ m \in Mode
  BY <1>1 DEF CompletionReady, Write, TypeOK, Busy, Mode
<1>5. Writes(p, w, m, g)
  BY <1>1, <1>2, <1>3, <1>4 DEF Writes, worldVars
<1>6. pending'[p] = w /\ mode'[p] = m /\ call'[p] = None /\ w # None
  BY <1>1, <1>2, <1>4 DEF TypeOK
<1>7. Backed(p)'
  <2>1. Flying(pending[p].op, "begun") /\ ~Settled(pending[p].op)
    BY <1>1 DEF Backed, Held, Flying
  <2>. QED
    BY <1>2, <1>6, <2>1 DEF Backed, Reported, Flying, InFlight, Settled, worldVars, fenceVars
<1>8. ModeOK(p)'
  BY <1>1, <1>6 DEF ModeOK, Busy, worldVars
<1>. QED  BY <1>5, <1>7, <1>8, WriteKeeps

\* Recovery and abort decide by the phase.
LEMMA DecideOutcomeKeeps ==
  ASSUME IInv, NEW p \in Peer, DecideOutcome(p) PROVE IInv'
<1>1. TypeOK /\ Backed(p)
  BY DEF IInv, PeerInv
<1>2. mode' = [mode EXCEPT ![p] = mode[p]] /\ call[p] = None /\ mode[p] \in Busy /\ mode[p] # "effect"
  BY <1>1 DEF DecideOutcome, Idle, TypeOK, Busy
<1>3. CASE Phased(p, "begun") /\ CompletionReady(p, "effect_not_applied", "recovery")
  <2>1. effect[pending[p].op] = "none"
    BY <1>1, <1>3 DEF Backed, Phased
  <2>. QED
    BY <1>2, <1>3, <2>1, CompletionReadyKeeps DEF DecideOutcome, Outcome, Evidence
<1>4. CASE Phased(p, "dispatching") /\ CompletionReady(p, "outcome_unknown", "recovery")
  BY <1>2, <1>4, CompletionReadyKeeps DEF DecideOutcome, Outcome, Evidence
<1>. QED  BY <1>3, <1>4 DEF DecideOutcome

\* The tool's return or exception is written down.
LEMMA FinishKeeps ==
  ASSUME IInv, NEW p \in Peer, Finish(p) PROVE IInv'
<1>1. TypeOK /\ ModeOK(p) /\ call[p] = None /\ mode[p] # "effect"
  BY DEF IInv, PeerInv, ModeOK, Finish
<1>2. mode' = [mode EXCEPT ![p] = "finishing"] /\ "finishing" \in Busy
  BY DEF Finish, Busy
<1>3. CASE mode[p] = "succeeded" /\ CompletionReady(p, "effect_applied", "completion")
  <2>1. effect[pending[p].op] = "applied"
    BY <1>1, <1>3 DEF ModeOK
  <2>. QED
    BY <1>1, <1>2, <1>3, <2>1, CompletionReadyKeeps DEF Finish, Outcome, Evidence
<1>4. CASE mode[p] = "raised" /\ CompletionReady(p, "outcome_unknown", "completion")
  BY <1>1, <1>2, <1>4, CompletionReadyKeeps DEF Finish, Outcome, Evidence
<1>. QED  BY <1>3, <1>4 DEF Finish

\* Both ways of marking the dispatch: the tool starts, or the request that
\* asked for it has been cancelled meanwhile.
LEMMA MarkKeeps ==
  ASSUME IInv, NEW p \in Peer, mode[p] = "token", Phased(p, "begun"),
         Write(p, [pending[p] EXCEPT !.phase = "dispatching"]),
         UNCHANGED <<clock, fenceVars, minSeen, used, late, faults>>,
         \/ /\ mode' = [mode EXCEPT ![p] = "effect"] /\ call' = call
            /\ effect' = [effect EXCEPT ![pending[p].op] = "running"]
         \/ Raise(p) /\ UNCHANGED effect
  PROVE  IInv'
<1>. USE NoneAssumption
<1>. DEFINE w == [pending[p] EXCEPT !.phase = "dispatching"]
            op == pending[p].op
<1>1. /\ TypeOK /\ Held /\ Owned /\ Rows /\ Numbered(p) /\ Generated(p) /\ Backed(p) /\ ModeOK(p)
      /\ pending[p] \in Pending /\ pending[p] # None /\ pending[p].phase = "begun" /\ call[p] = None
  BY DEF IInv, PeerInv, Phased, TypeOK, ModeOK
<1>2. /\ w \in Pending /\ w.op = op /\ w.phase = "dispatching" /\ w.generation = pending[p].generation
      /\ w # None /\ op \in Op /\ op[1] = p /\ ~Settled(op) /\ Flying(op, "begun")
      /\ op[2] <= used[p] /\ op = <<p, op[2]>> /\ op[2] \in 1..MaxOps
  BY <1>1 DEF Pending, Phase, Numbered, Backed, Flying, Held, Op
<1>3. pending' = [pending EXCEPT ![p] = w] /\ pending'[p] = w /\ call'[p] = None
  BY <1>1 DEF Write, Raise, Hangup, TypeOK
<1>4. \/ mode'[p] = "effect" /\ effect' = [effect EXCEPT ![op] = "running"]
      \/ mode'[p] = "idle" /\ effect' = effect
  BY <1>1 DEF Raise, TypeOK
<1>5. \A o \in Op : o # op => effect'[o] = effect[o]
  BY <1>1, <1>4 DEF TypeOK
<1>6. TypeOK'
  <2>1. mode' \in [Peer -> Mode] /\ call' \in [Peer -> Call \cup {None}]
    BY <1>1 DEF Raise, Hangup, TypeOK, Mode
  <2>2. effect' \in [Op -> {"none", "running", "applied", "failed"}]
    BY <1>1, <1>4 DEF TypeOK
  <2>. QED
    BY <1>1, <1>2, <1>3, <2>1, <2>2 DEF TypeOK, Store!TypeOK, fenceVars
<1>7. PeerMove(p)
  <2>1. \A q \in Peer : q # p => mode'[q] = mode[q] /\ call'[q] = call[q] /\ pending'[q] = pending[q]
    BY <1>1, <1>3 DEF Raise, Hangup, TypeOK
  <2>. QED  BY <1>2, <1>5, <2>1 DEF PeerMove
<1>8. Owned'
  BY <1>1, <1>2, <1>3 DEF Owned, fenceVars, TypeOK
<1>9. Rows'
  <2>1. \A x \in settlements : x.op \in Op /\ x.op # op
    BY <1>1, <1>2 DEF Settled, TypeOK, Store!TypeOK, Store!Settlement
  <2>. QED  BY <1>1, <1>5, <2>1 DEF Rows, fenceVars
<1>10. Numbered(p)'
  <2>1. \A n \in 1..MaxOps : n > used[p] => <<p, n>> \in Op /\ <<p, n>> # op
    BY <1>1, <1>2 DEF Op, TypeOK
  <2>. QED  BY <1>1, <1>2, <1>3, <1>5, <2>1 DEF Numbered
<1>11. Generated(p)' /\ CallFits(p)'
  BY <1>1, <1>2, <1>3 DEF Generated, CallFits, fenceVars
<1>12. Backed(p)'
  BY <1>2, <1>3 DEF Backed, Reported, Flying, fenceVars
<1>13. ModeOK(p)'
  <2>1. \A n \in 1..MaxOps : effect[<<p, n>>] # "running"
    BY <1>1 DEF ModeOK
  <2>2. \A n \in 1..MaxOps : effect'[<<p, n>>] = "running" => mode'[p] = "effect" /\ op = <<p, n>>
    BY <1>4, <1>5, <2>1 DEF Op
  <2>3. mode'[p] = "effect" => effect'[op] = "running"
    BY <1>1, <1>2, <1>4 DEF TypeOK
  <2>. QED  BY <1>2, <1>3, <1>4, <2>2, <2>3 DEF ModeOK
<1>14. StillStands(p)
  BY <1>1, <1>2, <1>3 DEF StillStands, Stands, Reported
<1>15. used'[p] >= used[p]
  BY <1>1 DEF TypeOK
<1>. QED
  BY <1>3, <1>6, <1>7, <1>8, <1>9, <1>10, <1>11, <1>12, <1>13, <1>14, <1>15, PeerMoveKeeps

\* The dispatch is marked.
LEMMA DispatchKeeps ==
  ASSUME IInv, NEW p \in Peer, Dispatch(p) \/ DispatchCancelled(p) PROVE IInv'
  BY MarkKeeps DEF Dispatch, DispatchCancelled, worldVars

\* A domain effect ends, by itself or with its process.
LEMMA EffectOverKeeps ==
  ASSUME IInv, NEW p \in Peer, mode[p] = "effect", NEW what \in {"applied", "failed"},
         effect' = [effect EXCEPT ![pending[p].op] = what],
         NEW m \in {"succeeded", "raised", "idle"}, mode' = [mode EXCEPT ![p] = m],
         m = "succeeded" => what = "applied", call' = call,
         UNCHANGED <<clock, fenceVars, pending, minSeen, used>>, Abandoned(p)
  PROVE  IInv'
<1>. USE NoneAssumption
<1>. DEFINE op == pending[p].op
<1>1. /\ TypeOK /\ Held /\ Owned /\ Rows /\ Numbered(p) /\ Generated(p) /\ Backed(p) /\ ModeOK(p)
      /\ pending[p] \in Pending /\ pending[p] # None /\ pending[p].phase = "dispatching"
      /\ call[p] = None
  BY DEF IInv, PeerInv, TypeOK, ModeOK
<1>2. /\ op \in Op /\ op[1] = p /\ ~Settled(op) /\ Flying(op, "begun")
      /\ op[2] <= used[p] /\ op = <<p, op[2]>> /\ op[2] \in 1..MaxOps
  BY <1>1 DEF Pending, Numbered, Backed, Flying, Held, Op
<1>3. mode'[p] = m /\ effect'[op] = what /\ \A o \in Op : o # op => effect'[o] = effect[o]
  BY <1>1, <1>2 DEF TypeOK
<1>4. TypeOK'
  <2>1. effect' \in [Op -> {"none", "running", "applied", "failed"}]
    BY <1>1 DEF TypeOK
  <2>2. mode' \in [Peer -> Mode]
    BY <1>1 DEF TypeOK, Mode
  <2>. QED
    BY <1>1, <2>1, <2>2 DEF TypeOK, Store!TypeOK, fenceVars, Abandoned
<1>5. PeerMove(p)
  BY <1>1, <1>2, <1>3 DEF PeerMove, Abandoned, TypeOK
<1>6. Owned'
  BY <1>1 DEF Owned, fenceVars
<1>7. Rows'
  <2>1. \A x \in settlements : x.op \in Op /\ x.op # op
    BY <1>1, <1>2 DEF Settled, TypeOK, Store!TypeOK, Store!Settlement
  <2>. QED  BY <1>1, <1>3, <2>1 DEF Rows, fenceVars
<1>8. Numbered(p)'
  <2>1. \A n \in 1..MaxOps : n > used[p] => <<p, n>> \in Op /\ <<p, n>> # op
    BY <1>1, <1>2 DEF Op, TypeOK
  <2>. QED  BY <1>1, <1>3, <2>1 DEF Numbered
<1>9. Generated(p)' /\ CallFits(p)'
  BY <1>1 DEF Generated, CallFits, fenceVars
<1>10. Backed(p)'
  BY <1>1 DEF Backed, Reported, Flying, fenceVars
<1>11. ModeOK(p)'
  <2>1. \A n \in 1..MaxOps : effect'[<<p, n>>] # "running"
    <3>. SUFFICES ASSUME NEW n \in 1..MaxOps, effect'[<<p, n>>] = "running" PROVE FALSE
      OBVIOUS
    <3>1. <<p, n>> \in Op
      BY DEF Op
    <3>2. <<p, n>> # op
      BY <1>3
    <3>. QED  BY <1>1, <1>3, <3>1, <3>2 DEF ModeOK
  <2>. QED  BY <1>1, <1>3, <2>1 DEF ModeOK
<1>12. StillStands(p)
  BY DEF StillStands, Stands, Reported
<1>13. used'[p] >= used[p] /\ call'[p] = None
  BY <1>1 DEF TypeOK
<1>. QED
  BY <1>4, <1>5, <1>6, <1>7, <1>8, <1>9, <1>10, <1>11, <1>12, <1>13, PeerMoveKeeps

\* The tool returns or raises.
LEMMA EffectEndsKeeps ==
  ASSUME IInv, NEW p \in Peer, EffectEnds(p) PROVE IInv'
<1>1. Abandoned(p)
  BY DEF EffectEnds, Abandoned, IInv, TypeOK
<1>. QED  BY <1>1, EffectOverKeeps DEF EffectEnds

\* The peer's process dies.
LEMMA CrashKeeps ==
  ASSUME IInv, NEW p \in Peer, Crash(p) PROVE IInv'
<1>1. Abandoned(p) /\ TypeOK
  BY AbandonStep DEF Crash, IInv
<1>2. CASE mode[p] = "effect"
  <2>1. call[p] = None /\ call' = call
    BY <1>1, <1>2 DEF IInv, PeerInv, ModeOK, Crash, Raise, Hangup, TypeOK
  <2>2. PICK what \in {"applied", "failed"} : effect' = [effect EXCEPT ![pending[p].op] = what]
    BY <1>2 DEF Crash
  <2>. QED  BY <1>1, <1>2, <2>1, <2>2, EffectOverKeeps DEF Crash, Raise
<1>3. CASE mode[p] # "effect"
  BY <1>1, <1>3, HangupKeeps DEF Crash, Raise, Hangup
<1>. QED  BY <1>2, <1>3

\* A new effect is prepared, under a number nobody has used.
LEMMA PrepareKeeps ==
  ASSUME IInv, NEW p \in Peer, Prepare(p) PROVE IInv'
<1>. USE NoneAssumption
<1>. DEFINE op == <<p, used[p] + 1>>
            w == [op |-> op, phase |-> "prepared", generation |-> None, outcome |-> None,
                  evidence |-> None]
<1>1. /\ TypeOK /\ Held /\ Owned /\ Rows /\ Numbered(p) /\ Generated(p) /\ ModeOK(p) /\ CallFits(p)
      /\ pending[p] = None /\ call[p] = None /\ used[p] < MaxOps /\ used[p] \in Nat
  BY DEF IInv, PeerInv, Prepare, CallFits, TypeOK
<1>2. op \in Op /\ w \in Pending /\ w # None /\ used[p] + 1 \in 1..MaxOps
  BY <1>1, EnforcementBounds DEF Op, Pending, Phase
<1>3. /\ pending' = [pending EXCEPT ![p] = w] /\ pending'[p] = w
      /\ used' = [used EXCEPT ![p] = used[p] + 1] /\ used'[p] = used[p] + 1
      /\ mode' = [mode EXCEPT ![p] = "beginning"] /\ mode'[p] = "beginning"
      /\ UNCHANGED <<clock, fenceVars, minSeen, call, worldVars>>
  BY <1>1 DEF Prepare, Write, TypeOK
<1>4. TypeOK'
  BY <1>1, <1>2, <1>3 DEF TypeOK, Store!TypeOK, fenceVars, worldVars, Mode
<1>5. PeerMove(p)
  BY <1>1, <1>3 DEF PeerMove, worldVars, TypeOK
<1>6. effect[op] = "none"
  BY <1>1, <1>2 DEF Numbered
<1>7. ~Settled(op)
  BY <1>1 DEF Rows, Settled
<1>8. inflight # None => writer.owner # p /\ writer.owner \in Peer
  BY <1>1 DEF Owned, Held, TypeOK, Store!TypeOK, Store!Writer
<1>9. ~InFlight(op)
  BY <1>1, <1>8 DEF Held, InFlight
<1>10. Owned'
  BY <1>1, <1>3, <1>8 DEF Owned, fenceVars, TypeOK
<1>11. Rows'
  <2>1. \A q \in Peer : used[q] \in Nat /\ used'[q] \in Nat /\ used[q] <= used'[q]
    BY <1>1, <1>3 DEF TypeOK
  <2>2. \A x \in settlements : x.op \in Op /\ x.op[1] \in Peer /\ x.op[2] \in Nat
    BY <1>1 DEF TypeOK, Store!TypeOK, Store!Settlement, Op
  <2>. QED  BY <1>1, <1>3, <2>1, <2>2 DEF Rows, fenceVars, worldVars
<1>12. Numbered(p)'
  BY <1>1, <1>3 DEF Numbered, worldVars
<1>13. Generated(p)' /\ CallFits(p)'
  BY <1>1, <1>3 DEF Generated, CallFits, fenceVars
<1>14. Backed(p)'
  BY <1>3, <1>6, <1>7, <1>9 DEF Backed, Reported, InFlight, Settled, fenceVars, worldVars
<1>15. ModeOK(p)'
  BY <1>1, <1>3 DEF ModeOK, worldVars
<1>16. StillStands(p)
  BY <1>1 DEF StillStands, Stands
<1>. QED
  BY <1>1, <1>3, <1>4, <1>5, <1>10, <1>11, <1>12, <1>13, <1>14, <1>15, <1>16, PeerMoveKeeps

-----------------------------------------------------------------------------
(* The theorems. *)

\* The invariant, initially,
LEMMA IInvInit == Init => IInv
<1>. SUFFICES ASSUME Init PROVE IInv
  OBVIOUS
<1>. USE NoneAssumption, EnforcementBounds
<1>1. TypeOK
  BY DEF Init, TypeOK, Store!TypeOK, Mode
<1>2. Held /\ Owned /\ Rows
  BY DEF Init, Held, Owned, Rows
<1>3. ASSUME NEW p \in Peer PROVE PeerInv(p)
  <2>1. Numbered(p) /\ ModeOK(p)
    BY DEF Init, Numbered, ModeOK, Op
  <2>2. Generated(p) /\ Backed(p) /\ CallFits(p) /\ AnswerHolds(p)
    BY DEF Init, Generated, Backed, CallFits, AnswerHolds
  <2>3. Requests(p)
    BY DEF Init, Requests, OnTheWay
  <2>. QED  BY <2>1, <2>2, <2>3 DEF PeerInv
<1>. QED  BY <1>1, <1>2, <1>3 DEF IInv

\* in every step,
LEMMA IInvStep == IInv /\ [Next]_vars => IInv'
<1>. SUFFICES ASSUME IInv, [Next]_vars PROVE IInv'
  OBVIOUS
<1>1. ASSUME NEW p \in Peer, Work(p) PROVE IInv'
  BY <1>1, SendNextKeeps, DecideOutcomeKeeps, AcquireAnsweredKeeps, AcquireDeniedKeeps,
     BeginAnsweredKeeps, BeginExpiredKeeps, SettleAnsweredKeeps, ReleaseAnsweredKeeps,
     ReleaseFailedKeeps, UnknownAnsweredKeeps, DispatchKeeps, AbortKeeps,
     EffectEndsKeeps, FinishKeeps DEF Work
<1>2. ASSUME NEW p \in Peer,
             \/ Recover(p) \/ Prepare(p) \/ CallFails(p) \/ Crash(p)
             \/ InterruptAcquire(p) \/ ReconcileEffect(p) \/ Serve(p)
      PROVE  IInv'
  BY <1>2, RecoverKeeps, PrepareKeeps, CallFailsKeeps, CrashKeeps, InterruptAcquireKeeps,
     ReconcileEffectKeeps, ServeKeeps
<1>3. CASE ServeLate \/ DropLate \/ RepairAnchor \/ Tick
  BY <1>3, ServeLateKeeps, DropLateKeeps, RepairAnchorKeeps, TickKeeps
<1>4. CASE UNCHANGED vars
  <2>1. TypeOK'
    BY <1>4 DEF IInv, TypeOK, Store!TypeOK, vars, fenceVars, peerVars, worldVars
  <2>2. Quiet /\ PeersKept /\ call' = call /\ late' = late
    BY <1>4 DEF vars, fenceVars, peerVars, worldVars, Quiet, PeersKept
  <2>. QED  BY <2>1, <2>2, CallsKeptKeeps DEF StoreMove
<1>. QED  BY <1>1, <1>2, <1>3, <1>4 DEF Next, Coordinator

\* and always.
LEMMA IInvCorrect == Spec => []IInv
  BY IInvInit, IInvStep, PTL DEF Spec

\* Type correctness of the store, the peers, the calls and the world.
THEOREM TypesHold == Spec => []TypeOK
  BY IInvCorrect, PTL DEF IInv

\* Domain effects exclude each other: one runs only while the fence has
\* exactly it in flight, unsettled, under the grant its peer holds.
THEOREM EffectsFencedHolds == Spec => []EffectsFenced
<1>1. IInv => EffectsFenced
  <2>. SUFFICES ASSUME IInv, NEW op \in Op, effect[op] = "running"
                PROVE  /\ inflight # None /\ inflight.op = op /\ inflight.state = "begun"
                       /\ Unsettled(op)
                       /\ \E p \in Peer : /\ pending[p] # None /\ pending[p].op = op
                                          /\ Store!Holds(p, op, pending[p].generation)
    BY DEF EffectsFenced
  <2>1. PICK p \in Peer, n \in 1..MaxOps : op = <<p, n>>
    BY DEF Op
  <2>2. pending[p] # None /\ pending[p].op = op /\ pending[p].phase = "dispatching"
    BY <2>1 DEF IInv, PeerInv, ModeOK
  <2>3. Flying(op, "begun")
    BY <2>2 DEF IInv, PeerInv, Backed
  <2>4. ~Settled(op) /\ writer # None /\ writer.session = op /\ writer.owner = p
    BY <2>1, <2>3 DEF IInv, Held, Flying
  <2>5. Store!Holds(p, op, pending[p].generation)
    BY <2>3, <2>4 DEF IInv, Owned, Flying, Store!Holds, Store!IsHolder
  <2>. QED
    BY <2>2, <2>3, <2>4, <2>5 DEF Flying, Unsettled, Store!SettledOp, Settled
<1>. QED  BY <1>1, IInvCorrect, PTL

\* The ledger tells the truth about the effects it says were or were not
\* applied, whatever crashed and whichever report came late.
THEOREM RecordIsTrueHolds == Spec => []RecordIsTrue
<1>1. IInv => RecordIsTrue
  BY DEF IInv, Rows, RecordIsTrue
<1>. QED  BY <1>1, IInvCorrect, PTL

\* Whatever is in flight is pending, under the same grant, at its owner.
THEOREM NoOrphanHolds == Spec => []NoOrphanInFlight
<1>1. IInv => NoOrphanInFlight
  <2>. SUFFICES ASSUME IInv, inflight # None
                PROVE  /\ pending[writer.owner] # None
                       /\ pending[writer.owner].op = inflight.op
                       /\ pending[writer.owner].phase \in {"granted", "begun", "dispatching",
                                                           "completion_ready", "outcome_unknown"}
                       /\ pending[writer.owner].generation = generation
    BY DEF NoOrphanInFlight
  <2>1. writer.owner \in Peer
    BY NoneAssumption DEF IInv, Held, TypeOK, Store!TypeOK, Store!Writer
  <2>. QED  BY <2>1 DEF IInv, Owned, TypeOK, Pending, Phase
<1>. QED  BY <1>1, IInvCorrect, PTL

\* What a peer has written down is backed by the coordinator.
THEOREM PhaseIsBackedHolds == Spec => []PhaseIsBacked
<1>1. ASSUME IInv, NEW p \in Peer, pending[p] # None
      PROVE  /\ pending[p].phase \in {"begun", "dispatching"} => Flying(pending[p].op, "begun")
             /\ pending[p].phase = "completion_ready" =>
                   \/ InFlight(pending[p].op)
                   \/ pending[p].outcome # "outcome_unknown"
                        /\ Row(pending[p].op, pending[p].outcome, "writer")
                   \/ pending[p].outcome = "outcome_unknown"
                        /\ Row(pending[p].op, "effect_applied", "reconcile")
             /\ pending[p].phase = "outcome_unknown" =>
                   \/ Flying(pending[p].op, "outcome_unknown")
                   \/ Row(pending[p].op, "effect_applied", "reconcile")
             /\ pending[p].phase = "settled" => Row(pending[p].op, pending[p].outcome, "writer")
             /\ pending[p].phase \in {"prepared", "granted"} => Unsettled(pending[p].op)
             /\ pending[p].phase \in Phase
  BY <1>1 DEF IInv, PeerInv, TypeOK, Pending, Backed, Reported, Flying, InFlight, Settled, Row,
     Unsettled, Store!SettledOp
<1>2. IInv => PhaseIsBacked
  BY <1>1 DEF PhaseIsBacked, Phase, Flying, InFlight, Row
<1>. QED  BY <1>2, IInvCorrect, PTL
=============================================================================
