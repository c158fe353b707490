-------------------------- MODULE ResourceSafetyProofs ---------------------------
(***************************************************************************)
(* Proofs about what callers may rely on while they hold a lease.          *)
(*                                                                         *)
(* Attempts: a branch is never in two at once, the row of a running one is *)
(* not touched, and the end of one never ends another.  The last holds     *)
(* also for attempts whose lease ran out, and nothing in the row names the *)
(* process: what keeps them apart is the nonce for lanes, and for the      *)
(* other owners that the expiry of an owner's later rows is ahead of that  *)
(* of the earlier ones.  The inductive invariant says so.                  *)
(*                                                                         *)
(* Snapshots: what a lane ends or rewinds under one is the row it was      *)
(* shown.  Scopes and repositories: how an overlap of live leases can      *)
(* arise.  Claims: the table implements the abstract specification         *)
(* LeaseClaims.                                                            *)
(***************************************************************************)
EXTENDS ResourceLeasesProofs

USE OwnerAssumption, KeyAssumption, NumberAssumption

\* The nonces of lanes were drawn.
NonceBound ==
    /\ \A k \in Key : lease[k] # None /\ lease[k].owner \in Lane => lease[k].nonce \in 1..nonces
    /\ \A p \in Proc : attempt[p] # None /\ attempt[p].row.owner \in Lane
                          => attempt[p].row.nonce \in 1..nonces

\* An overlay does not shorten the lease it borrows.
OverlaysLengthen ==
    \A p \in Proc :
        attempt[p] # None /\ attempt[p].row.marker.origin = "preexisting"
            => attempt[p].row.marker.previousExpires <= attempt[p].row.expires

\* A row that has taken the place of the attempt's row, and can be told from it.
Superseded(row, marked) ==
    \/ row = None
    \/ row.owner # marked.owner
    \/ row.owner \in Lane /\ row.nonce # marked.nonce
    \/ /\ row.owner \notin Lane
       /\ row.expires > marked.expires
       /\ row.marker # None /\ row.marker.origin = "preexisting"
             => row.marker.previousExpires > marked.expires

AttemptOrSuperseded ==
    \A p \in Proc : attempt[p] # None =>
        \/ lease[attempt[p].key] = attempt[p].row
        \/ Superseded(lease[attempt[p].key], attempt[p].row)

\* Two attempts of one branch, running or not, left different rows.
UniqueAttempts ==
    \A p, q \in Proc :
        /\ p # q
        /\ attempt[p] # None /\ attempt[q] # None
        /\ attempt[p].key = attempt[q].key
        => attempt[p].row # attempt[q].row

AttemptInv ==
    /\ TypeOK
    /\ NonceBound
    /\ OverlaysLengthen
    /\ AttemptOrSuperseded
    /\ UniqueAttempts
    /\ AttemptIsFrozen

-----------------------------------------------------------------------------
\* How a step changes what a caller knows of its attempt.
Started(p, k) ==
    /\ k \in BranchKey
    /\ lease'[k] \in Row /\ lease'[k].marker # None
    /\ attempt' = [attempt EXCEPT ![p] = [key |-> k, row |-> lease'[k]]]
    /\ Overlaid(k) \/ Made(k)

\* Clock, terminal tasks and nonces only grow, and the attempts of a caller
\* start, end or stay.
LEMMA AttemptChange ==
    ASSUME TypeOK, [Next]_vars
    PROVE  /\ clock' >= clock /\ terminal \subseteq terminal' /\ nonces' >= nonces
           /\ \A p \in Proc : \/ attempt'[p] \in {attempt[p], None}
                              \/ \E k \in BranchKey : Started(p, k)
<1>. DEFINE Goal == /\ clock' >= clock /\ terminal \subseteq terminal' /\ nonces' >= nonces
                    /\ \A p \in Proc : \/ attempt'[p] \in {attempt[p], None}
                                       \/ \E k \in BranchKey : Started(p, k)
<1>. USE DEF table, memory
<1>. clock \in Nat /\ nonces \in Nat
  BY DEF TypeOK
<1>1. ASSUME NEW p \in Proc, LeaseStep(p) PROVE Goal
  <2>1. UNCHANGED <<clock, terminal, attempt>>
    BY <1>1 DEF LeaseStep, Acquire, Renew, Restore, Rebind, Release, Reconcile
  <2>2. nonces' >= nonces
    <3>1. ASSUME NEW ks \in KeySets, NEW purpose \in Purpose, NEW ttl \in Ttl,
                 NEW keep \in BOOLEAN, NEW now \in Nows, Acquire(p, ks, purpose, ttl, keep, now)
          PROVE  nonces' >= nonces
      <4>1. DrawNonce(OwnerOf[p]) \/ UNCHANGED nonces
        BY <3>1 DEF Acquire
      <4>. QED
        BY <4>1 DEF DrawNonce
    <3>2. ASSUME ~\E ks \in KeySets, purpose \in Purpose, ttl \in Ttl, keep \in BOOLEAN,
                     now \in Nows : Acquire(p, ks, purpose, ttl, keep, now)
          PROVE  nonces' = nonces
      <4>1. ASSUME NEW ks \in KeySets, Restore(p, ks) \/ Reconcile(p, ks)
            PROVE  nonces' = nonces
        BY <4>1 DEF Restore, Reconcile
      <4>2. ASSUME NEW ks \in KeySets, NEW ttl \in Ttl, NEW guarded \in BOOLEAN, NEW now \in Nows,
                   Renew(p, ks, ttl, now, guarded)
            PROVE  nonces' = nonces
        BY <4>2 DEF Renew
      <4>3. ASSUME NEW ks \in KeySets, NEW purpose \in Purpose, NEW ttl \in Ttl, NEW now \in Nows,
                   Rebind(p, ks, purpose, ttl, now)
            PROVE  nonces' = nonces
        BY <4>3 DEF Rebind
      <4>4. ASSUME NEW ks \in KeySets, NEW force \in BOOLEAN, NEW guarded \in BOOLEAN,
                   Release(p, ks, force, guarded)
            PROVE  nonces' = nonces
        BY <4>4 DEF Release
      <4>. QED
        BY <1>1, <3>2, <4>1, <4>2, <4>3, <4>4 DEF LeaseStep
    <3>. QED
      BY <3>1, <3>2
  <2>. QED
    BY <2>1, <2>2
<1>2. ASSUME NEW p \in Proc, NEW k \in BranchKey, NEW b \in Binding, NEW ttl \in Ttl,
             NEW now \in Nows, Overlay(p, k, b, ttl, now)
      PROVE  Goal
  <2>1. /\ lease'[k] \in Row
        /\ attempt' = [attempt EXCEPT ![p] = [key |-> k, row |-> lease'[k]]]
        /\ UNCHANGED <<clock, terminal, nonces>>
    BY <1>2, OverlaidRow
  <2>2. lease'[k].marker # None
    <3>. DEFINE until == Later(lease[k].expires, now + ttl)
                mark == [binding |-> b, origin |-> "preexisting",
                         previousExpires |-> lease[k].expires, attemptExpires |-> until]
    <3>1. lease[k] \in Row /\ lease[k].expires \in Nat
      BY <1>2 DEF Overlay, Live, TypeOK, Row
    <3>2. until \in Nat
      <4>1. now + ttl \in Nat
        BY NowIsPast
      <4>. QED
        BY <3>1, <4>1 DEF Later
    <3>3. mark \in Marker
      BY <3>1, <3>2 DEF Marker, Origin
    <3>4. lease'[k].marker = mark
      BY <1>2, <3>1 DEF Overlay, TypeOK, Row
    <3>. QED
      BY <3>3, <3>4, NoneAssumption
  <2>3. Overlaid(k)
    BY <1>2 DEF Overlaid
  <2>4. Started(p, k)
    BY <2>1, <2>2, <2>3 DEF Started
  <2>. QED
    BY <2>1, <2>4 DEF TypeOK
<1>3. ASSUME NEW p \in Proc, NEW k \in BranchKey, NEW b \in Binding, NEW ttl \in Ttl,
             NEW now \in Nows, AttemptOnly(p, k, b, ttl, now)
      PROVE  Goal
  <2>. DEFINE mark == [binding |-> b, origin |-> "attempt_only",
                       previousExpires |-> 0, attemptExpires |-> 0]
              marked == NewRow(OwnerOf[p], AttemptPurpose, now, ttl, mark)
  <2>1. mark \in Marker /\ mark # None /\ mark.origin = "attempt_only"
    BY NoneAssumption DEF Marker, Origin
  <2>2. /\ lease'[k] = marked
        /\ attempt' = [attempt EXCEPT ![p] = [key |-> k, row |-> marked]]
        /\ ~Live(lease[k], now)
        /\ UNCHANGED <<clock, terminal>>
    BY <1>3 DEF AttemptOnly, TypeOK
  <2>3. OwnerOf[p] \notin terminal
    BY <1>3 DEF AttemptOnly, MayAcquire
  <2>4. nonces' >= nonces /\ (OwnerOf[p] \in Lane => nonces' = nonces + 1)
    BY <1>3 DEF AttemptOnly, DrawNonce
  <2>. HIDE DEF mark
  <2>5. marked \in Row /\ marked.marker = mark
    <3>1. now \in Nat /\ now + ttl \in Nat
      BY NowIsPast
    <3>. QED
      BY <2>1, <3>1 DEF NewRow, Row
  <2>6. Made(k)
    BY <2>1, <2>2, <2>3, <2>4 DEF Made
  <2>7. Started(p, k)
    BY <2>1, <2>2, <2>5, <2>6 DEF Started
  <2>. QED
    BY <2>2, <2>4, <2>7 DEF TypeOK
<1>4. ASSUME NEW p \in Proc, CompleteAttemptOnly(p) PROVE Goal
  BY <1>4 DEF CompleteAttemptOnly, TypeOK
<1>5. ASSUME NEW p \in Proc, CompleteOverlay(p) PROVE Goal
  <2>1. attempt' = [attempt EXCEPT ![p] = None] /\ UNCHANGED <<clock, terminal, nonces>>
    BY <1>5, UnmarkedRow
  <2>. QED
    BY <2>1 DEF TypeOK
<1>6. ASSUME NEW p \in Proc, Forget(p) PROVE Goal
  BY <1>6 DEF Forget, TypeOK
<1>7. ASSUME NEW p \in Proc, NEW k \in Key, Look(p, k) PROVE Goal
  BY <1>7 DEF Look
<1>8. ASSUME NEW t \in Task, Terminalize(t) PROVE Goal
  BY <1>8 DEF Terminalize
<1>9. CASE Tick \/ UNCHANGED vars
  BY <1>9 DEF Tick, vars
<1>. QED
  BY <1>1, <1>2, <1>3, <1>4, <1>5, <1>6, <1>7, <1>8, <1>9 DEF Next, AttemptStep

\* What is known of an attempt a caller is in.
LEMMA AttemptTypes ==
    ASSUME TypeOK, NEW p \in Proc, attempt[p] # None
    PROVE  /\ attempt[p].key \in BranchKey /\ attempt[p].key \in Key
           /\ attempt[p].row \in Row /\ attempt[p].row # None
           /\ attempt[p].row.marker # None /\ attempt[p].row.marker \in Marker
           /\ attempt[p].row.expires \in Nat
           /\ attempt[p].row.marker.previousExpires \in Nat
<1>1. attempt[p] \in AttemptLease
  BY DEF TypeOK
<1>2. attempt[p].key \in BranchKey /\ attempt[p].row \in Row /\ attempt[p].row.marker # None
  BY <1>1 DEF AttemptLease
<1>. QED
  BY <1>2, NoneAssumption DEF Row, Marker

\* The end of an attempt finds the row the attempt left.
LEMMA CompletesItsOwn ==
    ASSUME AttemptInv, NEW p \in Proc, CompleteAttemptOnly(p) \/ CompleteOverlay(p)
    PROVE  attempt[p] # None /\ lease[attempt[p].key] = attempt[p].row
<1>. DEFINE k == attempt[p].key
            marked == attempt[p].row
<1>. TypeOK
  BY DEF AttemptInv
<1>1. attempt[p] # None
  BY DEF CompleteAttemptOnly, CompleteOverlay
<1>2. k \in Key /\ marked \in Row /\ marked.expires \in Nat /\ marked.marker \in Marker
      /\ marked.marker.previousExpires \in Nat
  BY <1>1, AttemptTypes
<1>3. lease[k] # None /\ lease[k].owner = marked.owner /\ lease[k].nonce = marked.nonce
  BY DEF CompleteAttemptOnly, CompleteOverlay, Snapshot, IsOverlaidBy
<1>4. lease[k] = marked \/ Superseded(lease[k], marked)
  BY <1>1 DEF AttemptInv, AttemptOrSuperseded
<1>5. CASE CompleteAttemptOnly(p)
  <2>1. lease[k].expires = marked.expires
    BY <1>5 DEF CompleteAttemptOnly, Snapshot
  <2>. QED
    BY <1>1, <1>2, <1>3, <1>4, <2>1 DEF Superseded
<1>6. CASE CompleteOverlay(p)
  <2>1. /\ lease[k].marker # None /\ lease[k].marker.origin = "preexisting"
        /\ lease[k].marker.previousExpires = marked.marker.previousExpires
        /\ marked.marker.origin = "preexisting"
    BY <1>6 DEF CompleteOverlay, IsOverlaidBy
  <2>2. marked.marker.previousExpires <= marked.expires
    BY <1>1, <2>1 DEF AttemptInv, OverlaysLengthen
  <2>. QED
    BY <1>1, <1>2, <1>3, <1>4, <2>1, <2>2 DEF Superseded
<1>. QED
  BY <1>5, <1>6

\* A row a new attempt leaves is not the row of an earlier attempt.
LEMMA NewAttemptIsNew ==
    ASSUME AttemptInv, [Next]_vars, NEW k \in BranchKey, Overlaid(k) \/ Made(k),
           NEW q \in Proc, attempt[q] # None, attempt[q].key = k
    PROVE  attempt[q].row # lease'[k]
<1>. DEFINE marked == attempt[q].row
<1>. TypeOK
  BY DEF AttemptInv
<1>1. marked \in Row /\ marked # None /\ marked.marker # None /\ marked.expires \in Nat
  BY AttemptTypes
<1>2. lease[k] = marked \/ Superseded(lease[k], marked)
  BY DEF AttemptInv, AttemptOrSuperseded
<1>3. CASE Overlaid(k)
  <2>1. /\ lease[k] \in Row /\ lease[k].marker = None /\ lease'[k].owner = lease[k].owner
        /\ lease'[k].nonce = lease[k].nonce /\ lease'[k].expires >= lease[k].expires
    BY <1>3, OverlaidRow DEF Overlaid
  <2>2. lease[k].expires \in Nat
    BY <2>1 DEF Row
  <2>. QED
    BY <1>1, <1>2, <2>1, <2>2, NoneAssumption DEF Superseded
<1>4. CASE Made(k)
  <2>1. /\ lease'[k].owner \notin terminal /\ lease'[k].expires > clock
        /\ lease'[k].owner \in Lane => lease'[k].nonce = nonces + 1
        /\ ~Live(lease[k], clock)
    BY <1>4, MadeRow
  <2>2. SUFFICES ASSUME marked = lease'[k] PROVE FALSE
    OBVIOUS
  <2>3. Running(q)
    BY <2>1, <2>2 DEF Running
  <2>4. lease[k] = marked
    BY <2>3 DEF AttemptInv, AttemptIsFrozen
  <2>. QED
    BY <1>1, <2>1, <2>2, <2>4 DEF Live
<1>. QED
  BY <1>3, <1>4

-----------------------------------------------------------------------------
\* The inductive invariant, initially and in every step, part by part.
LEMMA AttemptInvInit == Init => AttemptInv
<1>1. Init => TypeOK
  BY TypeInit
<1>2. Init => \A p \in Proc : attempt[p] = None
  BY DEF Init
<1>3. Init => \A k \in Key : lease[k] = None
  BY DEF Init
<1>. QED
  BY <1>1, <1>2, <1>3 DEF AttemptInv, NonceBound, OverlaysLengthen, AttemptOrSuperseded,
     UniqueAttempts, AttemptIsFrozen, Running

LEMMA NonceBoundStep == AttemptInv /\ [Next]_vars => NonceBound'
<1>. SUFFICES ASSUME AttemptInv, [Next]_vars PROVE NonceBound'
  OBVIOUS
<1>. TypeOK /\ NonceBound /\ nonces \in Nat
  BY DEF AttemptInv, TypeOK
<1>1. nonces' \in Nat /\ nonces' >= nonces
  BY AttemptChange, TypeStep DEF TypeOK
<1>2. ASSUME NEW k \in Key, lease'[k] # None, lease'[k].owner \in Lane
      PROVE  lease'[k].nonce \in 1..nonces'
  <2>1. CASE lease'[k] = lease[k]
    BY <1>1, <1>2, <2>1 DEF NonceBound
  <2>2. CASE Moved(k)
    BY <1>1, <1>2, <2>2 DEF Moved, NonceBound
  <2>3. CASE Made(k)
    BY <1>1, <1>2, <2>3, MadeRow
  <2>4. CASE Ended(k)
    BY <1>2, <2>4 DEF Ended
  <2>5. CASE Overlaid(k)
    BY <1>1, <1>2, <2>5, OverlaidRow, NoneAssumption DEF Overlaid, NonceBound
  <2>6. CASE Unmarked(k)
    BY <1>1, <1>2, <2>6, UnmarkedRow, NoneAssumption DEF Unmarked, NonceBound
  <2>. QED
    BY <2>1, <2>2, <2>3, <2>4, <2>5, <2>6, EveryStepIsARowStep DEF RowStep
<1>3. ASSUME NEW p \in Proc, attempt'[p] # None, attempt'[p].row.owner \in Lane
      PROVE  attempt'[p].row.nonce \in 1..nonces'
  <2>1. CASE attempt'[p] = attempt[p]
    BY <1>1, <1>3, <2>1 DEF NonceBound
  <2>2. ASSUME NEW k \in BranchKey, Started(p, k)
        PROVE  attempt'[p].row.nonce \in 1..nonces'
    <3>1. attempt'[p].row = lease'[k] /\ lease'[k] \in Row
      BY <2>2 DEF Started, TypeOK
    <3>. QED
      BY <1>2, <1>3, <3>1, NoneAssumption
  <2>. QED
    BY <1>3, <2>1, <2>2, AttemptChange
<1>. QED
  BY <1>2, <1>3 DEF NonceBound

LEMMA OverlaysLengthenStep == AttemptInv /\ [Next]_vars => OverlaysLengthen'
<1>. SUFFICES ASSUME AttemptInv, [Next]_vars, NEW p \in Proc, attempt'[p] # None,
                     attempt'[p].row.marker.origin = "preexisting"
              PROVE  attempt'[p].row.marker.previousExpires <= attempt'[p].row.expires
  BY DEF OverlaysLengthen
<1>. TypeOK
  BY DEF AttemptInv
<1>1. CASE attempt'[p] = attempt[p]
  BY <1>1 DEF AttemptInv, OverlaysLengthen
<1>2. ASSUME NEW k \in BranchKey, Started(p, k)
      PROVE  attempt'[p].row.marker.previousExpires <= attempt'[p].row.expires
  <2>1. attempt'[p].row = lease'[k] /\ lease'[k].marker # None
    BY <1>2 DEF Started, TypeOK
  <2>2. CASE Overlaid(k)
    BY <2>1, <2>2, OverlaidRow DEF Overlaid
  <2>3. CASE Made(k)
    BY <2>1, <2>3, MadeRow
  <2>. QED
    BY <1>2, <2>2, <2>3 DEF Started
<1>. QED
  BY <1>1, <1>2, AttemptChange

LEMMA UniqueAttemptsStep == AttemptInv /\ [Next]_vars => UniqueAttempts'
<1>. SUFFICES ASSUME AttemptInv, [Next]_vars, NEW p \in Proc, NEW q \in Proc, p # q,
                     attempt'[p] # None, attempt'[q] # None, attempt'[p].key = attempt'[q].key
              PROVE  attempt'[p].row # attempt'[q].row
  BY DEF UniqueAttempts
<1>. TypeOK
  BY DEF AttemptInv
<1>1. CASE attempt'[p] = attempt[p] /\ attempt'[q] = attempt[q]
  BY <1>1 DEF AttemptInv, UniqueAttempts
<1>2. ASSUME NEW k \in BranchKey, Started(p, k)
      PROVE  attempt'[p].row # attempt'[q].row
  <2>1. /\ attempt'[p].row = lease'[k] /\ attempt'[p].key = k
        /\ attempt'[q] = attempt[q]
        /\ Overlaid(k) \/ Made(k)
    BY <1>2 DEF Started, TypeOK
  <2>2. attempt[q] # None /\ attempt[q].key = k
    BY <2>1
  <2>3. attempt[q].row # lease'[k]
    BY <2>1, <2>2, NewAttemptIsNew
  <2>. QED
    BY <2>1, <2>3
<1>3. ASSUME NEW k \in BranchKey, Started(q, k)
      PROVE  attempt'[p].row # attempt'[q].row
  <2>1. /\ attempt'[q].row = lease'[k] /\ attempt'[q].key = k
        /\ attempt'[p] = attempt[p]
        /\ Overlaid(k) \/ Made(k)
    BY <1>3 DEF Started, TypeOK
  <2>2. attempt[p] # None /\ attempt[p].key = k
    BY <2>1
  <2>3. attempt[p].row # lease'[k]
    BY <2>1, <2>2, NewAttemptIsNew
  <2>. QED
    BY <2>1, <2>3
<1>. QED
  BY <1>1, <1>2, <1>3, AttemptChange

\* A caller that is still in an attempt after a step ended by another caller's
\* completion was not in it.
LEMMA OthersComplete ==
    ASSUME AttemptInv, NEW p \in Proc, NEW q \in Proc,
           CompleteAttemptOnly(q) \/ CompleteOverlay(q),
           attempt[p] # None, attempt'[p] # None, attempt[p].key = attempt[q].key
    PROVE  lease[attempt[p].key] # attempt[p].row
<1>. TypeOK
  BY DEF AttemptInv
<1>1. attempt' = [attempt EXCEPT ![q] = None]
  BY UnmarkedRow DEF CompleteAttemptOnly
<1>2. p # q
  BY <1>1 DEF TypeOK
<1>3. attempt[q] # None /\ lease[attempt[q].key] = attempt[q].row
  BY CompletesItsOwn
<1>. QED
  BY <1>2, <1>3 DEF AttemptInv, UniqueAttempts

LEMMA AttemptIsFrozenStep == AttemptInv /\ [Next]_vars => AttemptIsFrozen'
<1>. SUFFICES ASSUME AttemptInv, [Next]_vars, NEW p \in Proc, Running(p)'
              PROVE  lease'[attempt'[p].key] = attempt'[p].row
  BY DEF AttemptIsFrozen
<1>. TypeOK
  BY DEF AttemptInv
<1>1. ASSUME NEW k \in BranchKey, Started(p, k)
      PROVE  lease'[attempt'[p].key] = attempt'[p].row
  BY <1>1 DEF Started, TypeOK
<1>2. CASE attempt'[p] = attempt[p]
  <2>. DEFINE k == attempt[p].key
              marked == attempt[p].row
  <2>1. attempt[p] # None /\ attempt'[p] # None /\ marked.expires > clock'
        /\ marked.owner \notin terminal'
    BY <1>2 DEF Running
  <2>2. /\ k \in BranchKey /\ k \in Key /\ marked # None /\ marked.marker # None
        /\ marked.expires \in Nat
    BY <2>1, AttemptTypes
  <2>3. Running(p) /\ marked.expires > clock
    <3>1. clock' >= clock /\ terminal \subseteq terminal' /\ clock \in Nat /\ clock' \in Nat
      BY AttemptChange, TypeStep DEF TypeOK
    <3>. QED
      BY <2>1, <2>2, <3>1 DEF Running
  <2>4. lease[k] = marked /\ Live(lease[k], clock)
    BY <2>2, <2>3 DEF AttemptInv, AttemptIsFrozen, Live
  <2>5. ~Moved(k)
    BY <2>2, <2>4 DEF Moved
  <2>6. ~Made(k)
    BY <2>2, <2>4, MadeRow
  <2>7. ~Ended(k)
    BY <2>1, <2>2, <2>4, OthersComplete DEF Ended
  <2>8. ~Overlaid(k)
    BY <2>2, <2>4, OverlaidRow DEF Overlaid
  <2>9. ~Unmarked(k)
    BY <2>1, <2>4, OthersComplete DEF Unmarked
  <2>. QED
    BY <1>2, <2>2, <2>4, <2>5, <2>6, <2>7, <2>8, <2>9, EveryStepIsARowStep DEF RowStep
<1>. QED
  BY <1>1, <1>2, AttemptChange DEF Running

LEMMA AttemptOrSupersededStep == AttemptInv /\ [Next]_vars => AttemptOrSuperseded'
<1>. SUFFICES ASSUME AttemptInv, [Next]_vars, NEW p \in Proc, attempt'[p] # None
              PROVE  \/ lease'[attempt'[p].key] = attempt'[p].row
                     \/ Superseded(lease'[attempt'[p].key], attempt'[p].row)
  BY DEF AttemptOrSuperseded, Superseded
<1>. TypeOK
  BY DEF AttemptInv
<1>1. ASSUME NEW k \in BranchKey, Started(p, k)
      PROVE  lease'[attempt'[p].key] = attempt'[p].row
  BY <1>1 DEF Started, TypeOK
<1>2. ASSUME attempt'[p] = attempt[p]
      PROVE  LET k == attempt[p].key
                 marked == attempt[p].row
             IN  lease'[k] = marked \/ Superseded(lease'[k], marked)
  <2>. DEFINE k == attempt[p].key
              marked == attempt[p].row
  <2>1. attempt[p] # None /\ attempt'[p] # None
    BY <1>2
  <2>2. /\ k \in BranchKey /\ k \in Key /\ marked # None /\ marked.marker # None
        /\ marked.expires \in Nat
    BY <2>1, AttemptTypes
  <2>3. lease[k] = marked \/ Superseded(lease[k], marked)
    BY <2>1 DEF AttemptInv, AttemptOrSuperseded
  <2>4. CASE lease'[k] = lease[k]
    BY <2>3, <2>4
  <2>5. CASE Moved(k)
    <3>1. Superseded(lease[k], marked)
      BY <2>2, <2>3, <2>5 DEF Moved
    <3>2. lease[k] # None /\ lease'[k] # None
      BY <2>5 DEF Moved
    <3>3. lease[k].expires \in Nat /\ lease'[k].expires \in Nat
      BY <2>2, <3>2, TypeStep DEF TypeOK, Row
    <3>. QED
      BY <2>2, <2>5, <3>1, <3>2, <3>3 DEF Moved, Superseded
  <2>6. CASE Made(k)
    <3>1. /\ lease'[k] \in Row /\ lease'[k].expires \in Nat /\ lease'[k].expires > clock
          /\ lease'[k].owner \notin terminal
          /\ lease'[k].owner \in Lane => lease'[k].nonce = nonces + 1
          /\ lease'[k].marker # None => lease'[k].marker.origin = "attempt_only"
          /\ ~Live(lease[k], clock)
      BY <2>2, <2>6, MadeRow DEF Row
    <3>2. CASE lease'[k].owner # marked.owner
      BY <3>2 DEF Superseded
    <3>3. CASE lease'[k].owner = marked.owner /\ marked.owner \in Lane
      <4>1. marked.nonce \in 1..nonces
        BY <2>1, <3>3 DEF AttemptInv, NonceBound
      <4>2. nonces \in Nat
        BY DEF TypeOK
      <4>. QED
        BY <3>1, <3>3, <4>1, <4>2 DEF Superseded
    <3>4. CASE lease'[k].owner = marked.owner /\ marked.owner \notin Lane
      <4>1. marked.expires <= clock
        <5>1. CASE Running(p)
          BY <2>2, <3>1, <5>1 DEF AttemptInv, AttemptIsFrozen, Running, Live
        <5>2. CASE ~Running(p)
          BY <2>1, <2>2, <3>1, <3>4, <5>2 DEF Running, TypeOK
        <5>. QED
          BY <5>1, <5>2
      <4>2. clock \in Nat
        BY DEF TypeOK
      <4>3. lease'[k].expires > marked.expires
        BY <2>2, <3>1, <4>1, <4>2
      <4>. QED
        BY <3>1, <3>4, <4>3 DEF Superseded
    <3>. QED
      BY <3>2, <3>3, <3>4
  <2>7. CASE Ended(k)
    BY <2>7 DEF Ended, Superseded
  <2>8. CASE Overlaid(k)
    <3>1. /\ lease[k] \in Row /\ lease'[k] \in Row /\ lease[k].marker = None
          /\ lease'[k].owner = lease[k].owner /\ lease'[k].nonce = lease[k].nonce
          /\ lease'[k].expires >= lease[k].expires
          /\ lease'[k].marker.previousExpires = lease[k].expires
      BY <2>8, OverlaidRow DEF Overlaid
    <3>2. lease[k].expires \in Nat /\ lease'[k].expires \in Nat /\ lease[k] # None
      BY <3>1, NoneAssumption DEF Row
    <3>3. Superseded(lease[k], marked)
      BY <2>2, <2>3, <3>1
    <3>. QED
      BY <2>2, <3>1, <3>2, <3>3 DEF Superseded
  <2>9. CASE Unmarked(k)
    <3>1. PICK q \in Proc : CompleteOverlay(q) /\ attempt[q].key = k
      BY <2>9 DEF Unmarked
    <3>2. /\ lease[k] \in Row /\ lease'[k] \in Row
          /\ lease[k].marker # None /\ lease[k].marker.origin = "preexisting"
          /\ lease'[k].owner = lease[k].owner /\ lease'[k].nonce = lease[k].nonce
          /\ lease'[k].marker = None
          /\ lease'[k].expires = lease[k].marker.previousExpires
      BY <3>1, UnmarkedRow DEF IsOverlaidBy
    <3>3. Superseded(lease[k], marked)
      BY <2>1, <2>3, <3>1, OthersComplete
    <3>4. lease[k] # None
      BY <3>2, NoneAssumption
    <3>. QED
      BY <3>2, <3>3, <3>4 DEF Superseded
  <2>. QED
    BY <2>2, <2>4, <2>5, <2>6, <2>7, <2>8, <2>9, EveryStepIsARowStep DEF RowStep
<1>. QED
  BY <1>1, <1>2, AttemptChange

LEMMA AttemptInvStep == AttemptInv /\ [Next]_vars => AttemptInv'
  BY TypeStep, NonceBoundStep, OverlaysLengthenStep, AttemptOrSupersededStep,
     UniqueAttemptsStep, AttemptIsFrozenStep DEF AttemptInv

LEMMA AttemptInvariant == Spec => []AttemptInv
  BY AttemptInvInit, AttemptInvStep, PTL DEF Spec

-----------------------------------------------------------------------------
\* The row of a running attempt stays as the attempt left it, for any owners,
\* callers and bindings.
THEOREM RunningAttemptIsFrozen == Spec => []AttemptIsFrozen
<1>1. AttemptInv => AttemptIsFrozen
  BY DEF AttemptInv
<1>. QED
  BY <1>1, AttemptInvariant, PTL

\* Two callers never run an attempt of one branch at once.
THEOREM OneAttemptAtATime == Spec => []OneAttempt
<1>1. AttemptInv => OneAttempt
  <2>. SUFFICES ASSUME AttemptInv, NEW p \in Proc, NEW q \in Proc, p # q,
                       Running(p), Running(q), attempt[p].key = attempt[q].key
                PROVE  FALSE
    BY DEF OneAttempt
  <2>1. attempt[p].row = attempt[q].row
    BY DEF AttemptInv, AttemptIsFrozen
  <2>. QED
    BY <2>1 DEF AttemptInv, UniqueAttempts, Running
<1>. QED
  BY <1>1, AttemptInvariant, PTL

\* The end of an attempt, however late, acts on the row the attempt left.
THEOREM CompletionActsOnItsOwnRow == Spec => CompletionIsExact
<1>. DEFINE A == \A p \in Proc : CompleteAttemptOnly(p) \/ CompleteOverlay(p)
                    => lease[attempt[p].key] = attempt[p].row
<1>1. AttemptInv => A
  BY CompletesItsOwn
<1>. QED
  BY <1>1, AttemptInvariant, PTL DEF CompletionIsExact

-----------------------------------------------------------------------------
(***************************************************************************)
(* What a lane's snapshot tells.  It leaves the purpose of a row out; the  *)
(* nonce makes up for it, since rows of one key with one nonce are one row *)
(* at different times.                                                     *)
(***************************************************************************)
Drawn(row) == row # None /\ row.owner \in Lane

ReceiptsTell ==
    \A p \in Proc, k \in Key : Drawn(receipt[p][k]) =>
        /\ receipt[p][k].nonce \in 1..nonces
        /\ Drawn(lease[k]) /\ lease[k].nonce = receipt[p][k].nonce
              => lease[k].purpose = receipt[p][k].purpose

\* What a caller remembers of a row is what it was shown before, what the table
\* shows after this step, or nothing.
LEMMA ReceiptChange ==
    ASSUME TypeOK, [Next]_vars, NEW p \in Proc, NEW k \in Key
    PROVE  receipt'[p][k] \in {receipt[p][k], lease'[k], None}
<1>. USE DEF table, memory
<1>0. receipt \in [Proc -> [Key -> Row \cup {None}]]
  BY DEF TypeOK
<1>1. ASSUME NEW q \in Proc, NEW ks \in KeySets, Show(q, ks)
      PROVE  receipt'[p][k] \in {receipt[p][k], lease'[k], None}
  BY <1>0, <1>1 DEF Show
<1>2. ASSUME NEW q \in Proc, LeaseStep(q)
      PROVE  receipt'[p][k] \in {receipt[p][k], lease'[k], None}
  <2>. DEFINE Shown == receipt'[p][k] \in {receipt[p][k], lease'[k], None}
  <2>1. ASSUME NEW ks \in KeySets, NEW purpose \in Purpose, NEW ttl \in Ttl, NEW keep \in BOOLEAN,
               NEW now \in Nows, Acquire(q, ks, purpose, ttl, keep, now)
        PROVE  Shown
    BY <1>1, <2>1 DEF Acquire
  <2>2. ASSUME NEW ks \in KeySets, NEW ttl \in Ttl, NEW guarded \in BOOLEAN, NEW now \in Nows,
               Renew(q, ks, ttl, now, guarded)
        PROVE  Shown
    BY <1>1, <2>2 DEF Renew
  <2>3. ASSUME NEW ks \in KeySets, Restore(q, ks) PROVE Shown
    BY <1>1, <2>3 DEF Restore
  <2>4. ASSUME NEW ks \in KeySets, NEW purpose \in Purpose, NEW ttl \in Ttl, NEW now \in Nows,
               Rebind(q, ks, purpose, ttl, now)
        PROVE  Shown
    BY <1>1, <2>4 DEF Rebind
  <2>5. ASSUME NEW ks \in KeySets, NEW force \in BOOLEAN, NEW guarded \in BOOLEAN,
               Release(q, ks, force, guarded)
        PROVE  Shown
    BY <2>5 DEF Release
  <2>6. ASSUME NEW ks \in KeySets, Reconcile(q, ks) PROVE Shown
    BY <2>6 DEF Reconcile
  <2>. QED  BY <1>2, <2>1, <2>2, <2>3, <2>4, <2>5, <2>6 DEF LeaseStep
<1>3. ASSUME NEW q \in Proc, AttemptStep(q)
      PROVE  receipt'[p][k] \in {receipt[p][k], lease'[k], None}
  <2>1. ASSUME NEW l \in Key, NEW b \in Binding, NEW ttl \in Ttl, NEW now \in Nows,
               Overlay(q, l, b, ttl, now)
        PROVE  receipt' = receipt
    BY <2>1, Zenon DEF Overlay
  <2>2. ASSUME NEW l \in Key, NEW b \in Binding, NEW ttl \in Ttl, NEW now \in Nows,
               AttemptOnly(q, l, b, ttl, now)
        PROVE  receipt' = receipt
    BY <2>2, Zenon DEF AttemptOnly
  <2>3. CASE CompleteAttemptOnly(q)
    BY <2>3 DEF CompleteAttemptOnly
  <2>4. CASE CompleteOverlay(q)
    BY <2>4 DEF CompleteOverlay
  <2>. QED  BY <1>3, <2>1, <2>2, <2>3, <2>4 DEF AttemptStep
<1>4. ASSUME NEW q \in Proc, Forget(q)
      PROVE  receipt'[p][k] \in {receipt[p][k], lease'[k], None}
  BY <1>0, <1>4 DEF Forget
<1>5. ASSUME NEW q \in Proc, NEW l \in Key, Look(q, l)
      PROVE  receipt'[p][k] \in {receipt[p][k], lease'[k], None}
  BY <1>0, <1>5 DEF Look
<1>6. ASSUME NEW t \in Task, Terminalize(t)
      PROVE  receipt'[p][k] \in {receipt[p][k], lease'[k], None}
  BY <1>6 DEF Terminalize
<1>7. CASE Tick \/ UNCHANGED vars
  BY <1>7 DEF Tick, vars
<1>. QED  BY <1>2, <1>3, <1>4, <1>5, <1>6, <1>7 DEF Next

LEMMA ReceiptsTellStep ==
    ASSUME AttemptInv, ReceiptsTell, [Next]_vars
    PROVE  ReceiptsTell'
<1>. TypeOK /\ TypeOK' /\ NonceBound /\ NonceBound' /\ nonces \in Nat
  BY TypeStep, NonceBoundStep DEF AttemptInv, TypeOK
<1>1. nonces' \in Nat /\ nonces' >= nonces
  BY AttemptChange, TypeStep DEF TypeOK
<1>2. SUFFICES ASSUME NEW p \in Proc, NEW k \in Key, Drawn(receipt'[p][k])
               PROVE  /\ receipt'[p][k].nonce \in 1..nonces'
                      /\ Drawn(lease'[k]) /\ lease'[k].nonce = receipt'[p][k].nonce
                            => lease'[k].purpose = receipt'[p][k].purpose
  BY DEF ReceiptsTell, Drawn
<1>3. CASE receipt'[p][k] = lease'[k]
  BY <1>2, <1>3 DEF NonceBound, Drawn
<1>4. CASE receipt'[p][k] = receipt[p][k]
  <2>1. receipt[p][k].nonce \in 1..nonces
    BY <1>2, <1>4 DEF ReceiptsTell
  <2>2. receipt'[p][k].nonce \in 1..nonces'
    BY <1>1, <1>4, <2>1
  <2>3. ASSUME Drawn(lease'[k]), lease'[k].nonce = receipt[p][k].nonce
        PROVE  lease'[k].purpose = receipt[p][k].purpose
    <3>1. SUFFICES /\ Drawn(lease[k]) /\ lease[k].nonce = lease'[k].nonce
                   /\ lease[k].purpose = lease'[k].purpose
      BY <1>2, <1>4, <2>3 DEF ReceiptsTell
    <3>2. CASE lease'[k] = lease[k]
      BY <2>3, <3>2
    <3>3. CASE Moved(k)
      <4>1. lease[k].owner \in Lane /\ lease[k].owner \notin Rebinder
        BY <2>3, <3>3 DEF Moved, Drawn
      <4>. QED  BY <3>3, <4>1 DEF Moved, Drawn
    <3>4. ~Made(k)
      BY <2>1, <2>3, MadeRow DEF Drawn
    <3>5. ~Ended(k)
      BY <2>3 DEF Ended, Drawn
    <3>6. CASE Overlaid(k)
      BY <2>3, <3>6, OverlaidRow, NoneAssumption DEF Overlaid, Drawn
    <3>7. CASE Unmarked(k)
      BY <2>3, <3>7, UnmarkedRow, NoneAssumption DEF Unmarked, Drawn
    <3>. QED  BY <3>2, <3>3, <3>4, <3>5, <3>6, <3>7, EveryStepIsARowStep DEF RowStep
  <2>. QED  BY <1>4, <2>2, <2>3
<1>. QED  BY <1>2, <1>3, <1>4, ReceiptChange DEF Drawn

LEMMA ReceiptsInvariant == Spec => [](AttemptInv /\ ReceiptsTell)
<1>1. Init => ReceiptsTell
  BY DEF Init, ReceiptsTell, Drawn
<1>2. AttemptInv /\ ReceiptsTell /\ [Next]_vars => ReceiptsTell'
  BY ReceiptsTellStep
<1>. QED  BY <1>1, <1>2, AttemptInvariant, PTL DEF Spec

\* A row that matches the snapshot a lane was shown is the row it was shown.
LEMMA MatchIsSame ==
    ASSUME TypeOK, ReceiptsTell, NEW p \in Proc, NEW k \in Key, OwnerOf[p] \in Lane,
           WellFormed(receipt[p][k]), receipt[p][k].owner = OwnerOf[p], Unchanged(k, receipt[p])
    PROVE  lease[k] = receipt[p][k]
<1>1. lease[k] \in Row /\ receipt[p][k] \in Row
  BY DEF WellFormed, Unchanged, TypeOK
<1>2. /\ lease[k].owner = receipt[p][k].owner /\ lease[k].acquired = receipt[p][k].acquired
      /\ lease[k].updated = receipt[p][k].updated /\ lease[k].expires = receipt[p][k].expires
      /\ lease[k].nonce = receipt[p][k].nonce /\ lease[k].marker = receipt[p][k].marker
  BY DEF Unchanged, Snapshot
<1>3. Drawn(receipt[p][k]) /\ Drawn(lease[k])
  BY <1>1, <1>2, NoneAssumption DEF Drawn
<1>4. lease[k].purpose = receipt[p][k].purpose
  BY <1>2, <1>3 DEF ReceiptsTell
<1>. QED  BY <1>1, <1>2, <1>4 DEF Row

\* A lane that releases, reconciles or restores under snapshots acts on the very
\* rows it was shown: a later row in the place of one of them has another nonce.
THEOREM SnapshotsAreExact == Spec => GuardedIsExact
<1>. DEFINE Exact ==
         \A p \in Proc, k \in Key :
            /\ OwnerOf[p] \in Lane
            /\ \E ks \in KeySets : k \in ks /\
                  (Release(p, ks, FALSE, TRUE) \/ Reconcile(p, ks) \/ Restore(p, ks))
            /\ lease'[k] # lease[k]
            => lease[k] = receipt[p][k]
<1>1. AttemptInv /\ ReceiptsTell => Exact
  <2>1. SUFFICES ASSUME AttemptInv, ReceiptsTell, NEW p \in Proc, NEW k \in Key,
                        OwnerOf[p] \in Lane, NEW ks \in KeySets, k \in ks,
                        Release(p, ks, FALSE, TRUE) \/ Reconcile(p, ks) \/ Restore(p, ks),
                        lease'[k] # lease[k]
                 PROVE  lease[k] = receipt[p][k]
    BY DEF Exact
  <2>2. WellFormed(receipt[p][k]) /\ receipt[p][k].owner = OwnerOf[p]
    BY <2>1 DEF Release, Reconcile, Restore, Presents
  <2>3. Unchanged(k, receipt[p])
    BY <2>1 DEF Release, MayRelease, Reconcile, Restore, Restorable
  <2>. QED  BY <2>1, <2>2, <2>3, MatchIsSame DEF AttemptInv
<1>. QED  BY <1>1, ReceiptsInvariant, PTL DEF GuardedIsExact

-----------------------------------------------------------------------------
(***************************************************************************)
(* What a step does to what is held.  It lets leases go, or ends a task,   *)
(* or gives one owner keys that were nobody else's.  It gives them because *)
(* acquire_resources looked at the other rows, or the owner had them all   *)
(* along, some of them run out.                                            *)
(***************************************************************************)
WasLive(k) == Live(lease[k], clock) /\ lease'[k].owner = lease[k].owner

LetGo ==
    /\ UNCHANGED terminal
    /\ \A k \in Key : lease'[k] # None =>
          /\ lease[k] # None /\ lease'[k].owner = lease[k].owner
          /\ Live(lease'[k], clock') => Live(lease[k], clock)

\* The owner holds the keys after the step; none was another's before.
Gained(o, ks) ==
    /\ o \in Owner /\ ks \in SUBSET Key
    /\ o \notin terminal /\ UNCHANGED <<clock, terminal>>
    /\ \A k \in ks : /\ Live(lease[k], clock) => lease[k].owner = o
                     /\ Live(lease'[k], clock) /\ lease'[k].owner = o
    /\ \A k \in Key : k \notin ks => lease'[k] = lease[k]

\* It had them: they were live, or are revived.
Returned(o, ks) ==
    \A k \in ks : /\ lease[k] # None /\ lease[k].owner = o
                  /\ Live(lease[k], clock) \/ Revived(k)

\* Or they are among the keys it asked for and was not refused.
Asked(o, asked) ==
    /\ asked \cap PathKey = {} \/ Granted(o, asked)
    /\ \E purpose \in Purpose \cup {AttemptPurpose}, now \in Nows : MayAcquire(o, asked, purpose, now)

Took(o, ks) == \/ Returned(o, ks)
               \/ \E asked \in KeySets : ks \subseteq asked /\ Asked(o, asked)

\* A row that is given an expiry by a transaction that has just read the
\* clock, or waited for the lock since, is live when it is committed.
LEMMA LiveWhenWritten ==
    ASSUME TypeOK, NEW now \in Nows, NEW ttl \in Ttl, NEW row \in Row, row.expires >= now + ttl
    PROVE  Live(row, clock) /\ now + ttl \in Nat
<1>1. now \in Nat /\ now + MaxLag >= clock /\ ttl \in Nat /\ ttl > MaxLag /\ clock \in Nat
  BY NowIsPast DEF TypeOK
<1>2. row.expires > clock
  BY <1>1 DEF Row
<1>. QED
  BY <1>1, <1>2, NoneAssumption DEF Live

\* What is live now was live when the clock was read.
LEMMA LiveSinceRead ==
    ASSUME TypeOK, NEW now \in Nows, NEW k \in Key, Live(lease[k], clock)
    PROVE  Live(lease[k], now) /\ lease[k] \in Row
<1>1. lease[k] \in Row /\ lease[k].expires \in Nat
  BY DEF Live, TypeOK, Row
<1>2. now \in Nat /\ now <= clock /\ clock \in Nat
  BY NowIsPast DEF TypeOK
<1>. QED
  BY <1>1, <1>2 DEF Live

\* What was live when the clock was read, and is kept, is live or revived.
LEMMA KeptIsRevived ==
    ASSUME TypeOK, NEW now \in Nows, NEW k \in Key, Live(lease[k], now), lease'[k] # None,
           lease'[k].owner = lease[k].owner, lease'[k].acquired = lease[k].acquired
    PROVE  Live(lease[k], clock) \/ Revived(k)
<1>1. lease[k] # None /\ lease[k] \in Row /\ lease[k].expires \in Nat /\ lease[k].expires > now
  BY DEF Live, TypeOK, Row
<1>2. now \in Nat /\ now + MaxLag >= clock /\ clock \in Nat
  BY NowIsPast DEF TypeOK
<1>3. lease[k].expires > clock - MaxLag
  BY <1>1, <1>2
<1>. QED
  BY <1>1, <1>3 DEF Revived

\* An owner that holds a row is not a terminalized task.
LEMMA HolderIsOpen ==
    ASSUME TerminalHoldsNothing, NEW k \in Key, lease[k] # None
    PROVE  lease[k].owner \notin terminal
  BY DEF TerminalHoldsNothing

LEMMA AcquireGains ==
    ASSUME TypeOK, TypeOK', NEW p \in Proc, NEW ks \in KeySets, NEW purpose \in Purpose,
           NEW ttl \in Ttl, NEW keep \in BOOLEAN, NEW now \in Nows,
           Acquire(p, ks, purpose, ttl, keep, now)
    PROVE  \E gs \in SUBSET Key : Gained(OwnerOf[p], gs) /\ Took(OwnerOf[p], gs)
<1>0. now \in Nat /\ ttl \in Nat /\ now + ttl \in Nat /\ nonces \in Nat
  BY NowIsPast DEF TypeOK
<1>. DEFINE o == OwnerOf[p]
            gs == {k \in ks : keep => ~(Live(lease[k], now) /\ lease[k].owner = o)}
<1>1. ks \in Asks[o] /\ MayAcquire(o, ks, purpose, now) /\ UNCHANGED <<clock, terminal>>
  BY DEF Acquire
<1>2. ASSUME NEW k \in Key, k \notin gs PROVE lease'[k] = lease[k]
  BY <1>2 DEF Acquire
<1>3. ASSUME NEW k \in gs
      PROVE  /\ Live(lease[k], clock) => lease[k].owner = o
             /\ Live(lease'[k], clock) /\ lease'[k].owner = o
  <2>. k \in Key
    BY <1>3 DEF KeySets
  <2>1. Live(lease[k], clock) => lease[k].owner = o
    BY <1>1, <1>3, LiveSinceRead DEF MayAcquire
  <2>2. CASE Live(lease[k], now)
    <3>1. lease[k] \in Row /\ lease[k].owner = o /\ ~keep
      BY <1>1, <1>3, <2>2 DEF MayAcquire, Live, TypeOK
    <3>2. lease'[k] = Extended(lease[k], now, now + ttl)
      BY <1>3, <2>2, <3>1 DEF Acquire
    <3>3. lease'[k] \in Row /\ lease'[k].owner = o /\ lease'[k].expires >= now + ttl
      <4>. DEFINE until == Later(lease[k].expires, now + ttl)
                  seen == IF now + ttl > lease[k].expires THEN now ELSE lease[k].updated
      <4>1. until \in Nat /\ until >= now + ttl /\ seen \in Nat
        BY <1>0, <3>1 DEF Later, Row
      <4>2. lease'[k] = [lease[k] EXCEPT !.expires = until, !.updated = seen]
        BY <3>2 DEF Extended
      <4>. HIDE DEF until, seen
      <4>. QED
        BY <3>1, <4>1, <4>2 DEF Row
    <3>. QED
      BY <2>1, <3>3, LiveWhenWritten
  <2>3. CASE ~Live(lease[k], now)
    <3>1. lease'[k] = NewRow(o, purpose, now, ttl, None)
      BY <1>3, <2>3 DEF Acquire
    <3>2. lease'[k].owner = o /\ lease'[k].expires = now + ttl
      BY <3>1 DEF NewRow
    <3>3. lease'[k] \in Row
      BY <1>0, <3>1 DEF NewRow, Row
    <3>4. lease'[k].expires >= now + ttl
      BY <1>0, <3>2
    <3>. QED
      BY <2>1, <3>2, <3>3, <3>4, LiveWhenWritten
  <2>. QED
    BY <2>2, <2>3
<1>4. o \in Owner /\ gs \in SUBSET Key /\ o \notin terminal
  BY <1>1 DEF KeySets, MayAcquire
<1>5. Gained(o, gs)
  BY <1>1, <1>2, <1>3, <1>4 DEF Gained
<1>6. Took(o, gs)
  <2>1. Granted(o, ks)
    BY DEF Granted
  <2>2. gs \subseteq ks /\ Asked(o, ks)
    BY <1>1, <2>1 DEF Asked
  <2>. QED
    BY <2>2 DEF Took
<1>. QED
  BY <1>4, <1>5, <1>6

LEMMA RenewGains ==
    ASSUME TypeOK, TypeOK', TerminalHoldsNothing, NEW p \in Proc, NEW ks \in KeySets,
           NEW ttl \in Ttl, NEW guarded \in BOOLEAN, NEW now \in Nows,
           Renew(p, ks, ttl, now, guarded)
    PROVE  \E gs \in SUBSET Key : Gained(OwnerOf[p], gs) /\ Took(OwnerOf[p], gs)
<1>. DEFINE o == OwnerOf[p]
<1>1. UNCHANGED <<clock, terminal>> /\ ks \in SUBSET Key /\ ks # {} /\ o \in Owner
  BY DEF Renew, KeySets
<1>2. ASSUME NEW k \in ks
      PROVE  /\ Live(lease[k], now) /\ lease[k].owner = o
             /\ Live(lease'[k], clock) /\ lease'[k].owner = o
             /\ lease'[k].acquired = lease[k].acquired
  <2>1. k \in Key /\ Live(lease[k], now) /\ lease[k].owner = o /\ lease[k] \in Row
    BY <1>1, <1>2 DEF Renew, MayRenew, Live, TypeOK
  <2>2. lease'[k] = Renewed(lease[k], now, now + ttl)
    BY <2>1 DEF Renew
  <2>3. now \in Nat /\ now + ttl \in Nat
    BY NowIsPast
  <2>4. /\ lease'[k] \in Row /\ lease'[k].owner = o /\ lease'[k].expires >= now + ttl
        /\ lease'[k].acquired = lease[k].acquired
    <3>. DEFINE until == Later(lease[k].expires, now + ttl)
    <3>1. until \in Nat /\ until >= now + ttl
      BY <2>1, <2>3 DEF Later, Row
    <3>2. lease'[k] = [lease[k] EXCEPT !.expires = until, !.updated = now]
      BY <2>2 DEF Renewed
    <3>. HIDE DEF until
    <3>. QED
      BY <2>1, <2>3, <3>1, <3>2 DEF Row
  <2>. QED
    BY <2>1, <2>4, LiveWhenWritten
<1>3. o \notin terminal
  BY <1>1, <1>2, HolderIsOpen DEF Live
<1>4. \A k \in Key : k \notin ks => lease'[k] = lease[k]
  BY DEF Renew
<1>5. Gained(o, ks)
  BY <1>1, <1>2, <1>3, <1>4 DEF Gained
<1>6. Took(o, ks)
  <2>1. ASSUME NEW k \in ks
        PROVE  lease[k] # None /\ lease[k].owner = o /\ (Live(lease[k], clock) \/ Revived(k))
    <3>1. lease[k] # None /\ lease'[k] # None /\ k \in Key
      BY <1>1, <1>2 DEF Live
    <3>. QED
      BY <1>2, <3>1, KeptIsRevived
  <2>. QED
    BY <2>1 DEF Took, Returned
<1>. QED
  BY <1>1, <1>5, <1>6

LEMMA RebindGains ==
    ASSUME TypeOK, TypeOK', TerminalHoldsNothing, NEW p \in Proc, NEW ks \in KeySets,
           NEW purpose \in Purpose, NEW ttl \in Ttl, NEW now \in Nows,
           Rebind(p, ks, purpose, ttl, now)
    PROVE  \E gs \in SUBSET Key : Gained(OwnerOf[p], gs) /\ Took(OwnerOf[p], gs)
<1>. DEFINE o == OwnerOf[p]
<1>1. UNCHANGED <<clock, terminal>> /\ ks \in SUBSET Key /\ ks # {} /\ o \in Owner
  BY DEF Rebind, KeySets
<1>2. ASSUME NEW k \in ks
      PROVE  /\ lease[k] # None /\ lease[k].owner = o
             /\ Live(lease'[k], clock) /\ lease'[k].owner = o
             /\ lease'[k].acquired = lease[k].acquired
  <2>1. k \in Key /\ lease[k] # None /\ lease[k].owner = o /\ lease[k] \in Row
    BY <1>1, <1>2 DEF Rebind, Presents, Unchanged, Snapshot, TypeOK
  <2>2. lease'[k] = [Renewed(lease[k], now, now + ttl) EXCEPT !.purpose = purpose]
    BY <2>1 DEF Rebind
  <2>3. now \in Nat /\ now + ttl \in Nat
    BY NowIsPast
  <2>4. /\ lease'[k] \in Row /\ lease'[k].owner = o /\ lease'[k].expires >= now + ttl
        /\ lease'[k].acquired = lease[k].acquired
    <3>. DEFINE until == Later(lease[k].expires, now + ttl)
    <3>1. until \in Nat /\ until >= now + ttl
      BY <2>1, <2>3 DEF Later, Row
    <3>2. lease'[k] = [[lease[k] EXCEPT !.expires = until, !.updated = now] EXCEPT !.purpose = purpose]
      BY <2>2 DEF Renewed
    <3>. HIDE DEF until
    <3>. QED
      BY <2>1, <2>3, <3>1, <3>2 DEF Row
  <2>. QED
    BY <2>1, <2>4, LiveWhenWritten
<1>3. o \notin terminal
  BY <1>1, <1>2, HolderIsOpen
<1>4. \A k \in Key : k \notin ks => lease'[k] = lease[k]
  BY DEF Rebind
<1>5. Gained(o, ks)
  BY <1>1, <1>2, <1>3, <1>4 DEF Gained
<1>6. Took(o, ks)
  <2>1. o \in Rebinder
    BY DEF Rebind
  <2>2. ASSUME NEW k \in ks
        PROVE  lease[k] # None /\ lease[k].owner = o /\ (Live(lease[k], clock) \/ Revived(k))
    BY <1>2, <2>1, <2>2 DEF Revived, Live
  <2>. QED
    BY <2>2 DEF Took, Returned
<1>. QED
  BY <1>1, <1>5, <1>6

LEMMA OverlayGains ==
    ASSUME TypeOK, TypeOK', TerminalHoldsNothing, NEW p \in Proc, NEW c \in BranchKey,
           NEW b \in Binding, NEW ttl \in Ttl, NEW now \in Nows, Overlay(p, c, b, ttl, now)
    PROVE  \E gs \in SUBSET Key : Gained(OwnerOf[p], gs) /\ Took(OwnerOf[p], gs)
<1>. DEFINE o == OwnerOf[p]
<1>1. /\ Live(lease[c], now) /\ lease'[c] \in Row /\ lease'[c].expires >= now + ttl
      /\ lease[c].owner = o /\ lease'[c].owner = o
      /\ UNCHANGED <<clock, terminal>>
  BY OverlaidRow
<1>2. Live(lease'[c], clock)
  BY <1>1, LiveWhenWritten
<1>3. {c} \in SUBSET Key /\ o \in Owner
  OBVIOUS
<1>4. o \notin terminal
  BY <1>1, HolderIsOpen DEF Live
<1>5. \A k \in Key : k \notin {c} => lease'[k] = lease[k]
  BY DEF Overlay, TypeOK
<1>6. Gained(o, {c})
  BY <1>1, <1>2, <1>3, <1>4, <1>5 DEF Gained
<1>7. Live(lease[c], clock) \/ Revived(c)
  <2>1. c \in Key /\ lease'[c] # None /\ lease'[c].acquired = lease[c].acquired
    BY <1>2, OverlaidRow DEF Live
  <2>. QED
    BY <1>1, <2>1, KeptIsRevived
<1>8. Took(o, {c})
  BY <1>1, <1>7 DEF Took, Returned, Live
<1>. QED
  BY <1>3, <1>6, <1>8

LEMMA AttemptOnlyGains ==
    ASSUME TypeOK, TypeOK', NEW p \in Proc, NEW c \in BranchKey,
           NEW b \in Binding, NEW ttl \in Ttl, NEW now \in Nows, AttemptOnly(p, c, b, ttl, now)
    PROVE  \E gs \in SUBSET Key : Gained(OwnerOf[p], gs) /\ Took(OwnerOf[p], gs)
<1>. DEFINE o == OwnerOf[p]
            mark == [binding |-> b, origin |-> "attempt_only",
                     previousExpires |-> 0, attemptExpires |-> 0]
<1>1. lease'[c] = NewRow(o, AttemptPurpose, now, ttl, mark)
  BY DEF AttemptOnly, TypeOK
<1>2. /\ ~Live(lease[c], now) /\ MayAcquire(o, {c}, AttemptPurpose, now)
      /\ UNCHANGED <<clock, terminal>>
  BY DEF AttemptOnly
<1>3. \A k \in Key : k \notin {c} => lease'[k] = lease[k]
  BY DEF AttemptOnly, TypeOK
<1>4. now \in Nat /\ now + ttl \in Nat /\ ttl \in Nat /\ nonces \in Nat
  BY NowIsPast DEF TypeOK
<1>5. lease'[c] # None
  <2>1. mark \in Marker
    BY DEF Marker, Origin
  <2>2. NewRow(o, AttemptPurpose, now, ttl, mark) \in Row
    BY <1>4, <2>1 DEF NewRow, Row
  <2>. QED
    BY <1>1, <2>2, NoneAssumption
<1>6. lease'[c] \in Row /\ lease'[c].owner = o /\ lease'[c].expires >= now + ttl
  BY <1>1, <1>4, <1>5 DEF NewRow, TypeOK
<1>7. Live(lease'[c], clock)
  BY <1>6, LiveWhenWritten
<1>8. ~Live(lease[c], clock)
  BY <1>2, LiveSinceRead
<1>9. {c} \in SUBSET Key /\ {c} \in KeySets /\ {c} \cap PathKey = {} /\ o \in Owner
  <2>1. c \in Key /\ c \notin PathKey
    OBVIOUS
  <2>2. {c} \cap PathKey = {}
    BY <2>1
  <2>. QED
    BY <2>1, <2>2 DEF KeySets
<1>10. o \notin terminal
  BY <1>2 DEF MayAcquire
<1>11. Gained(o, {c})
  BY <1>2, <1>3, <1>6, <1>7, <1>8, <1>9, <1>10 DEF Gained
<1>12. Asked(o, {c})
  BY <1>2, <1>9 DEF Asked
<1>13. Took(o, {c})
  BY <1>9, <1>12 DEF Took
<1>. QED
  BY <1>9, <1>11, <1>13

\* A step of the table lets claims go, ends a task or gives an owner keys.
LEMMA HeldStep ==
    ASSUME AttemptInv, TerminalHoldsNothing, [Next]_vars
    PROVE  \/ LetGo
           \/ \E t \in Task : Terminalize(t)
           \/ \E o \in Owner : \E ks \in SUBSET Key : Gained(o, ks) /\ Took(o, ks)
<1>. DEFINE Gains == \E o \in Owner : \E ks \in SUBSET Key : Gained(o, ks) /\ Took(o, ks)
<1>. USE DEF table, memory
<1>. TypeOK /\ TypeOK' /\ clock \in Nat /\ clock' \in Nat
  BY TypeStep DEF AttemptInv, TypeOK
<1>. \A p \in Proc : OwnerOf[p] \in Owner
  OBVIOUS
<1>1. ASSUME clock' >= clock, UNCHANGED terminal,
             \A k \in Key : lease'[k] \in {lease[k], None}
      PROVE  LetGo
  <2>. SUFFICES ASSUME NEW k \in Key, lease'[k] # None
                PROVE  /\ lease[k] # None /\ lease'[k].owner = lease[k].owner
                       /\ Live(lease'[k], clock') => Live(lease[k], clock)
    BY <1>1 DEF LetGo
  <2>1. lease'[k] = lease[k] /\ lease[k] # None
    BY <1>1
  <2>2. lease[k].expires \in Nat
    BY <2>1 DEF TypeOK, Row
  <2>. QED
    BY <1>1, <2>1, <2>2 DEF Live
<1>2. ASSUME NEW p \in Proc, LeaseStep(p) PROVE LetGo \/ Gains
  <2>1. ASSUME NEW ks \in KeySets, NEW purpose \in Purpose, NEW ttl \in Ttl, NEW keep \in BOOLEAN,
               NEW now \in Nows, Acquire(p, ks, purpose, ttl, keep, now)
        PROVE  Gains
    BY <2>1, AcquireGains
  <2>2. ASSUME NEW ks \in KeySets, NEW ttl \in Ttl, NEW guarded \in BOOLEAN, NEW now \in Nows,
               Renew(p, ks, ttl, now, guarded)
        PROVE  Gains
    BY <2>2, RenewGains
  <2>3. ASSUME NEW ks \in KeySets, NEW purpose \in Purpose, NEW ttl \in Ttl, NEW now \in Nows,
               Rebind(p, ks, purpose, ttl, now)
        PROVE  Gains
    BY <2>3, RebindGains
  <2>4. ASSUME NEW ks \in KeySets, Restore(p, ks) PROVE LetGo
    <3>1. ASSUME NEW k \in Key, lease'[k] # None
          PROVE  /\ lease[k] # None /\ lease'[k].owner = lease[k].owner
                 /\ Live(lease'[k], clock') => Live(lease[k], clock)
      <4>1. CASE k \in ks
        <5>1. Restorable(p, k) /\ clock' = clock
          BY <2>4, <4>1 DEF Restore
        <5>2. /\ lease[k] # None /\ before[p][k] # None
              /\ lease[k].expires = receipt[p][k].expires
              /\ before[p][k].expires <= receipt[p][k].expires
          BY <5>1 DEF Restorable, WellFormed, Unchanged, Snapshot
        <5>3. lease[k] \in Row /\ before[p][k].expires \in Nat /\ lease[k].expires \in Nat
          BY <5>2 DEF TypeOK, Row
        <5>4. lease'[k].owner = lease[k].owner /\ lease'[k].expires = before[p][k].expires
          BY <2>4, <4>1, <5>3 DEF Restore, Row
        <5>. QED
          BY <3>1, <5>1, <5>2, <5>3, <5>4 DEF Live
      <4>2. CASE k \notin ks
        BY <2>4, <3>1, <4>2 DEF Restore
      <4>. QED
        BY <4>1, <4>2
    <3>. QED
      BY <2>4, <3>1 DEF LetGo, Restore
  <2>5. ASSUME NEW ks \in KeySets, NEW force \in BOOLEAN, NEW guarded \in BOOLEAN,
               Release(p, ks, force, guarded)
        PROVE  LetGo
    BY <1>1, <2>5 DEF Release
  <2>6. ASSUME NEW ks \in KeySets, Reconcile(p, ks) PROVE LetGo
    BY <1>1, <2>6 DEF Reconcile
  <2>. QED
    BY <1>2, <2>1, <2>2, <2>3, <2>4, <2>5, <2>6 DEF LeaseStep
<1>3. ASSUME NEW p \in Proc, AttemptStep(p) PROVE LetGo \/ Gains
  <2>1. ASSUME NEW c \in BranchKey, NEW b \in Binding, NEW ttl \in Ttl, NEW now \in Nows,
               Overlay(p, c, b, ttl, now)
        PROVE  Gains
    BY <2>1, OverlayGains
  <2>2. ASSUME NEW c \in BranchKey, NEW b \in Binding, NEW ttl \in Ttl, NEW now \in Nows,
               AttemptOnly(p, c, b, ttl, now)
        PROVE  Gains
    BY <2>2, AttemptOnlyGains
  <2>3. ASSUME CompleteAttemptOnly(p) PROVE LetGo
    <3>1. UNCHANGED <<clock, terminal>> /\ lease' = [lease EXCEPT ![attempt[p].key] = None]
      BY <2>3 DEF CompleteAttemptOnly
    <3>2. \A k \in Key : lease'[k] \in {lease[k], None}
      BY <3>1 DEF TypeOK
    <3>. QED
      BY <1>1, <3>1, <3>2
  <2>4. ASSUME CompleteOverlay(p) PROVE LetGo
    <3>. DEFINE c == attempt[p].key
    <3>1. /\ lease[c] \in Row /\ lease'[c].owner = lease[c].owner
          /\ lease'[c].expires = lease[c].marker.previousExpires
          /\ UNCHANGED <<clock, terminal>>
      BY <2>4, UnmarkedRow
    <3>2. attempt[p] # None /\ lease[c] = attempt[p].row
      BY <2>4, CompletesItsOwn
    <3>3. lease[c].marker.previousExpires <= lease[c].expires
      BY <2>4, <3>2 DEF CompleteOverlay, AttemptInv, OverlaysLengthen
    <3>4. /\ lease[c].expires \in Nat /\ lease[c].marker.previousExpires \in Nat
          /\ lease[c] # None
      BY <3>2, AttemptTypes
    <3>5. ASSUME NEW k \in Key, lease'[k] # None
          PROVE  /\ lease[k] # None /\ lease'[k].owner = lease[k].owner
                 /\ Live(lease'[k], clock') => Live(lease[k], clock)
      <4>1. CASE k = c
        BY <3>1, <3>3, <3>4, <3>5, <4>1 DEF Live
      <4>2. CASE k # c
        <5>1. lease'[k] = lease[k]
          BY <2>4, <4>2 DEF CompleteOverlay, TypeOK
        <5>. QED
          BY <3>1, <3>5, <5>1
      <4>. QED
        BY <4>1, <4>2
    <3>. QED
      BY <3>1, <3>5 DEF LetGo
  <2>. QED
    BY <1>3, <2>1, <2>2, <2>3, <2>4 DEF AttemptStep
<1>4. ASSUME NEW p \in Proc, Forget(p) PROVE LetGo
  BY <1>1, <1>4 DEF Forget
<1>5. ASSUME NEW p \in Proc, NEW k \in Key, Look(p, k) PROVE LetGo
  BY <1>1, <1>5 DEF Look
<1>6. CASE Tick
  BY <1>1, <1>6 DEF Tick
<1>7. CASE UNCHANGED vars
  BY <1>1, <1>7 DEF vars
<1>. QED
  BY <1>2, <1>3, <1>4, <1>5, <1>6, <1>7 DEF Next

\* A row that is live after a step was live before it and of the same owner, or is
\* revived, or is one of those its owner asked for in this step.
LEMMA LiveOrTook ==
    ASSUME AttemptInv, TerminalHoldsNothing, [Next]_vars, NEW k \in Key, Live(lease'[k], clock')
    PROVE  \/ WasLive(k)
           \/ Revived(k)
           \/ \E ks \in SUBSET Key, asked \in KeySets :
                  /\ k \in ks /\ ks \subseteq asked
                  /\ Gained(lease'[k].owner, ks)
                  /\ Asked(lease'[k].owner, asked)
<1>1. CASE LetGo
  BY <1>1 DEF LetGo, WasLive, Live
<1>2. ASSUME NEW t \in Task, Terminalize(t) PROVE WasLive(k)
  <2>1. lease'[k] = lease[k] /\ clock' = clock
    BY <1>2 DEF Terminalize, Live
  <2>. QED
    BY <2>1 DEF WasLive
<1>3. ASSUME NEW o \in Owner, NEW ks \in SUBSET Key, Gained(o, ks), Took(o, ks), ~WasLive(k),
             ~Revived(k)
      PROVE  /\ k \in ks /\ lease'[k].owner = o
             /\ \E asked \in KeySets : ks \subseteq asked /\ Asked(o, asked)
  <2>1. k \in ks /\ lease'[k].owner = o
    <3>1. clock' = clock /\ k \notin ks => lease'[k] = lease[k]
      BY <1>3 DEF Gained
    <3>. QED
      BY <1>3, <3>1 DEF WasLive, Gained
  <2>2. ~Returned(o, ks)
    BY <1>3, <2>1 DEF Returned, WasLive
  <2>. QED
    BY <1>3, <2>1, <2>2 DEF Took
<1>. QED
  BY <1>1, <1>2, <1>3, HeldStep

\* The rows an owner does not gain stay, and are another's to its request also
\* at the time it read.
LEMMA OthersAreSeen ==
    ASSUME TypeOK, NEW o \in Owner, NEW ks \in SUBSET Key, Gained(o, ks), NEW now \in Nows,
           NEW k \in Key, Live(lease'[k], clock'), lease'[k].owner # o
    PROVE  lease'[k] = lease[k] /\ Foreign(lease[k], o, now)
<1>1. clock' = clock /\ lease'[k] = lease[k]
  BY DEF Gained
<1>. QED
  BY <1>1, LiveSinceRead DEF Foreign

-----------------------------------------------------------------------------
(***************************************************************************)
(* The steps by which live leases of different owners come to overlap.     *)
(***************************************************************************)
\* No subtree scope of one owner comes to enclose a live path of another except
\* where a row that ran out is revived or a path is asked for beside a scope it is
\* not: for every lag of the clock behind the write lock, with rebinders, and
\* whatever the callers ask for together.
THEOREM ScopeOverlapsOnlyAsNamed == Spec => NoScopeOverlapArises
<1>. DEFINE OnlyAsNamed ==
         \A outer, inner \in PathKey :
            ScopesOverlap(outer, inner)' =>
               \/ ScopesOverlap(outer, inner)
               \/ Revived(outer) \/ Revived(inner)
               \/ /\ <<lease'[inner].owner, inner>> \notin Scope
                  /\ \E ks \in KeySets :
                        /\ inner \in ks /\ \E s \in ks : <<lease'[inner].owner, s>> \in Scope
                        /\ Granted(lease'[inner].owner, ks)
<1>1. AttemptInv /\ TerminalHoldsNothing /\ [Next]_vars => OnlyAsNamed
  <2>. SUFFICES ASSUME AttemptInv, TerminalHoldsNothing, [Next]_vars,
                       NEW outer \in PathKey, NEW inner \in PathKey, ScopesOverlap(outer, inner)'
                PROVE  \/ ScopesOverlap(outer, inner)
                       \/ Revived(outer) \/ Revived(inner)
                       \/ /\ <<lease'[inner].owner, inner>> \notin Scope
                          /\ \E ks \in KeySets :
                                /\ inner \in ks /\ \E s \in ks : <<lease'[inner].owner, s>> \in Scope
                                /\ Granted(lease'[inner].owner, ks)
    BY DEF OnlyAsNamed
  <2>. TypeOK /\ outer \in Key /\ inner \in Key
    BY DEF AttemptInv
  <2>1. /\ Live(lease'[outer], clock') /\ Live(lease'[inner], clock')
        /\ lease'[outer].owner # lease'[inner].owner
        /\ <<lease'[outer].owner, outer>> \in Scope
        /\ <<outer, inner>> \in Within
    BY DEF ScopesOverlap, Foreign, Live
  <2>2. CASE WasLive(outer) /\ WasLive(inner)
    BY <2>1, <2>2 DEF WasLive, ScopesOverlap, Foreign
  <2>3. ASSUME NEW ks \in SUBSET Key, NEW asked \in KeySets, outer \in ks, ks \subseteq asked,
               Gained(lease'[outer].owner, ks), Asked(lease'[outer].owner, asked)
        PROVE  FALSE
    <3>. DEFINE o == lease'[outer].owner
    <3>1. PICK purpose \in Purpose \cup {AttemptPurpose}, now \in Nows :
              MayAcquire(o, asked, purpose, now)
      BY <2>3 DEF Asked
    <3>2. o \in Owner /\ Foreign(lease[inner], o, now)
      <4>1. o \in Owner
        BY <2>3 DEF Gained
      <4>. QED
        BY <2>1, <2>3, <4>1, OthersAreSeen
    <3>3. PathScopesFree(o, asked, now)
      BY <3>1 DEF MayAcquire
    <3>. QED
      BY <2>1, <2>3, <3>2, <3>3 DEF PathScopesFree
  <2>4. ASSUME NEW ks \in SUBSET Key, NEW asked \in KeySets, inner \in ks, ks \subseteq asked,
               Gained(lease'[inner].owner, ks), Asked(lease'[inner].owner, asked)
        PROVE  /\ <<lease'[inner].owner, inner>> \notin Scope
               /\ \E s \in asked : <<lease'[inner].owner, s>> \in Scope
               /\ inner \in asked /\ Granted(lease'[inner].owner, asked)
    <3>. DEFINE o == lease'[inner].owner
    <3>1. PICK purpose \in Purpose \cup {AttemptPurpose}, now \in Nows :
              MayAcquire(o, asked, purpose, now)
      BY <2>4 DEF Asked
    <3>2. Foreign(lease[outer], o, now) /\ <<lease[outer].owner, outer>> \in Scope
      <4>1. o \in Owner
        BY <2>4 DEF Gained
      <4>. QED
        BY <2>1, <2>4, <4>1, OthersAreSeen
    <3>3. PathScopesFree(o, asked, now)
      BY <3>1 DEF MayAcquire
    <3>4. <<o, inner>> \notin Scope /\ \E s \in asked : <<o, s>> \in Scope
      BY <2>1, <2>4, <3>2, <3>3 DEF PathScopesFree
    <3>5. inner \in asked /\ Granted(o, asked)
      BY <2>4 DEF Asked
    <3>. QED
      BY <3>4, <3>5
  <2>5. \/ WasLive(outer) \/ Revived(outer)
        \/ \E ks \in SUBSET Key, asked \in KeySets :
               /\ outer \in ks /\ ks \subseteq asked
               /\ Gained(lease'[outer].owner, ks) /\ Asked(lease'[outer].owner, asked)
    BY <2>1, LiveOrTook
  <2>6. \/ WasLive(inner) \/ Revived(inner)
        \/ \E ks \in SUBSET Key, asked \in KeySets :
               /\ inner \in ks /\ ks \subseteq asked
               /\ Gained(lease'[inner].owner, ks) /\ Asked(lease'[inner].owner, asked)
    BY <2>1, LiveOrTook
  <2>. QED
    BY <2>2, <2>3, <2>4, <2>5, <2>6
<1>. QED
  BY <1>1, AttemptInvariant, TerminalHoldsNothingEver, PTL DEF Spec, NoScopeOverlapArises

\* No broad repository lease comes to stand beside a live path of the repository
\* that is another owner's, except where a row that ran out is revived or a path is
\* asked for beside a repository: for every lag, every rebinder and all requests.
THEOREM RepositoryOverlapsOnlyAsNamed == Spec => NoRepositoryOverlapArises
<1>. DEFINE OnlyAsNamed ==
         \A r \in RepoKey, k \in PathKey :
            RepositoryOverlap(r, k)' =>
               \/ RepositoryOverlap(r, k)
               \/ Revived(r) \/ Revived(k)
               \/ \E ks \in KeySets :
                     /\ k \in ks /\ ks \cap RepoKey # {}
                     /\ Granted(lease'[k].owner, ks)
<1>1. AttemptInv /\ TerminalHoldsNothing /\ [Next]_vars => OnlyAsNamed
  <2>. SUFFICES ASSUME AttemptInv, TerminalHoldsNothing, [Next]_vars,
                       NEW r \in RepoKey, NEW k \in PathKey, RepositoryOverlap(r, k)'
                PROVE  \/ RepositoryOverlap(r, k)
                       \/ Revived(r) \/ Revived(k)
                       \/ \E ks \in KeySets :
                             /\ k \in ks /\ ks \cap RepoKey # {}
                             /\ Granted(lease'[k].owner, ks)
    BY DEF OnlyAsNamed
  <2>. TypeOK /\ r \in Key /\ k \in Key
    BY DEF AttemptInv
  <2>1. /\ Live(lease'[r], clock') /\ Live(lease'[k], clock')
        /\ lease'[r].owner # lease'[k].owner
        /\ <<r, k>> \in Covers
    BY DEF RepositoryOverlap, Foreign, Live
  <2>2. CASE WasLive(r) /\ WasLive(k)
    BY <2>1, <2>2 DEF WasLive, RepositoryOverlap, Foreign
  <2>3. ASSUME NEW ks \in SUBSET Key, NEW asked \in KeySets, r \in ks, ks \subseteq asked,
               Gained(lease'[r].owner, ks), Asked(lease'[r].owner, asked)
        PROVE  FALSE
    <3>. DEFINE o == lease'[r].owner
    <3>1. PICK purpose \in Purpose \cup {AttemptPurpose}, now \in Nows :
              MayAcquire(o, asked, purpose, now)
      BY <2>3 DEF Asked
    <3>2. Foreign(lease[k], o, now)
      <4>1. o \in Owner
        BY <2>3 DEF Gained
      <4>. QED
        BY <2>1, <2>3, <4>1, OthersAreSeen
    <3>3. RepositoriesFree(o, asked, now)
      BY <3>1 DEF MayAcquire
    <3>. QED
      BY <2>1, <2>3, <3>2, <3>3 DEF RepositoriesFree
  <2>4. ASSUME NEW ks \in SUBSET Key, NEW asked \in KeySets, k \in ks, ks \subseteq asked,
               Gained(lease'[k].owner, ks), Asked(lease'[k].owner, asked)
        PROVE  k \in asked /\ asked \cap RepoKey # {} /\ Granted(lease'[k].owner, asked)
    <3>. DEFINE o == lease'[k].owner
    <3>1. PICK purpose \in Purpose \cup {AttemptPurpose}, now \in Nows :
              MayAcquire(o, asked, purpose, now)
      BY <2>4 DEF Asked
    <3>2. Foreign(lease[r], o, now)
      <4>1. o \in Owner
        BY <2>4 DEF Gained
      <4>. QED
        BY <2>1, <2>4, <4>1, OthersAreSeen
    <3>3. RepositoriesFree(o, asked, now)
      BY <3>1 DEF MayAcquire
    <3>4. asked \cap RepoKey # {}
      BY <2>1, <2>4, <3>2, <3>3 DEF RepositoriesFree
    <3>. QED
      BY <2>4, <3>4 DEF Asked
  <2>5. \/ WasLive(r) \/ Revived(r)
        \/ \E ks \in SUBSET Key, asked \in KeySets :
               /\ r \in ks /\ ks \subseteq asked
               /\ Gained(lease'[r].owner, ks) /\ Asked(lease'[r].owner, asked)
    BY <2>1, LiveOrTook
  <2>6. \/ WasLive(k) \/ Revived(k)
        \/ \E ks \in SUBSET Key, asked \in KeySets :
               /\ k \in ks /\ ks \subseteq asked
               /\ Gained(lease'[k].owner, ks) /\ Asked(lease'[k].owner, asked)
    BY <2>1, LiveOrTook
  <2>. QED
    BY <2>2, <2>3, <2>4, <2>5, <2>6
<1>. QED
  BY <1>1, AttemptInvariant, TerminalHoldsNothingEver, PTL DEF Spec, NoRepositoryOverlapArises

-----------------------------------------------------------------------------
(***************************************************************************)
(* The table implements LeaseClaims: the live rows are the claims that     *)
(* hold, the others those that ran out.                                    *)
(***************************************************************************)
LEMMA ClaimsAre ==
    ASSUME TypeOK
    PROVE  /\ Held \subseteq Owner \X Key /\ Lapsed \subseteq Owner \X Key
           /\ \A o \in Owner, k \in Key :
                 /\ <<o, k>> \in Held <=> Live(lease[k], clock) /\ lease[k].owner = o
                 /\ <<o, k>> \in Lapsed <=>
                       lease[k] # None /\ ~Live(lease[k], clock) /\ lease[k].owner = o
<1>1. ASSUME NEW k \in Key, lease[k] # None PROVE lease[k].owner \in Owner
  BY <1>1 DEF TypeOK, Row
<1>2. \A k \in Key : Live(lease[k], clock) => lease[k] # None
  BY DEF Live
<1>. QED
  BY <1>1, <1>2 DEF Held, Lapsed

LEMMA ClaimsAreAfter ==
    ASSUME TypeOK'
    PROVE  /\ Held' \subseteq Owner \X Key /\ Lapsed' \subseteq Owner \X Key
           /\ \A o \in Owner, k \in Key :
                 /\ <<o, k>> \in Held' <=> Live(lease'[k], clock') /\ lease'[k].owner = o
                 /\ <<o, k>> \in Lapsed' <=>
                       lease'[k] # None /\ ~Live(lease'[k], clock') /\ lease'[k].owner = o
<1>1. ASSUME NEW k \in Key, lease'[k] # None PROVE lease'[k].owner \in Owner
  BY <1>1 DEF TypeOK, Row
<1>2. \A k \in Key : Live(lease'[k], clock') => lease'[k] # None
  BY DEF Live
<1>. QED
  BY <1>1, <1>2 DEF Held, Lapsed

\* What is let go leaves, or runs out.
LEMMA LetGoLeaves ==
    ASSUME TypeOK, TypeOK', LetGo
    PROVE  Claims!Leave
<1>1. ASSUME NEW o \in Owner, NEW k \in Key, <<o, k>> \in Held' PROVE <<o, k>> \in Held
  BY <1>1, ClaimsAre, ClaimsAreAfter DEF LetGo, Live
<1>2. ASSUME NEW o \in Owner, NEW k \in Key, <<o, k>> \in Lapsed'
      PROVE  <<o, k>> \in Lapsed \/ (<<o, k>> \in Held /\ <<o, k>> \notin Held')
  BY <1>2, ClaimsAre, ClaimsAreAfter DEF LetGo
<1>3. Held' \subseteq Held /\ Lapsed' \subseteq Lapsed \cup (Held \ Held')
  BY <1>1, <1>2, ClaimsAreAfter
<1>. QED
  BY <1>3 DEF LetGo, Claims!Leave

\* A terminalized task loses what it holds and what it could still bring back.
LEMMA TerminalizeEnds ==
    ASSUME TypeOK, TypeOK', NEW t \in Task, Terminalize(t)
    PROVE  Claims!End(t)
<1>1. ASSUME NEW o \in Owner, NEW k \in Key
      PROVE  /\ <<o, k>> \in Held' <=> <<o, k>> \in Held /\ o # t
             /\ <<o, k>> \in Lapsed' <=> <<o, k>> \in Lapsed /\ o # t
  <2>1. clock' = clock
    BY DEF Terminalize
  <2>2. lease'[k] = IF lease[k] # None /\ lease[k].owner = t THEN None ELSE lease[k]
    BY DEF Terminalize
  <2>. QED
    BY <2>1, <2>2, ClaimsAre, ClaimsAreAfter DEF Live
<1>2. Held' = {c \in Held : c[1] # t} /\ Lapsed' = {c \in Lapsed : c[1] # t}
  BY <1>1, ClaimsAre, ClaimsAreAfter
<1>. QED
  BY <1>2 DEF Terminalize, Claims!End

\* The keys an owner gains are claimed by it and no longer on record for others.
LEMMA GainedIsTaken ==
    ASSUME TypeOK, TypeOK', NEW o \in Owner, NEW ks \in SUBSET Key, Gained(o, ks)
    PROVE  Claims!Take(o, ks)
<1>1. ASSUME NEW q \in Owner, NEW k \in Key
      PROVE  /\ <<q, k>> \in Held' <=> <<q, k>> \in Held \/ (q = o /\ k \in ks)
             /\ <<q, k>> \in Lapsed' <=> <<q, k>> \in Lapsed /\ k \notin ks
  <2>1. clock' = clock
    BY DEF Gained
  <2>2. CASE k \in ks
    BY <2>1, <2>2, ClaimsAre, ClaimsAreAfter DEF Gained
  <2>3. CASE k \notin ks
    <3>1. lease'[k] = lease[k]
      BY <2>3 DEF Gained
    <3>. QED
      BY <2>1, <2>3, <3>1, ClaimsAre, ClaimsAreAfter
  <2>. QED
    BY <2>2, <2>3
<1>2. Held \subseteq Held' /\ Held' \ Held \subseteq {o} \X ks
  <2>1. ASSUME NEW c \in Held' \ Held PROVE c \in {o} \X ks
    <3>1. c[1] \in Owner /\ c[2] \in Key /\ c = <<c[1], c[2]>>
      BY ClaimsAreAfter
    <3>2. c[1] = o /\ c[2] \in ks
      BY <1>1, <2>1, <3>1
    <3>. QED
      BY <3>1, <3>2
  <2>. QED
    BY <1>1, <2>1, ClaimsAre
<1>3. ASSUME NEW c \in Owner \X Key
      PROVE  c \in Lapsed' <=> c \in Lapsed /\ \A d \in Held' \ Held : d[2] # c[2]
  <2>1. c[1] \in Owner /\ c[2] \in Key /\ c = <<c[1], c[2]>>
    OBVIOUS
  <2>2. CASE c[2] \in ks
    <3>1. c \in Lapsed => <<o, c[2]>> \in Held' \ Held
      BY <1>1, <2>1, <2>2, ClaimsAre
    <3>. QED
      BY <1>1, <2>1, <2>2, <3>1
  <2>3. CASE c[2] \notin ks
    <3>1. \A d \in Held' \ Held : d[2] # c[2]
      BY <1>2, <2>3
    <3>. QED
      BY <1>1, <2>1, <2>3, <3>1
  <2>. QED
    BY <2>2, <2>3
<1>4. Lapsed' = {c \in Lapsed : \A d \in Held' \ Held : d[2] # c[2]}
  BY <1>3, ClaimsAre, ClaimsAreAfter
<1>. QED
  BY <1>2, <1>4 DEF Gained, Claims!Take

\* What an owner had, live or run out, it may have back.
LEMMA ReturnedIsRevived ==
    ASSUME TypeOK, TypeOK', NEW o \in Owner, NEW ks \in SUBSET Key, Gained(o, ks), Returned(o, ks)
    PROVE  Claims!Revive(o)
<1>1. Claims!Take(o, ks)
  BY GainedIsTaken
<1>2. ASSUME NEW k \in ks PROVE <<o, k>> \in Held \cup Lapsed
  BY ClaimsAre DEF Returned
<1>3. Held' \ Held \subseteq Lapsed
  BY <1>1, <1>2 DEF Claims!Take
<1>4. Claims!Take(o, Key)
  BY <1>1 DEF Claims!Take
<1>. QED
  BY <1>3, <1>4 DEF Claims!Revive

\* What acquire_resources grants is held by nobody else, and nothing that others
\* hold excludes it: it looks at every row that is live, whenever it read the clock.
LEMMA AskedIsClaimed ==
    ASSUME TypeOK, TypeOK', NEW o \in Owner, NEW ks \in SUBSET Key, Gained(o, ks),
           NEW asked \in KeySets, ks \subseteq asked, Asked(o, asked)
    PROVE  Claims!Claim(o, asked)
<1>1. PICK purpose \in Purpose \cup {AttemptPurpose}, now \in Nows :
          MayAcquire(o, asked, purpose, now)
  BY DEF Asked
<1>2. ASSUME NEW q \in Owner, NEW e \in Key, <<q, e>> \in Held
      PROVE  /\ e \in asked => q = o
             /\ <<o, asked, <<q, e>>>> \notin Excluded
  <2>1. Live(lease[e], now) /\ lease[e].owner = q
    BY <1>2, ClaimsAre, LiveSinceRead
  <2>2. e \in asked => q = o
    BY <1>1, <2>1 DEF MayAcquire
  <2>3. SUFFICES ASSUME q # o
                 PROVE  ~ScopeExcludes(o, asked, <<q, e>>) /\ ~RepositoryExcludes(asked, <<q, e>>)
    BY <2>2 DEF Excluded
  <2>4. Foreign(lease[e], o, now) /\ lease[e].owner = q
    BY <2>1, <2>3 DEF Foreign
  <2>5. PathScopesFree(o, asked, now) /\ RepositoriesFree(o, asked, now)
    BY <1>1 DEF MayAcquire
  <2>6. ~ScopeExcludes(o, asked, <<q, e>>)
    <3>. SUFFICES ASSUME NEW k \in Compared(o, asked),
                         \/ <<o, k>> \in Scope /\ <<k, e>> \in Within
                         \/ <<q, e>> \in Scope /\ <<e, k>> \in Within
                  PROVE  FALSE
      BY DEF ScopeExcludes
    <3>1. k \in asked /\ k \in PathKey /\ e \in PathKey
      BY DEF Compared
    <3>2. (\E s \in asked : <<o, s>> \in Scope) => <<o, k>> \in Scope
      BY DEF Compared
    <3>. QED
      <4>. DEFINE scope == {s \in asked : <<o, s>> \in Scope}
      <4>1. CASE scope # {}
        BY <2>4, <2>5, <3>1, <3>2, <4>1 DEF PathScopesFree
      <4>2. CASE scope = {}
        <5>1. <<o, k>> \notin Scope
          BY <3>1, <4>2
        <5>2. <<q, e>> \in Scope /\ <<e, k>> \in Within
          BY <5>1
        <5>3. k \in asked \cap PathKey /\ e \in {f \in PathKey : Foreign(lease[f], o, now)}
          BY <2>4, <3>1
        <5>. QED
          BY <2>4, <2>5, <4>2, <5>2, <5>3 DEF PathScopesFree
      <4>. QED
        BY <4>1, <4>2
  <2>7. ~RepositoryExcludes(asked, <<q, e>>)
    <3>1. CASE asked \cap RepoKey # {}
      <4>1. SUFFICES ASSUME NEW r \in asked, <<r, e>> \in Covers PROVE FALSE
        BY <3>1 DEF RepositoryExcludes
      <4>2. r \in asked \cap RepoKey /\ e \in PathKey
        BY <4>1
      <4>. QED
        BY <2>4, <2>5, <3>1, <4>1, <4>2 DEF RepositoriesFree
    <3>2. CASE asked \cap RepoKey = {}
      BY <2>4, <2>5, <3>2 DEF RepositoriesFree, RepositoryExcludes
    <3>. QED
      BY <3>1, <3>2
  <2>. QED
    BY <2>6, <2>7
<1>3. \A c \in Held : (c[2] \in asked => c[1] = o) /\ <<o, asked, c>> \notin Excluded
  <2>. SUFFICES ASSUME NEW c \in Held
                PROVE  (c[2] \in asked => c[1] = o) /\ <<o, asked, c>> \notin Excluded
    OBVIOUS
  <2>1. c[1] \in Owner /\ c[2] \in Key /\ c = <<c[1], c[2]>>
    BY ClaimsAre
  <2>. QED
    BY <1>2, <2>1
<1>4. Claims!Take(o, asked)
  <2>1. Claims!Take(o, ks)
    BY GainedIsTaken
  <2>. QED
    BY <2>1 DEF Claims!Take
<1>. QED
  BY <1>3, <1>4 DEF Claims!Claim

\* In every configuration the table implements LeaseClaims with the exclusions of
\* subtree scopes and repositories: a key is another owner's only after it was given
\* up or ran out, a request is granted only where no live row of another owner
\* excludes it, and what is brought back had been its owner's all the time.
THEOREM ClaimsImplemented == Spec => ImplementsClaims
<1>1. Init => Claims!Init
  BY DEF Init, Claims!Init, Held, Lapsed, Live
<1>2. AttemptInv /\ TerminalHoldsNothing /\ [Next]_vars => [Claims!Next]_Claims!claimVars
  <2>. SUFFICES ASSUME AttemptInv, TerminalHoldsNothing, [Next]_vars
                PROVE  Claims!Next
    OBVIOUS
  <2>. TypeOK /\ TypeOK'
    BY TypeStep DEF AttemptInv
  <2>1. CASE LetGo
    BY <2>1, LetGoLeaves DEF Claims!Next
  <2>2. ASSUME NEW t \in Task, Terminalize(t) PROVE Claims!Next
    BY <2>2, TerminalizeEnds DEF Claims!Next
  <2>3. ASSUME NEW o \in Owner, NEW ks \in SUBSET Key, Gained(o, ks), Took(o, ks)
        PROVE  Claims!Next
    <3>1. CASE Returned(o, ks)
      BY <2>3, <3>1, ReturnedIsRevived DEF Claims!Next
    <3>2. ASSUME NEW asked \in KeySets, ks \subseteq asked, Asked(o, asked) PROVE Claims!Next
      <4>1. asked \in SUBSET Key
        BY <3>2 DEF KeySets
      <4>2. Claims!Claim(o, asked)
        BY <2>3, <3>2, AskedIsClaimed
      <4>. QED
        BY <4>1, <4>2 DEF Claims!Next
    <3>. QED
      BY <2>3, <3>1, <3>2 DEF Took
  <2>. QED
    BY <2>1, <2>2, <2>3, HeldStep
<1>. QED
  BY <1>1, <1>2, AttemptInvariant, TerminalHoldsNothingEver, PTL
     DEF Spec, ImplementsClaims, Claims!Spec
=============================================================================
