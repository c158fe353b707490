-------------------------- MODULE ResourceLeasesProofs --------------------------
(***************************************************************************)
(* Proofs about the lease table for any owners, keys, callers, scopes,     *)
(* lease lengths and any wait for the write lock shorter than a lease.     *)
(***************************************************************************)
EXTENDS ResourceLeases, TLAPS

USE OwnerAssumption, KeyAssumption, NumberAssumption

\* A time that was read is a number and not ahead of the clock.
LEMMA NowIsPast ==
    ASSUME TypeOK, NEW now \in Nows
    PROVE  now \in Nat /\ now <= clock /\ now + MaxLag >= clock
  BY DEF Nows, TypeOK

\* The operators that make rows make rows.
LEMMA RowsAreMade ==
    ASSUME NEW row \in Row, NEW o \in Owner, NEW purpose \in Purpose \cup {AttemptPurpose},
           NEW now \in Nat, NEW ttl \in Nat, NEW until \in Nat,
           NEW marker \in Marker \cup {None}, nonces \in Nat
    PROVE  /\ NewRow(o, purpose, now, ttl, marker) \in Row
           /\ Extended(row, now, until) \in Row
           /\ Renewed(row, now, until) \in Row
           /\ [Renewed(row, now, until) EXCEPT !.purpose = purpose] \in Row
           /\ Later(row.expires, until) \in Nat
<1>1. NewRow(o, purpose, now, ttl, marker) \in Row
  BY DEF NewRow, Row
<1>2. Later(row.expires, until) \in Nat
  BY DEF Later, Row
<1>3. Extended(row, now, until) \in Row
  BY <1>2 DEF Extended, Row
<1>4. Renewed(row, now, until) \in Row
  BY <1>2 DEF Renewed, Row
<1>5. [Renewed(row, now, until) EXCEPT !.purpose = purpose] \in Row
  BY <1>4 DEF Row
<1>. QED
  BY <1>1, <1>2, <1>3, <1>4, <1>5

\* What a caller is shown are rows.
LEMMA ShownAreRows ==
    ASSUME TypeOK, NEW p \in Proc, NEW ks \in KeySets, Show(p, ks),
           lease' \in [Key -> Row \cup {None}]
    PROVE  receipt' \in [Proc -> [Key -> Row \cup {None}]]
<1>. DEFINE shown == [k \in Key |-> IF k \in ks THEN lease'[k] ELSE receipt[p][k]]
<1>1. shown \in [Key -> Row \cup {None}]
  BY DEF TypeOK
<1>2. CASE p \in Keeper
  BY <1>1, <1>2 DEF Show, TypeOK
<1>3. CASE p \notin Keeper
  BY <1>3 DEF Show, TypeOK
<1>. QED
  BY <1>2, <1>3

-----------------------------------------------------------------------------
\* Types, initially and in every step: one case for each action.
LEMMA TypeInit == Init => TypeOK
  BY DEF Init, TypeOK

LEMMA TypeStep == TypeOK /\ [Next]_vars => TypeOK'
<1>. SUFFICES ASSUME TypeOK, [Next]_vars PROVE TypeOK'
  OBVIOUS
<1>. USE DEF table, memory
<1>1. ASSUME NEW p \in Proc, NEW ks \in KeySets, NEW purpose \in Purpose, NEW ttl \in Ttl,
             NEW keep \in BOOLEAN, NEW now \in Nows, Acquire(p, ks, purpose, ttl, keep, now)
      PROVE  TypeOK'
  <2>. DEFINE o == OwnerOf[p]
              fresh == {k \in ks : ~(Live(lease[k], now) /\ lease[k].owner = o)}
  <2>1. \A k \in Key : lease'[k] \in Row \cup {None}
    <3>. SUFFICES ASSUME NEW k \in Key PROVE lease'[k] \in Row \cup {None}
      OBVIOUS
    <3>1. NewRow(o, purpose, now, ttl, None) \in Row
      BY NowIsPast, RowsAreMade DEF TypeOK, NewRow, Row
    <3>2. CASE k \in ks /\ k \notin fresh
      <4>1. lease[k] \in Row
        BY <3>2 DEF TypeOK, Live
      <4>2. now \in Nat /\ now + ttl \in Nat
        BY NowIsPast
      <4>3. Extended(lease[k], now, now + ttl) \in Row
        BY <4>1, <4>2 DEF Extended, Later, Row
      <4>4. lease'[k] \in {Extended(lease[k], now, now + ttl), lease[k]}
        BY <1>1, <3>2 DEF Acquire
      <4>. QED
        BY <4>1, <4>3, <4>4
    <3>3. CASE k \in fresh
      BY <1>1, <3>1, <3>3 DEF Acquire
    <3>4. CASE k \notin ks
      BY <1>1, <3>4 DEF Acquire, TypeOK
    <3>. QED
      BY <3>2, <3>3, <3>4
  <2>2. lease' \in [Key -> Row \cup {None}]
    BY <1>1, <2>1 DEF Acquire
  <2>3. nonces' \in 0..MaxNonce
    BY <1>1 DEF Acquire, DrawNonce, TypeOK
  <2>4. receipt' \in [Proc -> [Key -> Row \cup {None}]]
    BY <1>1, <2>2, ShownAreRows DEF Acquire
  <2>. QED
    BY <1>1, <2>2, <2>3, <2>4 DEF Acquire, TypeOK
<1>2. ASSUME NEW p \in Proc, NEW ks \in KeySets, NEW ttl \in Ttl, NEW guarded \in BOOLEAN,
             NEW now \in Nows, Renew(p, ks, ttl, now, guarded)
      PROVE  TypeOK'
  <2>1. \A k \in Key : lease'[k] \in Row \cup {None}
    <3>. SUFFICES ASSUME NEW k \in Key PROVE lease'[k] \in Row \cup {None}
      OBVIOUS
    <3>1. CASE k \in ks
      <4>1. lease[k] \in Row
        BY <1>2, <3>1 DEF Renew, MayRenew, Live, TypeOK
      <4>2. Renewed(lease[k], now, now + ttl) \in Row
        <5>1. now \in Nat /\ now + ttl \in Nat
          BY NowIsPast
        <5>. QED
          BY <4>1, <5>1 DEF Renewed, Later, Row
      <4>. QED
        BY <1>2, <3>1, <4>2 DEF Renew
    <3>. QED
      BY <1>2, <3>1 DEF Renew, TypeOK
  <2>2. lease' \in [Key -> Row \cup {None}]
    BY <1>2, <2>1 DEF Renew
  <2>3. before' \in [Proc -> [Key -> Row \cup {None}]]
    <3>. DEFINE kept == [k \in Key |-> IF k \in ks THEN lease[k] ELSE before[p][k]]
    <3>1. kept \in [Key -> Row \cup {None}]
      BY DEF TypeOK
    <3>2. before' = [before EXCEPT ![p] = kept] \/ before' = before
      BY <1>2 DEF Renew
    <3>. QED
      BY <3>1, <3>2 DEF TypeOK
  <2>4. receipt' \in [Proc -> [Key -> Row \cup {None}]]
    BY <1>2, <2>2, ShownAreRows DEF Renew
  <2>. QED
    BY <1>2, <2>2, <2>3, <2>4 DEF Renew, TypeOK
<1>3. ASSUME NEW p \in Proc, NEW ks \in KeySets, Restore(p, ks)
      PROVE  TypeOK'
  <2>1. \A k \in Key : lease'[k] \in Row \cup {None}
    <3>. SUFFICES ASSUME NEW k \in Key PROVE lease'[k] \in Row \cup {None}
      OBVIOUS
    <3>1. CASE k \in ks
      <4>1. lease[k] \in Row
        BY <1>3, <3>1 DEF Restore, Restorable, Unchanged, TypeOK
      <4>2. before[p][k] # None
        BY <1>3, <3>1 DEF Restore, Restorable, WellFormed
      <4>3. before[p][k] \in Row
        BY <4>2 DEF TypeOK
      <4>. QED
        BY <1>3, <3>1, <4>1, <4>3 DEF Restore, Row
    <3>. QED
      BY <1>3, <3>1 DEF Restore, TypeOK
  <2>2. lease' \in [Key -> Row \cup {None}]
    BY <1>3, <2>1 DEF Restore
  <2>3. receipt' \in [Proc -> [Key -> Row \cup {None}]]
    BY <1>3, <2>2, ShownAreRows DEF Restore
  <2>. QED
    BY <1>3, <2>2, <2>3 DEF Restore, TypeOK
<1>4. ASSUME NEW p \in Proc, NEW ks \in KeySets, NEW purpose \in Purpose, NEW ttl \in Ttl,
             NEW now \in Nows, Rebind(p, ks, purpose, ttl, now)
      PROVE  TypeOK'
  <2>1. \A k \in Key : lease'[k] \in Row \cup {None}
    <3>. SUFFICES ASSUME NEW k \in Key PROVE lease'[k] \in Row \cup {None}
      OBVIOUS
    <3>1. CASE k \in ks
      <4>1. lease[k] \in Row
        BY <1>4, <3>1 DEF Rebind, Unchanged, TypeOK
      <4>2. now \in Nat /\ now + ttl \in Nat
        BY NowIsPast
      <4>3. Renewed(lease[k], now, now + ttl) \in Row
        BY <4>1, <4>2 DEF Renewed, Later, Row
      <4>. QED
        BY <1>4, <3>1, <4>3 DEF Rebind, Row
    <3>. QED
      BY <1>4, <3>1 DEF Rebind, TypeOK
  <2>2. lease' \in [Key -> Row \cup {None}]
    BY <1>4, <2>1 DEF Rebind
  <2>3. receipt' \in [Proc -> [Key -> Row \cup {None}]]
    BY <1>4, <2>2, ShownAreRows DEF Rebind
  <2>. QED
    BY <1>4, <2>2, <2>3 DEF Rebind, TypeOK
<1>5. ASSUME NEW p \in Proc, NEW ks \in KeySets, NEW force \in BOOLEAN,
             NEW guarded \in BOOLEAN, Release(p, ks, force, guarded)
      PROVE  TypeOK'
  BY <1>5 DEF Release, TypeOK
<1>6. ASSUME NEW p \in Proc, NEW ks \in KeySets, Reconcile(p, ks)
      PROVE  TypeOK'
  BY <1>6 DEF Reconcile, TypeOK
<1>7. ASSUME NEW p \in Proc, NEW k \in BranchKey, NEW b \in Binding, NEW ttl \in Ttl,
             NEW now \in Nows, Overlay(p, k, b, ttl, now)
      PROVE  TypeOK'
  <2>. DEFINE row == lease[k]
              until == Later(row.expires, now + ttl)
              mark == [binding |-> b, origin |-> "preexisting",
                       previousExpires |-> row.expires, attemptExpires |-> until]
              marked == [row EXCEPT !.expires = until, !.marker = mark]
  <2>1. row \in Row
    BY <1>7 DEF Overlay, Live, TypeOK
  <2>2. until \in Nat
    <3>1. now + ttl \in Nat
      BY NowIsPast
    <3>. QED
      BY <2>1, <3>1 DEF Later, Row
  <2>3. mark \in Marker
    BY <2>1, <2>2 DEF Marker, Origin, Row
  <2>4. marked \in Row /\ marked.marker = mark
    BY <2>1, <2>2, <2>3 DEF Row
  <2>5. mark # None
    BY <2>3, NoneAssumption
  <2>6. [key |-> k, row |-> marked] \in AttemptLease
    BY <2>4, <2>5 DEF AttemptLease
  <2>7. lease' = [lease EXCEPT ![k] = marked]
        /\ attempt' = [attempt EXCEPT ![p] = [key |-> k, row |-> marked]]
    BY <1>7 DEF Overlay
  <2>. QED
    BY <1>7, <2>4, <2>6, <2>7 DEF Overlay, TypeOK
<1>8. ASSUME NEW p \in Proc, NEW k \in BranchKey, NEW b \in Binding, NEW ttl \in Ttl,
             NEW now \in Nows, AttemptOnly(p, k, b, ttl, now)
      PROVE  TypeOK'
  <2>. DEFINE mark == [binding |-> b, origin |-> "attempt_only",
                       previousExpires |-> 0, attemptExpires |-> 0]
              marked == NewRow(OwnerOf[p], AttemptPurpose, now, ttl, mark)
  <2>1. mark \in Marker
    BY DEF Marker, Origin
  <2>2. marked \in Row /\ marked.marker = mark
    BY <2>1, NowIsPast DEF NewRow, Row, TypeOK
  <2>3. [key |-> k, row |-> marked] \in AttemptLease
    BY <2>1, <2>2, NoneAssumption DEF AttemptLease
  <2>4. lease' = [lease EXCEPT ![k] = marked]
        /\ attempt' = [attempt EXCEPT ![p] = [key |-> k, row |-> marked]]
    BY <1>8 DEF AttemptOnly
  <2>5. nonces' \in 0..MaxNonce
    BY <1>8 DEF AttemptOnly, DrawNonce, TypeOK
  <2>. QED
    BY <1>8, <2>2, <2>3, <2>4, <2>5 DEF AttemptOnly, TypeOK
<1>9. ASSUME NEW p \in Proc, CompleteAttemptOnly(p)
      PROVE  TypeOK'
  BY <1>9 DEF CompleteAttemptOnly, TypeOK
<1>10. ASSUME NEW p \in Proc, CompleteOverlay(p)
      PROVE  TypeOK'
  <2>. DEFINE k == attempt[p].key
              marked == attempt[p].row
              given == [lease[k] EXCEPT !.expires = marked.marker.previousExpires,
                                        !.marker = None]
  <2>1. k \in Key /\ marked \in Row /\ marked.marker \in Marker
    BY <1>10 DEF CompleteOverlay, TypeOK, AttemptLease, Row
  <2>2. lease[k] \in Row
    BY <1>10, <2>1 DEF CompleteOverlay, IsOverlaidBy, TypeOK
  <2>3. given \in Row
    BY <2>1, <2>2 DEF Row, Marker
  <2>4. lease' = [lease EXCEPT ![k] = given]
    BY <1>10 DEF CompleteOverlay
  <2>. QED
    BY <1>10, <2>1, <2>3, <2>4 DEF CompleteOverlay, TypeOK
<1>11. ASSUME NEW p \in Proc, Forget(p)
      PROVE  TypeOK'
  BY <1>11 DEF Forget, TypeOK
<1>12. ASSUME NEW p \in Proc, NEW k \in Key, Look(p, k)
      PROVE  TypeOK'
  BY <1>12 DEF Look, TypeOK
<1>13. ASSUME NEW t \in Task, Terminalize(t)
      PROVE  TypeOK'
  BY <1>13 DEF Terminalize, TypeOK
<1>14. CASE Tick
  BY <1>14 DEF Tick, TypeOK
<1>15. CASE UNCHANGED vars
  BY <1>15 DEF vars, TypeOK
<1>. QED
  BY <1>1, <1>2, <1>3, <1>4, <1>5, <1>6, <1>7, <1>8, <1>9, <1>10, <1>11, <1>12,
     <1>13, <1>14, <1>15 DEF Next, LeaseStep, AttemptStep

\* Type correctness, for every value of the constants.
THEOREM TypeCorrect == Spec => []TypeOK
  BY TypeInit, TypeStep, PTL DEF Spec

-----------------------------------------------------------------------------
\* What one step can do to the row of a key.  Made: a row of an owner that
\* is not terminalized takes the place of one that is not live.  Moved: an
\* unmarked row gets other times, or another purpose from an owner that rebinds;
\* only a lane's Restore shortens it.  Ended: it is deleted.
Made(k) ==
    \E p \in Proc, purpose \in Purpose \cup {AttemptPurpose}, now \in Nows, ttl \in Ttl,
       marker \in Marker \cup {None} :
        /\ ~Live(lease[k], now)
        /\ OwnerOf[p] \notin terminal /\ UNCHANGED terminal
        /\ OwnerOf[p] \in Lane => nonces' = nonces + 1
        /\ marker # None => marker.origin = "attempt_only"
        /\ lease'[k] = NewRow(OwnerOf[p], purpose, now, ttl, marker)

Moved(k) ==
    /\ lease[k] # None /\ lease'[k] # None
    /\ lease[k].marker = None /\ lease'[k].marker = None
    /\ lease'[k].owner = lease[k].owner
    /\ lease'[k].nonce = lease[k].nonce
    /\ lease[k].owner \notin Rebinder => lease'[k].purpose = lease[k].purpose
    /\ \/ lease'[k].expires >= lease[k].expires
       \/ /\ lease[k].owner \in Lane
          /\ \E p \in Proc, ks \in KeySets : Restore(p, ks)

Ended(k) ==
    /\ lease[k] # None /\ lease'[k] = None
    /\ \/ k \notin BranchKey
       \/ lease[k].marker = None
       \/ lease[k].owner \in terminal'
       \/ \E p \in Proc : CompleteAttemptOnly(p) /\ attempt[p].key = k

Overlaid(k) ==
    /\ k \in BranchKey
    /\ \E p \in Proc, b \in Binding, ttl \in Ttl, now \in Nows : Overlay(p, k, b, ttl, now)

Unmarked(k) == \E p \in Proc : CompleteOverlay(p) /\ attempt[p].key = k

RowStep(k) ==
    \/ lease'[k] = lease[k]
    \/ UNCHANGED terminal /\ Moved(k)
    \/ Made(k)
    \/ Ended(k)
    \/ Overlaid(k)
    \/ Unmarked(k)

LEMMA EveryStepIsARowStep ==
    ASSUME TypeOK, [Next]_vars, NEW k \in Key
    PROVE  RowStep(k)
<1>. USE DEF table, memory
<1>1. ASSUME NEW p \in Proc, NEW ks \in KeySets, NEW purpose \in Purpose, NEW ttl \in Ttl,
             NEW keep \in BOOLEAN, NEW now \in Nows, Acquire(p, ks, purpose, ttl, keep, now)
      PROVE  RowStep(k)
  <2>1. now \in Nat /\ now + ttl \in Nat
    BY NowIsPast
  <2>2. CASE k \notin ks
    BY <1>1, <2>2 DEF Acquire, RowStep
  <2>3. CASE k \in ks /\ Live(lease[k], now)
    <3>1. lease[k] \in Row /\ lease[k] # None /\ lease[k].owner = OwnerOf[p] /\ lease[k].marker = None
      BY <1>1, <2>3 DEF Acquire, MayAcquire, Live, TypeOK
    <3>2. lease'[k] \in {Extended(lease[k], now, now + ttl), lease[k]}
      BY <1>1, <2>3, <3>1 DEF Acquire
    <3>3. CASE lease'[k] = Extended(lease[k], now, now + ttl)
      <4>1. /\ lease'[k].marker = None /\ lease'[k].owner = lease[k].owner
            /\ lease'[k].nonce = lease[k].nonce /\ lease'[k].expires >= lease[k].expires
            /\ lease'[k].purpose = lease[k].purpose
        BY <2>1, <3>1, <3>3 DEF Extended, Later, Row
      <4>2. lease'[k] \in Row
        BY <2>1, <3>1, <3>3 DEF Extended, Later, Row
      <4>. QED
        BY <1>1, <3>1, <4>1, <4>2, NoneAssumption DEF RowStep, Moved, Acquire
    <3>. QED
      BY <3>2, <3>3 DEF RowStep
  <2>4. CASE k \in ks /\ ~Live(lease[k], now)
    <3>1. lease'[k] = NewRow(OwnerOf[p], purpose, now, ttl, None)
      BY <1>1, <2>4 DEF Acquire
    <3>2. OwnerOf[p] \in Lane => nonces' = nonces + 1
      BY <1>1, <2>4 DEF Acquire, DrawNonce
    <3>. QED
      BY <1>1, <2>4, <3>1, <3>2 DEF RowStep, Made, Acquire, MayAcquire
  <2>. QED
    BY <2>2, <2>3, <2>4
<1>2. ASSUME NEW p \in Proc, NEW ks \in KeySets, NEW ttl \in Ttl, NEW guarded \in BOOLEAN,
             NEW now \in Nows, Renew(p, ks, ttl, now, guarded)
      PROVE  RowStep(k)
  <2>1. CASE k \in ks
    <3>1. now \in Nat /\ now + ttl \in Nat
      BY NowIsPast
    <3>2. lease[k] \in Row /\ lease[k] # None /\ lease[k].marker = None
      BY <1>2, <2>1 DEF Renew, MayRenew, Live, TypeOK
    <3>3. lease'[k] = Renewed(lease[k], now, now + ttl)
      BY <1>2, <2>1 DEF Renew
    <3>4. /\ lease'[k] \in Row /\ lease'[k].marker = None
          /\ lease'[k].owner = lease[k].owner /\ lease'[k].nonce = lease[k].nonce
          /\ lease'[k].expires >= lease[k].expires
          /\ lease'[k].purpose = lease[k].purpose
      <4>. DEFINE until == Later(lease[k].expires, now + ttl)
      <4>1. until \in Nat /\ until >= lease[k].expires
        BY <3>1, <3>2 DEF Later, Row
      <4>. HIDE DEF until
      <4>2. Renewed(lease[k], now, now + ttl)
            = [lease[k] EXCEPT !.expires = until, !.updated = now]
        BY DEF Renewed, until
      <4>. QED
        BY <3>1, <3>2, <3>3, <4>1, <4>2 DEF Row
    <3>. QED
      BY <1>2, <3>2, <3>4, NoneAssumption DEF RowStep, Moved, Renew
  <2>. QED
    BY <1>2, <2>1 DEF Renew, RowStep
<1>3. ASSUME NEW p \in Proc, NEW ks \in KeySets, Restore(p, ks)
      PROVE  RowStep(k)
  <2>1. CASE k \in ks
    <3>1. lease[k] \in Row /\ lease[k] # None /\ lease[k].marker = None
      BY <1>3, <2>1 DEF Restore, Restorable, Unchanged, TypeOK
    <3>2. lease[k].owner \in Lane
      BY <1>3, <2>1 DEF Restore, Restorable, Unchanged, Snapshot, Presents
    <3>3. /\ lease'[k].marker = None /\ lease'[k].owner = lease[k].owner
          /\ lease'[k].nonce = lease[k].nonce /\ lease'[k].purpose = lease[k].purpose
      BY <1>3, <2>1, <3>1 DEF Restore, Row
    <3>4. lease'[k] \in Row
      <4>1. before[p][k] # None
        BY <1>3, <2>1 DEF Restore, Restorable, WellFormed
      <4>2. before[p][k] \in Row
        BY <4>1 DEF TypeOK
      <4>. QED
        BY <1>3, <2>1, <3>1, <4>2 DEF Restore, Row
    <3>. QED
      BY <1>3, <3>1, <3>2, <3>3, <3>4, NoneAssumption DEF RowStep, Moved, Restore
  <2>. QED
    BY <1>3, <2>1 DEF Restore, RowStep
<1>4. ASSUME NEW p \in Proc, NEW ks \in KeySets, NEW purpose \in Purpose, NEW ttl \in Ttl,
             NEW now \in Nows, Rebind(p, ks, purpose, ttl, now)
      PROVE  RowStep(k)
  <2>1. CASE k \in ks
    <3>1. now \in Nat /\ now + ttl \in Nat
      BY NowIsPast
    <3>2. lease[k] \in Row /\ lease[k] # None /\ lease[k].marker = None
      BY <1>4, <2>1 DEF Rebind, Unchanged, TypeOK
    <3>3. lease'[k] = [Renewed(lease[k], now, now + ttl) EXCEPT !.purpose = purpose]
      BY <1>4, <2>1 DEF Rebind
    <3>4. /\ lease'[k] \in Row /\ lease'[k].marker = None
          /\ lease'[k].owner = lease[k].owner /\ lease'[k].nonce = lease[k].nonce
          /\ lease'[k].expires >= lease[k].expires
      <4>. DEFINE until == Later(lease[k].expires, now + ttl)
      <4>1. until \in Nat /\ until >= lease[k].expires
        BY <3>1, <3>2 DEF Later, Row
      <4>. HIDE DEF until
      <4>2. Renewed(lease[k], now, now + ttl)
            = [lease[k] EXCEPT !.expires = until, !.updated = now]
        BY DEF Renewed, until
      <4>. QED
        BY <3>1, <3>2, <3>3, <4>1, <4>2 DEF Row
    <3>5. lease[k].owner \in Rebinder
      BY <1>4, <2>1 DEF Rebind, Presents, Unchanged, Snapshot
    <3>. QED
      BY <1>4, <3>2, <3>4, <3>5, NoneAssumption DEF RowStep, Moved, Rebind
  <2>. QED
    BY <1>4, <2>1 DEF Rebind, RowStep
<1>5. ASSUME NEW p \in Proc, NEW ks \in KeySets, NEW force \in BOOLEAN,
             NEW guarded \in BOOLEAN, Release(p, ks, force, guarded)
      PROVE  RowStep(k)
  BY <1>5 DEF Release, MayRelease, RowStep, Ended
<1>6. ASSUME NEW p \in Proc, NEW ks \in KeySets, Reconcile(p, ks)
      PROVE  RowStep(k)
  BY <1>6 DEF Reconcile, Unchanged, RowStep, Ended
<1>7. ASSUME NEW p \in Proc, NEW c \in BranchKey, NEW b \in Binding, NEW ttl \in Ttl,
             NEW now \in Nows, Overlay(p, c, b, ttl, now)
      PROVE  RowStep(k)
  <2>1. CASE k = c
    BY <1>7, <2>1 DEF RowStep, Overlaid
  <2>2. CASE k # c
    BY <1>7, <2>2 DEF RowStep, Overlay, TypeOK
  <2>. QED
    BY <2>1, <2>2
<1>8. ASSUME NEW p \in Proc, NEW c \in BranchKey, NEW b \in Binding, NEW ttl \in Ttl,
             NEW now \in Nows, AttemptOnly(p, c, b, ttl, now)
      PROVE  RowStep(k)
  <2>. DEFINE mark == [binding |-> b, origin |-> "attempt_only",
                       previousExpires |-> 0, attemptExpires |-> 0]
  <2>1. CASE k = c
    <3>1. mark \in Marker /\ mark.origin = "attempt_only"
      BY DEF Marker, Origin
    <3>2. lease'[k] = NewRow(OwnerOf[p], AttemptPurpose, now, ttl, mark)
      BY <1>8, <2>1 DEF AttemptOnly, TypeOK
    <3>3. OwnerOf[p] \in Lane => nonces' = nonces + 1
      BY <1>8 DEF AttemptOnly, DrawNonce
    <3>4. ~Live(lease[k], now) /\ OwnerOf[p] \notin terminal /\ UNCHANGED terminal
      BY <1>8, <2>1 DEF AttemptOnly, MayAcquire
    <3>. HIDE DEF mark
    <3>. QED
      BY <3>1, <3>2, <3>3, <3>4 DEF RowStep, Made
  <2>2. CASE k # c
    BY <1>8, <2>2 DEF RowStep, AttemptOnly, TypeOK
  <2>. QED
    BY <2>1, <2>2
<1>9. ASSUME NEW p \in Proc, CompleteAttemptOnly(p)
      PROVE  RowStep(k)
  <2>1. CASE k = attempt[p].key
    BY <1>9, <2>1 DEF CompleteAttemptOnly, RowStep, Ended, TypeOK
  <2>2. CASE k # attempt[p].key
    BY <1>9, <2>2 DEF CompleteAttemptOnly, RowStep, TypeOK
  <2>. QED
    BY <2>1, <2>2
<1>10. ASSUME NEW p \in Proc, CompleteOverlay(p)
      PROVE  RowStep(k)
  <2>1. CASE k = attempt[p].key
    BY <1>10, <2>1 DEF RowStep, Unmarked
  <2>2. CASE k # attempt[p].key
    BY <1>10, <2>2 DEF CompleteOverlay, RowStep, TypeOK
  <2>. QED
    BY <2>1, <2>2
<1>11. ASSUME NEW p \in Proc, Forget(p)
      PROVE  RowStep(k)
  BY <1>11 DEF Forget, RowStep
<1>12. ASSUME NEW p \in Proc, NEW c \in Key, Look(p, c)
      PROVE  RowStep(k)
  BY <1>12 DEF Look, RowStep
<1>13. ASSUME NEW t \in Task, Terminalize(t)
      PROVE  RowStep(k)
  BY <1>13 DEF Terminalize, RowStep, Ended
<1>14. CASE Tick
  BY <1>14 DEF Tick, RowStep
<1>15. CASE UNCHANGED vars
  BY <1>15 DEF vars, RowStep
<1>. QED
  BY <1>1, <1>2, <1>3, <1>4, <1>5, <1>6, <1>7, <1>8, <1>9, <1>10, <1>11, <1>12,
     <1>13, <1>14, <1>15 DEF Next, LeaseStep, AttemptStep

\* An overlay keeps the owner and the nonce of the row, lengthens it and
\* notes what it was.
LEMMA OverlaidRow ==
    ASSUME TypeOK, NEW k \in BranchKey, NEW p \in Proc, NEW b \in Binding, NEW ttl \in Ttl,
           NEW now \in Nows, Overlay(p, k, b, ttl, now)
    PROVE  /\ lease[k] \in Row /\ lease'[k] \in Row
           /\ Live(lease[k], now) /\ lease[k].marker = None
           /\ lease'[k].owner = lease[k].owner /\ lease'[k].owner = OwnerOf[p]
           /\ lease'[k].nonce = lease[k].nonce /\ lease'[k].purpose = lease[k].purpose
           /\ lease'[k].acquired = lease[k].acquired
           /\ lease'[k].expires >= lease[k].expires /\ lease'[k].expires >= now + ttl
           /\ lease'[k].marker.origin = "preexisting"
           /\ lease'[k].marker.previousExpires = lease[k].expires
           /\ attempt' = [attempt EXCEPT ![p] = [key |-> k, row |-> lease'[k]]]
           /\ UNCHANGED <<clock, terminal, nonces>>
<1>. DEFINE row == lease[k]
            until == Later(row.expires, now + ttl)
            mark == [binding |-> b, origin |-> "preexisting",
                     previousExpires |-> row.expires, attemptExpires |-> until]
            marked == [row EXCEPT !.expires = until, !.marker = mark]
<1>1. row \in Row
  BY DEF Overlay, Live, TypeOK
<1>2. until \in Nat /\ until >= row.expires /\ until >= now + ttl
  <2>1. now + ttl \in Nat
    BY NowIsPast
  <2>. QED
    BY <1>1, <2>1 DEF Later, Row
<1>3. mark \in Marker /\ mark.origin = "preexisting" /\ mark.previousExpires = row.expires
  BY <1>1, <1>2 DEF Marker, Origin, Row
<1>4. lease'[k] = marked /\ attempt' = [attempt EXCEPT ![p] = [key |-> k, row |-> marked]]
  BY DEF Overlay, TypeOK
<1>. HIDE DEF until, mark
<1>5. /\ marked \in Row /\ marked.owner = row.owner /\ marked.nonce = row.nonce
      /\ marked.purpose = row.purpose /\ marked.acquired = row.acquired
      /\ marked.expires = until /\ marked.marker = mark
  BY <1>1, <1>2, <1>3 DEF Row
<1>6. Live(row, now) /\ row.owner = OwnerOf[p] /\ row.marker = None
      /\ UNCHANGED <<clock, terminal, nonces>>
  BY DEF Overlay
<1>. QED
  BY <1>1, <1>2, <1>3, <1>4, <1>5, <1>6

\* The end of an overlay keeps the owner and the nonce of the row and gives
\* it back the expiry that was noted.
LEMMA UnmarkedRow ==
    ASSUME TypeOK, NEW p \in Proc, CompleteOverlay(p)
    PROVE  LET k == attempt[p].key
           IN  /\ k \in BranchKey
               /\ lease[k] \in Row /\ lease'[k] \in Row
               /\ IsOverlaidBy(lease[k], attempt[p].row)
               /\ lease'[k].owner = lease[k].owner
               /\ lease'[k].nonce = lease[k].nonce /\ lease'[k].purpose = lease[k].purpose
               /\ lease'[k].marker = None
               /\ lease'[k].expires = lease[k].marker.previousExpires
               /\ attempt' = [attempt EXCEPT ![p] = None]
               /\ UNCHANGED <<clock, terminal, nonces>>
<1>. DEFINE k == attempt[p].key
            marked == attempt[p].row
<1>1. k \in BranchKey /\ marked \in Row /\ marked.marker \in Marker
  BY DEF CompleteOverlay, TypeOK, AttemptLease, Row
<1>2. lease[k] \in Row /\ IsOverlaidBy(lease[k], marked)
  BY <1>1 DEF CompleteOverlay, IsOverlaidBy, TypeOK
<1>3. lease[k].marker.previousExpires = marked.marker.previousExpires
      /\ marked.marker.previousExpires \in Nat
  BY <1>1, <1>2 DEF IsOverlaidBy, Marker
<1>4. lease'[k] = [lease[k] EXCEPT !.expires = marked.marker.previousExpires, !.marker = None]
  BY <1>1 DEF CompleteOverlay, TypeOK
<1>5. /\ lease'[k] \in Row /\ lease'[k].owner = lease[k].owner
      /\ lease'[k].nonce = lease[k].nonce /\ lease'[k].marker = None
      /\ lease'[k].purpose = lease[k].purpose
      /\ lease'[k].expires = marked.marker.previousExpires
  BY <1>2, <1>3, <1>4 DEF Row
<1>6. attempt' = [attempt EXCEPT ![p] = None] /\ UNCHANGED <<clock, terminal, nonces>>
  BY DEF CompleteOverlay
<1>. QED
  BY <1>1, <1>2, <1>3, <1>5, <1>6

\* A new row, and how long it lives: a lease is longer than any wait for the
\* write lock, so that it is live when it is committed.
LEMMA MadeRow ==
    ASSUME TypeOK, NEW k \in Key, Made(k)
    PROVE  /\ lease'[k] \in Row
           /\ lease'[k].owner \notin terminal /\ UNCHANGED terminal
           /\ lease'[k].expires > clock
           /\ lease'[k].owner \in Lane =>
                  lease'[k].nonce = nonces + 1 /\ nonces' = nonces + 1
           /\ lease'[k].owner \notin Lane => lease'[k].nonce = None
           /\ lease'[k].marker # None => lease'[k].marker.origin = "attempt_only"
           /\ lease[k] # None => lease'[k].expires > lease[k].expires
           /\ ~Live(lease[k], clock)
<1>1. PICK p \in Proc, purpose \in Purpose \cup {AttemptPurpose}, now \in Nows, ttl \in Ttl,
           marker \in Marker \cup {None} :
        /\ ~Live(lease[k], now)
        /\ OwnerOf[p] \notin terminal /\ UNCHANGED terminal
        /\ OwnerOf[p] \in Lane => nonces' = nonces + 1
        /\ marker # None => marker.origin = "attempt_only"
        /\ lease'[k] = NewRow(OwnerOf[p], purpose, now, ttl, marker)
  BY DEF Made
<1>2. now \in Nat /\ now <= clock /\ now + MaxLag >= clock
  BY NowIsPast
<1>3. ttl \in Nat /\ ttl > MaxLag /\ clock \in Nat /\ nonces \in Nat
  BY DEF TypeOK
<1>4. /\ lease'[k] \in Row /\ lease'[k].owner = OwnerOf[p] /\ lease'[k].expires = now + ttl
      /\ lease'[k].marker = marker
      /\ lease'[k].nonce = IF OwnerOf[p] \in Lane THEN nonces + 1 ELSE None
  BY <1>1, <1>2, <1>3 DEF NewRow, Row
<1>5. lease[k] # None => lease[k].expires \in Nat /\ lease[k].expires <= now
  BY <1>1, <1>2 DEF Live, TypeOK, Row
<1>6. now + ttl > clock /\ now + ttl > now
  BY <1>2, <1>3
<1>. QED
  BY <1>1, <1>2, <1>3, <1>4, <1>5, <1>6 DEF Live

-----------------------------------------------------------------------------
\* A live lease passes to another owner only after it was given up, for any
\* wait for the write lock.
THEOREM LiveLeaseIsNotTaken == Spec => NotTakenWhileLive
<1>. DEFINE A == \A k \in Key : Live(lease[k], clock) =>
                    lease'[k] = None \/ lease'[k].owner = lease[k].owner
<1>1. TypeOK /\ [Next]_vars => A
  <2>. SUFFICES ASSUME TypeOK, [Next]_vars, NEW k \in Key, Live(lease[k], clock)
                PROVE  lease'[k] = None \/ lease'[k].owner = lease[k].owner
    OBVIOUS
  <2>1. CASE Moved(k)
    BY <2>1 DEF Moved
  <2>2. CASE Made(k)
    BY <2>2, MadeRow
  <2>3. CASE Ended(k)
    BY <2>3 DEF Ended
  <2>4. CASE Overlaid(k)
    BY <2>4, OverlaidRow DEF Overlaid
  <2>5. CASE Unmarked(k)
    BY <2>5, UnmarkedRow DEF Unmarked
  <2>. QED
    BY <2>1, <2>2, <2>3, <2>4, <2>5, EveryStepIsARowStep DEF RowStep
<1>. QED
  BY <1>1, TypeCorrect, PTL DEF Spec, NotTakenWhileLive

\* No transaction shortens a live lease, for any wait for the write lock,
\* except Restore and the end of an attempt.
THEOREM LiveLeaseIsNotShortened == Spec => NeverShortened
<1>. DEFINE A == (\E p \in Proc : CompleteOverlay(p) \/ \E ks \in KeySets : Restore(p, ks))
                 \/ \A k \in Key : Live(lease[k], clock) /\ lease'[k] # None
                        => lease'[k].expires >= lease[k].expires
<1>1. TypeOK /\ [Next]_vars => A \/ UNCHANGED vars
  <2>. SUFFICES ASSUME TypeOK, [Next]_vars,
                       ~\E p \in Proc : CompleteOverlay(p) \/ \E ks \in KeySets : Restore(p, ks),
                       NEW k \in Key, Live(lease[k], clock), lease'[k] # None
                PROVE  lease'[k].expires >= lease[k].expires
    OBVIOUS
  <2>1. CASE lease'[k] = lease[k]
    BY <2>1 DEF TypeOK, Live, Row
  <2>2. CASE Moved(k)
    BY <2>2 DEF Moved
  <2>3. CASE Made(k)
    BY <2>3, MadeRow
  <2>4. CASE Ended(k)
    BY <2>4 DEF Ended
  <2>5. CASE Overlaid(k)
    BY <2>5, OverlaidRow DEF Overlaid
  <2>6. CASE Unmarked(k)
    BY <2>6 DEF Unmarked
  <2>. QED
    BY <2>1, <2>2, <2>3, <2>4, <2>5, <2>6, EveryStepIsARowStep DEF RowStep
<1>. QED
  BY <1>1, TypeCorrect, PTL DEF Spec, NeverShortened

\* A terminalized task holds nothing, whatever its late calls do.
THEOREM TerminalHoldsNothingEver == Spec => []TerminalHoldsNothing
<1>1. Init => TerminalHoldsNothing
  BY DEF Init, TerminalHoldsNothing
<1>2. TypeOK /\ TerminalHoldsNothing /\ [Next]_vars => TerminalHoldsNothing'
  <2>. SUFFICES ASSUME TypeOK, TerminalHoldsNothing, [Next]_vars,
                       NEW k \in Key, lease'[k] # None
                PROVE  lease'[k].owner \notin terminal'
    BY DEF TerminalHoldsNothing
  <2>1. ASSUME NEW t \in Task, Terminalize(t)
        PROVE  lease'[k].owner \notin terminal'
    BY <2>1 DEF Terminalize, TerminalHoldsNothing
  <2>2. CASE ~\E t \in Task : Terminalize(t)
    <3>1. UNCHANGED terminal
      <4>1. ASSUME NEW p \in Proc, LeaseStep(p) PROVE UNCHANGED terminal
        BY <4>1 DEF LeaseStep, Acquire, Renew, Restore, Rebind, Release, Reconcile
      <4>2. ASSUME NEW p \in Proc, AttemptStep(p) PROVE UNCHANGED terminal
        <5>1. CASE CompleteOverlay(p)
          BY <5>1, UnmarkedRow
        <5>2. CASE CompleteAttemptOnly(p)
          BY <5>2 DEF CompleteAttemptOnly
        <5>3. ASSUME NEW c \in BranchKey, NEW b \in Binding, NEW ttl \in Ttl, NEW now \in Nows,
                     Overlay(p, c, b, ttl, now)
              PROVE  UNCHANGED terminal
          BY <5>3 DEF Overlay
        <5>4. ASSUME NEW c \in BranchKey, NEW b \in Binding, NEW ttl \in Ttl, NEW now \in Nows,
                     AttemptOnly(p, c, b, ttl, now)
              PROVE  UNCHANGED terminal
          BY <5>4 DEF AttemptOnly
        <5>. QED
          BY <4>2, <5>1, <5>2, <5>3, <5>4 DEF AttemptStep
      <4>3. ASSUME NEW p \in Proc, Forget(p) \/ \E c \in Key : Look(p, c)
            PROVE  UNCHANGED terminal
        BY <4>3 DEF Forget, Look, table
      <4>4. CASE Tick \/ UNCHANGED vars
        BY <4>4 DEF Tick, vars, table
      <4>. QED
        BY <2>2, <4>1, <4>2, <4>3, <4>4 DEF Next
    <3>2. CASE lease'[k] = lease[k]
      BY <3>1, <3>2 DEF TerminalHoldsNothing
    <3>3. CASE Moved(k)
      BY <3>1, <3>3 DEF Moved, TerminalHoldsNothing
    <3>4. CASE Made(k)
      BY <3>1, <3>4, MadeRow
    <3>5. CASE Ended(k)
      BY <3>5 DEF Ended
    <3>6. CASE Overlaid(k)
      BY <3>1, <3>6, OverlaidRow, NoneAssumption DEF Overlaid, TerminalHoldsNothing
    <3>7. CASE Unmarked(k)
      BY <3>1, <3>7, UnmarkedRow, NoneAssumption DEF Unmarked, TerminalHoldsNothing
    <3>. QED
      BY <3>2, <3>3, <3>4, <3>5, <3>6, <3>7, EveryStepIsARowStep DEF RowStep
  <2>. QED
    BY <2>1, <2>2
<1>. QED
  BY <1>1, <1>2, TypeCorrect, PTL DEF Spec
=============================================================================
