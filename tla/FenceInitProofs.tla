----------------------------- MODULE FenceInitProofs -----------------------------
(***************************************************************************)
(* A crash while the fence store is being set up never costs the store:    *)
(* WholeOrAbsent and RefusedOnlyForLoss for any number of openers and of   *)
(* crashes.  Neither is inductive; Inv adds what the disk looks like at    *)
(* every step of the opener that holds the lock.  And files lost by        *)
(* accident never make two stores of one, as long as one file is left:     *)
(* OneStore, from StoreInv.                                                *)
(***************************************************************************)
EXTENDS FenceInit, FiniteSetTheorems, TLAPS

Absent == \A f \in File : file[f] = None
Whole == \E c \in 1..attempts : \A f \in File : file[f] = c

\* What the disk looks like when no file has been lost and p is opening.
Shape(p) ==
    /\ pc[p] = "look" => marker \/ Whole \/ Absent
    /\ pc[p] = "discard" => marker
    /\ pc[p] = "create" => marker /\ Absent
    /\ pc[p] = "draw" => /\ marker
                         /\ file["database"] = Empty
                         /\ file["key"] = None /\ file["anchor"] = None
    /\ pc[p] = "schema" => /\ marker
                           /\ sessionKey[p] = attempts /\ attempts > 0
                           /\ file["database"] = Empty
                           /\ file["key"] = attempts /\ file["anchor"] = None
    /\ pc[p] = "anchor" => /\ marker
                           /\ sessionKey[p] = attempts /\ attempts > 0
                           /\ file["database"] = attempts
                           /\ file["key"] = attempts /\ file["anchor"] = None
    /\ pc[p] = "read" => ~marker /\ Whole
    /\ pc[p] = "reconcile" => Whole
    /\ pc[p] = "finish" => marker /\ Whole

Inv ==
    /\ TypeOK
    /\ lost = {} => /\ marker \/ Whole \/ Absent
                    /\ \A p \in Proc : lock = p => Shape(p)

\* The initial state is well typed.
LEMMA InitTypes == Init => TypeOK
<1> SUFFICES ASSUME Init PROVE TypeOK
  OBVIOUS
<1>1. file \in [File -> Content] /\ sessionKey \in [Proc -> Content]
  BY DEF Init, Content
<1>2. pc \in [Proc -> Step] /\ \A p \in Proc : pc[p] = "closed"
  BY DEF Init, Step
<1>3. \A p \in Proc : lock = p <=> pc[p] \notin {"closed", "open"}
  BY <1>2, NoneIsNew DEF Init
<1>4. attempts \in Nat /\ crashes \in 0..MaxCrashes /\ lost \subseteq File
  BY InitBounds DEF Init
<1>5. marker \in BOOLEAN /\ lock \in Proc \cup {None}
  BY Zenon DEF Init
<1> QED
  BY <1>1, <1>2, <1>3, <1>4, <1>5, Zenon DEF TypeOK

\* The type invariant, including that only the opener has the lock.
THEOREM TypeCorrect == Spec => []TypeOK
<1>1. Init => TypeOK
  BY InitTypes
<1>2. TypeOK /\ [Next]_vars => TypeOK'
  <2> SUFFICES ASSUME TypeOK, [Next]_vars PROVE TypeOK'
    OBVIOUS
  <2> USE InitBounds, NoneIsNew DEF TypeOK, Content, Step
  <2>1. CASE UNCHANGED vars
    BY <2>1 DEF vars, diskVars, procVars
  <2>2. ASSUME NEW p \in Proc, Lock(p) PROVE TypeOK'
    BY <2>2 DEF Lock, Goto, diskVars
  <2>3. ASSUME NEW p \in Proc, FindMarker(p) \/ FindStore(p) PROVE TypeOK'
    BY <2>3 DEF FindMarker, FindStore, Goto, diskVars
  <2>4. ASSUME NEW p \in Proc, Discard(p) PROVE TypeOK'
    BY <2>4 DEF Discard, Goto, Put
  <2>5. ASSUME NEW p \in Proc, FindNothing(p) PROVE TypeOK'
    <3>1. marker' \in BOOLEAN
      BY <2>5, Zenon DEF FindNothing
    <3> QED
      BY <2>5, <3>1 DEF FindNothing, Goto
  <2>12. ASSUME NEW p \in Proc, Create(p) PROVE TypeOK'
    BY <2>12 DEF Create, Goto, Put, Empty
  <2>11. ASSUME NEW p \in Proc, Draw(p) PROVE TypeOK'
    <3>1. attempts' \in Nat
      BY <2>11 DEF Draw
    <3>2. file' \in [File -> Content] /\ sessionKey' \in [Proc -> Content]
      BY <2>11, <3>1 DEF Draw, Put
    <3> QED
      BY <2>11, <3>1, <3>2 DEF Draw, Goto
  <2>6. ASSUME NEW p \in Proc, CommitSchema(p) \/ WriteAnchor(p) PROVE TypeOK'
    BY <2>6 DEF CommitSchema, WriteAnchor, Goto, Put
  <2>7. ASSUME NEW p \in Proc, Finish(p) \/ Reconcile(p) PROVE TypeOK'
    BY <2>7 DEF Finish, Reconcile, Unlock, Goto, diskVars
  <2>8. ASSUME NEW p \in Proc, ReadKey(p) PROVE TypeOK'
    BY <2>8 DEF ReadKey, Goto, diskVars, File
  <2>9. ASSUME NEW p \in Proc, Close(p) \/ Refuse(p) \/ Crash(p) PROVE TypeOK'
    BY <2>9 DEF Close, Refuse, Crash, Leave, Goto, diskVars
  <2>10. ASSUME NEW f \in File, Lose(f) PROVE TypeOK'
    BY <2>10 DEF Lose, Put, procVars
  <2> QED
    BY <2>1, <2>2, <2>3, <2>4, <2>5, <2>6, <2>7, <2>8, <2>9, <2>10, <2>11, <2>12
       DEF Next, Opening, SetUp
<1> QED
  BY <1>1, <1>2, PTL DEF Spec

\* Init establishes the shape of the disk.
LEMMA InvInit == Init => Inv
<1> SUFFICES ASSUME Init PROVE Inv
  OBVIOUS
<1>1. TypeOK
  BY InitTypes
<1>2. Absent /\ lock = None
  BY DEF Init, Absent
<1> QED
  BY <1>1, <1>2, NoneIsNew DEF Inv

\* Every step keeps it.
LEMMA InvNext == Inv /\ TypeOK' /\ [Next]_vars => Inv'
<1> SUFFICES ASSUME Inv, TypeOK', [Next]_vars, lost' = {}
             PROVE  /\ (marker \/ Whole \/ Absent)'
                    /\ \A p \in Proc : (lock = p => Shape(p))'
  BY DEF Inv
<1>0. lost = {}
  BY DEF Next, vars, Opening, SetUp, Lock, FindMarker, FindStore, FindNothing,
         Discard, Create, Draw, CommitSchema, WriteAnchor, ReadKey, Reconcile,
         Refuse, Finish, Close, Crash, Leave, Unlock, Lose
<1>a. TypeOK /\ (marker \/ Whole \/ Absent) /\ \A p \in Proc : lock = p => Shape(p)
  BY <1>0 DEF Inv
<1> USE NoneIsNew DEF TypeOK, Content, Shape, Whole, Absent, File
<1>1. CASE UNCHANGED vars
  BY <1>1, <1>a DEF vars, diskVars, procVars
<1>2. ASSUME NEW p \in Proc, Lock(p) PROVE Inv'
  BY <1>2, <1>a DEF Lock, Goto, diskVars, Inv
<1>3. ASSUME NEW p \in Proc, FindMarker(p) \/ FindStore(p) PROVE Inv'
  BY <1>3, <1>a DEF FindMarker, FindStore, FilesMissing, Exists, Goto, diskVars, Inv
<1>4. ASSUME NEW p \in Proc, FindNothing(p) PROVE Inv'
  BY <1>4, <1>a DEF FindNothing, FilesMissing, Exists, Goto, Inv
<1>5. ASSUME NEW p \in Proc, Discard(p) PROVE Inv'
  BY <1>5, <1>a DEF Discard, Exists, Goto, Put, Inv
<1>6. ASSUME NEW p \in Proc, Create(p) PROVE Inv'
  BY <1>6, <1>a DEF Create, Exists, Goto, Put, Inv, Empty
<1>7. ASSUME NEW p \in Proc, Draw(p) PROVE Inv'
  BY <1>7, <1>a DEF Draw, Goto, Put, Inv, Empty
<1>8. ASSUME NEW p \in Proc, CommitSchema(p) PROVE Inv'
  BY <1>8, <1>a DEF CommitSchema, Goto, Put, Inv
<1>9. ASSUME NEW p \in Proc, WriteAnchor(p) PROVE Inv'
  BY <1>9, <1>a DEF WriteAnchor, Goto, Put, Inv
<1>10. ASSUME NEW p \in Proc, ReadKey(p) PROVE Inv'
  BY <1>10, <1>a DEF ReadKey, Goto, diskVars, Inv
<1>11. ASSUME NEW p \in Proc, Reconcile(p) \/ Finish(p) PROVE Inv'
  BY <1>11, <1>a DEF Reconcile, Finish, Unlock, Goto, diskVars, Inv
<1>12. ASSUME NEW p \in Proc, Close(p) PROVE Inv'
  BY <1>12, <1>a DEF Close, Goto, diskVars, Inv
<1>13. ASSUME NEW p \in Proc, Refuse(p) \/ Crash(p) PROVE Inv'
  BY <1>13, <1>a DEF Refuse, Crash, Leave, diskVars, Inv
<1>14. ASSUME NEW f \in File, Lose(f) PROVE Inv'
  BY <1>14 DEF Lose
<1> QED
  BY <1>1, <1>2, <1>3, <1>4, <1>5, <1>6, <1>7, <1>8, <1>9, <1>10, <1>11, <1>12,
     <1>13, <1>14 DEF Next, Opening, SetUp, Inv

\* The shape of the disk holds in every reachable state.
LEMMA InvHolds == Spec => []Inv
<1>1. Inv /\ TypeOK' /\ [Next]_vars => Inv'
  BY InvNext
<1> QED
  BY InvInit, <1>1, TypeCorrect, PTL DEF Spec

\* Wherever an opener died, without the marker the store is complete or not
\* there at all.
THEOREM WholeOrAbsentHolds == Spec => []WholeOrAbsent
<1>1. Inv => WholeOrAbsent
  BY DEF Inv, WholeOrAbsent, Whole, Absent
<1> QED
  BY <1>1, InvHolds, PTL

\* No crash of a set-up makes later openers refuse the store.
THEOREM RefusedOnlyForLossHolds == Spec => []RefusedOnlyForLoss
<1>1. ASSUME Inv, lost = {}, NEW p \in Proc PROVE ~Refuses(p)
  <2>1. lock = p \/ pc[p] \in {"closed", "open"}
    BY <1>1 DEF Inv, TypeOK
  <2>2. CASE pc[p] \in {"closed", "open"}
    BY <2>2 DEF Refuses
  <2>3. CASE lock = p
    <3>1. TypeOK /\ Shape(p)
      BY <1>1, <2>3 DEF Inv
    <3> QED
      BY <3>1, NoneIsNew
         DEF Shape, Whole, Absent, Refuses, FilesMissing, Exists, File, Empty, TypeOK
  <2> QED
    BY <2>1, <2>2, <2>3
<1>2. Inv => RefusedOnlyForLoss
  BY <1>1 DEF RefusedOnlyForLoss
<1> QED
  BY <1>2, InvHolds, PTL
-----------------------------------------------------------------------------
(* One store, as long as a file of it is left. *)

Made(p) == sessionKey[p] \in Nat /\ \A f \in File : file[f] = sessionKey[p]

\* What the opener that has the lock can rely on, whatever has been lost.
Under(p) ==
    /\ pc[p] = "discard" => marker
    /\ pc[p] = "create" => marker /\ Absent
    /\ pc[p] = "draw" => marker /\ file["key"] = None /\ file["anchor"] = None
    /\ pc[p] = "schema" => /\ marker /\ sessionKey[p] \in Nat
                           /\ file["key"] = sessionKey[p] /\ file["anchor"] = None
    /\ pc[p] = "anchor" => /\ marker /\ sessionKey[p] \in Nat
                           /\ file["key"] = sessionKey[p]
                           /\ file["database"] = sessionKey[p]
    /\ pc[p] = "read" => ~marker /\ \A f \in File : Exists(f)
    /\ pc[p] = "reconcile" => IF marker THEN Made(p)
                              ELSE /\ \A f \in File : Exists(f)
                                   /\ sessionKey[p] = file["key"]
    /\ pc[p] = "finish" => Made(p)

\* Outside a set-up the files that are there are of one attempt.
Uniform == ~marker => \E c \in Nat : \A f \in File : file[f] \in {c, None}

\* A store in use is not being set up, and what was never lost of it is there.
Used(p) ==
    pc[p] = "open" =>
        /\ ~marker
        /\ sessionKey[p] \in Nat
        /\ \A f \in File : /\ file[f] \in {sessionKey[p], None}
                           /\ f \notin lost => file[f] = sessionKey[p]

\* Some file has never been lost.
Kept == Cardinality(lost) <= 2 /\ lost # File

StoreInv ==
    /\ TypeOK
    /\ Kept
    /\ Uniform
    /\ \A p \in Proc : Used(p)
    /\ \A p \in Proc : lock = p => Under(p)

\* There is one that says whether there is a store.
LEMMA SomeFileIsKept ==
  ASSUME TypeOK, Kept
  PROVE  \E f \in File : f \notin lost
BY DEF TypeOK, Kept

\* One more file is lost, and still not all.
LEMMA LossIsBounded ==
  ASSUME MaxLost <= 2, TypeOK, Kept, NEW f \in File, Lose(f)
  PROVE  Kept'
<1>1. IsFiniteSet(File) /\ Cardinality(File) = 3
  <2>1. IsFiniteSet({"key"}) /\ Cardinality({"key"}) = 1
    BY FS_Singleton
  <2>2. /\ IsFiniteSet({"key"} \cup {"anchor"})
        /\ Cardinality({"key"} \cup {"anchor"}) = 2
    BY <2>1, FS_AddElement
  <2>3. /\ IsFiniteSet(({"key"} \cup {"anchor"}) \cup {"database"})
        /\ Cardinality(({"key"} \cup {"anchor"}) \cup {"database"}) = 3
    BY <2>2, FS_AddElement
  <2>4. File = ({"key"} \cup {"anchor"}) \cup {"database"}
    BY DEF File
  <2>. QED  BY <2>3, <2>4
<1>2. IsFiniteSet(lost) /\ Cardinality(lost) \in Nat
  BY <1>1, FS_Subset, FS_CardinalityType DEF TypeOK
<1>3. Cardinality(lost \cup {f}) \in Nat /\ Cardinality(lost \cup {f}) <= Cardinality(lost) + 1
  <2>1. CASE f \in lost
    <3>1. lost \cup {f} = lost
      BY <2>1
    <3>2. Cardinality(lost \cup {f}) = Cardinality(lost)
      BY <3>1
    <3>. QED  BY <3>2, <1>2
  <2>2. CASE f \notin lost
    <3>1. Cardinality(lost \cup {f}) = Cardinality(lost) + 1
      BY <2>2, <1>2, FS_AddElement
    <3>. QED  BY <3>1, <1>2
  <2>. QED  BY <2>1, <2>2
<1>4. Cardinality(lost) < 2 /\ lost' = lost \cup {f}
  BY <1>2, InitBounds DEF Lose
<1>5. Cardinality(lost \cup {f}) <= 2
  BY <1>2, <1>3, <1>4
<1>6. lost \cup {f} # File
  BY <1>1, <1>5
<1>. QED  BY <1>4, <1>5, <1>6 DEF Kept

\* Nothing is in use or under way at first.
LEMMA StoreInvInit == Init => StoreInv
<1>. SUFFICES ASSUME Init PROVE StoreInv
  OBVIOUS
<1>1. TypeOK
  BY InitTypes
<1>2. lost = {} /\ Cardinality({}) = 0
  BY FS_EmptySet DEF Init
<1>3. Kept
  BY <1>2 DEF Kept, File
<1>4. Uniform
  <2>1. 0 \in Nat /\ \A f \in File : file[f] \in {0, None}
    BY DEF Init
  <2>. QED  BY <2>1 DEF Uniform
<1>5. ASSUME NEW p \in Proc PROVE Used(p) /\ lock # p
  BY NoneIsNew DEF Used, Init
<1>. QED  BY <1>1, <1>3, <1>4, <1>5 DEF StoreInv

\* Every step keeps the store one.
LEMMA StoreInvNext ==
  ASSUME MaxLost <= 2, StoreInv, TypeOK', [Next]_vars
  PROVE  StoreInv'
<1>. USE NoneIsNew DEF TypeOK, Content, File
<1>1. TypeOK /\ Kept /\ Uniform /\ (\A p \in Proc : Used(p)) /\ \A p \in Proc : lock = p => Under(p)
  BY DEF StoreInv
<1>2. CASE UNCHANGED vars
  BY <1>1, <1>2 DEF vars, diskVars, procVars, StoreInv, Kept, Uniform, Used, Under, Made,
                    Absent, Exists
<1>3. ASSUME NEW f \in File, Lose(f) PROVE StoreInv'
  <2>1. Kept'
    BY <1>1, <1>3, LossIsBounded
  <2>2. Uniform'
    BY <1>1, <1>3 DEF Lose, Put, Uniform, Exists
  <2>3. ASSUME NEW p \in Proc PROVE Used(p)' /\ lock' # p
    BY <1>1, <1>3 DEF Lose, Put, Used, procVars
  <2>. QED  BY <2>1, <2>2, <2>3 DEF StoreInv
<1>4. ASSUME NEW p \in Proc, Lock(p) \/ FindMarker(p) \/ FindStore(p) \/ ReadKey(p) PROVE StoreInv'
  <2>1. /\ UNCHANGED <<file, marker, lost>>
        /\ \A q \in Proc : q # p => pc'[q] = pc[q] /\ sessionKey'[q] = sessionKey[q]
        /\ pc'[p] # "open" /\ lock' = p
    BY <1>1, <1>4 DEF Lock, FindMarker, FindStore, ReadKey, Goto, diskVars
  <2>2. Kept' /\ Uniform' /\ \A q \in Proc : Used(q)'
    BY <1>1, <2>1 DEF Kept, Uniform, Used
  <2>3. Under(p)'
    BY <1>1, <1>4 DEF Lock, FindMarker, FindStore, ReadKey, Goto, diskVars, FilesMissing,
                      Exists, Under
  <2>. QED  BY <2>1, <2>2, <2>3 DEF StoreInv
<1>5. ASSUME NEW p \in Proc, FindNothing(p) \/ Discard(p) \/ Create(p) \/ Draw(p)
                               \/ CommitSchema(p) \/ WriteAnchor(p)
      PROVE StoreInv'
  <2>1. /\ lost' = lost /\ lock = p /\ lock' = p /\ marker' = TRUE
        /\ \A q \in Proc : q # p => pc'[q] = pc[q] /\ sessionKey'[q] = sessionKey[q]
        /\ pc'[p] # "open"
    BY <1>1, <1>5 DEF FindNothing, Discard, Create, Draw, CommitSchema, WriteAnchor, Goto, Under
  <2>2. ASSUME NEW q \in Proc PROVE pc[q] # "open"
    <3>1. CASE marker
      BY <1>1, <3>1 DEF Used
    <3>2. CASE FindNothing(p)
      <4>1. PICK f \in File : f \notin lost
        BY <1>1, SomeFileIsKept
      <4>2. file[f] = None
        BY <3>2 DEF FindNothing, FilesMissing, Exists
      <4>. QED  BY <1>1, <4>1, <4>2 DEF Used
    <3>. QED  BY <3>1, <3>2, <1>5, <1>1, <2>1 DEF Discard, Create, Draw, CommitSchema,
                                                  WriteAnchor, Goto, Under
  <2>3. Kept' /\ Uniform' /\ \A q \in Proc : Used(q)'
    BY <1>1, <2>1, <2>2 DEF Kept, Uniform, Used
  <2>4. Under(p)'
    <3>1. CASE FindNothing(p)
      BY <1>1, <3>1, <2>1 DEF FindNothing, FilesMissing, Exists, Goto, Under, Absent
    <3>2. CASE Discard(p)
      BY <1>1, <3>2, <2>1 DEF Discard, Put, Exists, Goto, Under, Absent
    <3>3. CASE Create(p)
      BY <1>1, <3>3, <2>1 DEF Create, Put, Exists, Goto, Under, Absent
    <3>4. CASE Draw(p)
      BY <1>1, <3>4, <2>1 DEF Draw, Put, Goto, Under
    <3>5. CASE CommitSchema(p)
      BY <1>1, <3>5, <2>1 DEF CommitSchema, Put, Goto, Under
    <3>6. CASE WriteAnchor(p)
      BY <1>1, <3>6, <2>1 DEF WriteAnchor, Put, Goto, Under, Made
    <3>. QED  BY <1>5, <3>1, <3>2, <3>3, <3>4, <3>5, <3>6
  <2>. QED  BY <2>1, <2>3, <2>4 DEF StoreInv
<1>6. ASSUME NEW p \in Proc, Reconcile(p), lock' = lock PROVE StoreInv'
  <2>1. /\ UNCHANGED <<file, marker, lock, sessionKey, lost>> /\ lock = p /\ marker
        /\ pc[p] = "reconcile" /\ pc' = [pc EXCEPT ![p] = "finish"]
    BY <1>1, <1>6 DEF Reconcile, Goto, Unlock, diskVars
  <2>2. Kept' /\ Uniform' /\ \A q \in Proc : Used(q)'
    BY <1>1, <2>1 DEF Kept, Uniform, Used
  <2>3. Under(p)'
    BY <1>1, <2>1 DEF Under, Made
  <2>. QED  BY <2>1, <2>2, <2>3 DEF StoreInv
<1>7. ASSUME NEW p \in Proc, Finish(p) \/ (Reconcile(p) /\ lock' # lock) PROVE StoreInv'
  <2>1. /\ UNCHANGED <<file, sessionKey, lost>> /\ lock = p /\ lock' = None /\ ~marker'
        /\ pc' = [pc EXCEPT ![p] = "open"]
    BY <1>1, <1>7 DEF Finish, Reconcile, Goto, Unlock, diskVars
  <2>2. Made(p)
    <3>1. CASE Finish(p)
      BY <1>1, <2>1, <3>1 DEF Finish, Goto, Under
    <3>2. CASE Reconcile(p)
      BY <1>1, <2>1, <3>2, <1>7 DEF Reconcile, Goto, Under, Uniform, Exists, Made, diskVars
    <3>. QED  BY <1>7, <3>1, <3>2
  <2>3. Kept' /\ Uniform'
    BY <1>1, <2>1, <2>2 DEF Kept, Uniform, Made
  <2>4. ASSUME NEW q \in Proc PROVE Used(q)'
    BY <1>1, <2>1, <2>2 DEF Used, Made, Kept
  <2>. QED  BY <2>1, <2>3, <2>4 DEF StoreInv
<1>8. ASSUME NEW p \in Proc, Close(p) \/ Refuse(p) \/ Crash(p) PROVE StoreInv'
  <2>1. /\ UNCHANGED <<file, marker, lost>> /\ lock' \in {lock, None} /\ pc[p] # "closed"
        /\ pc' = [pc EXCEPT ![p] = "closed"]
        /\ sessionKey' = [sessionKey EXCEPT ![p] = None]
        /\ lock' = lock => lock # p
    BY <1>1, <1>8 DEF Close, Refuse, Crash, Leave, Goto, diskVars
  <2>2. Kept' /\ Uniform' /\ \A q \in Proc : Used(q)'
    BY <1>1, <2>1 DEF Kept, Uniform, Used
  <2>3. ASSUME NEW q \in Proc, lock' = q PROVE Under(q)'
    BY <1>1, <2>1, <2>3 DEF Under, Absent, Made, Exists
  <2>. QED  BY <2>2, <2>3 DEF StoreInv
<1>. QED
  BY <1>2, <1>3, <1>4, <1>5, <1>6, <1>7, <1>8, Zenon DEF Next, Opening, SetUp

\* Two processes that have the store open have the same store open, and it is
\* the one on disk, for any number of openers and crashes, as long as one of
\* its files has never been lost.
THEOREM OneStoreHolds ==
  ASSUME MaxLost <= 2
  PROVE  Spec => []OneStore
<1>1. StoreInv /\ TypeOK' /\ [Next]_vars => StoreInv'
  BY StoreInvNext
<1>2. StoreInv => OneStore
  <2>. SUFFICES ASSUME StoreInv PROVE OneStore
    OBVIOUS
  <2>1. PICK f \in File : f \notin lost
    BY SomeFileIsKept DEF StoreInv
  <2>2. ASSUME NEW p \in Proc, pc[p] = "open"
        PROVE  file[f] = sessionKey[p] /\ \A g \in File : Exists(g) => file[g] = sessionKey[p]
    BY <2>1, <2>2 DEF StoreInv, Used, Exists
  <2>. QED  BY <2>2 DEF OneStore
<1>. QED
  BY StoreInvInit, <1>1, <1>2, TypeCorrect, PTL DEF Spec
=============================================================================
