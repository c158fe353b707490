-------------------------- MODULE ReconcileCycleProofs --------------------------
(***************************************************************************)
(* Proofs about the reconciliation cycles, for any tasks, batch sizes and  *)
(* number of calls that are broken off.                                    *)
(***************************************************************************)
EXTENDS ReconcileCycle, SequenceTheorems, FiniteSetTheorems, NaturalsInduction, TLAPS

USE CycleAssumption, NoneAssumption

-----------------------------------------------------------------------------
(***************************************************************************)
(* Sequences of distinct tasks.                                            *)
(***************************************************************************)
Distinct(s) == s \in Seq(Task) /\ IsInjective(s)

\* A set of natural numbers has a least element.
LEMMA LeastNatural ==
    ASSUME NEW S \in SUBSET Nat, S # {}
    PROVE  \E n \in S : \A m \in S : n <= m
<1>1. PICK n \in S : \A m \in S : ~(<<m, n>> \in OpToRel(<, Nat))
  BY NatLessThanWellFounded, WFMin, Zenon
<1>2. \A m \in S : ~(m < n)
  BY <1>1 DEF OpToRel
<1>. QED  BY <1>2

\* What Among has selected from the first i elements.
Chosen(f, s, S, i) ==
    IF i = 0 THEN <<>> ELSE IF s[i] \in S THEN Append(f[i - 1], s[i]) ELSE f[i - 1]

LEMMA SelectionExists ==
    ASSUME NEW s \in Seq(Task), NEW S
    PROVE  \E f : f = [i \in 0..Len(s) |-> Chosen(f, s, S, i)]
<1>. DEFINE Upto(n) == \E f : f = [i \in 0..n |-> Chosen(f, s, S, i)]
            Missing == {n \in 0..Len(s) : ~Upto(n)}
<1>. Len(s) \in Nat
  OBVIOUS
<1>1. SUFFICES ASSUME Missing # {} PROVE FALSE
  OBVIOUS
<1>2. PICK n \in Missing : \A m \in Missing : n <= m
  <2>. HIDE DEF Upto
  <2>1. Missing \in SUBSET Nat
    OBVIOUS
  <2>. QED  BY <1>1, <2>1, LeastNatural
<1>3. CASE n = 0
  <2>. DEFINE f == [i \in 0..0 |-> <<>>]
  <2>1. f = [i \in 0..0 |-> Chosen(f, s, S, i)]
    BY DEF Chosen
  <2>. QED  BY <1>2, <1>3, <2>1
<1>4. CASE n # 0
  <2>1. n \in Nat /\ n - 1 \in 0..Len(s) /\ n - 1 \notin Missing
    BY <1>2, <1>4
  <2>2. PICK f : f = [i \in 0..(n - 1) |-> Chosen(f, s, S, i)]
    BY <2>1
  <2>. DEFINE g == [i \in 0..n |-> IF i = n THEN Chosen(f, s, S, n) ELSE f[i]]
  <2>3. ASSUME NEW i \in 0..n PROVE g[i] = Chosen(g, s, S, i)
    <3>1. CASE i = n
      <4>1. g[n - 1] = f[n - 1]
        BY <2>1
      <4>. QED  BY <1>4, <3>1, <4>1 DEF Chosen
    <3>2. CASE i # n
      <4>1. i \in 0..(n - 1) /\ g[i] = f[i]
        BY <2>1, <3>2
      <4>2. f[i] = Chosen(f, s, S, i)
        BY <2>2, <4>1
      <4>3. i # 0 => i - 1 \in 0..n /\ i - 1 # n
        BY <2>1, <4>1
      <4>4. i # 0 => g[i - 1] = f[i - 1]
        BY <4>3
      <4>. QED  BY <4>1, <4>2, <4>4 DEF Chosen
    <3>. QED  BY <3>1, <3>2
  <2>4. g = [i \in 0..n |-> Chosen(g, s, S, i)]
    BY <2>3
  <2>. QED  BY <1>2, <2>4
<1>. QED  BY <1>3, <1>4

LEMMA AppendIs ==
    ASSUME NEW s \in Seq(Task), NEW t \in Task
    PROVE  /\ Append(s, t) \in Seq(Task)
           /\ ToSet(Append(s, t)) = ToSet(s) \cup {t}
           /\ IsInjective(s) /\ t \notin ToSet(s) => IsInjective(Append(s, t))
<1>1. /\ Append(s, t) \in Seq(Task) /\ Len(s) \in Nat
      /\ DOMAIN s = 1..Len(s) /\ DOMAIN Append(s, t) = 1..(Len(s) + 1)
      /\ \A i \in 1..Len(s) : Append(s, t)[i] = s[i]
      /\ Append(s, t)[Len(s) + 1] = t
  OBVIOUS
<1>2. ToSet(Append(s, t)) = ToSet(s) \cup {t}
  <2>1. ASSUME NEW x \in ToSet(Append(s, t)) PROVE x \in ToSet(s) \cup {t}
    <3>1. PICK i \in 1..(Len(s) + 1) : x = Append(s, t)[i]
      BY <1>1 DEF ToSet
    <3>2. CASE i = Len(s) + 1
      BY <1>1, <3>1, <3>2
    <3>3. CASE i # Len(s) + 1
      <4>1. i \in 1..Len(s)
        BY <1>1, <3>3
      <4>. QED  BY <1>1, <3>1, <4>1 DEF ToSet
    <3>. QED  BY <3>2, <3>3
  <2>2. ASSUME NEW x \in ToSet(s) PROVE x \in ToSet(Append(s, t))
    <3>1. PICK i \in 1..Len(s) : x = s[i]
      BY <1>1 DEF ToSet
    <3>2. i \in 1..(Len(s) + 1)
      BY <1>1
    <3>. QED  BY <1>1, <3>1, <3>2 DEF ToSet
  <2>3. t \in ToSet(Append(s, t))
    <3>1. Len(s) + 1 \in 1..(Len(s) + 1)
      BY <1>1
    <3>. QED  BY <1>1, <3>1 DEF ToSet
  <2>. QED  BY <2>1, <2>2, <2>3
<1>3. ASSUME IsInjective(s), t \notin ToSet(s),
             NEW i \in 1..(Len(s) + 1), NEW j \in 1..(Len(s) + 1), Append(s, t)[i] = Append(s, t)[j]
      PROVE  i = j
  <2>1. \A k \in 1..Len(s) : s[k] # t
    BY <1>1, <1>3 DEF ToSet
  <2>2. CASE i \in 1..Len(s) /\ j \in 1..Len(s)
    BY <1>1, <1>3, <2>2 DEF IsInjective
  <2>3. CASE i \notin 1..Len(s) /\ j \notin 1..Len(s)
    BY <1>1, <2>3
  <2>4. CASE i \in 1..Len(s) /\ j \notin 1..Len(s)
    <3>1. j = Len(s) + 1
      BY <1>1, <2>4
    <3>. QED  BY <1>1, <1>3, <2>1, <2>4, <3>1
  <2>5. CASE i \notin 1..Len(s) /\ j \in 1..Len(s)
    <3>1. i = Len(s) + 1
      BY <1>1, <2>5
    <3>. QED  BY <1>1, <1>3, <2>1, <2>5, <3>1
  <2>. QED  BY <2>2, <2>3, <2>4, <2>5
<1>. QED  BY <1>1, <1>2, <1>3 DEF IsInjective

LEMMA ConcatIs ==
    ASSUME NEW s \in Seq(Task), NEW t \in Seq(Task)
    PROVE  /\ s \o t \in Seq(Task)
           /\ ToSet(s \o t) = ToSet(s) \cup ToSet(t)
           /\ IsInjective(s) /\ IsInjective(t) /\ ToSet(s) \cap ToSet(t) = {}
                 => IsInjective(s \o t)
<1>1. /\ s \o t \in Seq(Task) /\ Len(s) \in Nat /\ Len(t) \in Nat
      /\ DOMAIN s = 1..Len(s) /\ DOMAIN t = 1..Len(t)
      /\ DOMAIN (s \o t) = 1..(Len(s) + Len(t))
      /\ \A i \in 1..(Len(s) + Len(t)) : (s \o t)[i] = IF i <= Len(s) THEN s[i] ELSE t[i - Len(s)]
  BY ConcatProperties, LenProperties
<1>2. ToSet(s \o t) = ToSet(s) \cup ToSet(t)
  <2>1. ASSUME NEW x \in ToSet(s \o t) PROVE x \in ToSet(s) \cup ToSet(t)
    <3>1. PICK i \in 1..(Len(s) + Len(t)) : x = (s \o t)[i]
      BY <1>1 DEF ToSet
    <3>2. CASE i <= Len(s)
      <4>1. i \in 1..Len(s) /\ x = s[i]
        BY <1>1, <3>1, <3>2
      <4>. QED  BY <1>1, <4>1 DEF ToSet
    <3>3. CASE ~(i <= Len(s))
      <4>1. i - Len(s) \in 1..Len(t) /\ x = t[i - Len(s)]
        BY <1>1, <3>1, <3>3
      <4>. QED  BY <1>1, <4>1 DEF ToSet
    <3>. QED  BY <3>2, <3>3
  <2>2. ASSUME NEW x \in ToSet(s) PROVE x \in ToSet(s \o t)
    <3>1. PICK i \in 1..Len(s) : x = s[i]
      BY <1>1 DEF ToSet
    <3>2. i \in 1..(Len(s) + Len(t)) /\ i <= Len(s)
      BY <1>1
    <3>. QED  BY <1>1, <3>1, <3>2 DEF ToSet
  <2>3. ASSUME NEW x \in ToSet(t) PROVE x \in ToSet(s \o t)
    <3>1. PICK i \in 1..Len(t) : x = t[i]
      BY <1>1 DEF ToSet
    <3>2. Len(s) + i \in 1..(Len(s) + Len(t)) /\ ~(Len(s) + i <= Len(s)) /\ Len(s) + i - Len(s) = i
      BY <1>1
    <3>. QED  BY <1>1, <3>1, <3>2 DEF ToSet
  <2>. QED  BY <2>1, <2>2, <2>3
<1>3. ASSUME IsInjective(s), IsInjective(t), ToSet(s) \cap ToSet(t) = {},
             NEW i \in 1..(Len(s) + Len(t)), NEW j \in 1..(Len(s) + Len(t)), (s \o t)[i] = (s \o t)[j]
      PROVE  i = j
  <2>1. \A k \in 1..Len(s), l \in 1..Len(t) : s[k] # t[l]
    BY <1>1, <1>3 DEF ToSet
  <2>2. CASE i <= Len(s) /\ j <= Len(s)
    <3>1. i \in 1..Len(s) /\ j \in 1..Len(s) /\ s[i] = s[j]
      BY <1>1, <1>3, <2>2
    <3>. QED  BY <1>1, <1>3, <3>1 DEF IsInjective
  <2>3. CASE ~(i <= Len(s)) /\ ~(j <= Len(s))
    <3>1. i - Len(s) \in 1..Len(t) /\ j - Len(s) \in 1..Len(t) /\ t[i - Len(s)] = t[j - Len(s)]
      BY <1>1, <1>3, <2>3
    <3>2. i - Len(s) = j - Len(s)
      BY <1>1, <1>3, <3>1 DEF IsInjective
    <3>. QED  BY <1>1, <3>2
  <2>4. CASE i <= Len(s) /\ ~(j <= Len(s))
    <3>1. i \in 1..Len(s) /\ j - Len(s) \in 1..Len(t) /\ s[i] = t[j - Len(s)]
      BY <1>1, <1>3, <2>4
    <3>. QED  BY <2>1, <3>1
  <2>5. CASE ~(i <= Len(s)) /\ j <= Len(s)
    <3>1. j \in 1..Len(s) /\ i - Len(s) \in 1..Len(t) /\ s[j] = t[i - Len(s)]
      BY <1>1, <1>3, <2>5
    <3>. QED  BY <2>1, <3>1
  <2>. QED  BY <2>2, <2>3, <2>4, <2>5
<1>. QED  BY <1>1, <1>2, <1>3 DEF IsInjective

\* The elements of r come in the order they have in the first n of s.
InOrder(r, s, n) ==
    \A a \in 1..Len(r), b \in 1..Len(r) :
       a < b => \E j \in 1..n, k \in 1..n : j < k /\ r[a] = s[j] /\ r[b] = s[k]

\* What Among returns: the elements of s in S, none twice if none was, in their
\* order.
LEMMA AmongIs ==
    ASSUME NEW s \in Seq(Task), NEW S
    PROVE  /\ Among(s, S) \in Seq(Task)
           /\ ToSet(Among(s, S)) = ToSet(s) \cap S
           /\ IsInjective(s) => IsInjective(Among(s, S))
           /\ InOrder(Among(s, S), s, Len(s))
<1>. DEFINE f == CHOOSE f : f = [i \in 0..Len(s) |-> Chosen(f, s, S, i)]
<1>1. f = [i \in 0..Len(s) |-> Chosen(f, s, S, i)]
  BY SelectionExists
<1>2. Among(s, S) = f[Len(s)]
  BY DEF Among, Chosen
<1>. HIDE DEF f
<1>. DEFINE Good(i) == /\ f[i] \in Seq(Task)
                       /\ ToSet(f[i]) = {s[j] : j \in 1..i} \cap S
                       /\ IsInjective(s) => IsInjective(f[i])
                       /\ InOrder(f[i], s, i)
            Bad == {i \in 0..Len(s) : ~Good(i)}
<1>3. Bad = {}
  <2>1. SUFFICES ASSUME Bad # {} PROVE FALSE
    OBVIOUS
  <2>2. PICK n \in Bad : \A m \in Bad : n <= m
    <3>. HIDE DEF Good
    <3>1. Bad \in SUBSET Nat
      OBVIOUS
    <3>. QED  BY <2>1, <3>1, LeastNatural
  <2>3. CASE n = 0
    <3>1. f[0] = <<>>
      BY <1>1 DEF Chosen
    <3>2. Good(0)
      <4>1. ToSet(f[0]) = {} /\ IsInjective(f[0]) /\ f[0] \in Seq(Task)
        BY <3>1 DEF ToSet, IsInjective
      <4>2. {s[j] : j \in 1..0} = {}
        OBVIOUS
      <4>3. InOrder(f[0], s, 0)
        BY <3>1 DEF InOrder
      <4>. QED  BY <4>1, <4>2, <4>3
    <3>. QED  BY <2>2, <2>3, <3>2
  <2>4. CASE n # 0
    <3>1. n \in 1..Len(s) /\ n - 1 \in 0..Len(s) /\ Good(n - 1)
      <4>. HIDE DEF Good
      <4>1. n \in 0..Len(s) /\ Len(s) \in Nat
        BY <2>2
      <4>2. n \in 1..Len(s) /\ n - 1 \in 0..Len(s) /\ ~(n <= n - 1)
        BY <2>4, <4>1
      <4>. QED  BY <2>2, <4>2
    <3>3. f[n] = IF s[n] \in S THEN Append(f[n - 1], s[n]) ELSE f[n - 1]
      BY <1>1, <2>4, <3>1 DEF Chosen
    <3>4. s[n] \in Task /\ {s[j] : j \in 1..n} = {s[j] : j \in 1..(n - 1)} \cup {s[n]}
      BY <3>1
    <3>5. CASE s[n] \notin S
      <4>. DEFINE g == f[n - 1]
      <4>1. f[n] = g /\ InOrder(g, s, n - 1) /\ 1..(n - 1) \subseteq 1..n
        BY <3>1, <3>3, <3>5
      <4>. HIDE DEF g
      <4>2. InOrder(g, s, n)
        <5>1. ASSUME NEW a \in 1..Len(g), NEW b \in 1..Len(g), a < b
              PROVE  \E j \in 1..n, k \in 1..n : j < k /\ g[a] = s[j] /\ g[b] = s[k]
          <6>1. PICK j \in 1..(n - 1), k \in 1..(n - 1) : j < k /\ g[a] = s[j] /\ g[b] = s[k]
            BY <4>1, <5>1 DEF InOrder
          <6>. QED  BY <4>1, <6>1
        <5>. QED  BY <5>1 DEF InOrder
      <4>3. Good(n)
        BY <3>1, <3>3, <3>4, <3>5, <4>1, <4>2
      <4>. QED  BY <2>2, <4>3
    <3>6. CASE s[n] \in S
      <4>1. f[n] = Append(f[n - 1], s[n])
        BY <3>3, <3>6
      <4>2. f[n] \in Seq(Task) /\ ToSet(f[n]) = ToSet(f[n - 1]) \cup {s[n]}
        BY <3>1, <3>4, <4>1, AppendIs
      <4>3. IsInjective(s) => s[n] \notin ToSet(f[n - 1])
        <5>1. IsInjective(s) => \A j \in 1..(n - 1) : s[j] # s[n]
          BY <3>1 DEF IsInjective
        <5>. QED  BY <3>1, <5>1
      <4>4. IsInjective(s) => IsInjective(f[n])
        BY <3>1, <3>4, <4>1, <4>3, AppendIs
      <4>5. ASSUME NEW a \in 1..Len(f[n]), NEW b \in 1..Len(f[n]), a < b
            PROVE  \E j \in 1..n, k \in 1..n : j < k /\ f[n][a] = s[j] /\ f[n][b] = s[k]
        <5>1. /\ Len(f[n - 1]) \in Nat /\ Len(f[n]) = Len(f[n - 1]) + 1
              /\ \A i \in 1..Len(f[n - 1]) : f[n][i] = f[n - 1][i]
              /\ f[n][Len(f[n - 1]) + 1] = s[n]
          BY <3>1, <3>4, <4>1
        <5>2. a \in 1..Len(f[n - 1])
          BY <4>5, <5>1
        <5>3. CASE b \in 1..Len(f[n - 1])
          <6>1. PICK j \in 1..(n - 1), k \in 1..(n - 1) :
                    j < k /\ f[n - 1][a] = s[j] /\ f[n - 1][b] = s[k]
            BY <3>1, <4>5, <5>2, <5>3 DEF InOrder
          <6>2. j \in 1..n /\ k \in 1..n
            BY <3>1
          <6>. QED  BY <5>1, <5>2, <5>3, <6>1, <6>2
        <5>4. CASE b \notin 1..Len(f[n - 1])
          <6>1. b = Len(f[n - 1]) + 1
            BY <4>5, <5>1, <5>4
          <6>2. f[n - 1][a] \in ToSet(f[n - 1])
            BY <3>1, <5>2 DEF ToSet
          <6>3. PICK j \in 1..(n - 1) : f[n - 1][a] = s[j]
            BY <3>1, <6>2
          <6>4. j \in 1..n /\ n \in 1..n /\ j < n
            BY <3>1
          <6>. QED  BY <5>1, <5>2, <6>1, <6>3, <6>4
        <5>. QED  BY <5>3, <5>4
      <4>6. InOrder(f[n], s, n)
        BY <4>5 DEF InOrder
      <4>7. Good(n)
        BY <3>1, <3>4, <3>6, <4>2, <4>4, <4>6
      <4>. QED  BY <2>2, <4>7
    <3>. QED  BY <3>5, <3>6
  <2>. QED  BY <2>3, <2>4
<1>4. Good(Len(s))
  <2>. HIDE DEF Good
  <2>1. Len(s) \in 0..Len(s)
    OBVIOUS
  <2>. QED  BY <1>3, <2>1
<1>5. ToSet(s) = {s[j] : j \in 1..Len(s)}
  BY DEF ToSet
<1>. QED  BY <1>2, <1>4, <1>5

LEMMA WithoutIs ==
    ASSUME NEW s \in Seq(Task), NEW S
    PROVE  /\ Without(s, S) \in Seq(Task)
           /\ ToSet(Without(s, S)) = ToSet(s) \ S
           /\ IsInjective(s) => IsInjective(Without(s, S))
  BY AmongIs DEF Without

\* The first elements are elements.
LEMMA FirstIs ==
    ASSUME NEW s \in Seq(Task), NEW n \in Nat
    PROVE  /\ First(s, n) \in Seq(Task)
           /\ ToSet(First(s, n)) \subseteq ToSet(s)
<1>. DEFINE m == IF n < Len(s) THEN n ELSE Len(s)
<1>1. m \in Nat /\ m <= Len(s) /\ 1..m \subseteq 1..Len(s)
  OBVIOUS
<1>2. First(s, n) = SubSeq(s, 1, m)
  BY DEF First
<1>. HIDE DEF m
<1>3. \A i \in 1..m : s[i] \in Task
  BY <1>1
<1>4. /\ SubSeq(s, 1, m) \in Seq(Task)
      /\ Len(SubSeq(s, 1, m)) = m
      /\ \A i \in 1..m : SubSeq(s, 1, m)[i] = s[i]
  BY <1>1, <1>3, SubSeqProperties
<1>. QED  BY <1>1, <1>2, <1>4 DEF ToSet

\* A finite set of tasks as a sequence.
LEMMA SetToSeqIs ==
    ASSUME NEW S \in SUBSET Task, IsFiniteSet(S)
    PROVE  /\ SetToSeq(S) \in Seq(Task)
           /\ ToSet(SetToSeq(S)) = S
           /\ IsInjective(SetToSeq(S))
<1>. DEFINE n == Cardinality(S)
            q == SetToSeq(S)
<1>1. n \in Nat /\ ExistsBijection(1..n, S)
  BY FS_CardinalityType
<1>2. \E f \in [1..n -> S] : IsInjective(f)
  BY <1>1 DEF ExistsBijection, Bijection, Injection, IsInjective
<1>3. q \in [1..n -> S] /\ IsInjective(q)
  BY <1>2 DEF SetToSeq
<1>4. IsFiniteSet(1..n) /\ Cardinality(1..n) = n
  BY <1>1, FS_Interval
<1>. HIDE DEF q
<1>5. q \in Injection(1..n, S)
  BY <1>3 DEF Injection, IsInjective
<1>6. q \in Surjection(1..n, S)
  BY <1>4, <1>5, FS_Injection
<1>7. ToSet(q) = S
  BY <1>3, <1>6 DEF Surjection, ToSet
<1>8. q \in Seq(Task)
  BY <1>1, <1>3
<1>. QED  BY <1>3, <1>7, <1>8 DEF q

-----------------------------------------------------------------------------
(***************************************************************************)
(* The rows, the saved cycles and the batch belong together.  What failed  *)
(* stays in the line, also while its terminalization is pending: without   *)
(* that, a row could be closed that is not there.  And the cycle a batch   *)
(* will save is about rows that are still there when it does.              *)
(***************************************************************************)
RowsOK ==
    /\ Distinct(line) /\ Distinct(pending)
    /\ due \cup shut \subseteq ToSet(line)
    /\ due \cap shut = {}
    /\ ToSet(pending) \cap (due \cup shut) = {}
    /\ shut \subseteq Failing
    /\ ToSet(pending) \cap Failing \subseteq ToSet(line)

CycleOK(c) ==
    c # None => c \in Cycle /\ c.left \subseteq c.within /\ c.within \subseteq ToSet(line)

Batch == [todo : Seq(Task), after : Cycle \cup {None}, turn : Phase]

CycleInv ==
    /\ RowsOK
    /\ CycleOK(cycle)
    /\ behind # None => behind \subseteq ToSet(pending)
    /\ turn \in Phase
    /\ batch # None => batch \in Batch /\ CycleOK(batch.after)
    /\ aborts \in 0..MaxAborts

LEMMA InvImpliesTypeOK == CycleInv => TypeOK
  BY DEF CycleInv, RowsOK, CycleOK, Batch, Distinct, TypeOK

LEMMA CycleInvInit == Init => CycleInv
<1>. SUFFICES ASSUME Init PROVE CycleInv
  OBVIOUS
<1>1. <<>> \in Seq(Task) /\ ToSet(<<>>) = {} /\ IsInjective(<<>>)
  BY DEF ToSet, IsInjective
<1>2. "terminalization" \in Phase /\ 0 \in 0..MaxAborts
  BY DEF Phase
<1>. QED  BY <1>1, <1>2 DEF Init, CycleInv, RowsOK, CycleOK, Distinct

\* The verdicts of tasks that ended reach their rows.
LEMMA ClosedRows ==
    ASSUME RowsOK, NEW S, S \subseteq due \cup ToSet(pending), NEW P, P \subseteq S,
           IsFiniteSet(P), Closed(S, P)
    PROVE  /\ RowsOK'
           /\ ToSet(line') = ToSet(line) \ Leaving(S)
           /\ ToSet(pending) \ (S \ P) \subseteq ToSet(pending')
<1>1. S \cap P = P /\ P \in SUBSET Task
  <2>1. \A q \in Seq(Task) : ToSet(q) \subseteq Task
    BY DEF ToSet
  <2>. QED  BY <2>1 DEF RowsOK, Distinct
<1>2. /\ Distinct(line') /\ ToSet(line') = ToSet(line) \ Leaving(S)
  BY WithoutIs DEF Closed, RowsOK, Distinct
<1>. DEFINE left == Without(pending, S \ P)
            new == Without(SetToSeq(P), ToSet(pending))
<1>3. /\ Distinct(left) /\ ToSet(left) = ToSet(pending) \ (S \ P)
  BY WithoutIs DEF RowsOK, Distinct
<1>4. /\ Distinct(new) /\ ToSet(new) \subseteq P \ ToSet(pending)
  BY <1>1, SetToSeqIs, WithoutIs DEF Distinct
<1>5. /\ pending' = left \o new
      /\ due' = due \ S
      /\ shut' = shut \cup ((S \cap Failing) \ P)
  BY <1>1 DEF Closed
<1>. HIDE DEF left, new
<1>6. /\ Distinct(pending')
      /\ ToSet(pending') = ToSet(left) \cup ToSet(new)
  BY <1>3, <1>4, <1>5, ConcatIs DEF Distinct
<1>7. due' \cup shut' \subseteq ToSet(line')
  BY <1>2, <1>5 DEF RowsOK, Leaving
<1>8. due' \cap shut' = {} /\ shut' \subseteq Failing
  BY <1>5 DEF RowsOK
<1>9. ToSet(pending') \cap (due' \cup shut') = {}
  BY <1>3, <1>4, <1>5, <1>6 DEF RowsOK
<1>10. ToSet(pending') \cap Failing \subseteq ToSet(line')
  BY <1>2, <1>3, <1>4, <1>6 DEF RowsOK, Leaving
<1>. QED  BY <1>2, <1>3, <1>6, <1>7, <1>8, <1>9, <1>10 DEF RowsOK

\* A cycle that is trimmed is about the rows that are left.
LEMMA TrimmedOK ==
    ASSUME NEW c, CycleOK(c), NEW S, ToSet(line') = ToSet(line) \ S
    PROVE  /\ Trimmed(c, S) # None =>
                  /\ Trimmed(c, S) \in Cycle
                  /\ Trimmed(c, S).left \subseteq Trimmed(c, S).within
                  /\ Trimmed(c, S).within \subseteq ToSet(line')
           /\ Trimmed(c, S) \in Cycle \cup {None}
  BY DEF Trimmed, CycleOK, Cycle

LEMMA LeftPendingRows ==
    ASSUME RowsOK, NEW t \in Task, t \in due, LeftPending(t)
    PROVE  RowsOK' /\ line' = line /\ ToSet(pending) \subseteq ToSet(pending')
<1>1. pending' = Append(pending, t) /\ due' = due \ {t} /\ UNCHANGED <<line, shut>>
  BY DEF LeftPending
<1>2. t \notin ToSet(pending) /\ t \notin shut /\ t \in ToSet(line)
  BY DEF RowsOK
<1>3. Distinct(pending') /\ ToSet(pending') = ToSet(pending) \cup {t}
  BY <1>1, <1>2, AppendIs DEF RowsOK, Distinct
<1>. QED  BY <1>1, <1>2, <1>3 DEF RowsOK

\* A cycle that is trimmed in a step that closes no row but those it is trimmed by.
LEMMA CursorsOK ==
    ASSUME NEW c, CycleOK(c), NEW b, b # None => b \subseteq ToSet(pending), NEW S, NEW P,
           ToSet(line') = ToSet(line) \ Leaving(S),
           ToSet(pending) \ (S \ P) \subseteq ToSet(pending'),
           CursorsAfter(c, b, S, P)
    PROVE  /\ CycleOK(cycle)'
           /\ behind' # None => behind' \subseteq ToSet(pending')
<1>1. CycleOK(cycle)'
  BY TrimmedOK DEF CursorsAfter, CycleOK
<1>. QED  BY <1>1 DEF CursorsAfter

\* A page of each scan comes from what is there.
LEMMA CurrentOK ==
    ASSUME RowsOK, CycleOK(cycle)
    PROVE  CycleOK(Current) /\ Current \in Cycle
<1>1. ToSet(line) \in SUBSET Task
  BY DEF RowsOK, Distinct, ToSet
<1>. QED  BY <1>1 DEF CycleOK, Current, Cycle

LEMMA CycleAfterOK ==
    ASSUME RowsOK, CycleOK(cycle), NEW l, NEW active, NEW n
    PROVE  CycleOK(CycleAfter(l, active, n))
<1>1. Current \in Cycle /\ CycleOK(Current) /\ Current.left \subseteq Current.within
      /\ Current.within \subseteq ToSet(line)
  BY CurrentOK DEF CycleOK, Current, Cycle
<1>. QED  BY <1>1 DEF CycleAfter, CycleOK, Cycle

LEMMA BacklogIs ==
    ASSUME RowsOK
    PROVE  Backlog \in Seq(Task) /\ ToSet(Backlog) \subseteq ToSet(pending)
  BY AmongIs DEF Backlog, RowsOK, Distinct

LEMMA BehindAfterOK ==
    ASSUME RowsOK, behind # None => behind \subseteq ToSet(pending), NEW n
    PROVE  BehindAfter(n) # None => BehindAfter(n) \subseteq ToSet(pending)
  BY BacklogIs DEF BehindAfter

LEMMA SharesIs ==
    ASSUME NEW free \in Nat, NEW tasks \in Nat, NEW terms \in Nat, turn \in Phase
    PROVE  /\ Shares(free, tasks, terms).terms \in Nat
           /\ Shares(free, tasks, terms).tasks \in Nat
           /\ Shares(free, tasks, terms).turn \in Phase
<1>. DEFINE half == (free + 1) \div 2
<1>1. half \in Nat /\ half <= free
  OBVIOUS
<1>. HIDE DEF half
<1>2. /\ free - Least(free, terms) \in Nat
      /\ free - Least(half, terms) \in Nat
      /\ free - Least(half, tasks) \in Nat
  BY <1>1 DEF Least
<1>. QED  BY <1>1, <1>2 DEF Shares, half, Phase

\* A row is taken off the batch.
LEMMA TakenOff ==
    ASSUME batch \in Batch, batch.todo # <<>>, NEW a \in Cycle \cup {None}
    PROVE  /\ [batch EXCEPT !.todo = Tail(@)] \in Batch
           /\ [batch EXCEPT !.todo = Tail(@)].after = batch.after
           /\ [batch EXCEPT !.todo = Tail(@), !.after = a] \in Batch
           /\ [batch EXCEPT !.todo = Tail(@), !.after = a].after = a
<1>. DEFINE Cycles == Cycle \cup {None}
            rest == Tail(batch.todo)
<1>1. batch \in [todo : Seq(Task), after : Cycles, turn : Phase] /\ a \in Cycles
  BY DEF Batch
<1>2. rest \in Seq(Task)
  BY <1>1
<1>. HIDE DEF Cycles, rest
<1>3. /\ [batch EXCEPT !.todo = rest] \in [todo : Seq(Task), after : Cycles, turn : Phase]
      /\ [batch EXCEPT !.todo = rest].after = batch.after
  BY <1>1, <1>2
<1>4. /\ [batch EXCEPT !.todo = rest, !.after = a] \in [todo : Seq(Task), after : Cycles, turn : Phase]
      /\ [batch EXCEPT !.todo = rest, !.after = a].after = a
  BY <1>1, <1>2
<1>. QED  BY <1>3, <1>4 DEF Batch, Cycles, rest

\* What a batch is given: its shares are numbers, what is looked at out of turn is
\* a finite set, and what is carried through was pending.
LEMMA SharesOfBatch ==
    ASSUME CycleInv, NEW looked \in Page, NEW active \in SUBSET looked
    PROVE  LET share == Shares(Limit - Cardinality(looked), Len(Rest(line, active)), Len(Backlog))
           IN  /\ share.terms \in Nat /\ share.tasks \in Nat /\ share.turn \in Phase
               /\ active \in SUBSET Task /\ IsFiniteSet(active)
               /\ ToSet(First(Backlog, share.terms)) \ Poison \subseteq ToSet(pending)
<1>. DEFINE share == Shares(Limit - Cardinality(looked), Len(Rest(line, active)), Len(Backlog))
<1>1. IsFiniteSet(active) /\ active \in SUBSET Task /\ Limit - Cardinality(looked) \in Nat
  <2>1. IsFiniteSet(looked) /\ looked \in SUBSET Task /\ Cardinality(looked) <= ActiveLimit
    BY DEF Page
  <2>2. IsFiniteSet(active) /\ Cardinality(looked) \in Nat
    BY <2>1, FS_Subset, FS_CardinalityType
  <2>. QED  BY <2>1, <2>2
<1>2. Rest(line, active) \in Seq(Task) /\ Backlog \in Seq(Task)
  BY AmongIs, BacklogIs DEF Rest, CycleInv, RowsOK, Distinct
<1>3. share.terms \in Nat /\ share.tasks \in Nat /\ share.turn \in Phase
  <2>1. Len(Rest(line, active)) \in Nat /\ Len(Backlog) \in Nat
    BY <1>2
  <2>. QED  BY <1>1, <2>1, SharesIs DEF CycleInv
<1>. HIDE DEF share
<1>4. ToSet(First(Backlog, share.terms)) \ Poison \subseteq ToSet(pending)
  BY <1>3, BacklogIs, FirstIs DEF CycleInv
<1>. QED  BY <1>1, <1>3, <1>4 DEF share

LEMMA SelectKeeps ==
    ASSUME CycleInv, NEW looked \in Page, NEW active \in SUBSET looked, Select(looked, active)
    PROVE  CycleInv'
<1>. DEFINE share == Shares(Limit - Cardinality(looked), Len(Rest(line, active)), Len(Backlog))
            done == ToSet(First(Backlog, share.terms)) \ Poison
            l == IF share.first = "tasks" THEN line ELSE Without(line, Leaving(done))
            after == CycleAfter(l, active, share.tasks)
<1>1. /\ batch = None /\ UNCHANGED <<turn, aborts>>
      /\ Closed(done, {})
      /\ CursorsAfter(Current, BehindAfter(share.terms), done, {})
      /\ batch' = [todo |-> SetToSeq(active)
                      \o Without(First(Rest(l, active), share.tasks), ToSet(pending) \cup shut),
                   after |-> Trimmed(after, Leaving(done)),
                   turn |-> share.turn]
  BY DEF Select
<1>2. /\ share.terms \in Nat /\ share.tasks \in Nat /\ share.turn \in Phase
      /\ active \in SUBSET Task /\ IsFiniteSet(active)
      /\ done \subseteq ToSet(pending)
  BY SharesOfBatch
<1>3. l \in Seq(Task)
  BY WithoutIs DEF CycleInv, RowsOK, Distinct
<1>4. Rest(l, active) \in Seq(Task)
  <2>. HIDE DEF l
  <2>. QED  BY <1>3, AmongIs DEF Rest
<1>. HIDE DEF share, done, l
<1>5. /\ RowsOK'
      /\ ToSet(line') = ToSet(line) \ Leaving(done)
      /\ ToSet(pending) \ (done \ {}) \subseteq ToSet(pending')
  BY <1>1, <1>2, ClosedRows, FS_EmptySet DEF CycleInv
<1>6. CycleOK(cycle)' /\ (behind' # None => behind' \subseteq ToSet(pending'))
  <2>1. CycleOK(Current)
    BY CurrentOK DEF CycleInv
  <2>2. BehindAfter(share.terms) # None => BehindAfter(share.terms) \subseteq ToSet(pending)
    BY BehindAfterOK DEF CycleInv
  <2>. QED  BY <1>1, <1>5, <2>1, <2>2, CursorsOK
<1>7. CycleOK(after)
  BY CycleAfterOK DEF CycleInv
<1>. HIDE DEF after
<1>8. Trimmed(after, Leaving(done)) \in Cycle \cup {None}
  BY <1>5, <1>7, TrimmedOK
<1>9. batch' \in Batch /\ batch'.after = Trimmed(after, Leaving(done))
  <2>. DEFINE todo == SetToSeq(active)
                         \o Without(First(Rest(l, active), share.tasks), ToSet(pending) \cup shut)
              Cycles == Cycle \cup {None}
              a == Trimmed(after, Leaving(done))
  <2>1. todo \in Seq(Task)
    BY <1>2, <1>4, SetToSeqIs, FirstIs, WithoutIs, ConcatIs
  <2>2. a \in Cycles
    BY <1>8
  <2>3. batch' = [todo |-> todo, after |-> a, turn |-> share.turn]
    BY <1>1
  <2>. HIDE DEF todo, Cycles, a
  <2>4. batch' \in [todo : Seq(Task), after : Cycles, turn : Phase] /\ batch'.after = a
    BY <1>2, <2>1, <2>2, <2>3
  <2>. QED  BY <2>4 DEF Batch, Cycles, a
<1>10. CycleOK(batch.after)'
  BY <1>5, <1>7, <1>9, TrimmedOK DEF CycleOK
<1>. QED  BY <1>1, <1>5, <1>6, <1>9, <1>10 DEF CycleInv

LEMMA CycleInvStep == CycleInv /\ [Next]_vars => CycleInv'
<1>. SUFFICES ASSUME CycleInv, [Next]_vars PROVE CycleInv'
  OBVIOUS
<1>1. CASE SelectAny
  BY <1>1, SelectKeeps DEF SelectAny
<1>2. CASE Save
  BY <1>2 DEF Save, CycleInv, RowsOK, Distinct, CycleOK, Batch, rows
<1>3. CASE Aborts
  <2>1. aborts' \in 0..MaxAborts /\ batch' = None /\ UNCHANGED <<cycle, behind, turn>>
    BY <1>3 DEF Aborts, CycleInv
  <2>2. RowsOK' /\ line' = line /\ ToSet(pending) \subseteq ToSet(pending')
    <3>1. CASE UNCHANGED rows
      BY <3>1 DEF CycleInv, RowsOK, Distinct, rows
    <3>2. CASE \E t \in due : LeftPending(t)
      <4>1. \A t \in due : t \in Task
        BY DEF CycleInv, RowsOK, Distinct, ToSet
      <4>. QED  BY <3>2, <4>1, LeftPendingRows DEF CycleInv
    <3>. QED  BY <1>3, <3>1, <3>2 DEF Aborts
  <2>. QED  BY <2>1, <2>2 DEF CycleInv, CycleOK
<1>4. ASSUME NEW t \in Task, RefreshOpen(t) PROVE CycleInv'
  <2>1. batch \in Batch /\ batch.todo # <<>> /\ CycleOK(batch.after)
    BY <1>4 DEF RefreshOpen, UpNext, CycleInv
  <2>2. batch' \in Batch /\ batch'.after = batch.after
    BY <1>4, <2>1, TakenOff DEF RefreshOpen
  <2>. QED  BY <1>4, <2>1, <2>2 DEF RefreshOpen, CycleInv, RowsOK, Distinct, CycleOK, rows
<1>5. ASSUME NEW t \in Task, RefreshEnded(t) PROVE CycleInv'
  <2>1. batch \in Batch /\ batch.todo # <<>> /\ CycleOK(batch.after)
    BY <1>5 DEF RefreshEnded, UpNext, CycleInv
  <2>2. /\ RowsOK'
        /\ ToSet(line') = ToSet(line) \ Leaving({t})
        /\ ToSet(pending) \ ({t} \ {}) \subseteq ToSet(pending')
    <3>1. RowsOK /\ {t} \subseteq due \cup ToSet(pending) /\ Closed({t}, {})
      BY <1>5 DEF RefreshEnded, CycleInv
    <3>. QED  BY <3>1, ClosedRows, FS_EmptySet
  <2>3. CycleOK(cycle)' /\ (behind' # None => behind' \subseteq ToSet(pending'))
    <3>1. /\ CycleOK(cycle) /\ (behind # None => behind \subseteq ToSet(pending))
          /\ CursorsAfter(cycle, behind, {t}, {})
      BY <1>5 DEF RefreshEnded, CycleInv
    <3>. QED  BY <2>2, <3>1, CursorsOK
  <2>4. batch' \in Batch /\ batch'.after = Trimmed(batch.after, Leaving({t}))
    <3>1. Trimmed(batch.after, Leaving({t})) \in Cycle \cup {None}
      BY <2>1, <2>2, TrimmedOK
    <3>. QED  BY <1>5, <2>1, <3>1, TakenOff DEF RefreshEnded
  <2>5. CycleOK(batch.after)'
    <3>1. LET a == Trimmed(batch.after, Leaving({t}))
          IN  a # None => a \in Cycle /\ a.left \subseteq a.within /\ a.within \subseteq ToSet(line')
      BY <2>1, <2>2, TrimmedOK
    <3>. QED  BY <2>4, <3>1 DEF CycleOK
  <2>. QED  BY <1>5, <2>2, <2>3, <2>4, <2>5 DEF RefreshEnded, CycleInv
<1>6. ASSUME NEW t \in Task, RefreshPoison(t) PROVE CycleInv'
  <2>1. /\ RowsOK'
        /\ ToSet(line') = ToSet(line) \ Leaving({t})
        /\ ToSet(pending) \ ({t} \ {t}) \subseteq ToSet(pending')
    <3>1. RowsOK /\ {t} \subseteq due \cup ToSet(pending) /\ Closed({t}, {t}) /\ IsFiniteSet({t})
      BY <1>6, FS_Singleton DEF RefreshPoison, CycleInv
    <3>. QED  BY <3>1, ClosedRows
  <2>2. CycleOK(cycle)' /\ (behind' # None => behind' \subseteq ToSet(pending'))
    <3>1. /\ CycleOK(cycle) /\ (behind # None => behind \subseteq ToSet(pending))
          /\ CursorsAfter(cycle, behind, {t}, {t})
      BY <1>6 DEF RefreshPoison, CycleInv
    <3>. QED  BY <2>1, <3>1, CursorsOK
  <2>. QED  BY <1>6, <2>1, <2>2 DEF RefreshPoison, CycleInv
<1>7. ASSUME NEW t \in Task, Arrives(t) PROVE CycleInv'
  <2>1. Distinct(line') /\ ToSet(line') = ToSet(line) \cup {t}
    BY <1>7, AppendIs DEF Arrives, CycleInv, RowsOK, Distinct
  <2>. QED  BY <1>7, <2>1 DEF Arrives, CycleInv, RowsOK, Distinct, CycleOK
<1>8. ASSUME NEW t \in Task, Ends(t) PROVE CycleInv'
  BY <1>8 DEF Ends, CycleInv, RowsOK, Distinct, CycleOK, Batch
<1>9. ASSUME NEW t \in Task, Elsewhere(t) PROVE CycleInv'
  <2>1. batch' = None /\ UNCHANGED <<turn, aborts>>
    BY <1>9 DEF Elsewhere
  <2>2. CASE t \in due \cup ToSet(pending) /\ Closed({t}, {}) /\ CursorsAfter(cycle, behind, {t}, {})
    <3>1. /\ RowsOK'
          /\ ToSet(line') = ToSet(line) \ Leaving({t})
          /\ ToSet(pending) \ ({t} \ {}) \subseteq ToSet(pending')
      <4>1. RowsOK /\ {t} \subseteq due \cup ToSet(pending)
        BY <2>2 DEF CycleInv
      <4>. QED  BY <2>2, <4>1, ClosedRows, FS_EmptySet
    <3>2. CycleOK(cycle)' /\ (behind' # None => behind' \subseteq ToSet(pending'))
      BY <2>2, <3>1, CursorsOK DEF CycleInv
    <3>. QED  BY <2>1, <3>1, <3>2 DEF CycleInv
  <2>3. CASE t \in due /\ LeftPending(t) /\ UNCHANGED <<cycle, behind>>
    <3>1. RowsOK' /\ line' = line /\ ToSet(pending) \subseteq ToSet(pending')
      BY <2>3, LeftPendingRows DEF CycleInv
    <3>. QED  BY <2>1, <2>3, <3>1 DEF CycleInv, CycleOK
  <2>. QED  BY <1>9, <2>2, <2>3 DEF Elsewhere
<1>10. CASE UNCHANGED vars
  BY <1>10 DEF vars, CycleInv, RowsOK, Distinct, CycleOK
<1>. QED  BY <1>1, <1>2, <1>3, <1>4, <1>5, <1>6, <1>7, <1>8, <1>9, <1>10 DEF Next, Refreshed, Observed

LEMMA CycleInvariant == Spec => []CycleInv
  BY CycleInvInit, CycleInvStep, PTL DEF Spec

\* The rows, the cursors and the batch fit together in every state, however the
\* calls are interrupted (reconcile_tasks).
THEOREM TypesHold == Spec => []TypeOK
  BY CycleInvariant, InvImpliesTypeOK, PTL

-----------------------------------------------------------------------------
(***************************************************************************)
(* What the cursor passes.  A page is the first rows of the rest of the    *)
(* cycle, and the rest keeps the order of the line: what is not on the     *)
(* page comes behind its last row.                                         *)
(***************************************************************************)
LEMMA FirstHas ==
    ASSUME NEW s \in Seq(Task), NEW n \in Nat
    PROVE  /\ Len(s) <= n => First(s, n) = s
           /\ n < Len(s) /\ n # 0 => First(s, n) # <<>> /\ Last(First(s, n)) = s[n]
           /\ \A i \in 1..Len(s) : i <= n => s[i] \in ToSet(First(s, n))
<1>. DEFINE m == IF n < Len(s) THEN n ELSE Len(s)
            r == First(s, n)
<1>1. /\ m \in Nat /\ m <= Len(s) /\ 1..m \subseteq 1..Len(s)
      /\ Len(s) <= n => m = Len(s)
      /\ n < Len(s) => m = n
  OBVIOUS
<1>2. r = SubSeq(s, 1, m)
  BY DEF First
<1>. HIDE DEF m
<1>3. \A i \in 1..m : s[i] \in Task
  BY <1>1
<1>4. r \in Seq(Task) /\ Len(r) = m /\ \A i \in 1..m : r[i] = s[i]
  BY <1>1, <1>2, <1>3, SubSeqProperties
<1>. HIDE DEF r
<1>5. DOMAIN r = 1..m
  BY <1>4
<1>6. Len(s) <= n => r = s
  BY <1>1, <1>4
<1>7. n < Len(s) /\ n # 0 => r # <<>> /\ Last(r) = s[n]
  BY <1>1, <1>4 DEF Last
<1>8. \A i \in 1..Len(s) : i <= n => i \in 1..m
  BY <1>1 DEF m
<1>9. \A i \in 1..Len(s) : i <= n => s[i] \in ToSet(r)
  BY <1>4, <1>5, <1>8 DEF ToSet
<1>. QED  BY <1>6, <1>7, <1>9 DEF r

LEMMA AfterHas ==
    ASSUME NEW s \in Seq(Task), IsInjective(s),
           NEW j \in 1..Len(s), NEW k \in 1..Len(s), j < k
    PROVE  s[k] \in After(s, s[j])
<1>1. {i \in 1..Len(s) : s[i] = s[j]} = {j}
  BY DEF IsInjective
<1>. DEFINE r == SubSeq(s, j + 1, Len(s))
<1>2. After(s, s[j]) = ToSet(r)
  BY <1>1 DEF After, SelectInSeq, Min
<1>3. r \in Seq(Task) /\ Len(r) = Len(s) - j /\ r[k - j] = s[k]
  <2>1. /\ Len(s) \in Nat /\ j + 1 \in Nat /\ j + 1 <= Len(s)
        /\ \A i \in (j + 1)..Len(s) : s[i] \in Task
    OBVIOUS
  <2>2. /\ r \in Seq(Task) /\ Len(r) = Len(s) - (j + 1) + 1
        /\ \A i \in 1..(Len(s) - (j + 1) + 1) : r[i] = s[(j + 1) + i - 1]
    BY <2>1, SubSeqProperties
  <2>3. k - j \in 1..(Len(s) - (j + 1) + 1) /\ (j + 1) + (k - j) - 1 = k
    OBVIOUS
  <2>. HIDE DEF r
  <2>4. r[k - j] = s[(j + 1) + (k - j) - 1]
    BY <2>2, <2>3
  <2>. QED  BY <2>1, <2>2, <2>3, <2>4
<1>. HIDE DEF r
<1>4. DOMAIN r = 1..(Len(s) - j) /\ k - j \in 1..(Len(s) - j)
  BY <1>3
<1>. QED  BY <1>2, <1>3, <1>4 DEF ToSet

\* A page has every row of the rest that the cycle after it does not have.
LEMMA PageHas ==
    ASSUME RowsOK, CycleOK(cycle), NEW l \in Seq(Task), IsInjective(l), NEW active,
           NEW n \in Nat, NEW t \in ToSet(l) \cap (Current.left \ active)
    PROVE  \/ t \in ToSet(First(Rest(l, active), n))
           \/ /\ CycleAfter(l, active, n) \in Cycle
              /\ t \in CycleAfter(l, active, n).left
<1>. DEFINE r == Rest(l, active)
            page == First(r, n)
<1>1. r \in Seq(Task) /\ ToSet(r) = ToSet(l) \cap (Current.left \ active) /\ InOrder(r, l, Len(l))
  BY AmongIs DEF Rest
<1>. HIDE DEF r
<1>2. Len(r) \in Nat /\ DOMAIN r = 1..Len(r)
  BY <1>1
<1>3. PICK i \in 1..Len(r) : t = r[i]
  BY <1>1, <1>2 DEF ToSet
<1>4. CASE Len(r) <= n
  BY <1>1, <1>4, FirstHas DEF r
<1>5. CASE n < Len(r) /\ i <= n
  BY <1>1, <1>3, <1>5, FirstHas DEF r
<1>6. CASE n < Len(r) /\ ~(i <= n)
  <2>. DEFINE left == IF page = <<>> THEN Current.within ELSE Current.left \cap After(l, Last(page))
  <2>1. CycleAfter(l, active, n) = [within |-> Current.within, left |-> left]
    BY <1>2, <1>6 DEF CycleAfter, r
  <2>2. t \in left
    <3>1. CASE page = <<>>
      <4>1. t \in Current.left /\ Current.left \subseteq Current.within
        BY CurrentOK DEF CycleOK, Current
      <4>. QED  BY <3>1, <4>1
    <3>2. CASE page # <<>>
      <4>1. n # 0
        BY <3>2 DEF First
      <4>2. Last(page) = r[n] /\ n \in 1..Len(r) /\ n < i
        BY <1>1, <1>2, <1>3, <1>6, <4>1, FirstHas
      <4>3. PICK j \in 1..Len(l), k \in 1..Len(l) : j < k /\ r[n] = l[j] /\ r[i] = l[k]
        BY <1>1, <1>3, <4>2 DEF InOrder
      <4>4. t \in After(l, Last(page))
        BY <1>3, <4>2, <4>3, AfterHas
      <4>. QED  BY <3>2, <4>4
    <3>. QED  BY <3>1, <3>2
  <2>3. left \subseteq Current.within /\ Current.within \subseteq Task
    BY CurrentOK DEF CycleOK, Cycle
  <2>. HIDE DEF left
  <2>4. [within |-> Current.within, left |-> left] \in Cycle
    BY <2>3 DEF Cycle
  <2>. QED  BY <2>1, <2>2, <2>4
<1>. QED  BY <1>2, <1>3, <1>4, <1>5, <1>6

\* The page of a batch together with what the batch takes on beside it.
LEMMA SelectPasses ==
    ASSUME CycleInv, NEW looked \in Page, NEW active \in SUBSET looked, Select(looked, active),
           NEW t \in Current.left
    PROVE  \/ batch'.after # None /\ t \in batch'.after.left
           \/ t \in ToSet(batch'.todo) \cup ToSet(pending) \cup shut
<1>. DEFINE share == Shares(Limit - Cardinality(looked), Len(Rest(line, active)), Len(Backlog))
            done == ToSet(First(Backlog, share.terms)) \ Poison
            l == IF share.first = "tasks" THEN line ELSE Without(line, Leaving(done))
            page == First(Rest(l, active), share.tasks)
            after == CycleAfter(l, active, share.tasks)
            others == Without(page, ToSet(pending) \cup shut)
<1>1. batch' = [todo |-> SetToSeq(active) \o others,
                after |-> Trimmed(after, Leaving(done)),
                turn |-> share.turn]
  BY DEF Select
<1>2. /\ share.terms \in Nat /\ share.tasks \in Nat
      /\ active \in SUBSET Task /\ IsFiniteSet(active)
      /\ done \subseteq ToSet(pending)
  BY SharesOfBatch
<1>3. SUFFICES ASSUME t \notin ToSet(pending) \cup shut
               PROVE  \/ batch'.after # None /\ t \in batch'.after.left
                      \/ t \in ToSet(batch'.todo)
  OBVIOUS
<1>4. t \in ToSet(l) /\ l \in Seq(Task) /\ IsInjective(l)
  <2>1. t \in ToSet(line)
    BY CurrentOK DEF CycleInv, CycleOK, Current
  <2>2. line \in Seq(Task) /\ IsInjective(line) /\ t \notin done
    BY <1>2, <1>3 DEF CycleInv, RowsOK, Distinct
  <2>. HIDE DEF share, done
  <2>. QED  BY <2>1, <2>2, WithoutIs DEF Leaving
<1>. HIDE DEF share, done, l
<1>5. page \in Seq(Task)
  <2>1. Rest(l, active) \in Seq(Task)
    BY <1>4, AmongIs DEF Rest
  <2>. QED  BY <1>2, <2>1, FirstIs
<1>6. /\ SetToSeq(active) \in Seq(Task) /\ ToSet(SetToSeq(active)) = active
      /\ others \in Seq(Task) /\ ToSet(others) = ToSet(page) \ (ToSet(pending) \cup shut)
  BY <1>2, <1>5, SetToSeqIs, WithoutIs
<1>7. ToSet(batch'.todo) = active \cup (ToSet(page) \ (ToSet(pending) \cup shut))
  BY <1>1, <1>6, ConcatIs
<1>8. CASE t \in active \cup ToSet(page)
  BY <1>3, <1>7, <1>8
<1>9. CASE t \notin active \cup ToSet(page)
  <2>1. after \in Cycle /\ t \in after.left
    BY <1>2, <1>4, <1>9, PageHas DEF CycleInv
  <2>2. t \notin Leaving(done)
    BY <1>2, <1>3 DEF Leaving
  <2>. HIDE DEF after
  <2>3. LET a == Trimmed(after, Leaving(done)) IN a \in Cycle /\ t \in a.left
    BY <2>1, <2>2 DEF Trimmed, Cycle
  <2>. QED  BY <1>1, <2>3
<1>. QED  BY <1>8, <1>9

\* The cursor of the task scan passes no row that its batch does not take on,
\* whatever is selected out of turn, however the batch is shared and whatever the
\* recovery of terminalizations does between (_reconcile_candidate_batch).
THEOREM NoRowIsPassedOver == Spec => NonePassedOver
<1>1. CycleInv /\ [Next]_vars =>
        [batch = None /\ batch' # None =>
            \A t \in Current.left :
               \/ batch'.after # None /\ t \in batch'.after.left
               \/ t \in ToSet(batch'.todo) \cup ToSet(pending) \cup shut]_vars
  <2>. SUFFICES ASSUME CycleInv, [Next]_vars, batch = None, batch' # None, NEW t \in Current.left
                PROVE  \/ batch'.after # None /\ t \in batch'.after.left
                       \/ t \in ToSet(batch'.todo) \cup ToSet(pending) \cup shut
    OBVIOUS
  <2>1. SelectAny
    BY DEF Next, vars, Save, Aborts, Refreshed, Observed, RefreshOpen, RefreshEnded, RefreshPoison,
           UpNext, Arrives, Ends, Elsewhere
  <2>. QED  BY <2>1, SelectPasses DEF SelectAny
<1>. QED  BY <1>1, CycleInvariant, PTL DEF Spec, NonePassedOver
=============================================================================
