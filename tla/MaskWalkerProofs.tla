-------------------------- MODULE MaskWalkerProofs --------------------------
(***************************************************************************)
(* Proofs about the batch walker, for every text, every scheme whose masks *)
(* agree with its scalar advance (Given), and every mix of single spans    *)
(* and fills (Walking).                                                    *)
(*                                                                         *)
(* A chain is a sequence of ends each of which is one step from the end    *)
(* before it.  Whatever path the walk takes, what it has handed out is a   *)
(* chain of spans from 0, and what it has harvested is a chain of tokens   *)
(* from the base of the buffer that leaves out none.                       *)
(***************************************************************************)
EXTENDS MaskWalker, FiniteSetTheorems, SequenceTheorems, TLAPS

(* Sets of numbers have a least element; induction below is by the least   *)
(* counterexample.                                                         *)
LEMMA LeastNumber ==
  ASSUME NEW S \in SUBSET Nat, S # {}
  PROVE  \E m \in S : \A k \in S : m <= k
<1>. DEFINE R == OpToRel(<, Nat)
<1>1. IsWellFoundedOn(R, Nat)
  BY NatLessThanWellFounded
<1>2. \A k, m \in Nat : k < m => <<k, m>> \in R
  BY DEF OpToRel
<1>. HIDE DEF R
<1>3. PICK m \in S : \A k \in S : ~(<<k, m>> \in R)
  BY <1>1, WFMin
<1>4. \A k \in S : ~(k < m)
  BY <1>2, <1>3
<1>5. \A k \in S : k \in Nat /\ m \in Nat
  OBVIOUS
<1>. QED
  BY <1>4, <1>5

LEMMA MinOfNumbers ==
  ASSUME NEW S \in SUBSET Nat, S # {}
  PROVE  Min(S) \in S /\ \A k \in S : Min(S) <= k
BY LeastNumber DEF Min

(* The greatest of some numbers below a bound.                             *)
LEMMA GreatestNumber ==
  ASSUME NEW n \in Nat, NEW S, \A k \in S : k \in 0 .. n, S # {}
  PROVE  \E m \in S : \A k \in S : k <= m
<1>. DEFINE T == {n - k : k \in S}
<1>0. \A k \in S : k \in Nat /\ k <= n
  OBVIOUS
<1>1. T \in SUBSET Nat /\ T # {}
  BY <1>0
<1>. HIDE DEF T
<1>2. PICK t \in T : \A k \in T : t <= k
  BY <1>1, LeastNumber
<1>3. PICK m \in S : t = n - m
  BY <1>2 DEF T
<1>4. \A k \in S : n - m <= n - k
  BY <1>2, <1>3 DEF T
<1>. QED
  BY <1>0, <1>4

------------------------------------------------------------------------------
(* Sets of numbers in order.                                               *)

Increasing(s) == \A i, j \in 1 .. Len(s) : i < j => s[i] < s[j]
UpTo(S, x) == {y \in S : y <= x}

LEMMA RankExists ==
  ASSUME NEW S, \A x \in S : x \in Nat, IsFiniteSet(S), NEW j \in 1 .. Cardinality(S)
  PROVE  \E x \in S : Cardinality(UpTo(S, x)) = j
<1>0. \A x \in S : x \in Nat
  OBVIOUS
<1>1. Cardinality(S) \in Nat
  BY FS_CardinalityType
<1>. DEFINE Bad == {k \in 1 .. Cardinality(S) :
                      ~ \E x \in S : Cardinality(UpTo(S, x)) = k}
<1>2. SUFFICES ASSUME Bad # {} PROVE FALSE
  OBVIOUS
<1>3. PICK m \in Bad : \A k \in Bad : m <= k
  <2>1. Bad \in SUBSET Nat
    OBVIOUS
  <2>. HIDE DEF Bad
  <2>. QED BY <1>2, <2>1, LeastNumber
<1>4. m \in Nat /\ 1 <= m /\ m <= Cardinality(S)
      /\ ~ \E x \in S : Cardinality(UpTo(S, x)) = m
  BY <1>1
<1>5. CASE m = 1
  <2>1. S # {}
    BY <1>4, FS_EmptySet
  <2>2. PICK x \in S : \A k \in S : x <= k
    BY <2>1, LeastNumber
  <2>3. UpTo(S, x) = {x}
    BY <1>0, <2>2 DEF UpTo
  <2>. QED BY <2>3, <1>4, <1>5, FS_Singleton
<1>6. CASE m > 1
  <2>1. m - 1 \in 1 .. Cardinality(S) /\ m - 1 \notin Bad
    <3>. HIDE DEF Bad
    <3>. QED BY <1>1, <1>3, <1>4, <1>6
  <2>2. PICK x \in S : Cardinality(UpTo(S, x)) = m - 1
    BY <2>1
  <2>. DEFINE T == UpTo(S, x)
  <2>3. T \subseteq S
    BY DEF UpTo
  <2>4. S \ T # {}
    BY <1>4, <2>2, <2>3
  <2>5. PICK z \in S \ T : \A k \in S \ T : z <= k
    BY <2>4, LeastNumber
  <2>6. UpTo(S, z) = T \cup {z} /\ z \notin T
    BY <1>0, <2>5 DEF UpTo
  <2>7. IsFiniteSet(T)
    BY <2>3, FS_Subset
  <2>8. Cardinality(T \cup {z}) = Cardinality(T) + 1
    <3>. HIDE DEF T
    <3>. QED BY <2>6, <2>7, FS_AddElement
  <2>. QED BY <2>2, <2>6, <2>8, <1>4
<1>. QED BY <1>4, <1>5, <1>6

(* InOrder lists a finite set of numbers from the least up.                *)
LEMMA InOrderLists ==
  ASSUME NEW S, \A x \in S : x \in Nat, IsFiniteSet(S)
  PROVE  /\ InOrder(S) \in Seq(Nat)
         /\ Len(InOrder(S)) = Cardinality(S)
         /\ Increasing(InOrder(S))
         /\ \A x : x \in S <=> \E i \in 1 .. Len(InOrder(S)) : InOrder(S)[i] = x
<1>. DEFINE s == InOrder(S)
            n == Cardinality(S)
<1>0. \A x \in S : x \in Nat
  OBVIOUS
<1>1. n \in Nat
  BY FS_CardinalityType
<1>2. \A j \in 1 .. n : s[j] \in S /\ Cardinality(UpTo(S, s[j])) = j
  <2>. TAKE j \in 1 .. n
  <2>1. s[j] = CHOOSE x \in S : Cardinality(UpTo(S, x)) = j
    BY DEF InOrder, UpTo
  <2>2. \E x \in S : Cardinality(UpTo(S, x)) = j
    BY RankExists
  <2>. QED BY <2>1, <2>2
<1>3. s \in Seq(Nat) /\ Len(s) = n
  <2>1. s = [j \in 1 .. n |-> s[j]]
    BY DEF InOrder
  <2>. HIDE DEF s
  <2>2. \A j \in 1 .. n : s[j] \in Nat
    BY <1>2
  <2>. QED BY <1>1, <2>1, <2>2
<1>. HIDE DEF s
<1>4. \A x \in S : IsFiniteSet(UpTo(S, x)) /\ UpTo(S, x) \subseteq S
  BY FS_Subset DEF UpTo
<1>5. ASSUME NEW i \in 1 .. n, NEW j \in 1 .. n, i < j
      PROVE  s[i] < s[j]
  <2>1. SUFFICES ASSUME s[j] <= s[i] PROVE FALSE
    BY <1>0, <1>2
  <2>2. UpTo(S, s[j]) \subseteq UpTo(S, s[i])
    <3>1. s[i] \in Nat /\ s[j] \in Nat
      BY <1>0, <1>2
    <3>2. \A y \in S : y <= s[j] => y <= s[i]
      BY <1>0, <2>1, <3>1
    <3>. QED BY <3>2 DEF UpTo
  <2>3. Cardinality(UpTo(S, s[j])) <= Cardinality(UpTo(S, s[i]))
    BY <1>2, <1>4, <2>2, FS_Subset
  <2>. QED BY <1>2, <1>5, <2>3
<1>6. ASSUME NEW x \in S PROVE \E i \in 1 .. n : s[i] = x
  <2>. DEFINE j == Cardinality(UpTo(S, x))
  <2>1. j \in 1 .. n
    <3>1. j <= n
      BY <1>4, FS_Subset
    <3>2. j \in Nat /\ j # 0
      <4>1. x \in UpTo(S, x)
        BY DEF UpTo
      <4>2. j # 0
        BY <4>1, <1>4, FS_EmptySet
      <4>. QED BY <4>2, <1>4, FS_CardinalityType
    <3>. QED BY <3>1, <3>2, <1>1
  <2>2. s[j] \in S /\ Cardinality(UpTo(S, s[j])) = j
    BY <1>2, <2>1
  <2>3. s[j] = x
    <3>1. CASE s[j] < x
      <4>1. UpTo(S, s[j]) \in SUBSET UpTo(S, x) /\ x \notin UpTo(S, s[j])
            /\ x \in UpTo(S, x)
        BY <1>0, <2>2, <3>1 DEF UpTo
      <4>2. UpTo(S, x) = UpTo(S, s[j])
        BY <4>1, <2>2, <1>4, FS_Subset
      <4>. QED BY <4>1, <4>2
    <3>2. CASE x < s[j]
      <4>1. UpTo(S, x) \in SUBSET UpTo(S, s[j]) /\ s[j] \notin UpTo(S, x)
            /\ s[j] \in UpTo(S, s[j])
        BY <1>0, <2>2, <3>2 DEF UpTo
      <4>2. UpTo(S, x) = UpTo(S, s[j])
        BY <4>1, <2>2, <1>4, FS_Subset
      <4>. QED BY <4>1, <4>2
    <3>. QED BY <1>0, <3>1, <3>2, <2>2
  <2>. QED BY <2>1, <2>3
<1>7. Increasing(s)
  BY <1>3, <1>5 DEF Increasing
<1>8. \A x : x \in S <=> \E i \in 1 .. Len(s) : s[i] = x
  BY <1>2, <1>3, <1>6
<1>. QED BY <1>3, <1>7, <1>8 DEF s

------------------------------------------------------------------------------
(* Chains.                                                                 *)

Before(s, p, i) == IF i = 1 THEN p ELSE s[i - 1]

(* Steps forward over the offsets of a text of n bytes.                    *)
Steps(f, n) == n \in Nat /\ f \in [0 .. n - 1 -> Nat] /\ \A q \in 0 .. n - 1 : q < f[q]

Chain(f, s, p, n) ==
  /\ s \in Seq(Nat)
  /\ \A i \in 1 .. Len(s) : Before(s, p, i) \in 0 .. n - 1 /\ s[i] = f[Before(s, p, i)]

LEMMA StepwiseIncreasing ==
  ASSUME NEW s \in Seq(Nat), \A i \in 2 .. Len(s) : s[i - 1] < s[i]
  PROVE  Increasing(s)
<1>. DEFINE Bad == {j \in 1 .. Len(s) : \E i \in 1 .. j - 1 : ~(s[i] < s[j])}
<1>1. SUFFICES ASSUME Bad # {} PROVE FALSE
  <2>1. ASSUME Bad = {}, NEW i \in 1 .. Len(s), NEW j \in 1 .. Len(s), i < j
        PROVE  s[i] < s[j]
    <3>1. i \in 1 .. j - 1
      BY <2>1
    <3>2. ~(j \in Bad)
      <4>. HIDE DEF Bad
      <4>. QED BY <2>1
    <3>. QED BY <3>1, <3>2
  <2>. QED BY <2>1 DEF Increasing
<1>2. PICK j \in Bad : \A k \in Bad : j <= k
  <2>1. Bad \in SUBSET Nat
    OBVIOUS
  <2>. HIDE DEF Bad
  <2>. QED BY <1>1, <2>1, LeastNumber
<1>3. j \in 2 .. Len(s)
  OBVIOUS
<1>4. PICK i \in 1 .. j - 1 : ~(s[i] < s[j])
  OBVIOUS
<1>5. j - 1 \in 1 .. Len(s) /\ j - 1 \notin Bad
  <2>. HIDE DEF Bad
  <2>. QED BY <1>2, <1>3
<1>6. s[j - 1] < s[j] /\ s[j - 1] \in Nat /\ s[j] \in Nat /\ s[i] \in Nat
  BY <1>3
<1>7. i = j - 1 \/ s[i] < s[j - 1]
  BY <1>5, <1>3
<1>. QED BY <1>4, <1>6, <1>7

LEMMA ChainGrows ==
  ASSUME NEW f, NEW n, Steps(f, n), NEW p \in Nat, NEW s, Chain(f, s, p, n)
  PROVE  /\ \A i \in 1 .. Len(s) : s[i] \in Nat /\ Before(s, p, i) < s[i] /\ p + i <= s[i]
         /\ Increasing(s)
         /\ LastOf(s, p) \in Nat /\ p + Len(s) <= LastOf(s, p)
         /\ \A i \in 1 .. Len(s) : s[i] <= LastOf(s, p)
<1>1. s \in Seq(Nat) /\ Len(s) \in Nat
  BY DEF Chain
<1>2. \A i \in 1 .. Len(s) : s[i] \in Nat /\ Before(s, p, i) < s[i]
  BY <1>1 DEF Chain, Steps
<1>3. \A i \in 2 .. Len(s) : s[i - 1] < s[i]
  BY <1>1, <1>2 DEF Before
<1>4. Increasing(s)
  BY <1>1, <1>3, StepwiseIncreasing
<1>5. \A i \in 1 .. Len(s) : p + i <= s[i]
  <2>. DEFINE Bad == {i \in 1 .. Len(s) : ~(p + i <= s[i])}
  <2>1. SUFFICES ASSUME Bad # {} PROVE FALSE
    OBVIOUS
  <2>2. PICK i \in Bad : \A k \in Bad : i <= k
    <3>1. Bad \in SUBSET Nat
      OBVIOUS
    <3>. HIDE DEF Bad
    <3>. QED BY <2>1, <3>1, LeastNumber
  <2>3. i \in 1 .. Len(s) /\ s[i] \in Nat /\ ~(p + i <= s[i]) /\ Before(s, p, i) < s[i]
    BY <1>2
  <2>4. i # 1
    BY <2>3 DEF Before
  <2>5. i - 1 \in 1 .. Len(s) /\ i - 1 \notin Bad
    <3>. HIDE DEF Bad
    <3>. QED BY <2>2, <2>3, <2>4
  <2>6. p + (i - 1) <= s[i - 1] /\ s[i - 1] \in Nat /\ s[i - 1] < s[i]
    BY <2>3, <2>4, <2>5, <1>2, <1>3
  <2>. QED BY <2>3, <2>6
<1>6. LastOf(s, p) \in Nat /\ p + Len(s) <= LastOf(s, p)
  <2>1. CASE s = <<>>
    BY <2>1 DEF LastOf
  <2>2. CASE s # <<>>
    <3>1. Len(s) \in 1 .. Len(s)
      BY <1>1, <2>2
    <3>. QED BY <3>1, <2>2, <1>2, <1>5 DEF LastOf
  <2>. QED BY <2>1, <2>2
<1>7. ASSUME NEW i \in 1 .. Len(s) PROVE s[i] <= LastOf(s, p)
  <2>1. s # <<>> /\ Len(s) \in 1 .. Len(s)
    BY <1>1
  <2>2. i = Len(s) \/ s[i] < s[Len(s)]
    BY <1>1, <1>4, <2>1 DEF Increasing
  <2>. QED BY <1>2, <2>1, <2>2 DEF LastOf
<1>. QED BY <1>2, <1>4, <1>5, <1>6, <1>7

LEMMA ChainEmpty ==
  ASSUME NEW f, NEW n, NEW p
  PROVE  Chain(f, <<>>, p, n) /\ LastOf(<<>>, p) = p
BY DEF Chain, LastOf

LEMMA ChainJoin ==
  ASSUME NEW f, NEW n, Steps(f, n), NEW p \in Nat, NEW s, Chain(f, s, p, n),
         NEW t, Chain(f, t, LastOf(s, p), n)
  PROVE  /\ Chain(f, s \o t, p, n)
         /\ LastOf(s \o t, p) = LastOf(t, LastOf(s, p))
<1>. DEFINE r == s \o t
<1>1. s \in Seq(Nat) /\ t \in Seq(Nat) /\ Len(s) \in Nat /\ Len(t) \in Nat
  BY DEF Chain
<1>2. r \in Seq(Nat) /\ Len(r) = Len(s) + Len(t)
      /\ \A i \in 1 .. Len(r) : r[i] = IF i <= Len(s) THEN s[i] ELSE t[i - Len(s)]
  BY <1>1
<1>. HIDE DEF r
<1>3. ASSUME NEW i \in 1 .. Len(r)
      PROVE  Before(r, p, i) \in 0 .. n - 1 /\ r[i] = f[Before(r, p, i)]
  <2>1. CASE i <= Len(s)
    <3>1. i \in 1 .. Len(s) /\ r[i] = s[i]
      BY <1>1, <1>2, <2>1
    <3>2. Before(r, p, i) = Before(s, p, i)
      <4>1. i # 1 => i - 1 \in 1 .. Len(r) /\ i - 1 <= Len(s)
        BY <1>1, <1>2, <2>1
      <4>2. i # 1 => r[i - 1] = s[i - 1]
        BY <1>2, <4>1
      <4>. QED BY <4>2 DEF Before
    <3>. QED BY <3>1, <3>2 DEF Chain
  <2>2. CASE i > Len(s)
    <3>. DEFINE j == i - Len(s)
    <3>1. j \in 1 .. Len(t) /\ r[i] = t[j]
      BY <1>1, <1>2, <2>2
    <3>2. Before(r, p, i) = Before(t, LastOf(s, p), j)
      <4>1. CASE j # 1
        <5>1. i - 1 \in 1 .. Len(r) /\ ~(i - 1 <= Len(s)) /\ i # 1
              /\ (i - 1) - Len(s) = j - 1
          <6>1. i \in Nat /\ i <= Len(r)
            BY <1>1, <1>2
          <6>2. i > Len(s) + 1
            BY <1>1, <2>2, <4>1, <6>1
          <6>. QED BY <6>1, <6>2, <1>1
        <5>2. r[i - 1] = t[j - 1]
          BY <1>2, <5>1
        <5>. QED BY <4>1, <5>1, <5>2 DEF Before
      <4>2. CASE j = 1 /\ s = <<>>
        BY <1>1, <4>2 DEF Before, LastOf
      <4>3. CASE j = 1 /\ s # <<>>
        <5>1. i - 1 = Len(s) /\ i - 1 \in 1 .. Len(r) /\ i # 1
          BY <1>1, <1>2, <4>3
        <5>2. r[i - 1] = s[Len(s)]
          BY <1>1, <1>2, <5>1
        <5>. QED BY <4>3, <5>1, <5>2 DEF Before, LastOf
      <4>. QED BY <4>1, <4>2, <4>3
    <3>. QED BY <3>1, <3>2 DEF Chain
  <2>. QED BY <1>1, <1>2, <2>1, <2>2
<1>4. Chain(f, r, p, n)
  BY <1>2, <1>3 DEF Chain
<1>5. LastOf(r, p) = LastOf(t, LastOf(s, p))
  <2>1. CASE t = <<>>
    <3>1. r = s
      BY <1>1, <2>1 DEF r
    <3>. QED BY <2>1, <3>1 DEF LastOf
  <2>2. CASE t # <<>>
    <3>1. Len(t) > 0 /\ Len(r) > 0 /\ r[Len(r)] = t[Len(t)]
      <4>1. Len(t) > 0
        BY <1>1, <2>2
      <4>2. Len(r) \in 1 .. Len(r) /\ ~(Len(r) <= Len(s)) /\ Len(r) - Len(s) = Len(t)
        BY <4>1, <1>1, <1>2
      <4>. QED BY <1>2, <4>1, <4>2
    <3>2. r # <<>>
      BY <1>2, <3>1
    <3>. QED BY <2>2, <3>1, <3>2 DEF LastOf
  <2>. QED BY <2>1, <2>2
<1>. QED BY <1>4, <1>5 DEF r

LEMMA ChainFront ==
  ASSUME NEW f, NEW n, NEW p, NEW s, Chain(f, s, p, n), NEW k \in 0 .. Len(s)
  PROVE  /\ Chain(f, SubSeq(s, 1, k), p, n)
         /\ Len(SubSeq(s, 1, k)) = k
         /\ \A i \in 1 .. k : SubSeq(s, 1, k)[i] = s[i]
         /\ LastOf(SubSeq(s, 1, k), p) = IF k = 0 THEN p ELSE s[k]
<1>. DEFINE r == SubSeq(s, 1, k)
<1>1. s \in Seq(Nat) /\ Len(s) \in Nat
  BY DEF Chain
<1>2. r \in Seq(Nat) /\ Len(r) = k /\ \A i \in 1 .. k : r[i] = s[i]
  BY <1>1
<1>. HIDE DEF r
<1>3. \A i \in 1 .. k : Before(r, p, i) = Before(s, p, i) /\ i \in 1 .. Len(s)
  BY <1>1, <1>2 DEF Before
<1>4. Chain(f, r, p, n)
  BY <1>2, <1>3 DEF Chain
<1>5. LastOf(r, p) = IF k = 0 THEN p ELSE s[k]
  <2>1. r = <<>> <=> k = 0
    BY <1>2
  <2>2. k # 0 => k \in 1 .. k
    OBVIOUS
  <2>. QED BY <1>2, <2>1, <2>2 DEF LastOf
<1>. QED BY <1>2, <1>4, <1>5 DEF r

(* Two chains from one place agree as far as both go.                      *)
LEMMA ChainsAgree ==
  ASSUME NEW f, NEW n, NEW p, NEW s, Chain(f, s, p, n), NEW t, Chain(f, t, p, n)
  PROVE  \A i \in 1 .. Len(s) : i <= Len(t) => s[i] = t[i]
<1>1. Len(s) \in Nat /\ Len(t) \in Nat
  BY DEF Chain
<1>. DEFINE Bad == {i \in 1 .. Len(s) : i <= Len(t) /\ s[i] # t[i]}
<1>2. SUFFICES ASSUME Bad # {} PROVE FALSE
  OBVIOUS
<1>3. PICK i \in Bad : \A k \in Bad : i <= k
  <2>1. Bad \in SUBSET Nat
    BY <1>1
  <2>. HIDE DEF Bad
  <2>. QED BY <1>2, <2>1, LeastNumber
<1>4. i \in 1 .. Len(s) /\ i \in 1 .. Len(t) /\ s[i] # t[i]
  BY <1>1
<1>5. i # 1 => s[i - 1] = t[i - 1]
  <2>1. i # 1 => i - 1 \notin Bad
    <3>. HIDE DEF Bad
    <3>. QED BY <1>1, <1>3, <1>4
  <2>. QED BY <1>1, <1>4, <2>1
<1>6. Before(s, p, i) = Before(t, p, i)
  BY <1>5 DEF Before
<1>. QED BY <1>4, <1>6 DEF Chain

------------------------------------------------------------------------------
(* Walks.                                                                  *)

(* The function Walk is the last value of.                                 *)
IsWalk(g, f, p, until, m) ==
  g = [j \in 0 .. m |->
         IF j = 0 THEN <<>>
         ELSE LET before == g[j - 1]
                  last == LastOf(before, p)
              IN  IF last >= until \/ Len(before) < j - 1 THEN before
                  ELSE Append(before, f[last])]

LEMMA WalkExists ==
  ASSUME NEW f, NEW p, NEW until, NEW n \in Nat
  PROVE  \E g : IsWalk(g, f, p, until, n)
<1>. DEFINE Bad == {m \in Nat : ~ \E g : IsWalk(g, f, p, until, m)}
<1>1. SUFFICES ASSUME n \in Bad PROVE FALSE
  OBVIOUS
<1>. HIDE DEF Bad
<1>2. PICK m \in Bad : \A k \in Bad : m <= k
  <2>1. Bad \in SUBSET Nat
    BY DEF Bad
  <2>. QED BY <1>1, <2>1, LeastNumber
<1>3. m \in Nat /\ ~ \E g : IsWalk(g, f, p, until, m)
  BY <1>2 DEF Bad
<1>. DEFINE next(before, j) ==
              IF LastOf(before, p) >= until \/ Len(before) < j - 1 THEN before
              ELSE Append(before, f[LastOf(before, p)])
<1>4. CASE m = 0
  <2>. DEFINE h == [j \in 0 .. 0 |-> <<>>]
  <2>1. h = [j \in 0 .. 0 |-> IF j = 0 THEN <<>> ELSE next(h[j - 1], j)]
    OBVIOUS
  <2>. HIDE DEF h
  <2>2. IsWalk(h, f, p, until, 0)
    BY <2>1 DEF IsWalk
  <2>. QED BY <2>2, <1>3, <1>4
<1>5. CASE m > 0
  <2>1. m - 1 \in Nat /\ m - 1 \notin Bad
    BY <1>2, <1>3, <1>5
  <2>2. PICK g : IsWalk(g, f, p, until, m - 1)
    BY <2>1 DEF Bad
  <2>3. g = [j \in 0 .. m - 1 |-> IF j = 0 THEN <<>> ELSE next(g[j - 1], j)]
    BY <2>2 DEF IsWalk
  <2>. HIDE DEF next
  <2>. DEFINE h == [j \in 0 .. m |-> IF j = 0 THEN <<>> ELSE next(g[j - 1], j)]
  <2>4. ASSUME NEW j \in 0 .. m - 1 PROVE h[j] = g[j]
    <3>1. j \in 0 .. m
      BY <1>3
    <3>2. g[j] = IF j = 0 THEN <<>> ELSE next(g[j - 1], j)
      BY <2>3
    <3>. QED BY <3>1, <3>2
  <2>5. \A j \in 0 .. m : j # 0 => j - 1 \in 0 .. m - 1
    BY <1>3
  <2>6. h = [j \in 0 .. m |-> IF j = 0 THEN <<>> ELSE next(h[j - 1], j)]
    <3>. HIDE DEF h
    <3>1. \A j \in 0 .. m : j # 0 => h[j - 1] = g[j - 1]
      BY <2>4, <2>5
    <3>2. h = [j \in 0 .. m |-> IF j = 0 THEN <<>> ELSE next(g[j - 1], j)]
      BY DEF h
    <3>. QED BY <3>1, <3>2
  <2>. HIDE DEF h
  <2>7. IsWalk(h, f, p, until, m)
    BY <2>6 DEF IsWalk, next
  <2>. QED BY <2>7, <1>3
<1>. QED BY <1>3, <1>4, <1>5

LEMMA WalkIsWalk ==
  ASSUME NEW f, NEW p, NEW until, NEW n \in Nat
  PROVE  \E g : IsWalk(g, f, p, until, n) /\ Walk(f, p, until, n) = g[n]
<1>. DEFINE c == CHOOSE g : IsWalk(g, f, p, until, n)
<1>1. IsWalk(c, f, p, until, n)
  BY WalkExists
<1>2. Walk(f, p, until, n) = c[n]
  BY DEF Walk, IsWalk
<1>. QED BY <1>1, <1>2

(* A walk is a chain, whose steps start below until, and which ends at or  *)
(* past it unless it has taken all the steps it may.                       *)
IsWalked(w, f, p, n, until, k) ==
  /\ Chain(f, w, p, n)
  /\ Len(w) <= k
  /\ \A i \in 1 .. Len(w) : Before(w, p, i) < until
  /\ Len(w) = k \/ LastOf(w, p) >= until

LEMMA WalkFacts ==
  ASSUME NEW f, NEW n, Steps(f, n), NEW p \in Nat, NEW until \in Nat, until <= n,
         NEW k \in Nat
  PROVE  IsWalked(Walk(f, p, until, k), f, p, n, until, k)
<1>1. PICK g : IsWalk(g, f, p, until, k) /\ Walk(f, p, until, k) = g[k]
  BY WalkIsWalk
<1>2. \A j \in 0 .. k : g[j] =
        IF j = 0 THEN <<>>
        ELSE IF LastOf(g[j - 1], p) >= until \/ Len(g[j - 1]) < j - 1 THEN g[j - 1]
        ELSE Append(g[j - 1], f[LastOf(g[j - 1], p)])
  BY <1>1 DEF IsWalk
<1>. DEFINE Good(j) == IsWalked(g[j], f, p, n, until, j)
<1>3. \A j \in 0 .. k : Good(j)
  <2>. DEFINE Bad == {j \in 0 .. k : ~Good(j)}
  <2>1. SUFFICES ASSUME Bad # {} PROVE FALSE
    OBVIOUS
  <2>2. PICK j \in Bad : \A i \in Bad : j <= i
    <3>1. Bad \in SUBSET Nat
      OBVIOUS
    <3>. HIDE DEF Bad
    <3>. QED BY <2>1, <3>1, LeastNumber
  <2>3. j \in 0 .. k /\ ~Good(j)
    OBVIOUS
  <2>4. j # 0
    <3>1. ASSUME j = 0 PROVE Good(j)
      <4>1. g[0] = <<>>
        <5>1. 0 \in 0 .. k
          OBVIOUS
        <5>. QED BY <1>1, <5>1 DEF IsWalk
      <4>2. Chain(f, g[0], p, n)
        BY <4>1, ChainEmpty
      <4>3. Len(g[0]) = 0
        BY <4>1
      <4>. QED BY <3>1, <4>2, <4>3 DEF IsWalked
    <3>. QED BY <2>3, <3>1
  <2>5. j - 1 \in 0 .. k /\ j - 1 \notin Bad
    <3>. HIDE DEF Bad, Good
    <3>. QED BY <2>2, <2>3, <2>4
  <2>. DEFINE w == g[j - 1]
              l == LastOf(w, p)
  <2>6. IsWalked(w, f, p, n, until, j - 1)
    BY <2>5
  <2>7. w \in Seq(Nat) /\ Len(w) \in Nat /\ l \in Nat /\ j - 1 \in Nat
    <3>. HIDE DEF w
    <3>1. Chain(f, w, p, n)
      BY <2>6 DEF IsWalked
    <3>2. w \in Seq(Nat) /\ Len(w) \in Nat
      BY <3>1 DEF Chain
    <3>3. LastOf(w, p) \in Nat
      BY <3>1, ChainGrows
    <3>4. j - 1 \in Nat
      BY <2>3, <2>4
    <3>. QED BY <3>2, <3>3, <3>4
  <2>. HIDE DEF w, l
  <2>8. g[j] = IF l >= until \/ Len(w) < j - 1 THEN w ELSE Append(w, f[l])
    BY <1>2, <2>3, <2>4 DEF w, l
  <2>9. CASE l >= until
    <3>1. g[j] = w
      BY <2>8, <2>9
    <3>2. Len(w) <= j /\ LastOf(w, p) >= until
      BY <2>3, <2>6, <2>7, <2>9 DEF IsWalked, l
    <3>3. Good(j)
      BY <2>6, <3>1, <3>2 DEF IsWalked
    <3>. QED BY <2>3, <3>3
  <2>10. CASE ~(l >= until) /\ Len(w) < j - 1
    BY <2>6, <2>7, <2>10 DEF IsWalked, l
  <2>11. CASE ~(l >= until) /\ ~(Len(w) < j - 1)
    <3>. DEFINE r == Append(w, f[l])
    <3>1. g[j] = r
      BY <2>8, <2>11
    <3>2. l \in 0 .. n - 1 /\ f[l] \in Nat
      BY <2>7, <2>11 DEF Steps
    <3>3. r \in Seq(Nat) /\ Len(r) = Len(w) + 1 /\ r[Len(w) + 1] = f[l]
          /\ \A i \in 1 .. Len(w) : r[i] = w[i]
      BY <2>7, <3>2
    <3>. HIDE DEF r
    <3>4. Len(w) = j - 1
      BY <2>6, <2>7, <2>11 DEF IsWalked
    <3>5. ASSUME NEW i \in 1 .. Len(r)
          PROVE  /\ Before(r, p, i) \in 0 .. n - 1 /\ r[i] = f[Before(r, p, i)]
                 /\ Before(r, p, i) < until
      <4>1. CASE i <= Len(w)
        <5>1. i \in 1 .. Len(w)
          BY <2>7, <3>3, <4>1
        <5>2. i # 1 => i - 1 \in 1 .. Len(w)
          BY <2>7, <5>1
        <5>3. Before(r, p, i) = Before(w, p, i) /\ r[i] = w[i]
          BY <3>3, <5>1, <5>2 DEF Before
        <5>. QED BY <2>6, <5>1, <5>3 DEF IsWalked, Chain
      <4>2. CASE i = Len(w) + 1
        <5>1. CASE w = <<>>
          <6>1. l = p /\ i = 1
            BY <4>2, <5>1 DEF l, LastOf
          <6>. QED BY <2>7, <2>11, <3>2, <3>3, <4>2, <6>1 DEF Before
        <5>2. CASE w # <<>>
          <6>1. i # 1 /\ i - 1 = Len(w) /\ Len(w) \in 1 .. Len(w)
            BY <2>7, <4>2, <5>2
          <6>2. Before(r, p, i) = l
            BY <3>3, <5>2, <6>1 DEF Before, l, LastOf
          <6>. QED BY <2>7, <2>11, <3>2, <3>3, <4>2, <6>2
        <5>. QED BY <5>1, <5>2
      <4>. QED BY <2>7, <3>3, <4>1, <4>2
    <3>6. Chain(f, r, p, n)
      BY <3>3, <3>5 DEF Chain
    <3>7. Len(r) = j
      BY <2>3, <3>3, <3>4
    <3>8. Good(j)
      BY <2>3, <3>1, <3>5, <3>6, <3>7 DEF IsWalked
    <3>. QED BY <2>3, <3>8
  <2>. QED BY <2>9, <2>10, <2>11
<1>. QED BY <1>1, <1>3

------------------------------------------------------------------------------
(* Spans: the tokens of a scheme or the units of level 1.                  *)

LEMMA AdvanceSteps ==
  ASSUME Given
  PROVE  Steps(advance, Size) /\ Size \in Nat /\ Never \in Nat /\ Size < Never
<1>1. Never \in Nat
  BY WalkerAssumption
<1>. QED BY <1>1 DEF Given, Steps

(* The function next_unit is a value of.                                   *)
IsUnit(g, a) ==
  g = [lo \in a .. Size |->
         LET hi == advance[lo]
         IN  IF hi < Size /\ <<lo, hi>> \in glued THEN g[hi] ELSE hi]

LEMMA UnitExists ==
  ASSUME Given, NEW a \in 0 .. Size
  PROVE  \E g : IsUnit(g, a)
<1>0. Size \in Nat
  BY AdvanceSteps
<1>. DEFINE Bad == {m \in 0 .. Size : ~ \E g : IsUnit(g, Size - m)}
<1>1. SUFFICES ASSUME Bad # {} PROVE FALSE
  <2>1. Size - a \in 0 .. Size /\ Size - (Size - a) = a
    BY <1>0
  <2>2. Size - a \notin Bad => \E g : IsUnit(g, Size - (Size - a))
    BY <2>1
  <2>. HIDE DEF Bad
  <2>3. Bad = {} => Size - a \notin Bad
    OBVIOUS
  <2>. QED BY <2>1, <2>2, <2>3
<1>2. PICK m \in Bad : \A k \in Bad : m <= k
  <2>1. Bad \in SUBSET Nat
    BY <1>0
  <2>. HIDE DEF Bad
  <2>. QED BY <1>1, <2>1, LeastNumber
<1>. DEFINE b == Size - m
<1>3. m \in 0 .. Size /\ b \in 0 .. Size /\ ~ \E g : IsUnit(g, b)
  BY <1>0
<1>4. \A lo \in 0 .. Size : \A hi : <<lo, hi>> \in glued => lo < Size
  <2>1. \A pair \in glued : pair[1] \in 0 .. Size - 1
    BY DEF Given
  <2>. QED BY <2>1, <1>0
<1>5. CASE m = 0
  <2>. DEFINE h == [lo \in Size .. Size |-> advance[lo]]
  <2>1. \A lo \in Size .. Size : ~(<<lo, advance[lo]>> \in glued)
    BY <1>0, <1>4
  <2>2. h = [lo \in Size .. Size |->
               IF advance[lo] < Size /\ <<lo, advance[lo]>> \in glued
               THEN h[advance[lo]] ELSE advance[lo]]
    BY <2>1
  <2>. HIDE DEF h
  <2>3. IsUnit(h, Size)
    BY <2>2 DEF IsUnit
  <2>4. b = Size
    BY <1>0, <1>5
  <2>. QED BY <2>3, <2>4, <1>3
<1>6. CASE m # 0
  <2>1. m - 1 \in 0 .. Size /\ m - 1 \notin Bad
    <3>. HIDE DEF Bad
    <3>. QED BY <1>0, <1>2, <1>3, <1>6
  <2>2. PICK g : IsUnit(g, Size - (m - 1))
    BY <2>1
  <2>3. Size - (m - 1) = b + 1
    BY <1>0, <1>3
  <2>. HIDE DEF b
  <2>4. g = [lo \in b + 1 .. Size |->
               IF advance[lo] < Size /\ <<lo, advance[lo]>> \in glued
               THEN g[advance[lo]] ELSE advance[lo]]
    BY <2>2, <2>3 DEF IsUnit
  <2>. DEFINE h == [lo \in b .. Size |->
               IF advance[lo] < Size /\ <<lo, advance[lo]>> \in glued
               THEN g[advance[lo]] ELSE advance[lo]]
  <2>5. ASSUME NEW lo \in b + 1 .. Size PROVE h[lo] = g[lo]
    <3>1. lo \in b .. Size
      BY <1>0, <1>3
    <3>2. g[lo] = IF advance[lo] < Size /\ <<lo, advance[lo]>> \in glued
                  THEN g[advance[lo]] ELSE advance[lo]
      BY <2>4
    <3>. QED BY <3>1, <3>2
  <2>6. ASSUME NEW lo \in b .. Size, advance[lo] < Size, <<lo, advance[lo]>> \in glued
        PROVE  advance[lo] \in b + 1 .. Size
    <3>1. lo \in 0 .. Size - 1
      BY <2>6, <1>0, <1>3, <1>4
    <3>2. advance[lo] \in Nat /\ lo < advance[lo]
      BY <3>1, AdvanceSteps DEF Steps
    <3>. QED BY <3>1, <3>2, <2>6, <1>0, <1>3
  <2>7. h = [lo \in b .. Size |->
               IF advance[lo] < Size /\ <<lo, advance[lo]>> \in glued
               THEN h[advance[lo]] ELSE advance[lo]]
    <3>. HIDE DEF h
    <3>1. \A lo \in b .. Size : advance[lo] < Size /\ <<lo, advance[lo]>> \in glued
                                  => h[advance[lo]] = g[advance[lo]]
      BY <2>5, <2>6
    <3>2. h = [lo \in b .. Size |->
                 IF advance[lo] < Size /\ <<lo, advance[lo]>> \in glued
                 THEN g[advance[lo]] ELSE advance[lo]]
      BY DEF h
    <3>. QED BY <3>1, <3>2
  <2>. HIDE DEF h
  <2>8. IsUnit(h, b)
    BY <2>7 DEF IsUnit
  <2>. QED BY <2>8, <1>3
<1>. QED BY <1>5, <1>6

(* A unit is a token, and the unit behind it if that glues on.             *)
LEMMA UnitRecurs ==
  ASSUME Given, gluing, NEW q \in 0 .. Size - 1
  PROVE  Span(q) = IF advance[q] < Size /\ <<q, advance[q]>> \in glued
                   THEN Span(advance[q]) ELSE advance[q]
<1>0. Size \in Nat /\ q < advance[q] /\ advance[q] \in Nat
  BY AdvanceSteps DEF Steps
<1>. DEFINE c == CHOOSE g : IsUnit(g, 0)
<1>1. IsUnit(c, 0)
  <2>1. 0 \in 0 .. Size
    BY <1>0
  <2>. QED BY <2>1, UnitExists
<1>2. \A p : next_unit(Size, p, advance, glued) = c[p]
  BY DEF next_unit, IsUnit
<1>3. \A p : Span(p) = c[p]
  BY <1>2 DEF Span
<1>. HIDE DEF c
<1>4. q \in 0 .. Size
  BY <1>0
<1>5. c[q] = IF advance[q] < Size /\ <<q, advance[q]>> \in glued
             THEN c[advance[q]] ELSE advance[q]
  BY <1>1, <1>4 DEF IsUnit
<1>. QED BY <1>3, <1>5

LEMMA UnitFits ==
  ASSUME Given, gluing
  PROVE  \A q \in 0 .. Size - 1 : Span(q) \in q + 1 .. Size
<1>0. Size \in Nat
  BY AdvanceSteps
<1>1. \A q \in 0 .. Size - 1 : advance[q] \in q + 1 .. Size
  BY <1>0, AdvanceSteps DEF Given, Steps
<1>. DEFINE Bad == {q \in 0 .. Size - 1 : ~(Span(q) \in q + 1 .. Size)}
<1>2. SUFFICES ASSUME Bad # {} PROVE FALSE
  OBVIOUS
<1>3. PICK q \in Bad : \A k \in Bad : k <= q
  <2>1. \A k \in Bad : k \in 0 .. Size
    BY <1>0
  <2>. HIDE DEF Bad
  <2>. QED BY <1>0, <1>2, <2>1, GreatestNumber
<1>4. q \in 0 .. Size - 1 /\ ~(Span(q) \in q + 1 .. Size)
  OBVIOUS
<1>. DEFINE hi == advance[q]
<1>5. hi \in q + 1 .. Size
  BY <1>1, <1>4
<1>6. hi < Size => Span(hi) \in hi + 1 .. Size
  <2>1. hi < Size => hi \in 0 .. Size - 1 /\ hi \notin Bad
    <3>. HIDE DEF Bad
    <3>. QED BY <1>0, <1>3, <1>4, <1>5
  <2>. QED BY <2>1
<1>7. Span(q) = hi \/ (hi < Size /\ Span(q) = Span(hi))
  BY <1>4, UnitRecurs
<1>. HIDE DEF hi
<1>. QED BY <1>0, <1>4, <1>5, <1>6, <1>7

LEMMA SpanSteps ==
  ASSUME Given
  PROVE  /\ Steps(SpanEnds, Size)
         /\ \A q \in 0 .. Size - 1 : /\ SpanEnds[q] = Span(q)
                                     /\ SpanEnds[q] \in 1 .. Size \cup {Never}
         /\ simd \/ gluing => \A q \in 0 .. Size - 1 : SpanEnds[q] \in 1 .. Size
         /\ ~gluing => SpanEnds = advance
<1>0. Size \in Nat /\ Never \in Nat /\ advance \in [0 .. Size - 1 -> 1 .. Size \cup {Never}]
      /\ gluing \in BOOLEAN
  BY AdvanceSteps DEF Given
<1>1. SpanEnds = [q \in 0 .. Size - 1 |-> Span(q)]
  BY <1>0 DEF SpanEnds
<1>2. CASE gluing
  <2>1. \A q \in 0 .. Size - 1 : SpanEnds[q] = Span(q) /\ SpanEnds[q] \in 1 .. Size
                                 /\ SpanEnds[q] \in Nat /\ q < SpanEnds[q]
    BY <1>0, <1>1, <1>2, UnitFits
  <2>2. Steps(SpanEnds, Size)
    BY <1>0, <1>1, <2>1 DEF Steps
  <2>. QED BY <1>2, <2>1, <2>2
<1>3. CASE ~gluing
  <2>1. SpanEnds = advance
    BY <1>0, <1>1, <1>3 DEF Span
  <2>2. simd => \A q \in 0 .. Size - 1 : advance[q] \in 1 .. Size
    BY <1>0 DEF Given
  <2>3. \A q \in 0 .. Size - 1 : SpanEnds[q] = Span(q)
    BY <1>1
  <2>. QED BY <1>0, <1>3, <2>1, <2>2, <2>3, AdvanceSteps
<1>. QED BY <1>0, <1>2, <1>3

(* Spans go on from p to the end of the text, to a place the scheme sees   *)
(* no more token behind, or until there are k of them.                     *)
NoMore(p) == p >= Size \/ SpanEnds[p] = Never

SpanChain(s, p) ==
  /\ Chain(SpanEnds, s, p, Size)
  /\ \A i \in 1 .. Len(s) : s[i] <= Size

LEMMA SpansFacts ==
  ASSUME Given, NEW p \in 0 .. Size, NEW k \in Nat
  PROVE  /\ SpanChain(Spans(p, k), p)
         /\ Len(Spans(p, k)) <= k
         /\ Len(Spans(p, k)) = k \/ NoMore(LastOf(Spans(p, k), p))
<1>0. /\ Size \in Nat /\ Never \in Nat /\ Size < Never /\ p \in Nat
      /\ Steps(SpanEnds, Size)
      /\ \A q \in 0 .. Size - 1 : SpanEnds[q] \in 1 .. Size \cup {Never}
  BY AdvanceSteps, SpanSteps
<1>. DEFINE w == Walk(SpanEnds, p, Size, k)
<1>1. IsWalked(w, SpanEnds, p, Size, Size, k)
  BY <1>0, WalkFacts
<1>2. Spans(p, k) = IF LastOf(w, p) = Never THEN Front(w) ELSE w
  BY DEF Spans
<1>. HIDE DEF w
<1>3. Chain(SpanEnds, w, p, Size) /\ w \in Seq(Nat) /\ Len(w) \in Nat /\ Len(w) <= k
  BY <1>1 DEF IsWalked, Chain
<1>4. \A i \in 1 .. Len(w) : w[i] = SpanEnds[Before(w, p, i)] /\ Before(w, p, i) \in 0 .. Size - 1
  BY <1>3 DEF Chain
<1>5. \A i \in 1 .. Len(w) : w[i] \in 1 .. Size \cup {Never}
  BY <1>0, <1>4
<1>6. \A i \in 1 .. Len(w) - 1 : w[i] <= Size
  <2>. TAKE i \in 1 .. Len(w) - 1
  <2>1. i + 1 \in 1 .. Len(w) /\ i + 1 # 1 /\ (i + 1) - 1 = i
    BY <1>3
  <2>2. Before(w, p, i + 1) = w[i]
    BY <2>1 DEF Before
  <2>. QED BY <1>0, <1>4, <2>1, <2>2
<1>7. CASE LastOf(w, p) = Never
  <2>1. w # <<>> /\ Len(w) \in 1 .. Len(w) /\ w[Len(w)] = Never
    BY <1>0, <1>3, <1>7 DEF LastOf
  <2>. DEFINE m == Len(w) - 1
              s == SubSeq(w, 1, m)
  <2>2. m \in 0 .. Len(w) /\ m \in Nat
    BY <1>3, <2>1
  <2>3. /\ Chain(SpanEnds, s, p, Size) /\ Len(s) = m
        /\ \A i \in 1 .. m : s[i] = w[i]
        /\ LastOf(s, p) = IF m = 0 THEN p ELSE w[m]
    <3>. HIDE DEF m
    <3>. QED BY <1>3, <2>2, ChainFront
  <2>4. Spans(p, k) = s
    BY <1>2, <1>7 DEF Front
  <2>5. Before(w, p, Len(w)) = LastOf(s, p)
    BY <1>3, <2>2, <2>3 DEF Before
  <2>6. SpanEnds[LastOf(s, p)] = Never
    BY <1>4, <2>1, <2>5
  <2>7. \A i \in 1 .. Len(s) : s[i] <= Size
    BY <1>6, <2>3
  <2>8. Len(s) <= k
    BY <1>3, <2>2, <2>3
  <2>. HIDE DEF s
  <2>. QED BY <2>3, <2>4, <2>6, <2>7, <2>8 DEF SpanChain, NoMore
<1>8. CASE LastOf(w, p) # Never
  <2>1. Spans(p, k) = w
    BY <1>2, <1>8
  <2>2. \A i \in 1 .. Len(w) : w[i] <= Size
    <3>. TAKE i \in 1 .. Len(w)
    <3>1. i = Len(w) \/ i \in 1 .. Len(w) - 1
      BY <1>3
    <3>2. i = Len(w) => w[i] # Never
      <4>1. w # <<>>
        BY <1>3
      <4>. QED BY <4>1, <1>8 DEF LastOf
    <3>3. i = Len(w) => w[i] <= Size
      BY <1>0, <1>5, <3>2
    <3>. QED BY <1>6, <3>1, <3>3
  <2>3. Len(w) = k \/ NoMore(LastOf(w, p))
    BY <1>1 DEF IsWalked, NoMore
  <2>. QED BY <1>3, <2>1, <2>2, <2>3 DEF SpanChain
<1>. QED BY <1>7, <1>8

LEMMA SpanChainFacts ==
  ASSUME Given, NEW p \in 0 .. Size, NEW s, SpanChain(s, p)
  PROVE  /\ s \in Seq(Nat) /\ Len(s) \in Nat
         /\ LastOf(s, p) \in 0 .. Size
         /\ p + Len(s) <= LastOf(s, p)
<1>0. Size \in Nat /\ Steps(SpanEnds, Size) /\ p \in Nat
  BY AdvanceSteps, SpanSteps
<1>1. Chain(SpanEnds, s, p, Size)
  BY DEF SpanChain
<1>2. s \in Seq(Nat) /\ Len(s) \in Nat
  BY <1>1 DEF Chain
<1>3. LastOf(s, p) \in Nat /\ p + Len(s) <= LastOf(s, p)
  BY <1>0, <1>1, ChainGrows
<1>4. LastOf(s, p) <= Size
  <2>1. CASE s = <<>>
    BY <1>0, <2>1 DEF LastOf
  <2>2. CASE s # <<>>
    <3>1. Len(s) \in 1 .. Len(s)
      BY <1>2, <2>2
    <3>. QED BY <2>2, <3>1 DEF LastOf, SpanChain
  <2>. QED BY <2>1, <2>2
<1>. QED BY <1>0, <1>2, <1>3, <1>4

(* What the walk should hand out: all the spans from 0 on.                 *)
LEMMA TokensComplete ==
  ASSUME Given
  PROVE  SpanChain(tokens, 0) /\ NoMore(LastOf(tokens, 0))
<1>0. Size \in Nat /\ 0 \in 0 .. Size /\ tokens = Spans(0, Size)
  BY AdvanceSteps DEF Given
<1>1. SpanChain(tokens, 0) /\ (Len(tokens) = Size \/ NoMore(LastOf(tokens, 0)))
  BY <1>0, SpansFacts
<1>2. Len(tokens) = Size => NoMore(LastOf(tokens, 0))
  <2>1. 0 + Len(tokens) <= LastOf(tokens, 0) /\ LastOf(tokens, 0) \in 0 .. Size
    BY <1>0, <1>1, SpanChainFacts
  <2>. QED BY <1>0, <2>1 DEF NoMore
<1>. QED BY <1>1, <1>2

(* A complete chain of spans is no shorter than any other.                 *)
LEMMA CompleteIsLongest ==
  ASSUME Given, NEW s, SpanChain(s, 0), NEW t, SpanChain(t, 0), NoMore(LastOf(t, 0))
  PROVE  Len(s) <= Len(t)
<1>0. Size \in Nat /\ Never \in Nat /\ Size < Never /\ 0 \in 0 .. Size
  BY AdvanceSteps
<1>1. s \in Seq(Nat) /\ Len(s) \in Nat /\ t \in Seq(Nat) /\ Len(t) \in Nat
      /\ Chain(SpanEnds, s, 0, Size) /\ Chain(SpanEnds, t, 0, Size)
  BY <1>0, SpanChainFacts DEF SpanChain
<1>2. SUFFICES ASSUME Len(t) < Len(s) PROVE FALSE
  BY <1>1
<1>. DEFINE i == Len(t) + 1
<1>3. i \in 1 .. Len(s) /\ (i # 1 => i - 1 = Len(t) /\ Len(t) \in 1 .. Len(t))
  BY <1>1, <1>2
<1>4. i # 1 => s[i - 1] = t[Len(t)] /\ t # <<>>
  <2>1. i # 1 => Len(t) \in 1 .. Len(s) /\ Len(t) <= Len(t) /\ t # <<>>
    BY <1>1, <1>2, <1>3
  <2>2. i # 1 => s[Len(t)] = t[Len(t)]
    BY <1>1, <2>1, ChainsAgree
  <2>. QED BY <1>3, <2>1, <2>2
<1>5. i = 1 => t = <<>>
  BY <1>1
<1>6. Before(s, 0, i) = LastOf(t, 0)
  BY <1>4, <1>5 DEF Before, LastOf
<1>7. LastOf(t, 0) \in 0 .. Size - 1 /\ s[i] = SpanEnds[LastOf(t, 0)]
  BY <1>1, <1>3, <1>6 DEF Chain
<1>8. SpanEnds[LastOf(t, 0)] = Never
  BY <1>0, <1>7 DEF NoMore
<1>9. s[i] <= Size
  BY <1>3 DEF SpanChain
<1>. QED BY <1>0, <1>7, <1>8, <1>9

LEMMA ChainIsPrefix ==
  ASSUME Given, NEW s, SpanChain(s, 0)
  PROVE  /\ IsPrefix(s, tokens)
         /\ NoMore(LastOf(s, 0)) => s = tokens
<1>0. Size \in Nat /\ 0 \in 0 .. Size
  BY AdvanceSteps
<1>1. SpanChain(tokens, 0) /\ NoMore(LastOf(tokens, 0))
  BY TokensComplete
<1>2. s \in Seq(Nat) /\ Len(s) \in Nat /\ tokens \in Seq(Nat) /\ Len(tokens) \in Nat
  BY <1>0, <1>1, SpanChainFacts
<1>3. \A i \in 1 .. Len(s) : i <= Len(tokens) => s[i] = tokens[i]
  BY <1>1, ChainsAgree DEF SpanChain
<1>4. Len(s) <= Len(tokens)
  BY <1>1, CompleteIsLongest
<1>5. IsPrefix(s, tokens)
  <2>1. \A i \in 1 .. Len(s) : s[i] = tokens[i]
    BY <1>2, <1>3, <1>4
  <2>2. SubSeq(s, 1, Len(s)) = SubSeq(tokens, 1, Len(s))
    <3>. DEFINE a == SubSeq(s, 1, Len(s))
                b == SubSeq(tokens, 1, Len(s))
    <3>1. /\ a \in Seq(Nat) /\ Len(a) = Len(s) /\ b \in Seq(Nat) /\ Len(b) = Len(s)
          /\ \A i \in 1 .. Len(s) : a[i] = s[i] /\ b[i] = tokens[i]
      BY <1>2, <1>4
    <3>. HIDE DEF a, b
    <3>2. a = b
      BY <1>2, <2>1, <3>1
    <3>. QED BY <3>2 DEF a, b
  <2>. QED BY <1>4, <2>2 DEF IsPrefix
<1>6. ASSUME NoMore(LastOf(s, 0)) PROVE s = tokens
  <2>1. Len(s) = Len(tokens)
    BY <1>1, <1>2, <1>4, <1>6, CompleteIsLongest
  <2>2. \A i \in 1 .. Len(s) : s[i] = tokens[i]
    BY <1>2, <1>3, <2>1
  <2>. QED BY <1>2, <2>1, <2>2
<1>. QED BY <1>5, <1>6

------------------------------------------------------------------------------
(* The boundaries of the tokens, for a scheme with masks.                  *)

(* A boundary is followed by the end of its token and by none before that. *)
BoundariesFollow ==
  /\ Boundaries \subseteq 0 .. Size /\ 0 \in Boundaries
  /\ \A p \in Boundaries : p < Size =>
       /\ advance[p] \in Boundaries
       /\ \A b \in Boundaries : ~(p < b /\ b < advance[p])

LEMMA BoundariesAreFollowed ==
  ASSUME Given, simd
  PROVE  BoundariesFollow
<1>. DEFINE w == Walk(advance, 0, Size, Size)
<1>0. /\ Size \in Nat /\ 0 \in Nat /\ Steps(advance, Size)
      /\ \A q \in 0 .. Size - 1 : advance[q] \in 1 .. Size
  <2>1. \A q \in 0 .. Size - 1 : advance[q] \in 1 .. Size
    BY DEF Given
  <2>. QED BY <2>1, AdvanceSteps
<1>1. IsWalked(w, advance, 0, Size, Size, Size)
  BY <1>0, WalkFacts
<1>2. Boundaries = {0} \cup {w[i] : i \in 1 .. Len(w)}
  <2>1. w \in Seq(Nat)
    BY <1>1 DEF IsWalked, Chain
  <2>. HIDE DEF w
  <2>2. DOMAIN w = 1 .. Len(w)
    BY <2>1
  <2>. QED BY <2>2 DEF Boundaries, w
<1>. HIDE DEF w
<1>3. /\ w \in Seq(Nat) /\ Len(w) \in Nat /\ Chain(advance, w, 0, Size)
      /\ \A i \in 1 .. Len(w) : Before(w, 0, i) \in 0 .. Size - 1 /\ w[i] = advance[Before(w, 0, i)]
  BY <1>1 DEF IsWalked, Chain
<1>4. /\ Increasing(w) /\ \A i \in 1 .. Len(w) : i <= w[i] /\ w[i] <= Size /\ w[i] \in Nat
      /\ 0 + Len(w) <= LastOf(w, 0) /\ LastOf(w, 0) \in Nat
  <2>1. /\ Increasing(w) /\ \A i \in 1 .. Len(w) : w[i] \in Nat /\ 0 + i <= w[i]
        /\ 0 + Len(w) <= LastOf(w, 0) /\ LastOf(w, 0) \in Nat
    BY <1>0, <1>3, ChainGrows
  <2>2. \A i \in 1 .. Len(w) : w[i] \in 1 .. Size
    BY <1>0, <1>3
  <2>. QED BY <1>0, <2>1, <2>2
<1>5. LastOf(w, 0) >= Size
  BY <1>0, <1>1, <1>4 DEF IsWalked
<1>6. Boundaries \subseteq 0 .. Size /\ 0 \in Boundaries
  BY <1>0, <1>2, <1>4
<1>7. ASSUME NEW p \in Boundaries, p < Size
      PROVE  \E i \in 1 .. Len(w) : p = Before(w, 0, i)
  <2>1. CASE p = 0
    <3>1. Len(w) # 0
      BY <1>0, <1>3, <1>5, <1>7, <2>1 DEF LastOf
    <3>2. 1 \in 1 .. Len(w) /\ Before(w, 0, 1) = 0
      BY <1>3, <3>1 DEF Before
    <3>. QED BY <2>1, <3>2
  <2>2. CASE p # 0
    <3>1. PICK i \in 1 .. Len(w) : p = w[i]
      BY <1>2, <2>2
    <3>2. i # Len(w)
      <4>1. w # <<>>
        BY <1>3, <3>1
      <4>. QED BY <4>1, <1>0, <1>4, <1>5, <1>7, <3>1 DEF LastOf
    <3>3. i + 1 \in 1 .. Len(w) /\ i + 1 # 1 /\ (i + 1) - 1 = i
      BY <1>3, <3>1, <3>2
    <3>4. Before(w, 0, i + 1) = p
      BY <3>1, <3>3 DEF Before
    <3>. QED BY <3>3, <3>4
  <2>. QED BY <2>1, <2>2
<1>8. ASSUME NEW p \in Boundaries, p < Size
      PROVE  /\ advance[p] \in Boundaries
             /\ \A b \in Boundaries : ~(p < b /\ b < advance[p])
  <2>1. PICK i \in 1 .. Len(w) : p = Before(w, 0, i)
    BY <1>7, <1>8
  <2>2. advance[p] = w[i]
    BY <1>3, <2>1
  <2>3. advance[p] \in Boundaries
    BY <1>2, <2>2
  <2>4. ASSUME NEW b \in Boundaries, p < b, b < advance[p] PROVE FALSE
    <3>1. b # 0 /\ p \in Nat
      BY <1>6, <2>4
    <3>2. PICK j \in 1 .. Len(w) : b = w[j]
      BY <1>2, <3>1
    <3>3. j < i
      <4>1. j = i \/ i < j \/ j < i
        BY <1>3
      <4>2. ~(j = i) /\ ~(i < j)
        BY <1>4, <2>2, <2>4, <3>2 DEF Increasing
      <4>. QED BY <4>1, <4>2
    <3>4. i # 1 /\ i - 1 \in 1 .. Len(w) /\ p = w[i - 1]
      BY <1>3, <2>1, <3>3 DEF Before
    <3>5. j = i - 1 \/ j < i - 1
      BY <1>3, <3>3
    <3>6. w[j] <= w[i - 1]
      BY <1>4, <3>4, <3>5 DEF Increasing
    <3>. QED BY <1>4, <2>4, <3>2, <3>4, <3>6
  <2>. QED BY <2>3, <2>4
<1>. QED BY <1>6, <1>8 DEF BoundariesFollow

(* The token a byte is in.                                                 *)
LEMMA TokenAround ==
  ASSUME Given, simd, NEW p \in Boundaries, NEW q \in p .. Size - 1
  PROVE  \E a \in Boundaries : a \in p .. q /\ a < Size /\ q < advance[a] /\ advance[a] \in 1 .. Size
<1>0. /\ Size \in Nat /\ BoundariesFollow /\ Boundaries \subseteq 0 .. Size
      /\ \A x \in 0 .. Size - 1 : advance[x] \in 1 .. Size
  BY AdvanceSteps, BoundariesAreFollowed DEF BoundariesFollow, Given
<1>1. p \in Nat /\ q \in Nat /\ p <= q /\ q < Size
  BY <1>0
<1>. DEFINE S == {b \in Boundaries : b <= q}
<1>2. \A b \in S : b \in 0 .. q
  BY <1>0, <1>1
<1>3. p \in S
  BY <1>1
<1>4. PICK a \in S : \A b \in S : b <= a
  <2>. HIDE DEF S
  <2>. QED BY <1>1, <1>2, <1>3, GreatestNumber
<1>5. a \in Boundaries /\ a \in p .. q /\ a < Size /\ a \in 0 .. Size - 1
  BY <1>0, <1>1, <1>2, <1>3, <1>4
<1>6. advance[a] \in Boundaries /\ a < advance[a] /\ advance[a] \in 1 .. Size
  BY <1>0, <1>5, AdvanceSteps DEF BoundariesFollow, Steps
<1>7. ~(advance[a] <= q)
  BY <1>0, <1>4, <1>5, <1>6
<1>. QED BY <1>0, <1>1, <1>5, <1>6, <1>7

------------------------------------------------------------------------------
(* The grid of the batches.                                                *)

OnGrid(x) == \E k \in Nat : x = W * k

LEMMA WidthType == W \in Nat /\ W > 3
BY MaskAssumption

LEMMA Times ==
  ASSUME NEW k \in Nat
  PROVE  W * k \in Nat /\ W * (k + 1) = W * k + W
BY WidthType

LEMMA TimesMonotone ==
  ASSUME NEW j \in Nat, NEW k \in Nat, j < k
  PROVE  W * j + W <= W * k
<1>1. PICK d \in Nat : k = j + 1 + d
  <2>1. k - (j + 1) \in Nat /\ k = j + 1 + (k - (j + 1))
    OBVIOUS
  <2>. QED BY <2>1
<1>2. W * k = W * (j + 1) + W * d
  BY <1>1, WidthType
<1>3. W * (j + 1) = W * j + W /\ W * d \in Nat /\ W * j \in Nat
  BY Times
<1>. QED BY <1>2, <1>3, WidthType

LEMMA Division ==
  ASSUME NEW d \in Nat
  PROVE  d \div W \in Nat /\ W * (d \div W) <= d /\ d < W * (d \div W) + W
BY WidthType

LEMMA GridNat ==
  ASSUME NEW x, OnGrid(x)
  PROVE  x \in Nat
BY Times DEF OnGrid

LEMMA GridZero == OnGrid(0)
BY WidthType DEF OnGrid

LEMMA GridPlus ==
  ASSUME NEW x, OnGrid(x)
  PROVE  OnGrid(x + W)
<1>1. PICK k \in Nat : x = W * k
  BY DEF OnGrid
<1>2. x + W = W * (k + 1) /\ k + 1 \in Nat
  BY <1>1, Times
<1>. QED BY <1>2 DEF OnGrid

LEMMA GridApart ==
  ASSUME NEW x, OnGrid(x), NEW y, OnGrid(y), x < y
  PROVE  x + W <= y
<1>1. PICK j \in Nat, k \in Nat : x = W * j /\ y = W * k
  BY DEF OnGrid
<1>2. j < k
  <2>1. k < j => y + W <= x
    BY <1>1, TimesMonotone
  <2>2. k = j => x = y
    BY <1>1
  <2>. QED BY <1>1, <2>1, <2>2, GridNat, WidthType
<1>. QED BY <1>1, <1>2, TimesMonotone

LEMMA GridJump ==
  ASSUME NEW x, OnGrid(x), NEW p \in Nat, x <= p
  PROVE  LET r == x + W * ((p - x) \div W)
         IN  OnGrid(r) /\ x <= r /\ r <= p /\ p < r + W
<1>1. PICK k \in Nat : x = W * k
  BY DEF OnGrid
<1>2. x \in Nat /\ p - x \in Nat
  BY GridNat
<1>. DEFINE q == (p - x) \div W
<1>3. q \in Nat /\ W * q <= p - x /\ p - x < W * q + W
  BY <1>2, Division
<1>. HIDE DEF q
<1>4. x + W * q = W * (k + q) /\ k + q \in Nat
  BY <1>1, <1>3, WidthType
<1>5. W * q \in Nat
  BY <1>3, Times
<1>6. OnGrid(x + W * q)
  BY <1>4 DEF OnGrid
<1>7. x <= x + W * q /\ x + W * q <= p /\ p < x + W * q + W
  BY <1>2, <1>3, <1>5, WidthType
<1>. QED BY <1>6, <1>7 DEF q

LEMMA GridRewound ==
  ASSUME NEW x, OnGrid(x), NEW p \in Nat
  PROVE  LET r == Rewound(x, p)
         IN  /\ OnGrid(r) /\ r <= p
             /\ x <= p => r = x
             /\ x > p => p < r + W
<1>0. x \in Nat
  BY GridNat
<1>1. CASE ~(x > p)
  BY <1>0, <1>1 DEF Rewound
<1>2. CASE x > p
  <2>1. PICK k \in Nat : x = W * k
    BY DEF OnGrid
  <2>2. x - p + W - 1 \in Nat
    BY <1>0, <1>2, WidthType
  <2>. DEFINE q == (x - p + W - 1) \div W
  <2>3. q \in Nat /\ W * q <= x - p + W - 1 /\ x - p + W - 1 < W * q + W
    BY <2>2, Division
  <2>4. Rewound(x, p) = x - W * q
    BY <1>2 DEF Rewound
  <2>. HIDE DEF q
  <2>5. W * q \in Nat
    BY <2>3, Times
  <2>6. x - W * q <= p /\ p < (x - W * q) + W
    BY <1>0, <2>3, <2>5, WidthType
  <2>7. q <= k
    <3>1. SUFFICES ASSUME k < q PROVE FALSE
      BY <2>1, <2>3
    <3>2. W * k + W <= W * q
      BY <2>1, <2>3, <3>1, TimesMonotone
    <3>. QED BY <1>0, <2>1, <2>5, <2>6, <3>2, WidthType
  <2>8. k - q \in Nat /\ W * (k - q) = x - W * q
    BY <2>1, <2>3, <2>7, WidthType
  <2>9. OnGrid(x - W * q)
    BY <2>8 DEF OnGrid
  <2>. QED BY <1>0, <1>2, <2>4, <2>6, <2>9
<1>. QED BY <1>0, <1>1, <1>2

LEMMA GridBatch ==
  ASSUME Given, simd
  PROVE  /\ \A x : x \in Grid <=> OnGrid(x) /\ x + W <= Size
         /\ \A x \in Grid : /\ batch_masks[x].usable \subseteq Bits
                            /\ batch_masks[x].bad \subseteq Bits
<1>0. Size \in Nat
  BY AdvanceSteps
<1>1. ASSUME NEW x \in Grid PROVE OnGrid(x) /\ x + W <= Size
  <2>1. PICK k \in 0 .. Size : x = W * k
    BY DEF Grid
  <2>2. x \in 0 .. Size - W
    BY DEF Grid
  <2>. QED BY <1>0, <2>1, <2>2, WidthType DEF OnGrid
<1>2. ASSUME NEW x, OnGrid(x), x + W <= Size PROVE x \in Grid
  <2>1. PICK k \in Nat : x = W * k
    BY <1>2 DEF OnGrid
  <2>2. k <= W * k
    BY <2>1, WidthType
  <2>3. x \in 0 .. Size - W /\ k \in 0 .. Size
    BY <1>0, <1>2, <2>1, <2>2, GridNat, WidthType
  <2>. QED BY <2>1, <2>3 DEF Grid
<1>3. batch_masks \in [Grid -> [usable : SUBSET Bits, bad : SUBSET Bits]]
  BY DEF Given, MasksAgree
<1>. QED BY <1>1, <1>2, <1>3

------------------------------------------------------------------------------
(* What the masks can be trusted with.                                     *)

LEMMA MarkedHere ==
  ASSUME Given, simd, NEW base \in Grid, NEW q \in base .. base + W - 1
  PROVE  /\ Marked(q, "usable") <=> q - base \in batch_masks[base].usable
         /\ Marked(q, "bad") <=> q - base \in batch_masks[base].bad
<1>1. ASSUME NEW other \in Grid, q - other \in Bits PROVE other = base
  <2>1. OnGrid(other) /\ OnGrid(base) /\ other \in Nat /\ base \in Nat
    BY GridBatch, GridNat
  <2>2. other <= q /\ q < other + W /\ base <= q /\ q < base + W
    BY <1>1, <2>1, WidthType DEF Bits
  <2>3. ~(other < base) /\ ~(base < other)
    BY <2>1, <2>2, GridApart, WidthType
  <2>. QED BY <2>1, <2>3
<1>2. \A other \in Grid : /\ batch_masks[other].usable \subseteq Bits
                          /\ batch_masks[other].bad \subseteq Bits
  BY GridBatch
<1>. QED BY <1>1, <1>2 DEF Marked

(* Nothing that a walk at p could miss lies below s: no boundary, and no   *)
(* bad byte from p on.                                                     *)
NoneBad(p, s) == \A z \in p .. s - 1 : ~Marked(z, "bad")
NoneBetween(p, s) == \A b \in Boundaries : ~(p < b /\ b < s)

LEMMA TrustedBits ==
  ASSUME Given, simd, NEW p \in Boundaries, NEW base \in Grid,
         NEW lim \in base .. base + W,
         NoneBetween(p, base), NoneBad(p, lim)
  PROVE  \A b : b \in Boundaries /\ p < b /\ b < lim
           <=> \E i \in batch_masks[base].usable : b = base + i /\ p < b /\ b < lim
<1>0. /\ Size \in Nat /\ p \in Nat /\ base \in Nat /\ W \in Nat /\ base + W <= Size
      /\ BoundariesFollow /\ Boundaries \subseteq 0 .. Size
      /\ batch_masks[base].usable \subseteq Bits /\ lim \in Nat /\ lim <= base + W
  <2>1. BoundariesFollow
    BY BoundariesAreFollowed
  <2>2. Boundaries \subseteq 0 .. Size
    BY <2>1 DEF BoundariesFollow
  <2>3. OnGrid(base) /\ base + W <= Size /\ batch_masks[base].usable \subseteq Bits
    BY GridBatch
  <2>. QED BY <2>1, <2>2, <2>3, GridNat, WidthType, AdvanceSteps
<1>1. ASSUME NEW b \in Nat, p < b, b < lim
      PROVE  \E a \in Boundaries : /\ a \in p .. b - 1 /\ a < Size /\ b <= advance[a]
                                   /\ advance[a] \in 1 .. Size
  <2>1. b - 1 \in p .. Size - 1
    BY <1>0, <1>1
  <2>2. PICK a \in Boundaries : a \in p .. b - 1 /\ a < Size /\ b - 1 < advance[a] /\ advance[a] \in 1 .. Size
    BY <2>1, TokenAround
  <2>3. b <= advance[a]
    BY <1>0, <2>2
  <2>. QED BY <2>2, <2>3
<1>2. ASSUME NEW i \in batch_masks[base].usable, p < base + i, base + i < lim
      PROVE  base + i \in Boundaries
  <2>. DEFINE b == base + i
  <2>1. b \in Nat /\ b \in base .. base + W - 1 /\ b - base = i
    BY <1>0, <1>2 DEF Bits
  <2>2. Marked(b, "usable")
    BY <2>1, MarkedHere
  <2>. HIDE DEF b
  <2>3. p < b /\ b < lim
    BY <1>2 DEF b
  <2>4. PICK a \in Boundaries : /\ a \in p .. b - 1 /\ a < Size /\ b <= advance[a]
                                /\ advance[a] \in 1 .. Size
    BY <1>1, <2>1, <2>3
  <2>5. CASE b = advance[a]
    BY <1>0, <2>4, <2>5 DEF b, BoundariesFollow
  <2>6. CASE b < advance[a]
    <3>1. b \in a + 1 .. advance[a] - 1
      BY <1>0, <2>1, <2>4, <2>6
    <3>2. a \in Boundaries \ {Size}
      BY <1>0, <2>4
    <3>3. \E z \in a .. b - 1 : Marked(z, "bad")
      BY <2>2, <3>1, <3>2 DEF Given, MasksAgree
    <3>4. \A z \in a .. b - 1 : z \in p .. lim - 1
      BY <1>0, <2>1, <2>3, <2>4
    <3>. QED BY <3>3, <3>4 DEF NoneBad
  <2>. QED BY <1>0, <2>1, <2>4, <2>5, <2>6
<1>3. ASSUME NEW b \in Boundaries, p < b, b < lim
      PROVE  \E i \in batch_masks[base].usable : b = base + i
  <2>0. b \in Nat
    BY <1>0
  <2>1. PICK a \in Boundaries : /\ a \in p .. b - 1 /\ a < Size /\ b <= advance[a]
                                /\ advance[a] \in 1 .. Size
    BY <1>1, <1>3, <2>0
  <2>2. b = advance[a]
    BY <1>0, <2>0, <2>1 DEF BoundariesFollow
  <2>3. b \in base .. base + W - 1 /\ b - base \in Bits /\ b = base + (b - base)
    <3>1. ~(b < base)
      BY <1>3 DEF NoneBetween
    <3>. QED BY <1>0, <1>3, <2>0, <3>1 DEF Bits
  <2>4. b \in Scanned
    BY <2>3 DEF Scanned
  <2>5. Marked(b, "usable")
    <3>1. SUFFICES ASSUME ~Marked(b, "usable") PROVE FALSE
      OBVIOUS
    <3>2. a \in Boundaries \ {Size}
      BY <1>0, <2>1
    <3>3. \E z \in a .. b : Marked(z, "bad")
      BY <2>2, <2>4, <3>1, <3>2 DEF Given, MasksAgree
    <3>4. \A z \in a .. b : z \in p .. lim - 1
      BY <1>0, <1>3, <2>0, <2>1
    <3>. QED BY <3>3, <3>4 DEF NoneBad
  <2>6. b - base \in batch_masks[base].usable
    BY <2>3, <2>5, MarkedHere
  <2>. QED BY <2>3, <2>6
<1>. QED BY <1>2, <1>3

(* The boundaries of a stretch, in order, are a chain of tokens.           *)
Stretch(p, lim) == {b \in Boundaries : p < b /\ b < lim}

LEMMA StretchIsChain ==
  ASSUME Given, simd, NEW p \in Boundaries, NEW lim \in Nat
  PROVE  LET s == InOrder(Stretch(p, lim))
         IN  /\ Chain(advance, s, p, Size)
             /\ \A x : x \in Stretch(p, lim) <=> \E i \in 1 .. Len(s) : s[i] = x
             /\ LastOf(s, p) \in Boundaries /\ p <= LastOf(s, p)
             /\ s # <<>> => LastOf(s, p) < lim
             /\ NoneBetween(LastOf(s, p), lim)
<1>. DEFINE S == Stretch(p, lim)
            s == InOrder(S)
<1>0. /\ Size \in Nat /\ p \in Nat /\ BoundariesFollow /\ Boundaries \subseteq 0 .. Size
  <2>1. BoundariesFollow
    BY BoundariesAreFollowed
  <2>2. Boundaries \subseteq 0 .. Size
    BY <2>1 DEF BoundariesFollow
  <2>. QED BY <2>1, <2>2, AdvanceSteps
<1>1. (\A x \in S : x \in Nat) /\ IsFiniteSet(S)
  <2>1. \A x \in S : x \in 0 .. Size
    BY <1>0 DEF Stretch
  <2>. HIDE DEF S
  <2>2. IsFiniteSet(0 .. Size)
    BY <1>0, FS_Interval
  <2>3. S \in SUBSET (0 .. Size)
    BY <2>1, Zenon
  <2>4. IsFiniteSet(S)
    BY <2>2, <2>3, FS_Subset, Zenon
  <2>. QED BY <1>0, <2>1, <2>4
<1>2. /\ s \in Seq(Nat) /\ Increasing(s)
      /\ \A x : x \in S <=> \E i \in 1 .. Len(s) : s[i] = x
  <2>. HIDE DEF S
  <2>. QED BY <1>1, InOrderLists
<1>. HIDE DEF s
<1>3. Len(s) \in Nat /\ \A i \in 1 .. Len(s) : s[i] \in Nat /\ s[i] \in S
  BY <1>2
<1>4. \A x \in S : x \in Boundaries /\ x \in Nat /\ p < x /\ x < lim
  BY <1>1 DEF Stretch
<1>5. ASSUME NEW i \in 1 .. Len(s)
      PROVE  /\ Before(s, p, i) \in 0 .. Size - 1 /\ s[i] = advance[Before(s, p, i)]
  <2>. DEFINE x == Before(s, p, i)
  <2>1. x \in Boundaries /\ x \in Nat /\ p <= x /\ x < s[i]
    <3>1. CASE i = 1
      BY <1>0, <1>3, <1>4, <3>1 DEF Before
    <3>2. CASE i # 1
      <4>1. i - 1 \in 1 .. Len(s) /\ i - 1 < i
        BY <1>3, <3>2
      <4>2. x = s[i - 1]
        BY <3>2 DEF Before
      <4>3. s[i - 1] < s[i]
        BY <1>2, <4>1 DEF Increasing
      <4>. QED BY <1>0, <1>3, <1>4, <4>1, <4>2, <4>3
    <3>. QED BY <3>1, <3>2
  <2>. HIDE DEF x
  <2>2. s[i] \in Boundaries /\ s[i] \in Nat /\ s[i] <= Size /\ s[i] < lim
    BY <1>0, <1>3, <1>4
  <2>3. x < Size
    BY <1>0, <2>1, <2>2
  <2>. DEFINE a == advance[x]
  <2>4. a \in Boundaries /\ a \in Nat /\ ~(s[i] < a) /\ x < a
    BY <1>0, <2>1, <2>2, <2>3, AdvanceSteps DEF BoundariesFollow, Steps
  <2>. HIDE DEF a
  <2>5. ~(a < s[i])
    <3>1. SUFFICES ASSUME a < s[i] PROVE FALSE
      OBVIOUS
    <3>2. a \in S
      BY <1>0, <2>1, <2>2, <2>4, <3>1 DEF Stretch
    <3>3. PICK j \in 1 .. Len(s) : s[j] = a
      BY <1>2, <3>2
    <3>4. j < i
      <4>1. j < i \/ j = i \/ i < j
        BY <1>3
      <4>2. ~(j = i) /\ ~(i < j)
        BY <1>2, <2>2, <2>4, <3>1, <3>3 DEF Increasing
      <4>. QED BY <4>1, <4>2
    <3>5. i # 1 /\ x = s[i - 1] /\ i - 1 \in 1 .. Len(s)
      BY <1>3, <3>4 DEF x, Before
    <3>6. j = i - 1 \/ j < i - 1
      BY <1>3, <3>4
    <3>7. s[j] <= s[i - 1]
      <4>1. s[j] \in Nat /\ s[i - 1] \in Nat
        BY <1>3, <3>5
      <4>2. j < i - 1 => s[j] < s[i - 1]
        BY <1>2, <3>5 DEF Increasing
      <4>. QED BY <3>6, <4>1, <4>2
    <3>. QED BY <2>1, <2>4, <3>3, <3>5, <3>7
  <2>. QED BY <1>0, <2>1, <2>2, <2>3, <2>4, <2>5 DEF a, x
<1>6. Chain(advance, s, p, Size)
  BY <1>2, <1>5 DEF Chain
<1>7. LastOf(s, p) \in Boundaries /\ p <= LastOf(s, p) /\ (s # <<>> => LastOf(s, p) < lim)
  <2>1. CASE s = <<>>
    BY <1>0, <2>1 DEF LastOf
  <2>2. CASE s # <<>>
    <3>1. Len(s) \in 1 .. Len(s)
      BY <1>2, <1>3, <2>2
    <3>. QED BY <1>0, <1>3, <1>4, <2>2, <3>1 DEF LastOf
  <2>. QED BY <2>1, <2>2
<1>8. NoneBetween(LastOf(s, p), lim)
  <2>0. LastOf(s, p) \in Nat
    <3>1. \A b \in Boundaries : b \in Nat
      BY <1>0
    <3>. QED BY <1>7, <3>1
  <2>1. SUFFICES ASSUME NEW b \in Boundaries, LastOf(s, p) < b, b < lim PROVE FALSE
    BY DEF NoneBetween
  <2>2. b \in S
    <3>1. b \in Nat
      BY <1>0
    <3>2. p < b
      BY <1>0, <1>7, <2>0, <2>1, <3>1
    <3>. QED BY <2>1, <3>2 DEF Stretch
  <2>3. PICK i \in 1 .. Len(s) : s[i] = b
    BY <1>2, <2>2
  <2>4. s[i] <= LastOf(s, p)
    BY <1>0, <1>6, <2>3, AdvanceSteps, ChainGrows
  <2>5. b \in Nat
    BY <1>0
  <2>. QED BY <2>0, <2>1, <2>3, <2>4, <2>5
<1>. QED BY <1>2, <1>6, <1>7, <1>8 DEF s

LEMMA Further ==
  ASSUME Given, simd, NEW p \in Nat, NEW q \in Nat, p <= q, NEW s \in Nat
  PROVE  /\ NoneBad(p, s) => NoneBad(q, s)
         /\ NoneBetween(p, s) => NoneBetween(q, s)
         /\ s <= q + 1 => NoneBetween(q, s)
         /\ s <= q => NoneBad(q, s)
<1>1. \A b \in Boundaries : b \in Nat
  BY BoundariesAreFollowed, AdvanceSteps DEF BoundariesFollow
<1>2. \A z \in q .. s - 1 : z \in p .. s - 1
  OBVIOUS
<1>. QED BY <1>1, <1>2 DEF NoneBad, NoneBetween

(* Where nothing is missed before s, nothing is before any s' below it.    *)
LEMMA Nearer ==
  ASSUME Given, simd, NEW p \in Nat, NEW s \in Nat, NEW t \in Nat, t <= s
  PROVE  /\ NoneBad(p, s) => NoneBad(p, t)
         /\ NoneBetween(p, s) => NoneBetween(p, t)
<1>1. \A b \in Boundaries : b \in Nat
  BY BoundariesAreFollowed, AdvanceSteps DEF BoundariesFollow
<1>2. \A z \in p .. t - 1 : z \in p .. s - 1
  OBVIOUS
<1>. QED BY <1>1, <1>2 DEF NoneBad, NoneBetween

(* A chain of tokens from a boundary goes from boundary to boundary.       *)
LEMMA ChainOfBoundaries ==
  ASSUME Given, simd, NEW p \in Boundaries, NEW s, Chain(advance, s, p, Size)
  PROVE  /\ s \in Seq(Nat) /\ Len(s) \in Nat
         /\ \A i \in 1 .. Len(s) : /\ s[i] \in Boundaries /\ s[i] \in Nat
                                   /\ p < s[i] /\ s[i] <= LastOf(s, p)
         /\ LastOf(s, p) \in Boundaries /\ LastOf(s, p) \in Nat
         /\ p <= LastOf(s, p) /\ LastOf(s, p) <= Size
<1>0. /\ Size \in Nat /\ p \in Nat /\ Steps(advance, Size)
      /\ \A b \in Boundaries : b \in 0 .. Size /\ (b < Size => advance[b] \in Boundaries)
  BY AdvanceSteps, BoundariesAreFollowed DEF BoundariesFollow
<1>1. s \in Seq(Nat) /\ Len(s) \in Nat
  BY DEF Chain
<1>2. /\ \A i \in 1 .. Len(s) : s[i] \in Nat /\ p + i <= s[i] /\ s[i] <= LastOf(s, p)
      /\ LastOf(s, p) \in Nat /\ p + Len(s) <= LastOf(s, p)
  BY <1>0, ChainGrows
<1>3. \A i \in 1 .. Len(s) : Before(s, p, i) \in 0 .. Size - 1 /\ s[i] = advance[Before(s, p, i)]
  BY DEF Chain
<1>. DEFINE Bad == {i \in 1 .. Len(s) : s[i] \notin Boundaries}
<1>4. Bad = {}
  <2>1. SUFFICES ASSUME Bad # {} PROVE FALSE
    OBVIOUS
  <2>2. PICK i \in Bad : \A k \in Bad : i <= k
    <3>1. Bad \in SUBSET Nat
      BY <1>1
    <3>. HIDE DEF Bad
    <3>. QED BY <2>1, <3>1, LeastNumber
  <2>3. i \in 1 .. Len(s) /\ s[i] \notin Boundaries
    OBVIOUS
  <2>4. Before(s, p, i) \in Boundaries
    <3>1. CASE i = 1
      BY <3>1 DEF Before
    <3>2. CASE i # 1
      <4>1. i - 1 \in 1 .. Len(s)
        BY <1>1, <2>3, <3>2
      <4>2. i - 1 \notin Bad
        <5>. HIDE DEF Bad
        <5>. QED BY <2>2, <2>3, <4>1
      <4>. QED BY <3>2, <4>1, <4>2 DEF Before
    <3>. QED BY <3>1, <3>2
  <2>. QED BY <1>0, <1>3, <2>3, <2>4
<1>5. \A i \in 1 .. Len(s) : s[i] \in Boundaries
  BY <1>4
<1>6. LastOf(s, p) \in Boundaries
  <2>1. CASE s = <<>>
    BY <2>1 DEF LastOf
  <2>2. CASE s # <<>>
    <3>1. Len(s) \in 1 .. Len(s)
      BY <1>1, <2>2
    <3>. QED BY <1>5, <2>2, <3>1 DEF LastOf
  <2>. QED BY <2>1, <2>2
<1>7. LastOf(s, p) <= Size
  <2>1. \A b \in Boundaries : b <= Size
    BY <1>0
  <2>. QED BY <1>6, <2>1
<1>8. \A i \in 1 .. Len(s) : p < s[i]
  BY <1>0, <1>2
<1>. QED BY <1>0, <1>1, <1>2, <1>5, <1>6, <1>7, <1>8

(* Increasing numbers are spread out.                                      *)
LEMMA IncreasingSpreads ==
  ASSUME NEW s \in Seq(Nat), Increasing(s), NEW a \in Int, s # <<>> => a < s[1]
  PROVE  \A i \in 1 .. Len(s) : a + i <= s[i]
<1>1. Len(s) \in Nat /\ \A i \in 1 .. Len(s) : s[i] \in Nat
  OBVIOUS
<1>. DEFINE Bad == {i \in 1 .. Len(s) : ~(a + i <= s[i])}
<1>2. SUFFICES ASSUME Bad # {} PROVE FALSE
  OBVIOUS
<1>3. PICK i \in Bad : \A k \in Bad : i <= k
  <2>1. Bad \in SUBSET Nat
    BY <1>1
  <2>. HIDE DEF Bad
  <2>. QED BY <1>2, <2>1, LeastNumber
<1>4. i \in 1 .. Len(s) /\ ~(a + i <= s[i])
  OBVIOUS
<1>5. i # 1
  <2>1. s # <<>>
    BY <1>1, <1>4
  <2>. QED BY <1>1, <1>4, <2>1
<1>6. i - 1 \in 1 .. Len(s) /\ i - 1 < i
  BY <1>1, <1>4, <1>5
<1>7. i - 1 \notin Bad
  <2>. HIDE DEF Bad
  <2>. QED BY <1>3, <1>4, <1>6
<1>8. a + (i - 1) <= s[i - 1]
  BY <1>6, <1>7
<1>9. s[i - 1] < s[i]
  BY <1>4, <1>6 DEF Increasing
<1>. QED BY <1>1, <1>4, <1>6, <1>8, <1>9

------------------------------------------------------------------------------
(* Handing out spans.                                                      *)

LEMMA SpansOut ==
  ASSUME Given, NEW s, SpanChain(s, 0), NEW t, SpanChain(t, LastOf(s, 0))
  PROVE  SpanChain(s \o t, 0) /\ LastOf(s \o t, 0) = LastOf(t, LastOf(s, 0))
<1>0. Size \in Nat /\ Steps(SpanEnds, Size) /\ 0 \in Nat /\ 0 \in 0 .. Size
  BY AdvanceSteps, SpanSteps
<1>1. /\ Chain(SpanEnds, s, 0, Size) /\ Chain(SpanEnds, t, LastOf(s, 0), Size)
      /\ \A i \in 1 .. Len(s) : s[i] <= Size
      /\ \A i \in 1 .. Len(t) : t[i] <= Size
  BY DEF SpanChain
<1>2. /\ Chain(SpanEnds, s \o t, 0, Size)
      /\ LastOf(s \o t, 0) = LastOf(t, LastOf(s, 0))
  BY <1>0, <1>1, ChainJoin
<1>3. s \in Seq(Nat) /\ t \in Seq(Nat)
  BY <1>1 DEF Chain
<1>4. \A i \in 1 .. Len(s \o t) : (s \o t)[i] <= Size
  <2>. TAKE i \in 1 .. Len(s \o t)
  <2>1. Len(s \o t) = Len(s) + Len(t) /\ Len(s) \in Nat /\ Len(t) \in Nat
    BY <1>3
  <2>2. CASE i <= Len(s)
    <3>1. i \in 1 .. Len(s) /\ (s \o t)[i] = s[i]
      BY <1>3, <2>1, <2>2
    <3>. QED BY <1>1, <3>1
  <2>3. CASE i > Len(s)
    <3>1. i - Len(s) \in 1 .. Len(t) /\ (s \o t)[i] = t[i - Len(s)]
      BY <1>3, <2>1, <2>3
    <3>. QED BY <1>1, <3>1
  <2>. QED BY <2>1, <2>2, <2>3
<1>. QED BY <1>2, <1>4 DEF SpanChain

LEMMA OneMore ==
  ASSUME NEW s \in Seq(Nat), NEW e \in Nat
  PROVE  /\ <<e>> \in Seq(Nat) /\ <<e>> # <<>> /\ Len(<<e>>) = 1
         /\ \A i \in 1 .. Len(<<e>>) : i = 1 /\ <<e>>[i] = e
         /\ Append(s, e) = s \o <<e>>
<1>1. Append(s, e) = s \o <<e>>
  BY AppendIsConcat
<1>2. <<e>> \in Seq(Nat) /\ <<e>> # <<>> /\ Len(<<e>>) = 1 /\ <<e>>[1] = e
  OBVIOUS
<1>. QED BY <1>1, <1>2

LEMMA OneSpanOut ==
  ASSUME Given, NEW s, SpanChain(s, 0), LastOf(s, 0) < Size,
         SpanEnds[LastOf(s, 0)] # Never
  PROVE  LET t == Append(s, SpanEnds[LastOf(s, 0)])
         IN  SpanChain(t, 0) /\ LastOf(t, 0) = SpanEnds[LastOf(s, 0)]
<1>. DEFINE e == SpanEnds[LastOf(s, 0)]
            o == <<e>>
<1>0. 0 \in 0 .. Size /\ Size \in Nat
  BY AdvanceSteps
<1>1. LastOf(s, 0) \in 0 .. Size - 1 /\ s \in Seq(Nat)
  <2>1. LastOf(s, 0) \in 0 .. Size /\ s \in Seq(Nat)
    BY <1>0, SpanChainFacts
  <2>. QED BY <1>0, <2>1
<1>2. e \in 1 .. Size
  BY <1>1, SpanSteps
<1>3. /\ o \in Seq(Nat) /\ Len(o) = 1 /\ \A i \in 1 .. Len(o) : i = 1 /\ o[i] = e
      /\ Append(s, e) = s \o o /\ o # <<>>
  <2>1. e \in Nat
    BY <1>0, <1>2
  <2>. HIDE DEF e
  <2>. QED BY <1>1, <2>1, OneMore
<1>. HIDE DEF o
<1>4. SpanChain(o, LastOf(s, 0))
  <2>1. \A i \in 1 .. Len(o) : Before(o, LastOf(s, 0), i) = LastOf(s, 0)
    BY <1>3 DEF Before
  <2>. QED BY <1>0, <1>1, <1>2, <1>3, <2>1 DEF SpanChain, Chain
<1>5. LastOf(o, LastOf(s, 0)) = e
  BY <1>3 DEF LastOf
<1>. QED BY <1>3, <1>4, <1>5, SpansOut

(* With masks every span starts and ends at a boundary.                    *)
LEMMA SpanToBoundary ==
  ASSUME Given, simd, NEW q \in Boundaries, q < Size
  PROVE  /\ SpanEnds[q] \in Boundaries /\ SpanEnds[q] \in q + 1 .. Size
         /\ advance[q] <= SpanEnds[q]
<1>0. /\ Size \in Nat /\ BoundariesFollow /\ Boundaries \subseteq 0 .. Size
      /\ Steps(SpanEnds, Size) /\ Steps(advance, Size)
      /\ \A p \in 0 .. Size - 1 : SpanEnds[p] = Span(p) /\ SpanEnds[p] \in 1 .. Size
      /\ ~gluing => SpanEnds = advance
  BY AdvanceSteps, BoundariesAreFollowed, SpanSteps DEF BoundariesFollow
<1>1. \A p \in Boundaries : p < Size => /\ advance[p] \in Boundaries
                                        /\ p < advance[p] /\ p \in 0 .. Size - 1
  BY <1>0 DEF BoundariesFollow, Steps
<1>n. \A b \in Boundaries : b \in Nat
  BY <1>0
<1>2. CASE ~gluing
  <2>1. SpanEnds[q] = advance[q] /\ advance[q] \in Boundaries
    BY <1>0, <1>1, <1>2
  <2>2. q \in Nat /\ q < SpanEnds[q] /\ SpanEnds[q] \in 1 .. Size
    BY <1>0, <1>1, <2>1
  <2>3. SpanEnds[q] \in q + 1 .. Size /\ SpanEnds[q] <= SpanEnds[q]
    BY <2>2, <1>0
  <2>. QED BY <2>1, <2>3
<1>3. CASE gluing
  <2>. DEFINE Bad == {p \in Boundaries : p < Size /\ ~(Span(p) \in Boundaries /\ advance[p] <= Span(p))}
  <2>1. Bad = {}
    <3>1. SUFFICES ASSUME Bad # {} PROVE FALSE
      OBVIOUS
    <3>2. PICK p \in Bad : \A k \in Bad : k <= p
      <4>1. \A k \in Bad : k \in 0 .. Size
        BY <1>0
      <4>. HIDE DEF Bad
      <4>. QED BY <1>0, <3>1, <4>1, GreatestNumber
    <3>3. p \in Boundaries /\ p < Size /\ ~(Span(p) \in Boundaries /\ advance[p] <= Span(p))
      OBVIOUS
    <3>. DEFINE a == advance[p]
    <3>4. a \in Boundaries /\ p < a /\ p \in 0 .. Size - 1 /\ a \in Nat /\ p \in Nat
      BY <1>n, <1>1, <3>3
    <3>. HIDE DEF a
    <3>5. a < Size => Span(a) \in Boundaries /\ advance[a] <= Span(a) /\ a < advance[a]
                      /\ advance[a] \in Nat
      <4>1. a \notin Bad
        <5>. HIDE DEF Bad
        <5>. QED BY <3>2, <3>4
      <4>2. a < Size => advance[a] \in Boundaries /\ a < advance[a]
        BY <1>1, <3>4
      <4>3. \A b \in Boundaries : b \in Nat
        BY <1>0
      <4>. QED BY <3>4, <4>1, <4>2, <4>3
    <3>6. Span(p) = IF a < Size /\ <<p, a>> \in glued THEN Span(a) ELSE a
      BY <1>3, <3>4, UnitRecurs DEF a
    <3>7. a < Size => Span(a) \in Nat
      BY <1>n, <3>5
    <3>. QED BY <3>3, <3>4, <3>5, <3>6, <3>7 DEF a
  <2>2. Span(q) \in Boundaries /\ advance[q] <= Span(q)
    BY <2>1
  <2>3. SpanEnds[q] = Span(q) /\ q \in Nat /\ q < SpanEnds[q] /\ SpanEnds[q] \in 1 .. Size
    BY <1>0, <1>1 DEF Steps
  <2>. QED BY <1>0, <2>2, <2>3
<1>4. gluing \in BOOLEAN
  BY DEF Given
<1>. QED BY <1>2, <1>3, <1>4

------------------------------------------------------------------------------
(* The inductive invariant.                                                *)

(* The masks of one batch, as the walk carries them.                       *)
MasksOf(base, use, unsafe) ==
  base \in Grid /\ use = batch_masks[base].usable /\ unsafe = batch_masks[base].bad

(* The bits that are ready are the boundaries behind pos up to a limit no  *)
(* bad byte is met before: the next batch, or the bad byte the segment     *)
(* stops at, which the scalar path takes the walk past.                    *)
SegmentUpTo(lim) ==
  /\ IF bad = {} THEN lim = scan
     ELSE \E z \in bad : lim = mask_base + z /\ lim <= scalar_until
  /\ bad # {} => MasksOf(mask_base, usable, bad) /\ scan = mask_base + W
  /\ rem \subseteq Bits
  /\ \A b : b \in Stretch(pos, lim) <=> \E i \in rem : b = mask_base + i
  /\ NoneBad(pos, lim)

SegmentInv ==
  /\ \E lim \in Nat : SegmentUpTo(lim)
  /\ scalar_until \in Nat /\ mask_base \in Nat

Reached == LastOf(nb, fill_base)

(* The boundaries harvested so far are the ends of the tokens from the     *)
(* base of the fill on, and the masks of the batches before the next one   *)
(* have no more to say.                                                    *)
HarvestInv ==
  /\ fill_base = pending /\ fill_base < Size /\ filled < Chunk
  /\ Chain(advance, nb, fill_base, Size)
  /\ NoneBetween(Reached, scan) /\ NoneBad(Reached, scan)
  /\ pc # "emit" => /\ overflow_end = Never /\ ~exhausted
                    /\ resume \in Nat /\ resume < scan + W
  /\ pc = "harvest" => IF resume >= scan THEN Reached = resume ELSE Reached < scan
  /\ pc = "batch" => /\ scan \in Grid /\ masks = batch_masks[scan]
                     /\ at \in -1 .. W - 1
                     /\ IF at = -1 THEN Reached < scan ELSE Reached = scan + at
                     /\ scan - fill_base <= RelLimit
                     /\ Len(nb) <= Needed + at
  /\ pc = "emit" => /\ overflow_end # Never => overflow_end = advance[Reached]
                    /\ exhausted => Reached >= Size

FillInv ==
  /\ filled \in 0 .. Chunk
  /\ filled < Chunk /\ exhausted => pending >= Size
  /\ filled < Chunk /\ ~gluing => NoneBetween(pending, scan) /\ NoneBad(pending, scan)

SimdInv ==
  /\ LastOf(ends, 0) \in Boundaries
  /\ OnGrid(scan)
  /\ pre_base # Never => pre_base \in Grid /\ pre = batch_masks[pre_base]
  /\ pc \in {"idle", "next"} => SegmentInv
  /\ pc = "fill" => FillInv
  /\ pc \in {"harvest", "batch", "emit"} => filled \in Nat /\ HarvestInv

WalkInv ==
  /\ Given
  /\ SpanChain(ends, 0)
  /\ pc \in {"idle", "next", "done", "fill", "harvest", "batch", "emit"}
  /\ pc = "done" => NoMore(LastOf(ends, 0))
  /\ IF pc \in {"idle", "next", "done"} THEN pos = LastOf(ends, 0)
     ELSE simd /\ pending = LastOf(ends, 0)
  /\ pc = "next" => ~gluing
  /\ simd => SimdInv
  /\ ~simd => rem = {} /\ scalar_until = Never
  /\ BufferFits

(* What the text and its scheme make of each other stays.                  *)
LEMMA InputKept ==
  ASSUME UNCHANGED input
  PROVE  /\ Size' = Size /\ Grid' = Grid /\ Boundaries' = Boundaries
         /\ SpanEnds' = SpanEnds
         /\ \A q, m : Marked(q, m)' <=> Marked(q, m)
         /\ simd' = simd /\ gluing' = gluing /\ advance' = advance
         /\ batch_masks' = batch_masks /\ tokens' = tokens
<1>1. Size' = Size
  BY DEF input, Size
<1>2. Grid' = Grid
  BY <1>1 DEF Grid
<1>3. /\ simd' = simd /\ gluing' = gluing /\ advance' = advance
      /\ batch_masks' = batch_masks /\ tokens' = tokens /\ glued' = glued
  BY DEF input
<1>4. Boundaries' = Boundaries
  BY <1>1, <1>3 DEF Boundaries
<1>5. \A q : Span(q)' = Span(q)
  BY <1>1, <1>3 DEF Span
<1>6. SpanEnds' = SpanEnds
  BY <1>3, <1>5 DEF SpanEnds
<1>7. \A q, m : Marked(q, m)' <=> Marked(q, m)
  BY <1>2, <1>3 DEF Marked
<1>. QED BY <1>1, <1>2, <1>3, <1>4, <1>6, <1>7

LEMMA GivenKept ==
  ASSUME Given, UNCHANGED input
  PROVE  Given'
<1>1. /\ Size' = Size /\ Grid' = Grid /\ Boundaries' = Boundaries
      /\ SpanEnds' = SpanEnds
      /\ \A q, m : Marked(q, m)' <=> Marked(q, m)
      /\ simd' = simd /\ gluing' = gluing /\ advance' = advance
      /\ batch_masks' = batch_masks /\ tokens' = tokens
  BY InputKept
<1>2. glued' = glued
  BY DEF input
<1>3. Scanned' = Scanned
  BY <1>1 DEF Scanned
<1>4. MasksAgree' <=> MasksAgree
  BY <1>1, <1>3 DEF MasksAgree
<1>6. Spans(0, Size)' = Spans(0, Size)
  BY <1>1 DEF Spans
<1>. QED BY <1>1, <1>2, <1>4, <1>6 DEF Given

------------------------------------------------------------------------------
(* One span at a time.                                                     *)

(* The next boundary is the end of the token at hand.                      *)
LEMMA NextBoundary ==
  ASSUME Given, simd, NEW p \in Boundaries, NEW e \in Boundaries, p < e,
         \A b \in Boundaries : ~(p < b /\ b < e)
  PROVE  p < Size /\ e = advance[p] /\ e \in Nat /\ p \in Nat
<1>0. /\ Size \in Nat /\ BoundariesFollow /\ Steps(advance, Size)
      /\ \A b \in Boundaries : b \in Nat /\ b <= Size
  BY AdvanceSteps, BoundariesAreFollowed DEF BoundariesFollow
<1>1. p < Size /\ p \in 0 .. Size - 1
  BY <1>0
<1>2. advance[p] \in Boundaries /\ p < advance[p] /\ ~(e < advance[p])
  BY <1>0, <1>1 DEF BoundariesFollow, Steps
<1>3. ~(advance[p] < e)
  BY <1>2
<1>4. advance[p] \in Nat /\ e \in Nat /\ p \in Nat
  BY <1>0, <1>2
<1>. QED BY <1>1, <1>2, <1>3, <1>4

LEMMA LoadSegment ==
  ASSUME Given, simd, NEW base, NEW use, NEW unsafe, MasksOf(base, use, unsafe),
         pos \in Boundaries, pos < base + W, NoneBetween(pos, base), NoneBad(pos, base),
         scalar_until \in Nat,
         load_segment(base, use, unsafe, IF pos > base THEN pos - base ELSE 0)
  PROVE  /\ rem' \subseteq Bits /\ scalar_until' \in Nat
         /\ \E lim \in Nat :
              /\ IF bad' = {} THEN lim = base + W
                 ELSE /\ bad' = unsafe
                      /\ \E z \in bad' : lim = base + z /\ lim <= scalar_until'
              /\ \A b : b \in Stretch(pos, lim) <=> \E i \in rem' : b = base + i
              /\ NoneBad(pos, lim)
<1>. DEFINE from == IF pos > base THEN pos - base ELSE 0
            zone == unsafe \cap From(from)
            rest == {i \in use : i >= Min(zone)}
            ready == {i \in use \cap From(from) : zone = {} \/ i < Min(zone)}
            lim == base + IF zone = {} THEN W ELSE Min(zone)
<1>0. /\ base \in Grid /\ base \in Nat /\ pos \in Nat /\ W \in Nat /\ W > 3
      /\ use \subseteq Bits /\ unsafe \subseteq Bits
      /\ use = batch_masks[base].usable /\ unsafe = batch_masks[base].bad
  <2>1. base \in Grid /\ use = batch_masks[base].usable /\ unsafe = batch_masks[base].bad
    BY DEF MasksOf
  <2>2. \A b \in Boundaries : b \in Nat
    BY BoundariesAreFollowed, AdvanceSteps DEF BoundariesFollow
  <2>. QED BY <2>1, <2>2, GridBatch, GridNat, WidthType
<1>1. from \in 0 .. W - 1 /\ base + from >= pos /\ (pos = base + from <=> pos >= base)
  BY <1>0
<1>2. /\ rem' = (IF pos = base + from THEN ready \ {from} ELSE ready)
      /\ bad' = (IF zone = {} THEN {} ELSE unsafe)
      /\ scalar_until' = IF zone = {} THEN scalar_until
                         ELSE IF rest = {} THEN base + W ELSE base + Min(rest)
  BY DEF load_segment
<1>3. zone # {} => /\ Min(zone) \in zone /\ Min(zone) \in from .. W - 1
                   /\ \A z \in zone : Min(zone) <= z
  <2>1. \A z \in zone : z \in Nat /\ z \in from .. W - 1
    BY <1>0, <1>1 DEF From, Bits
  <2>. HIDE DEF zone
  <2>2. zone \in SUBSET Nat
    BY <2>1
  <2>. QED BY <2>1, <2>2, MinOfNumbers
<1>4. rest # {} => Min(rest) \in rest
  <2>1. rest \in SUBSET Nat
    <3>. HIDE DEF zone
    <3>. QED BY <1>0 DEF Bits
  <2>. HIDE DEF rest
  <2>. QED BY <2>1, MinOfNumbers
<1>5. \A i \in unsafe : i \in from .. W - 1 => i \in zone
  BY DEF From
<1>. HIDE DEF zone
<1>6. zone # {} => zone \subseteq unsafe
  BY DEF zone
<1>7. \A i \in use : i \in Nat /\ i < W
  BY <1>0 DEF Bits
<1>8. lim \in base .. base + W /\ lim \in Nat /\ base + from <= lim
  BY <1>0, <1>1, <1>3
<1>9. NoneBad(pos, lim)
  <2>1. SUFFICES ASSUME NEW z \in pos .. lim - 1, Marked(z, "bad") PROVE FALSE
    BY DEF NoneBad
  <2>2. z \in Nat /\ ~(z < base)
    BY <1>0, <1>8, <2>1 DEF NoneBad
  <2>3. z \in base .. base + W - 1 /\ z - base \in 0 .. W - 1
    BY <1>0, <1>8, <2>1, <2>2
  <2>4. z - base \in unsafe
    BY <1>0, <2>1, <2>3, MarkedHere
  <2>5. z - base \in from .. W - 1
    BY <1>0, <1>1, <2>1, <2>2, <2>3
  <2>6. z - base \in zone
    BY <1>5, <2>4, <2>5
  <2>7. Min(zone) <= z - base /\ Min(zone) \in Nat
    BY <1>3, <1>1, <2>6
  <2>8. lim = base + Min(zone)
    BY <2>6
  <2>. QED BY <1>0, <2>1, <2>2, <2>7, <2>8
<1>10. \A b : b \in Boundaries /\ pos < b /\ b < lim
         <=> \E i \in use : b = base + i /\ pos < b /\ b < lim
  BY <1>0, <1>8, <1>9, TrustedBits
<1>11. \A i : i \in rem' <=> i \in use /\ pos < base + i /\ base + i < lim
  <2>. TAKE i
  <2>1. i \in ready <=> i \in use /\ from <= i /\ base + i < lim
    <3>1. i \in use /\ zone = {} => i < W /\ base + i < lim
      BY <1>0, <1>7
    <3>2. i \in use /\ zone # {} => (i < Min(zone) <=> base + i < lim)
      BY <1>0, <1>1, <1>3, <1>7
    <3>3. i \in use => (i \in From(from) <=> from <= i)
      <4>. HIDE DEF from
      <4>. QED BY <1>0, <1>1, <1>7 DEF From
    <3>. HIDE DEF from, lim
    <3>. QED BY <3>1, <3>2, <3>3
  <2>2. i \in use => (pos < base + i <=> from <= i /\ ~(pos = base + from /\ i = from))
    BY <1>0, <1>1, <1>7
  <2>. HIDE DEF from, lim, ready
  <2>. QED BY <1>2, <2>1, <2>2
<1>12. rem' \subseteq Bits
  BY <1>11, <1>0
<1>13. \A b : b \in Stretch(pos, lim) <=> \E i \in rem' : b = base + i
  <2>. HIDE DEF lim
  <2>. QED BY <1>10, <1>11 DEF Stretch
<1>14. scalar_until' \in Nat /\ (zone # {} => lim <= scalar_until')
  <2>1. rest # {} => Min(rest) \in Nat /\ (zone # {} => Min(rest) >= Min(zone))
    BY <1>4, <1>7
  <2>2. zone # {} => Min(zone) \in Nat /\ Min(zone) < W
    <3>. HIDE DEF from
    <3>. QED BY <1>0, <1>1, <1>3
  <2>. HIDE DEF rest
  <2>. QED BY <1>0, <1>2, <2>1, <2>2
<1>15. IF bad' = {} THEN lim = base + W
       ELSE bad' = unsafe /\ \E z \in bad' : lim = base + z /\ lim <= scalar_until'
  <2>1. CASE zone = {}
    BY <1>2, <2>1
  <2>2. CASE zone # {}
    <3>1. Min(zone) \in unsafe /\ bad' = unsafe /\ lim = base + Min(zone)
      BY <1>2, <1>3, <1>6, <2>2
    <3>2. bad' # {}
      BY <3>1
    <3>. HIDE DEF lim
    <3>. QED BY <1>14, <2>2, <3>1, <3>2
  <2>. QED BY <2>1, <2>2
<1>. HIDE DEF lim
<1>. QED BY <1>8, <1>9, <1>12, <1>13, <1>14, <1>15

LEMMA WalkTypes ==
  ASSUME WalkInv
  PROVE  /\ Given /\ Size \in Nat /\ Never \in Nat /\ Size < Never /\ W \in Nat /\ W > 3
         /\ SpanChain(ends, 0) /\ ends \in Seq(Nat)
         /\ LastOf(ends, 0) \in 0 .. Size
         /\ simd \in BOOLEAN /\ gluing \in BOOLEAN
         /\ simd => /\ \A b \in Boundaries : b \in Nat /\ b <= Size
                    /\ LastOf(ends, 0) \in Boundaries /\ scan \in Nat /\ OnGrid(scan)
<1>1. Given /\ SpanChain(ends, 0)
  BY DEF WalkInv
<1>2. 0 \in 0 .. Size /\ Size \in Nat
  BY <1>1, AdvanceSteps
<1>3. ends \in Seq(Nat) /\ LastOf(ends, 0) \in 0 .. Size
  BY <1>1, <1>2, SpanChainFacts
<1>4. simd => \A b \in Boundaries : b \in Nat /\ b <= Size
  BY <1>1, <1>2, BoundariesAreFollowed DEF BoundariesFollow
<1>5. simd => LastOf(ends, 0) \in Boundaries /\ scan \in Nat /\ OnGrid(scan)
  BY GridNat DEF WalkInv, SimdInv
<1>6. simd \in BOOLEAN /\ gluing \in BOOLEAN
  BY <1>1 DEF Given
<1>. QED BY <1>1, <1>2, <1>3, <1>4, <1>5, <1>6, AdvanceSteps, WidthType

(* What has been handed out is all there is to say of a call that does not *)
(* touch the buffer.                                                       *)
LEMMA WalkStays ==
  ASSUME WalkInv, UNCHANGED <<input, nb, fill_base>>,
         pc' \in {"idle", "next", "done"}, pos' = LastOf(ends', 0),
         SpanChain(ends', 0), pc' = "next" => ~gluing,
         pc' = "done" => NoMore(LastOf(ends', 0)),
         simd => SimdInv', ~simd => rem' = {} /\ scalar_until' = Never
  PROVE  WalkInv'
<1>1. Given' /\ simd' = simd /\ gluing' = gluing /\ Size' = Size /\ SpanEnds' = SpanEnds
  BY InputKept, GivenKept DEF WalkInv
<1>2. SpanChain(ends, 0)'
  BY <1>1 DEF SpanChain, Chain, Before
<1>3. BufferFits'
  BY DEF WalkInv, BufferFits
<1>4. pc' = "done" => NoMore(LastOf(ends, 0))'
  BY <1>1 DEF NoMore, LastOf
<1>5. pos' = LastOf(ends, 0)'
  BY DEF LastOf
<1>. QED BY <1>1, <1>2, <1>3, <1>4, <1>5 DEF WalkInv

LEMMA CallNextKeeps ==
  ASSUME WalkInv, CallNext
  PROVE  WalkInv'
<1>1. /\ pc = "idle" /\ ~gluing /\ pc' = "next"
      /\ UNCHANGED <<input, pos, scan, batchVars, fillVars, ends>>
  BY DEF CallNext
<1>2. pos = LastOf(ends, 0) /\ SpanChain(ends, 0)
      /\ (~simd => rem = {} /\ scalar_until = Never)
  BY <1>1 DEF WalkInv
<1>3. simd => SimdInv'
  <2>1. ASSUME simd PROVE SimdInv'
    <3>1. SimdInv /\ SegmentInv
      BY <1>1, <2>1 DEF WalkInv, SimdInv
    <3>2. SegmentInv'
      BY <1>1, <3>1, InputKept DEF SegmentInv, SegmentUpTo, MasksOf, NoneBad, Stretch, batchVars
    <3>. QED BY <1>1, <3>1, <3>2, InputKept DEF SimdInv, batchVars
  <2>. QED BY <2>1
<1>. QED BY <1>1, <1>2, <1>3, WalkStays DEF batchVars, fillVars

LEMMA PopBitKeeps ==
  ASSUME WalkInv, PopBit
  PROVE  WalkInv'
<1>. DEFINE e == mask_base + Min(rem)
<1>1. /\ pc = "next" /\ rem # {} /\ pos' = e /\ ends' = Append(ends, e) /\ pc' = "idle"
      /\ rem' = rem \ {Min(rem)}
      /\ UNCHANGED <<input, scan, mask_base, usable, bad, scalar_until, pre_base,
                     pre, fillVars>>
  BY DEF PopBit, Emit
<1>2. simd /\ ~gluing /\ pos = LastOf(ends, 0) /\ SimdInv /\ SegmentInv
  BY <1>1 DEF WalkInv, SimdInv
<1>3. /\ Given /\ Size \in Nat /\ Never \in Nat /\ Size < Never /\ SpanChain(ends, 0)
      /\ pos \in Boundaries /\ \A b \in Boundaries : b \in Nat /\ b <= Size
  BY <1>2, WalkTypes
<1>4. PICK lim \in Nat : SegmentUpTo(lim)
  BY <1>2 DEF SegmentInv
<1>5. /\ rem \subseteq Bits /\ mask_base \in Nat
      /\ \A b : b \in Stretch(pos, lim) <=> \E i \in rem : b = mask_base + i
  BY <1>2, <1>4 DEF SegmentUpTo, SegmentInv
<1>6. /\ Min(rem) \in rem /\ Min(rem) \in Nat
      /\ \A i \in rem : i \in Nat /\ Min(rem) <= i
  <2>1. rem \in SUBSET Nat
    BY <1>5, WidthType DEF Bits
  <2>. QED BY <1>1, <2>1, MinOfNumbers
<1>7. e \in Boundaries /\ pos < e /\ e < lim /\ e \in Nat
  BY <1>5, <1>6 DEF Stretch
<1>8. ASSUME NEW b \in Boundaries, pos < b, b < e PROVE FALSE
  <2>1. b \in Stretch(pos, lim)
    BY <1>3, <1>7, <1>8 DEF Stretch
  <2>2. PICK i \in rem : b = mask_base + i
    BY <1>5, <2>1
  <2>. QED BY <1>5, <1>6, <1>8, <2>2
<1>. HIDE DEF e
<1>9. pos < Size /\ e = advance[pos]
  BY <1>2, <1>3, <1>7, <1>8, NextBoundary
<1>10. SpanEnds[pos] = e /\ e # Never
  BY <1>2, <1>3, <1>7, <1>9, SpanSteps
<1>11. SpanChain(ends', 0) /\ LastOf(ends', 0) = e
  BY <1>1, <1>2, <1>3, <1>9, <1>10, OneSpanOut
<1>12. \A b : b \in Stretch(e, lim) <=> \E i \in rem' : b = mask_base + i
  <2>. TAKE b
  <2>1. ASSUME b \in Stretch(e, lim) PROVE \E i \in rem' : b = mask_base + i
    <3>1. b \in Stretch(pos, lim) /\ e < b
      BY <1>3, <1>7, <2>1 DEF Stretch
    <3>2. PICK i \in rem : b = mask_base + i
      BY <1>5, <3>1
    <3>3. i # Min(rem)
      BY <1>5, <1>6, <3>1, <3>2 DEF e
    <3>. QED BY <1>1, <3>2, <3>3
  <2>2. ASSUME NEW i \in rem', b = mask_base + i PROVE b \in Stretch(e, lim)
    <3>1. i \in rem /\ i # Min(rem)
      BY <1>1
    <3>2. b \in Stretch(pos, lim)
      BY <1>5, <2>2, <3>1
    <3>3. e < b
      BY <1>5, <1>6, <2>2, <3>1 DEF e
    <3>. QED BY <3>2, <3>3 DEF Stretch
  <2>. QED BY <2>1, <2>2
<1>13. NoneBad(e, lim)
  BY <1>2, <1>3, <1>4, <1>7, Further DEF SegmentUpTo
<1>14. SegmentUpTo(lim)'
  BY <1>1, <1>4, <1>12, <1>13, InputKept DEF SegmentUpTo, MasksOf, NoneBad, Stretch
<1>15. SimdInv'
  <2>1. SegmentInv'
    BY <1>1, <1>2, <1>14 DEF SegmentInv
  <2>. QED BY <1>1, <1>2, <1>7, <1>11, <2>1, InputKept DEF SimdInv, LastOf
<1>. QED BY <1>1, <1>2, <1>11, <1>15, WalkStays DEF fillVars

LEMMA ScalarSpanKeeps ==
  ASSUME WalkInv, ScalarSpan
  PROVE  WalkInv'
<1>. DEFINE e == advance[pos]
<1>1. /\ pc = "next" /\ rem = {} /\ pos' = e /\ ends' = Append(ends, e) /\ pc' = "idle"
      /\ pos < Size /\ e # Never
      /\ UNCHANGED <<input, scan, batchVars, fillVars>>
  BY DEF ScalarSpan, Emit
<1>2. ~gluing /\ pos = LastOf(ends, 0) /\ (simd => SimdInv /\ SegmentInv)
      /\ (~simd => rem = {} /\ scalar_until = Never)
  BY <1>1 DEF WalkInv, SimdInv
<1>3. /\ Given /\ Size \in Nat /\ SpanChain(ends, 0) /\ pos \in 0 .. Size
      /\ (simd => pos \in Boundaries /\ \A b \in Boundaries : b \in Nat)
  BY <1>2, WalkTypes
<1>4. SpanEnds[pos] = e
  BY <1>2, <1>3, SpanSteps
<1>5. SpanChain(ends', 0) /\ LastOf(ends', 0) = e
  BY <1>1, <1>2, <1>3, <1>4, OneSpanOut
<1>6. simd => SimdInv'
  <2>. SUFFICES ASSUME simd PROVE SimdInv'
    OBVIOUS
  <2>2. e \in Boundaries /\ pos < e
    BY <1>1, <1>3, <1>4, SpanToBoundary
  <2>3. PICK lim \in Nat : SegmentUpTo(lim)
    BY <1>2 DEF SegmentInv
  <2>4. \A b : b \notin Stretch(e, lim)
    <3>1. \A b : b \notin Stretch(pos, lim)
      BY <1>1, <2>3 DEF SegmentUpTo
    <3>. QED BY <1>3, <2>2, <3>1 DEF Stretch
  <2>5. NoneBad(e, lim)
    <3>1. NoneBad(pos, lim) /\ e \in Nat /\ pos \in Nat /\ pos <= e
      BY <1>3, <2>2, <2>3 DEF SegmentUpTo
    <3>. QED BY <1>3, <3>1, Further
  <2>. HIDE DEF e
  <2>6. SegmentUpTo(lim)'
    BY <1>1, <2>3, <2>4, <2>5, InputKept DEF SegmentUpTo, MasksOf, NoneBad, Stretch, batchVars
  <2>7. SegmentInv'
    BY <1>1, <1>2, <2>6 DEF SegmentInv, batchVars
  <2>. QED BY <1>1, <1>2, <1>5, <2>2, <2>7, InputKept DEF SimdInv, LastOf, batchVars
<1>. QED BY <1>1, <1>2, <1>5, <1>6, WalkStays DEF batchVars, fillVars

LEMMA EndOfInputKeeps ==
  ASSUME WalkInv, EndOfInput
  PROVE  WalkInv'
<1>1. /\ pc = "next" /\ pc' = "done" /\ (pos < Size => advance[pos] = Never)
      /\ UNCHANGED <<input, pos, scan, batchVars, fillVars, ends>>
  BY DEF EndOfInput
<1>2. ~gluing /\ pos = LastOf(ends, 0) /\ (simd => SimdInv)
      /\ (~simd => rem = {} /\ scalar_until = Never)
  BY <1>1 DEF WalkInv
<1>3. Given /\ Size \in Nat /\ SpanChain(ends, 0) /\ pos \in 0 .. Size
  BY <1>2, WalkTypes
<1>4. NoMore(LastOf(ends', 0))
  BY <1>1, <1>2, <1>3, SpanSteps DEF NoMore
<1>5. simd => SimdInv'
  BY <1>1, <1>2, InputKept DEF SimdInv, batchVars
<1>. QED BY <1>1, <1>2, <1>3, <1>4, <1>5, WalkStays DEF batchVars, fillVars

LEMMA OutOfBitsFacts ==
  ASSUME WalkInv, OutOfBits
  PROVE  /\ pc = "next" /\ simd /\ ~gluing /\ SimdInv /\ pos = LastOf(ends, 0)
         /\ pos \in Boundaries /\ pos \in Nat /\ rem = {}
         /\ scalar_until \in Nat /\ mask_base \in Nat
         /\ InBatch => MasksOf(mask_base, usable, bad) /\ mask_base <= pos
                       /\ scan = mask_base + W
         /\ ~InBatch => NoneBetween(pos, scan) /\ NoneBad(pos, scan)
<1>1. pc = "next" /\ rem = {} /\ pos >= scalar_until
  BY DEF OutOfBits
<1>2. ~gluing /\ pos = LastOf(ends, 0) /\ (simd => SimdInv /\ SegmentInv)
      /\ (~simd => scalar_until = Never)
  BY <1>1 DEF WalkInv, SimdInv
<1>3. /\ Given /\ Size \in Nat /\ Never \in Nat /\ Size < Never /\ pos \in 0 .. Size
      /\ simd \in BOOLEAN /\ W \in Nat
      /\ (simd => pos \in Boundaries /\ scan \in Nat /\ \A b \in Boundaries : b \in Nat)
  BY <1>2, WalkTypes
<1>4. simd
  BY <1>1, <1>2, <1>3
<1>5. scalar_until \in Nat /\ mask_base \in Nat /\ pos \in Nat
  BY <1>2, <1>3, <1>4 DEF SegmentInv
<1>6. PICK lim \in Nat : SegmentUpTo(lim)
  BY <1>2, <1>4 DEF SegmentInv
<1>7. /\ IF bad = {} THEN lim = scan
         ELSE \E z \in bad : lim = mask_base + z /\ lim <= scalar_until
      /\ bad # {} => MasksOf(mask_base, usable, bad) /\ scan = mask_base + W
      /\ NoneBad(pos, lim)
      /\ NoneBetween(pos, lim)
  BY <1>1, <1>6 DEF SegmentUpTo, Stretch, NoneBetween
<1>8. bad # {} => mask_base <= pos
  <2>1. SUFFICES ASSUME bad # {} PROVE mask_base <= pos
    OBVIOUS
  <2>2. PICK z \in bad : lim = mask_base + z /\ lim <= scalar_until
    BY <1>7, <2>1
  <2>3. z \in Nat
    BY <1>3, <1>4, <1>7, <2>1, <2>2, GridBatch DEF MasksOf, Bits
  <2>. QED BY <1>1, <1>5, <2>2, <2>3
<1>9. ASSUME ~InBatch PROVE NoneBetween(pos, scan) /\ NoneBad(pos, scan)
  <2>1. CASE bad = {}
    BY <1>7, <2>1
  <2>2. CASE bad # {}
    <3>1. ~(pos < mask_base + W) /\ scan = mask_base + W
      BY <1>7, <1>9, <2>2 DEF InBatch
    <3>2. scan <= pos
      BY <1>3, <1>4, <1>5, <3>1
    <3>3. scan <= pos + 1 /\ pos <= pos
      BY <1>3, <1>4, <1>5, <3>2
    <3>. QED BY <1>3, <1>4, <1>5, <3>2, <3>3, Further
  <2>. QED BY <2>1, <2>2
<1>. QED BY <1>1, <1>2, <1>3, <1>4, <1>5, <1>7, <1>8, <1>9 DEF InBatch

LEMMA NextSegmentKeeps ==
  ASSUME WalkInv, NextSegment
  PROVE  WalkInv'
<1>1. /\ OutOfBits /\ InBatch
      /\ load_segment(mask_base, usable, bad, pos - mask_base)
      /\ UNCHANGED <<input, pc, pos, scan, mask_base, usable, pre_base, pre,
                     fillVars, ends>>
  BY DEF NextSegment
<1>2. /\ pc = "next" /\ simd /\ ~gluing /\ SimdInv /\ pos = LastOf(ends, 0)
      /\ pos \in Boundaries /\ pos \in Nat /\ scalar_until \in Nat /\ mask_base \in Nat
      /\ MasksOf(mask_base, usable, bad) /\ mask_base <= pos /\ scan = mask_base + W
  BY <1>1, OutOfBitsFacts
<1>3. Given /\ SpanChain(ends, 0) /\ W \in Nat
  BY WalkTypes
<1>4. pos < mask_base + W
  BY <1>1 DEF InBatch
<1>5. NoneBetween(pos, mask_base) /\ NoneBad(pos, mask_base)
  <2>1. pos <= pos /\ mask_base <= pos + 1
    BY <1>2
  <2>. QED BY <1>2, <1>3, <2>1, Further
<1>6. load_segment(mask_base, usable, bad, IF pos > mask_base THEN pos - mask_base ELSE 0)
  <2>1. pos - mask_base = IF pos > mask_base THEN pos - mask_base ELSE 0
    BY <1>2
  <2>. QED BY <1>1, <2>1
<1>7. /\ rem' \subseteq Bits /\ scalar_until' \in Nat
      /\ \E lim \in Nat :
           /\ IF bad' = {} THEN lim = mask_base + W
              ELSE bad' = bad /\ \E z \in bad' : lim = mask_base + z /\ lim <= scalar_until'
           /\ \A b : b \in Stretch(pos, lim) <=> \E i \in rem' : b = mask_base + i
           /\ NoneBad(pos, lim)
  BY <1>2, <1>3, <1>4, <1>5, <1>6, LoadSegment
<1>8. PICK lim \in Nat :
           /\ IF bad' = {} THEN lim = mask_base + W
              ELSE bad' = bad /\ \E z \in bad' : lim = mask_base + z /\ lim <= scalar_until'
           /\ \A b : b \in Stretch(pos, lim) <=> \E i \in rem' : b = mask_base + i
           /\ NoneBad(pos, lim)
  BY <1>7
<1>9. SegmentUpTo(lim)'
  BY <1>1, <1>2, <1>7, <1>8, InputKept DEF SegmentUpTo, MasksOf, NoneBad, Stretch
<1>10. SegmentInv'
  BY <1>1, <1>2, <1>7, <1>9 DEF SegmentInv
<1>11. SimdInv'
  BY <1>1, <1>2, <1>10, InputKept DEF SimdInv
<1>. QED BY <1>1, <1>2, <1>3, <1>11, WalkStays DEF fillVars

LEMMA OnwardFacts ==
  ASSUME WalkInv, OutOfBits, ~InBatch
  PROVE  /\ OnGrid(Onward) /\ Onward \in Nat /\ pos < Onward + W
         /\ NoneBetween(pos, Onward) /\ NoneBad(pos, Onward)
<1>1. /\ simd /\ pos \in Nat /\ NoneBetween(pos, scan) /\ NoneBad(pos, scan)
  BY OutOfBitsFacts
<1>2. Given /\ OnGrid(scan) /\ scan \in Nat /\ W \in Nat
  BY <1>1, WalkTypes
<1>3. CASE scan + W <= pos
  <2>1. Onward = scan + W * ((pos - scan) \div W)
    BY <1>3 DEF Onward
  <2>2. scan <= pos
    BY <1>1, <1>2, <1>3
  <2>3. OnGrid(Onward) /\ Onward <= pos /\ pos < Onward + W
    BY <1>1, <1>2, <2>1, <2>2, GridJump
  <2>4. Onward \in Nat
    BY <2>3, GridNat
  <2>5. Onward <= pos + 1 /\ pos <= pos
    BY <1>1, <2>3, <2>4
  <2>. QED BY <1>1, <1>2, <2>3, <2>4, <2>5, Further
<1>4. CASE ~(scan + W <= pos)
  <2>1. Onward = scan
    BY <1>4 DEF Onward
  <2>. QED BY <1>1, <1>2, <1>4, <2>1
<1>. QED BY <1>3, <1>4

LEMMA ScalarTailKeeps ==
  ASSUME WalkInv, ScalarTail
  PROVE  WalkInv'
<1>1. /\ OutOfBits /\ ~InBatch /\ scan' = Onward /\ bad' = {} /\ scalar_until' = Never
      /\ UNCHANGED <<input, pc, pos, mask_base, rem, usable, pre_base, pre, fillVars, ends>>
  BY DEF ScalarTail
<1>2. /\ pc = "next" /\ simd /\ ~gluing /\ SimdInv /\ pos = LastOf(ends, 0)
      /\ pos \in Boundaries /\ pos \in Nat /\ mask_base \in Nat /\ rem = {}
  BY <1>1, OutOfBitsFacts
<1>3. Given /\ SpanChain(ends, 0) /\ Never \in Nat
  BY WalkTypes
<1>4. /\ OnGrid(Onward) /\ Onward \in Nat
      /\ NoneBetween(pos, Onward) /\ NoneBad(pos, Onward)
  BY <1>1, OnwardFacts
<1>5. \A b : b \in Stretch(pos, Onward) <=> \E i \in rem : b = mask_base + i
  BY <1>2, <1>4 DEF NoneBetween, Stretch
<1>6. PICK lim \in Nat :
        /\ lim = scan' /\ NoneBad(pos, lim) /\ OnGrid(lim)
        /\ \A b : b \in Stretch(pos, lim) <=> \E i \in rem : b = mask_base + i
  BY <1>1, <1>4, <1>5
<1>7. SegmentUpTo(lim)'
  BY <1>1, <1>2, <1>6, InputKept DEF SegmentUpTo, MasksOf, NoneBad, Stretch
<1>8. SegmentInv'
  BY <1>1, <1>2, <1>3, <1>6, <1>7 DEF SegmentInv
<1>9. SimdInv'
  BY <1>1, <1>2, <1>6, <1>8, InputKept DEF SimdInv, OnGrid
<1>. QED BY <1>1, <1>2, <1>3, <1>9, WalkStays DEF fillVars

LEMMA NextBatchKeeps ==
  ASSUME WalkInv, NextBatch
  PROVE  WalkInv'
<1>. DEFINE m == IF pre_base = Onward THEN pre ELSE batch_masks[Onward]
            base == Onward
<1>1. /\ OutOfBits /\ ~InBatch /\ Onward + W <= Size
      /\ usable' = m.usable
      /\ load_segment(base, m.usable, m.bad, IF pos > base THEN pos - base ELSE 0)
      /\ mask_base' = base
      /\ scan' = base + W
      /\ IF scan' + W <= Size
         THEN pre_base' = scan' /\ pre' = batch_masks[scan']
         ELSE pre_base' = Never /\ pre' = pre
      /\ UNCHANGED <<input, pc, pos, fillVars, ends>>
  BY DEF NextBatch
<1>2. /\ pc = "next" /\ simd /\ ~gluing /\ SimdInv /\ pos = LastOf(ends, 0)
      /\ pos \in Boundaries /\ pos \in Nat /\ scalar_until \in Nat /\ rem = {}
  BY <1>1, OutOfBitsFacts
<1>3. Given /\ SpanChain(ends, 0) /\ Never \in Nat /\ Size \in Nat /\ Size < Never /\ W \in Nat
  BY WalkTypes
<1>4. /\ OnGrid(base) /\ base \in Nat /\ pos < base + W
      /\ NoneBetween(pos, base) /\ NoneBad(pos, base)
  BY <1>1, OnwardFacts
<1>5. m = batch_masks[base]
  BY <1>1, <1>2, <1>3, <1>4 DEF SimdInv
<1>6. base \in Grid
  BY <1>1, <1>2, <1>3, <1>4, GridBatch
<1>7. OnGrid(scan') /\ scan' \in Nat /\ (scan' + W <= Size => scan' \in Grid)
  <2>1. OnGrid(base + W)
    BY <1>4, GridPlus
  <2>2. OnGrid(scan')
    BY <1>1, <2>1
  <2>3. scan' + W <= Size => scan' \in Grid
    BY <1>2, <1>3, <2>2, GridBatch
  <2>. QED BY <2>2, <2>3, GridNat
<1>8. MasksOf(base, m.usable, m.bad)
  BY <1>5, <1>6 DEF MasksOf
<1>. HIDE DEF m, base
<1>e. PICK use, unsafe : use = m.usable /\ unsafe = m.bad
  OBVIOUS
<1>l. load_segment(base, use, unsafe, IF pos > base THEN pos - base ELSE 0)
  BY <1>1, <1>e
<1>k. MasksOf(base, use, unsafe)
  BY <1>8, <1>e
<1>9. /\ rem' \subseteq Bits /\ scalar_until' \in Nat
      /\ \E lim \in Nat :
           /\ IF bad' = {} THEN lim = base + W
              ELSE bad' = unsafe /\ \E z \in bad' : lim = base + z /\ lim <= scalar_until'
           /\ \A b : b \in Stretch(pos, lim) <=> \E i \in rem' : b = base + i
           /\ NoneBad(pos, lim)
  BY <1>2, <1>3, <1>4, <1>k, <1>l, LoadSegment
<1>10. PICK lim \in Nat :
           /\ IF bad' = {} THEN lim = base + W
              ELSE bad' = unsafe /\ \E z \in bad' : lim = base + z /\ lim <= scalar_until'
           /\ \A b : b \in Stretch(pos, lim) <=> \E i \in rem' : b = base + i
           /\ NoneBad(pos, lim)
  BY <1>9
<1>11. bad' # {} => MasksOf(mask_base', usable', bad')
  BY <1>1, <1>k, <1>e, <1>10
<1>12. SegmentUpTo(lim)'
  BY <1>1, <1>2, <1>9, <1>10, <1>11, InputKept DEF SegmentUpTo, MasksOf, NoneBad, Stretch
<1>13. SegmentInv'
  BY <1>1, <1>4, <1>9, <1>12 DEF SegmentInv
<1>14. pre_base' # Never => pre_base' \in Grid /\ pre' = batch_masks[pre_base']
  BY <1>1, <1>7
<1>15. SimdInv'
  BY <1>1, <1>2, <1>7, <1>13, <1>14, InputKept DEF SimdInv, OnGrid
<1>. QED BY <1>1, <1>2, <1>3, <1>15, WalkStays DEF fillVars

LEMMA FillScalarKeeps ==
  ASSUME WalkInv, FillScalar
  PROVE  WalkInv'
<1>. DEFINE more == Spans(pos, Chunk)
<1>1. /\ pc = "idle" /\ ~simd /\ ends' = ends \o more /\ pos' = LastOf(more, pos)
      /\ pc' = (IF Len(more) < Chunk THEN "done" ELSE "idle")
      /\ UNCHANGED <<input, scan, batchVars, fillVars>>
  BY DEF FillScalar
<1>2. pos = LastOf(ends, 0) /\ rem = {} /\ scalar_until = Never
  BY <1>1 DEF WalkInv
<1>3. Given /\ SpanChain(ends, 0) /\ pos \in 0 .. Size /\ Chunk \in Nat
  BY <1>2, WalkTypes, WalkerAssumption
<1>4. SpanChain(more, pos) /\ Len(more) <= Chunk
      /\ (Len(more) = Chunk \/ NoMore(LastOf(more, pos)))
  BY <1>3, SpansFacts
<1>5. Len(more) \in Nat
  BY <1>4 DEF SpanChain, Chain
<1>. HIDE DEF more
<1>6. SpanChain(ends', 0) /\ LastOf(ends', 0) = LastOf(more, pos)
  BY <1>1, <1>2, <1>3, <1>4, SpansOut
<1>7. pc' = "done" => NoMore(LastOf(ends', 0))
  BY <1>1, <1>3, <1>4, <1>5, <1>6
<1>. QED BY <1>1, <1>2, <1>3, <1>6, <1>7, WalkStays DEF batchVars, fillVars

------------------------------------------------------------------------------
(* A chunk at a time.                                                      *)

LEMMA FillStays ==
  ASSUME WalkInv, simd, UNCHANGED input,
         pc' \in {"fill", "harvest", "batch", "emit"}, pending' = LastOf(ends', 0),
         SpanChain(ends', 0), SimdInv', BufferFits'
  PROVE  WalkInv'
<1>1. Given' /\ simd' = simd /\ gluing' = gluing /\ Size' = Size /\ SpanEnds' = SpanEnds
  BY InputKept, GivenKept DEF WalkInv
<1>2. SpanChain(ends, 0)'
  BY <1>1 DEF SpanChain, Chain, Before
<1>3. pending' = LastOf(ends, 0)'
  BY DEF LastOf
<1>. QED BY <1>1, <1>2, <1>3 DEF WalkInv

LEMMA CallFillKeeps ==
  ASSUME WalkInv, CallFill
  PROVE  WalkInv'
<1>1. /\ pc = "idle" /\ simd /\ pc' = "fill" /\ pending' = pos
      /\ scan' = Rewound(scan, pos) /\ filled' = 0 /\ exhausted' = FALSE
      /\ UNCHANGED <<input, pos, batchVars, fill_base, resume, masks, at, nb,
                     overflow_end, ends>>
  BY DEF CallFill
<1>2. pos = LastOf(ends, 0) /\ SimdInv /\ SpanChain(ends, 0)
  BY <1>1 DEF WalkInv
<1>3. Given /\ OnGrid(scan) /\ pos \in Boundaries /\ \A b \in Boundaries : b \in Nat
  BY <1>1, <1>2, WalkTypes
<1>4. OnGrid(scan') /\ scan' <= pos /\ scan' \in Nat /\ pos \in Nat
  <2>1. pos \in Nat
    BY <1>3
  <2>2. OnGrid(scan') /\ scan' <= pos
    BY <1>1, <1>3, <2>1, GridRewound
  <2>. QED BY <2>1, <2>2, GridNat
<1>5. NoneBetween(pos, scan') /\ NoneBad(pos, scan')
  <2>1. pos <= pos /\ scan' <= pos + 1
    BY <1>4
  <2>. QED BY <1>1, <1>3, <1>4, <2>1, Further
<1>6. FillInv'
  <2>1. Chunk \in Nat
    BY WalkerAssumption
  <2>2. NoneBetween(pending, scan)' /\ NoneBad(pending, scan)'
    BY <1>1, <1>5, InputKept DEF NoneBad, NoneBetween
  <2>3. ~exhausted'
    BY <1>1
  <2>4. filled' \in 0 .. Chunk
    BY <1>1, <2>1
  <2>. QED BY <2>2, <2>3, <2>4 DEF FillInv
<1>7. SimdInv'
  BY <1>1, <1>2, <1>4, <1>6, InputKept DEF SimdInv, batchVars, OnGrid, LastOf
<1>8. BufferFits'
  BY <1>1 DEF WalkInv, BufferFits
<1>. QED BY <1>1, <1>2, <1>7, <1>8, FillStays

LEMMA FillTypes ==
  ASSUME WalkInv, pc \in {"fill", "harvest", "batch", "emit"}
  PROVE  /\ simd /\ SimdInv /\ Given /\ SpanChain(ends, 0) /\ ends \in Seq(Nat)
         /\ pending = LastOf(ends, 0) /\ pending \in Boundaries /\ pending \in Nat
         /\ pending <= Size /\ Size \in Nat /\ W \in Nat /\ W > 3
         /\ Chunk \in Nat /\ U16 \in Nat /\ U16 >= 2 * W
         /\ scan \in Nat /\ OnGrid(scan) /\ BufferFits
<1>1. simd /\ SimdInv /\ pending = LastOf(ends, 0) /\ BufferFits
  BY DEF WalkInv
<1>2. /\ Given /\ Size \in Nat /\ W \in Nat /\ W > 3
      /\ SpanChain(ends, 0) /\ ends \in Seq(Nat)
      /\ \A b \in Boundaries : b \in Nat /\ b <= Size
      /\ LastOf(ends, 0) \in Boundaries /\ scan \in Nat /\ OnGrid(scan)
  BY <1>1, WalkTypes
<1>3. Chunk \in Nat /\ U16 \in Nat /\ U16 >= 2 * W
  BY WalkerAssumption
<1>. QED BY <1>1, <1>2, <1>3

LEMMA HarvestTypes ==
  ASSUME WalkInv, pc \in {"harvest", "batch", "emit"}
  PROVE  /\ HarvestInv /\ fill_base = pending /\ fill_base < Size
         /\ fill_base \in Boundaries /\ fill_base \in Nat
         /\ Chain(advance, nb, fill_base, Size)
         /\ nb \in Seq(Nat) /\ Len(nb) \in Nat
         /\ Reached \in Boundaries /\ Reached \in Nat
         /\ fill_base <= Reached /\ Reached <= Size
         /\ NoneBetween(Reached, scan) /\ NoneBad(Reached, scan)
         /\ filled \in Nat /\ Needed \in Nat /\ Needed > 0 /\ Needed <= Chunk
         /\ RelLimit \in Nat /\ RelLimit = U16 - (2 * W - 1)
<1>0. pc \in {"fill", "harvest", "batch", "emit"}
  OBVIOUS
<1>1. /\ simd /\ SimdInv /\ Given /\ pending \in Boundaries /\ pending \in Nat
      /\ Size \in Nat /\ W \in Nat /\ Chunk \in Nat /\ U16 \in Nat /\ U16 >= 2 * W
  BY <1>0, FillTypes
<1>2. filled \in Nat /\ HarvestInv
  BY <1>1 DEF SimdInv
<1>3. /\ fill_base = pending /\ fill_base < Size /\ filled < Chunk
      /\ Chain(advance, nb, fill_base, Size)
      /\ NoneBetween(Reached, scan) /\ NoneBad(Reached, scan)
  BY <1>2 DEF HarvestInv
<1>4. /\ nb \in Seq(Nat) /\ Len(nb) \in Nat
      /\ Reached \in Boundaries /\ Reached \in Nat
      /\ fill_base <= Reached /\ Reached <= Size
  BY <1>1, <1>3, ChainOfBoundaries DEF Reached
<1>5. Needed \in Nat /\ Needed > 0 /\ Needed <= Chunk
  BY <1>1, <1>2, <1>3 DEF Needed
<1>6. RelLimit \in Nat /\ RelLimit = U16 - (2 * W - 1)
  BY <1>1 DEF RelLimit
<1>. QED BY <1>1, <1>2, <1>3, <1>4, <1>5, <1>6

LEMMA RefillKeeps ==
  ASSUME WalkInv, Refill
  PROVE  WalkInv'
<1>1. /\ pc = "fill" /\ filled < Chunk /\ pending < Size /\ ~exhausted
      /\ scan' = (IF pending >= scan + W THEN scan + W * ((pending - scan) \div W)
                  ELSE IF gluing THEN Rewound(scan, pending)
                  ELSE scan)
      /\ fill_base' = pending /\ resume' = pending /\ nb' = <<>>
      /\ overflow_end' = Never /\ pc' = "harvest"
      /\ UNCHANGED <<input, pos, batchVars, pending, masks, at, exhausted,
                     filled, ends>>
  BY DEF Refill
<1>2. /\ simd /\ SimdInv /\ Given /\ SpanChain(ends, 0)
      /\ pending = LastOf(ends, 0) /\ pending \in Boundaries /\ pending \in Nat
      /\ scan \in Nat /\ OnGrid(scan) /\ W \in Nat /\ Chunk \in Nat
  BY <1>1, FillTypes
<1>3. FillInv
  BY <1>1, <1>2 DEF SimdInv
<1>4. /\ OnGrid(scan') /\ scan' \in Nat /\ pending < scan' + W
      /\ NoneBetween(pending, scan') /\ NoneBad(pending, scan')
  <2>0. ASSUME scan' \in Nat, scan' <= pending
        PROVE  NoneBetween(pending, scan') /\ NoneBad(pending, scan')
    <3>1. pending <= pending /\ scan' <= pending + 1
      BY <1>2, <2>0
    <3>. QED BY <1>2, <2>0, <3>1, Further
  <2>1. CASE pending >= scan + W
    <3>1. scan' = scan + W * ((pending - scan) \div W) /\ scan <= pending
      BY <1>1, <1>2, <2>1
    <3>2. OnGrid(scan') /\ scan' <= pending /\ pending < scan' + W
      BY <1>2, <3>1, GridJump
    <3>. QED BY <3>2, <2>0, GridNat
  <2>2. CASE ~(pending >= scan + W) /\ gluing
    <3>1. scan' = Rewound(scan, pending)
      BY <1>1, <2>2
    <3>2. /\ OnGrid(scan') /\ scan' <= pending
          /\ scan <= pending => scan' = scan
          /\ scan > pending => pending < scan' + W
      BY <1>2, <3>1, GridRewound
    <3>3. pending < scan' + W
      BY <1>2, <2>2, <3>2
    <3>. QED BY <3>2, <3>3, <2>0, GridNat
  <2>3. CASE ~(pending >= scan + W) /\ ~gluing
    <3>1. scan' = scan
      BY <1>1, <2>3
    <3>. QED BY <1>1, <1>2, <1>3, <2>3, <3>1 DEF FillInv
  <2>. QED BY <2>1, <2>2, <2>3
<1>5. Chain(advance, nb', pending, Size) /\ LastOf(nb', pending) = pending
  BY <1>1, ChainEmpty
<1>6. LastOf(nb, fill_base)' = pending
  BY <1>1 DEF LastOf
<1>7. Reached' = pending
  BY <1>6 DEF Reached
<1>8. HarvestInv'
  <2>1. Chain(advance, nb, fill_base, Size)'
    BY <1>1, <1>5, InputKept DEF Chain, Before
  <2>2. NoneBetween(Reached, scan)' /\ NoneBad(Reached, scan)'
    BY <1>1, <1>4, <1>7, InputKept DEF NoneBetween, NoneBad
  <2>3. fill_base' < Size'
    BY <1>1, InputKept
  <2>4. ~exhausted'
    BY <1>1, <1>3 DEF FillInv
  <2>5. IF resume' >= scan' THEN Reached' = resume' ELSE Reached' < scan'
    BY <1>1, <1>2, <1>4, <1>7
  <2>. QED BY <1>1, <1>2, <1>4, <2>1, <2>2, <2>3, <2>4, <2>5 DEF HarvestInv
<1>9. SimdInv'
  <2>1. filled' \in Nat
    BY <1>1, <1>2, <1>3 DEF FillInv
  <2>. QED BY <1>1, <1>2, <1>4, <1>8, <2>1, InputKept DEF SimdInv, batchVars, OnGrid, LastOf
<1>10. BufferFits'
  BY <1>1, <1>2 DEF BufferFits
<1>. QED BY <1>1, <1>2, <1>9, <1>10, FillStays

LEMMA StopHarvestKeeps ==
  ASSUME WalkInv, StopHarvest
  PROVE  WalkInv'
<1>1. /\ pc = "harvest" /\ pc' = "emit"
      /\ UNCHANGED <<input, pos, scan, batchVars, fillVars, ends>>
  BY DEF StopHarvest
<1>2. simd /\ SimdInv /\ SpanChain(ends, 0) /\ pending = LastOf(ends, 0) /\ BufferFits
  BY <1>1, FillTypes
<1>3. HarvestInv /\ filled \in Nat
  BY <1>1, HarvestTypes
<1>4. HarvestInv'
  BY <1>1, <1>3, InputKept
     DEF HarvestInv, Reached, LastOf, Chain, Before, NoneBetween, NoneBad, Needed, fillVars
<1>5. SimdInv'
  BY <1>1, <1>2, <1>3, <1>4, InputKept DEF SimdInv, batchVars, fillVars, OnGrid, LastOf
<1>6. BufferFits'
  BY <1>1, <1>2 DEF BufferFits, fillVars
<1>. QED BY <1>1, <1>2, <1>5, <1>6, FillStays DEF fillVars

LEMMA EnterBatchKeeps ==
  ASSUME WalkInv, EnterBatch
  PROVE  WalkInv'
<1>1. /\ pc = "harvest" /\ Len(nb) < Needed /\ scan - fill_base <= RelLimit
      /\ scan + W <= Size /\ masks' = batch_masks[scan]
      /\ at' = (IF resume >= scan THEN resume - scan ELSE -1)
      /\ pc' = "batch"
      /\ UNCHANGED <<input, pos, scan, batchVars, pending, fill_base, resume, nb,
                     overflow_end, exhausted, filled, ends>>
  BY DEF EnterBatch, Harvesting
<1>2. /\ simd /\ Given /\ SimdInv /\ SpanChain(ends, 0) /\ pending = LastOf(ends, 0)
      /\ BufferFits /\ scan \in Nat /\ OnGrid(scan) /\ W \in Nat /\ W > 3
  BY <1>1, FillTypes
<1>3. /\ HarvestInv /\ filled \in Nat /\ Needed \in Nat /\ Len(nb) \in Nat
  BY <1>1, HarvestTypes
<1>4. /\ resume \in Nat /\ resume < scan + W
      /\ IF resume >= scan THEN Reached = resume ELSE Reached < scan
      /\ overflow_end = Never /\ ~exhausted
  BY <1>1, <1>3 DEF HarvestInv
<1>5. /\ at' \in -1 .. W - 1
      /\ IF at' = -1 THEN Reached < scan ELSE Reached = scan + at'
      /\ Len(nb) <= Needed + at'
  BY <1>1, <1>2, <1>3, <1>4
<1>6. scan \in Grid
  BY <1>1, <1>2, GridBatch
<1>7. Reached' = Reached /\ Needed' = Needed /\ RelLimit' = RelLimit
  BY <1>1 DEF Reached, LastOf, Needed, RelLimit
<1>8. HarvestInv'
  BY <1>1, <1>3, <1>4, <1>5, <1>6, <1>7, InputKept
     DEF HarvestInv, Chain, Before, NoneBetween, NoneBad
<1>9. SimdInv'
  BY <1>1, <1>2, <1>3, <1>8, InputKept DEF SimdInv, batchVars, OnGrid, LastOf
<1>10. BufferFits'
  BY <1>1, <1>2 DEF BufferFits
<1>. QED BY <1>1, <1>2, <1>9, <1>10, FillStays

LEMMA HarvestTailKeeps ==
  ASSUME WalkInv, HarvestTail
  PROVE  WalkInv'
<1>. DEFINE more == ScalarEnds(LastOf(nb, fill_base), Size, Needed - Len(nb))
            all == nb \o more
<1>1. /\ pc = "harvest" /\ Len(nb) < Needed /\ scan - fill_base <= RelLimit
      /\ scan + W > Size
      /\ nb' = all /\ exhausted' = (LastOf(all, fill_base) >= Size) /\ pc' = "emit"
      /\ UNCHANGED <<input, pos, scan, batchVars, pending, fill_base, resume, masks,
                     at, overflow_end, filled, ends>>
  BY DEF HarvestTail, Harvesting
<1>2. /\ simd /\ Given /\ SimdInv /\ SpanChain(ends, 0) /\ pending = LastOf(ends, 0)
      /\ Size \in Nat /\ W \in Nat /\ W > 3
      /\ Chunk \in Nat /\ U16 \in Nat /\ U16 >= 2 * W /\ scan \in Nat /\ OnGrid(scan)
  BY <1>1, FillTypes
<1>3. /\ HarvestInv /\ fill_base \in Boundaries /\ fill_base \in Nat
      /\ Chain(advance, nb, fill_base, Size) /\ nb \in Seq(Nat) /\ Len(nb) \in Nat
      /\ Reached \in Boundaries /\ Reached \in Nat
      /\ NoneBetween(Reached, scan) /\ NoneBad(Reached, scan)
      /\ filled \in Nat /\ Needed \in Nat /\ Needed <= Chunk
      /\ RelLimit \in Nat /\ RelLimit = U16 - (2 * W - 1)
  BY <1>1, HarvestTypes
<1>4. overflow_end = Never /\ ~exhausted
  BY <1>1, <1>3 DEF HarvestInv
<1>5. Steps(advance, Size) /\ Needed - Len(nb) \in Nat
  BY <1>1, <1>2, <1>3, AdvanceSteps
<1>6. IsWalked(more, advance, Reached, Size, Size, Needed - Len(nb))
  BY <1>2, <1>3, <1>5, WalkFacts DEF ScalarEnds, Reached
<1>. HIDE DEF more
<1>7. /\ Chain(advance, more, Reached, Size) /\ Len(more) <= Needed - Len(nb)
      /\ more \in Seq(Nat) /\ Len(more) \in Nat
  BY <1>6 DEF IsWalked, Chain
<1>8. /\ Chain(advance, all, fill_base, Size)
      /\ LastOf(all, fill_base) = LastOf(more, Reached)
  BY <1>3, <1>5, <1>7, ChainJoin DEF Reached
<1>9. Len(all) <= Needed
  <2>1. Len(all) = Len(nb) + Len(more)
    BY <1>3, <1>7
  <2>. HIDE DEF all
  <2>. QED BY <1>1, <1>3, <1>7, <2>1
<1>. HIDE DEF all
<1>. DEFINE q == LastOf(all, fill_base)
<1>10. /\ q \in Nat /\ Reached <= q /\ q <= Size
       /\ all \in Seq(Nat) /\ Len(all) \in Nat
       /\ \A i \in 1 .. Len(all) : all[i] \in Nat /\ all[i] <= q
  <2>1. /\ q \in Nat /\ q <= Size
        /\ all \in Seq(Nat) /\ Len(all) \in Nat
        /\ \A i \in 1 .. Len(all) : all[i] \in Nat /\ all[i] <= q
    BY <1>2, <1>3, <1>8, ChainOfBoundaries
  <2>2. Reached <= LastOf(more, Reached)
    BY <1>2, <1>3, <1>7, ChainOfBoundaries
  <2>. QED BY <1>8, <2>1, <2>2
<1>11. NoneBetween(q, scan) /\ NoneBad(q, scan)
  BY <1>2, <1>3, <1>10, Further
<1>12. Reached' = q /\ Needed' = Needed
  BY <1>1 DEF Reached, LastOf, Needed
<1>. HIDE DEF q
<1>13. HarvestInv'
  <2>1. Chain(advance, nb, fill_base, Size)'
    BY <1>1, <1>8, InputKept DEF Chain, Before
  <2>2. NoneBetween(Reached, scan)' /\ NoneBad(Reached, scan)'
    BY <1>1, <1>11, <1>12, InputKept DEF NoneBetween, NoneBad
  <2>3. exhausted' => Reached' >= Size'
    BY <1>1, <1>12, InputKept DEF q
  <2>. QED BY <1>1, <1>3, <1>4, <2>1, <2>2, <2>3, InputKept DEF HarvestInv
<1>14. SimdInv'
  BY <1>1, <1>2, <1>3, <1>13, InputKept DEF SimdInv, batchVars, OnGrid, LastOf
<1>15. BufferFits'
  <2>1. \A i \in 1 .. Len(all) : all[i] - fill_base <= U16
    BY <1>1, <1>2, <1>3, <1>10
  <2>2. Len(all) <= Chunk + W
    BY <1>2, <1>3, <1>9, <1>10
  <2>3. DOMAIN all = 1 .. Len(all)
    BY <1>10
  <2>. QED BY <1>1, <2>1, <2>2, <2>3 DEF BufferFits
<1>. QED BY <1>1, <1>2, <1>14, <1>15, FillStays

(* The boundaries a batch's bits add, up to a byte no bad one is met       *)
(* before.                                                                 *)
LEMMA HeadOfBatch ==
  ASSUME WalkInv, pc = "batch", NEW zone \in 0 .. W,
         \A i \in masks.bad : ~(at <= i /\ i < zone)
  PROVE  LET head == nb \o Offsets({i \in masks.usable : at < i /\ i < zone})
             h == LastOf(head, fill_base)
         IN  /\ Chain(advance, head, fill_base, Size)
             /\ h \in Boundaries /\ h \in Nat /\ Reached <= h
             /\ h = Reached \/ h < scan + zone
             /\ NoneBetween(h, scan + zone) /\ NoneBad(h, scan + zone)
             /\ Len(head) <= Needed + (IF h >= scan THEN h - scan ELSE -1)
<1>. DEFINE bits == {i \in masks.usable : at < i /\ i < zone}
            lim == scan + zone
            new == InOrder(Stretch(Reached, lim))
            head == nb \o new
            h == LastOf(head, fill_base)
<1>1. /\ simd /\ Given /\ Size \in Nat /\ W \in Nat /\ W > 3 /\ scan \in Nat
  BY FillTypes
<1>2. /\ HarvestInv /\ fill_base \in Boundaries /\ fill_base \in Nat
      /\ Chain(advance, nb, fill_base, Size) /\ nb \in Seq(Nat) /\ Len(nb) \in Nat
      /\ Reached \in Boundaries /\ Reached \in Nat /\ Needed \in Nat
      /\ NoneBetween(Reached, scan) /\ NoneBad(Reached, scan)
  BY HarvestTypes
<1>3. /\ scan \in Grid /\ masks = batch_masks[scan] /\ at \in -1 .. W - 1
      /\ IF at = -1 THEN Reached < scan ELSE Reached = scan + at
      /\ Len(nb) <= Needed + at
  BY <1>2 DEF HarvestInv
<1>4. masks.usable \subseteq Bits /\ masks.bad \subseteq Bits
  BY <1>1, <1>3, GridBatch
<1>5. lim \in scan .. scan + W /\ lim \in Nat
  BY <1>1
<1>6. NoneBad(Reached, lim)
  <2>1. SUFFICES ASSUME NEW z \in Reached .. lim - 1, Marked(z, "bad") PROVE FALSE
    BY DEF NoneBad
  <2>2. z \in Nat /\ ~(z < scan)
    BY <1>1, <1>2, <1>5, <2>1 DEF NoneBad
  <2>3. z \in scan .. scan + W - 1 /\ z - scan < zone
    BY <1>1, <1>5, <2>1, <2>2
  <2>4. z - scan \in masks.bad
    BY <1>1, <1>3, <2>1, <2>3, MarkedHere
  <2>5. at <= z - scan
    BY <1>1, <1>2, <1>3, <2>1, <2>2
  <2>. QED BY <2>3, <2>4, <2>5
<1>. HIDE DEF lim
<1>7. {scan + i : i \in bits} = Stretch(Reached, lim)
  <2>1. \A b : b \in Boundaries /\ Reached < b /\ b < lim
           <=> \E i \in masks.usable : b = scan + i /\ Reached < b /\ b < lim
    BY <1>1, <1>2, <1>3, <1>5, <1>6, TrustedBits
  <2>2. \A i \in masks.usable : i \in Nat /\ (i \in bits <=> Reached < scan + i /\ scan + i < lim)
    <3>. TAKE i \in masks.usable
    <3>1. i \in Nat
      BY <1>4, <1>1 DEF Bits
    <3>2. at < i <=> Reached < scan + i
      BY <1>1, <1>2, <1>3, <3>1
    <3>3. i < zone <=> scan + i < lim
      BY <1>1, <3>1 DEF lim
    <3>. QED BY <3>1, <3>2, <3>3
  <2>3. \A i \in bits : i \in masks.usable
    OBVIOUS
  <2>. HIDE DEF bits
  <2>4. \A b : b \in {scan + i : i \in bits} <=> b \in Stretch(Reached, lim)
    BY <2>1, <2>2, <2>3 DEF Stretch
  <2>. QED BY <2>4
<1>8. Offsets(bits) = new
  BY <1>7 DEF Offsets
<1>. HIDE DEF new
<1>9. /\ Chain(advance, new, Reached, Size)
      /\ \A x : x \in Stretch(Reached, lim) <=> \E i \in 1 .. Len(new) : new[i] = x
      /\ LastOf(new, Reached) \in Boundaries /\ Reached <= LastOf(new, Reached)
      /\ new # <<>> => LastOf(new, Reached) < lim
      /\ NoneBetween(LastOf(new, Reached), lim)
  BY <1>1, <1>2, <1>5, StretchIsChain DEF new
<1>10. Steps(advance, Size)
  BY <1>1, AdvanceSteps
<1>11. /\ Chain(advance, head, fill_base, Size)
       /\ h = LastOf(new, Reached)
  BY <1>2, <1>9, <1>10, ChainJoin DEF Reached
<1>12. new \in Seq(Nat) /\ Len(new) \in Nat /\ Len(head) = Len(nb) + Len(new)
  <2>1. new \in Seq(Nat)
    BY <1>9 DEF Chain
  <2>. QED BY <1>2, <2>1
<1>13. h \in Boundaries /\ h \in Nat /\ Reached <= h
  BY <1>1, <1>2, <1>9, <1>11, ChainOfBoundaries
<1>14. h = Reached \/ h < lim
  BY <1>9, <1>11 DEF LastOf
<1>15. NoneBad(h, lim)
  BY <1>1, <1>2, <1>5, <1>6, <1>13, Further
<1>16. new # <<>> => Len(new) <= h - (scan + at) /\ scan <= h
  <2>. SUFFICES ASSUME new # <<>> PROVE Len(new) <= h - (scan + at) /\ scan <= h
    OBVIOUS
  <2>1. 1 \in 1 .. Len(new) /\ Len(new) \in 1 .. Len(new)
    BY <1>12
  <2>2. new[1] \in Boundaries /\ Reached < new[1] /\ new[1] \in Nat
    BY <1>1, <1>2, <1>9, <2>1, ChainOfBoundaries
  <2>3. ~(new[1] < scan)
    BY <1>2, <2>2 DEF NoneBetween
  <2>4. scan + at < new[1] /\ scan + at \in Int /\ at \in Int
    BY <1>1, <1>2, <1>3, <2>2, <2>3
  <2>5. Increasing(new)
    BY <1>1, <1>2, <1>9, <1>10, ChainGrows
  <2>6. \A i \in 1 .. Len(new) : (scan + at) + i <= new[i]
    BY <1>12, <2>4, <2>5, IncreasingSpreads
  <2>7. h = new[Len(new)]
    BY <1>11 DEF LastOf
  <2>8. new[1] <= h
    BY <1>1, <1>2, <1>9, <1>11, <2>1, ChainOfBoundaries
  <2>. QED BY <1>1, <1>12, <1>13, <2>1, <2>2, <2>3, <2>4, <2>6, <2>7, <2>8
<1>17. Len(head) <= Needed + (IF h >= scan THEN h - scan ELSE -1)
  <2>1. CASE new = <<>>
    <3>1. Len(head) = Len(nb) /\ h = Reached
      BY <1>2, <1>11, <1>12, <2>1 DEF LastOf
    <3>. HIDE DEF head, h
    <3>. QED BY <1>1, <1>2, <1>3, <3>1
  <2>2. CASE new # <<>>
    <3>. HIDE DEF head, h
    <3>. QED BY <1>1, <1>2, <1>3, <1>12, <1>13, <1>16, <2>2
  <2>. QED BY <2>1, <2>2
<1>. HIDE DEF h
<1>. QED BY <1>8, <1>9, <1>11, <1>13, <1>14, <1>15, <1>17 DEF lim, h

(* A harvest that goes on leaves the boundaries as Reached of the next     *)
(* state finds them.                                                       *)
LEMMA HarvestGrows ==
  ASSUME WalkInv, pc \in {"harvest", "batch"}, UNCHANGED <<input, fill_base, pending, ends>>,
         UNCHANGED <<batchVars, filled>>, pc' \in {"harvest", "batch", "emit"},
         Chain(advance, nb', fill_base, Size), Len(nb') <= Chunk + W,
         \A i \in 1 .. Len(nb') : nb'[i] - fill_base <= U16,
         OnGrid(scan'), NoneBetween(Reached', scan'), NoneBad(Reached', scan'),
         ~exhausted',
         pc' # "emit" => overflow_end' = Never /\ resume' \in Nat /\ resume' < scan' + W,
         pc' = "harvest" => IF resume' >= scan' THEN Reached' = resume' ELSE Reached' < scan',
         pc' = "batch" => /\ scan' \in Grid /\ masks' = batch_masks[scan']
                          /\ at' \in -1 .. W - 1
                          /\ IF at' = -1 THEN Reached' < scan' ELSE Reached' = scan' + at'
                          /\ scan' - fill_base <= RelLimit
                          /\ Len(nb') <= Needed + at',
         pc' = "emit" => (overflow_end' # Never => overflow_end' = advance[Reached'])
  PROVE  WalkInv'
<1>1. /\ simd /\ Given /\ SimdInv /\ SpanChain(ends, 0) /\ pending = LastOf(ends, 0)
  BY FillTypes
<1>2. HarvestInv /\ filled \in Nat
  BY HarvestTypes
<1>3. Needed' = Needed /\ RelLimit' = RelLimit
  BY DEF Needed, RelLimit
<1>4. HarvestInv'
  <2>1. Chain(advance, nb, fill_base, Size)'
    BY InputKept DEF Chain, Before
  <2>2. NoneBetween(Reached, scan)' /\ NoneBad(Reached, scan)'
    BY InputKept DEF NoneBetween, NoneBad
  <2>4. /\ fill_base' = pending' /\ fill_base' < Size' /\ filled' < Chunk
    BY <1>2, InputKept DEF HarvestInv
  <2>5. pc' = "batch" => /\ scan' \in Grid' /\ masks' = batch_masks'[scan']
                         /\ at' \in -1 .. W - 1
                         /\ IF at' = -1 THEN Reached' < scan' ELSE Reached' = scan' + at'
                         /\ scan' - fill_base' <= RelLimit'
                         /\ Len(nb') <= Needed' + at'
    BY <1>3, InputKept
  <2>6. pc' = "emit" => (overflow_end' # Never => overflow_end' = advance'[Reached'])
    BY InputKept
  <2>. QED BY <2>1, <2>2, <2>4, <2>5, <2>6 DEF HarvestInv
<1>5. SimdInv'
  BY <1>1, <1>2, <1>4, InputKept DEF SimdInv, batchVars, OnGrid, LastOf
<1>6. BufferFits'
  <2>1. nb' \in Seq(Nat)
    BY DEF Chain
  <2>2. DOMAIN nb' = 1 .. Len(nb')
    BY <2>1
  <2>. QED BY <2>2 DEF BufferFits
<1>. QED BY <1>1, <1>5, <1>6, FillStays

LEMMA HarvestCleanKeeps ==
  ASSUME WalkInv, HarvestClean
  PROVE  WalkInv'
<1>. DEFINE head == nb \o Offsets({i \in masks.usable : at < i /\ i < W})
            h == LastOf(head, fill_base)
<1>1. /\ pc = "batch" /\ masks.bad \cap From(at) = {}
      /\ nb' = nb \o Offsets(masks.usable \cap From(at + 1))
      /\ scan' = scan + W /\ pc' = "harvest"
      /\ UNCHANGED <<input, pos, batchVars, pending, fill_base, resume, at,
                     overflow_end, exhausted, filled, ends>>
  BY DEF HarvestClean
<1>2. /\ simd /\ Given /\ Size \in Nat /\ W \in Nat /\ W > 3
      /\ Chunk \in Nat /\ U16 \in Nat /\ U16 >= 2 * W /\ scan \in Nat /\ OnGrid(scan)
  BY <1>1, FillTypes
<1>3. /\ HarvestInv /\ fill_base \in Boundaries /\ fill_base \in Nat
      /\ Reached \in Nat /\ Needed \in Nat /\ Needed <= Chunk
      /\ RelLimit \in Nat /\ RelLimit = U16 - (2 * W - 1)
  BY <1>1, HarvestTypes
<1>4. /\ scan \in Grid /\ masks = batch_masks[scan] /\ at \in -1 .. W - 1
      /\ IF at = -1 THEN Reached < scan ELSE Reached = scan + at
      /\ scan - fill_base <= RelLimit
      /\ overflow_end = Never /\ ~exhausted
      /\ resume \in Nat /\ resume < scan + W
  BY <1>1, <1>3 DEF HarvestInv
<1>5. masks.usable \subseteq Bits /\ masks.bad \subseteq Bits
  BY <1>2, <1>4, GridBatch
<1>6. \A i \in masks.bad : ~(at <= i /\ i < W)
  <2>1. SUFFICES ASSUME NEW i \in masks.bad, at <= i, i < W PROVE FALSE
    OBVIOUS
  <2>2. i \in From(at)
    BY <1>2, <1>4, <1>5, <2>1 DEF Bits, From
  <2>. QED BY <1>1, <2>2
<1>7. masks.usable \cap From(at + 1) = {i \in masks.usable : at < i /\ i < W}
  <2>1. \A i \in masks.usable : i \in From(at + 1) <=> at < i /\ i < W
    BY <1>2, <1>4, <1>5 DEF Bits, From
  <2>. QED BY <2>1
<1>8. nb' = head
  BY <1>1, <1>7
<1>9. /\ Chain(advance, head, fill_base, Size)
      /\ h \in Boundaries /\ h \in Nat /\ Reached <= h
      /\ h = Reached \/ h < scan + W
      /\ NoneBetween(h, scan + W) /\ NoneBad(h, scan + W)
      /\ Len(head) <= Needed + (IF h >= scan THEN h - scan ELSE -1)
  <2>1. W \in 0 .. W
    BY <1>2
  <2>. HIDE DEF head
  <2>. QED BY <1>1, <1>6, <2>1, HeadOfBatch DEF head
<1>10. \A i \in 1 .. Len(head) : head[i] \in Nat /\ head[i] <= h
  BY <1>2, <1>3, <1>9, ChainOfBoundaries
<1>11. Len(head) \in Nat
  BY <1>9 DEF Chain
<1>. HIDE DEF head
<1>12. Reached' = h
  BY <1>1, <1>8 DEF Reached, LastOf
<1>. HIDE DEF h
<1>13. h < scan + W
  BY <1>2, <1>3, <1>4, <1>9
<1>14. Len(head) <= Chunk + W
  BY <1>2, <1>3, <1>9, <1>11, <1>13
<1>15. \A i \in 1 .. Len(head) : head[i] - fill_base <= U16
  BY <1>2, <1>3, <1>4, <1>10, <1>9, <1>13
<1>16. OnGrid(scan')
  BY <1>1, <1>2, GridPlus
<1>17. NoneBetween(Reached', scan') /\ NoneBad(Reached', scan')
  BY <1>1, <1>9, <1>12
<1>18. resume' < scan' + W /\ ~(resume' >= scan') /\ Reached' < scan'
  BY <1>1, <1>2, <1>4, <1>12, <1>13
<1>19. /\ pc \in {"harvest", "batch"} /\ pc' = "harvest"
       /\ UNCHANGED <<input, fill_base, pending, ends>> /\ UNCHANGED <<batchVars, filled>>
       /\ overflow_end' = Never /\ ~exhausted' /\ resume' \in Nat
  BY <1>1, <1>4
<1>. QED BY <1>8, <1>9, <1>14, <1>15, <1>16, <1>17, <1>18, <1>19, HarvestGrows

(* The scalar ends from a boundary on, up to an offset, and how many they  *)
(* are: none of them is before the batch.                                  *)
LEMMA ScalarRun ==
  ASSUME Given, simd, scan \in Nat, NEW h \in Boundaries, h \in Nat,
         NoneBetween(h, scan), NEW until \in Nat, until <= Size, scan <= until
  PROVE  LET more == ScalarEnds(h, until, Size)
             p == LastOf(more, h)
             low == IF h >= scan THEN h ELSE scan - 1
         IN  /\ Chain(advance, more, h, Size) /\ more \in Seq(Nat) /\ Len(more) \in Nat
             /\ p \in Boundaries /\ p \in Nat /\ h <= p /\ p <= Size /\ until <= p
             /\ more = <<>> => p = h
             /\ more # <<>> => low + Len(more) <= p
             /\ more # <<>> => low + Len(more) <= until
<1>. DEFINE more == ScalarEnds(h, until, Size)
            p == LastOf(more, h)
            low == IF h >= scan THEN h ELSE scan - 1
<1>1. Size \in Nat /\ Steps(advance, Size)
  BY AdvanceSteps
<1>2. IsWalked(more, advance, h, Size, until, Size)
  BY <1>1, WalkFacts DEF ScalarEnds
<1>. HIDE DEF more
<1>3. Chain(advance, more, h, Size) /\ more \in Seq(Nat) /\ Len(more) \in Nat
  BY <1>2 DEF IsWalked, Chain
<1>4. p \in Boundaries /\ p \in Nat /\ h <= p /\ p <= Size
  BY <1>3, ChainOfBoundaries
<1>5. until <= p
  <2>1. CASE Len(more) = Size
    <3>1. h + Len(more) <= p
      BY <1>1, <1>3, ChainGrows
    <3>. HIDE DEF p
    <3>. QED BY <1>1, <1>4, <2>1, <3>1
  <2>2. CASE Len(more) # Size
    BY <1>2, <1>4, <2>2 DEF IsWalked
  <2>. QED BY <2>1, <2>2
<1>6. more = <<>> => p = h
  BY DEF LastOf
<1>7. ASSUME more # <<>>
      PROVE  low + Len(more) <= p /\ low + Len(more) <= until
  <2>1. 1 \in 1 .. Len(more) /\ Len(more) \in 1 .. Len(more)
    BY <1>3, <1>7
  <2>2. more[1] \in Boundaries /\ h < more[1] /\ more[1] \in Nat
    BY <1>3, <2>1, ChainOfBoundaries
  <2>3. ~(more[1] < scan)
    BY <2>2 DEF NoneBetween
  <2>4. low \in Int /\ low < more[1]
    BY <2>2, <2>3
  <2>5. Increasing(more)
    BY <1>1, <1>3, ChainGrows
  <2>. HIDE DEF low
  <2>6. \A i \in 1 .. Len(more) : low + i <= more[i]
    BY <1>3, <2>4, <2>5, IncreasingSpreads
  <2>7. p = more[Len(more)]
    BY <1>7 DEF LastOf
  <2>8. low + Len(more) <= p
    BY <2>1, <2>6, <2>7
  <2>9. Before(more, h, Len(more)) < until
    BY <1>2, <2>1 DEF IsWalked
  <2>10. CASE Len(more) = 1
    <3>1. h < until
      BY <2>9, <2>10 DEF Before
    <3>2. low < until
      BY <3>1 DEF low
    <3>. QED BY <2>4, <2>8, <2>10, <3>2
  <2>11. CASE Len(more) # 1
    <3>1. Len(more) - 1 \in 1 .. Len(more) /\ more[Len(more) - 1] < until
      <4>1. Len(more) - 1 \in 1 .. Len(more)
        <5>1. PICK n \in Nat : n = Len(more)
          BY <1>3
        <5>2. n >= 1 /\ n # 1
          BY <2>1, <2>11, <5>1
        <5>. QED BY <5>1, <5>2
      <4>2. Before(more, h, Len(more)) = more[Len(more) - 1]
        BY <2>11 DEF Before
      <4>. QED BY <2>9, <4>1, <4>2
    <3>2. low + (Len(more) - 1) <= more[Len(more) - 1] /\ more[Len(more) - 1] \in Nat
      BY <1>3, <2>6, <3>1
    <3>. QED BY <1>3, <2>4, <2>8, <3>1, <3>2
  <2>. QED BY <2>10, <2>11
<1>. HIDE DEF p, low
<1>. QED BY <1>3, <1>4, <1>5, <1>6, <1>7 DEF p, low, more

LEMMA HarvestDirtyKeeps ==
  ASSUME WalkInv, HarvestDirty
  PROVE  WalkInv'
<1>. DEFINE zone == Min(masks.bad \cap From(at))
            head == nb \o Offsets({i \in masks.usable : at < i /\ i < zone})
            rest == {i \in masks.usable : i >= zone}
            until == scan + IF rest = {} THEN W ELSE Min(rest)
            h == LastOf(head, fill_base)
            more == ScalarEnds(h, until, Size)
            far == {i \in DOMAIN more : more[i] - fill_base > U16}
            fits == IF far = {} THEN more ELSE SubSeq(more, 1, Min(far) - 1)
            p == LastOf(more, h)
            low == IF h >= scan THEN h ELSE scan - 1
<1>1. /\ pc = "batch" /\ masks.bad \cap From(at) # {}
      /\ nb' = head \o fits
      /\ IF Len(fits) < Len(more)
         THEN /\ overflow_end' = more[Len(fits) + 1]
              /\ pc' = "emit"
              /\ masks' = NoMasks
              /\ UNCHANGED <<scan, resume, at>>
         ELSE /\ UNCHANGED overflow_end
              /\ IF p >= scan + W
                 THEN /\ scan' = scan + W * ((p - scan) \div W)
                      /\ resume' = p
                      /\ pc' = "harvest"
                      /\ masks' = NoMasks
                      /\ UNCHANGED at
                 ELSE /\ at' = p - scan
                      /\ UNCHANGED <<scan, resume, masks, pc>>
      /\ UNCHANGED <<input, pos, batchVars, pending, fill_base, exhausted, filled,
                     ends>>
  BY DEF HarvestDirty
<1>2. /\ simd /\ Given /\ Size \in Nat /\ W \in Nat /\ W > 3
      /\ Chunk \in Nat /\ U16 \in Nat /\ U16 >= 2 * W /\ scan \in Nat /\ OnGrid(scan)
  BY <1>1, FillTypes
<1>3. /\ HarvestInv /\ fill_base \in Boundaries /\ fill_base \in Nat
      /\ Reached \in Nat /\ Needed \in Nat /\ Needed <= Chunk
      /\ NoneBetween(Reached, scan) /\ NoneBad(Reached, scan)
      /\ RelLimit \in Nat /\ RelLimit = U16 - (2 * W - 1)
  BY <1>1, HarvestTypes
<1>4. /\ scan \in Grid /\ masks = batch_masks[scan] /\ at \in -1 .. W - 1
      /\ IF at = -1 THEN Reached < scan ELSE Reached = scan + at
      /\ scan - fill_base <= RelLimit
      /\ overflow_end = Never /\ ~exhausted
      /\ resume \in Nat /\ resume < scan + W
  BY <1>1, <1>3 DEF HarvestInv
<1>5. masks.usable \subseteq Bits /\ masks.bad \subseteq Bits /\ scan + W <= Size
  BY <1>2, <1>4, GridBatch
<1>6. zone \in 0 .. W - 1 /\ \A i \in masks.bad : ~(at <= i /\ i < zone)
  <2>. DEFINE Z == masks.bad \cap From(at)
  <2>1. \A i \in masks.bad : i \in Nat /\ i < W
    BY <1>2, <1>5 DEF Bits
  <2>2. \A i \in masks.bad : i \in Z <=> at <= i
    BY <1>2, <1>4, <2>1 DEF From
  <2>3. Z \in SUBSET Nat
    BY <2>1
  <2>4. \A i \in Z : i \in masks.bad
    OBVIOUS
  <2>5. Z # {}
    BY <1>1
  <2>. HIDE DEF Z
  <2>6. Min(Z) \in Z /\ \A k \in Z : Min(Z) <= k
    BY <2>3, <2>5, MinOfNumbers
  <2>7. Min(Z) \in 0 .. W - 1
    BY <1>2, <2>1, <2>4, <2>6
  <2>8. \A i \in masks.bad : ~(at <= i /\ i < Min(Z))
    BY <2>1, <2>2, <2>6, <2>7
  <2>. QED BY <2>7, <2>8 DEF Z
<1>. HIDE DEF zone
<1>7. until \in Nat /\ scan + zone <= until /\ until <= scan + W
  <2>1. \A i \in rest : i \in Nat /\ zone <= i /\ i < W
    BY <1>2, <1>5, <1>6 DEF Bits
  <2>2. rest # {} => Min(rest) \in rest
    <3>1. rest \in SUBSET Nat
      BY <2>1
    <3>. HIDE DEF rest
    <3>. QED BY <3>1, MinOfNumbers
  <2>. HIDE DEF rest
  <2>3. rest # {} => Min(rest) \in Nat /\ zone <= Min(rest) /\ Min(rest) < W
    BY <2>1, <2>2
  <2>. QED BY <1>2, <1>6, <2>3
<1>. HIDE DEF until
<1>8. /\ Chain(advance, head, fill_base, Size)
      /\ h \in Boundaries /\ h \in Nat /\ Reached <= h
      /\ h = Reached \/ h < scan + zone
      /\ NoneBetween(h, scan + zone) /\ NoneBad(h, scan + zone)
      /\ Len(head) <= Needed + (IF h >= scan THEN h - scan ELSE -1)
  <2>1. zone \in 0 .. W
    BY <1>2, <1>6
  <2>. HIDE DEF head
  <2>. QED BY <1>1, <1>6, <2>1, HeadOfBatch DEF head
<1>9. /\ head \in Seq(Nat) /\ Len(head) \in Nat
      /\ \A i \in 1 .. Len(head) : head[i] \in Nat /\ head[i] <= h
  BY <1>2, <1>3, <1>8, ChainOfBoundaries
<1>. HIDE DEF head
<1>. HIDE DEF h
<1>10. h < scan + W /\ NoneBetween(h, scan) /\ NoneBad(h, scan)
  <2>1. h < scan + W
    <3>1. Reached < scan + W
      BY <1>2, <1>3, <1>4
    <3>2. scan + zone < scan + W
      BY <1>2, <1>6
    <3>. QED BY <1>2, <1>3, <1>6, <1>8, <3>1, <3>2
  <2>. QED BY <1>2, <1>3, <1>8, <2>1, Further
<1>11. /\ Chain(advance, more, h, Size) /\ more \in Seq(Nat) /\ Len(more) \in Nat
       /\ p \in Boundaries /\ p \in Nat /\ h <= p /\ p <= Size /\ until <= p
       /\ more = <<>> => p = h
       /\ more # <<>> => low + Len(more) <= p
       /\ more # <<>> => low + Len(more) <= until
  <2>1. until <= Size /\ scan <= until
    BY <1>2, <1>5, <1>6, <1>7
  <2>. QED BY <1>2, <1>7, <1>8, <1>10, <2>1, ScalarRun
<1>. HIDE DEF more
<1>12. p = IF more = <<>> THEN h ELSE more[Len(more)]
  BY DEF LastOf
<1>13. low \in Int /\ Len(head) <= Needed + (low - scan) /\ low < scan + W
  BY <1>2, <1>3, <1>8, <1>9, <1>10
<1>. HIDE DEF low
<1>14. Len(head) + Len(more) <= Chunk + W
  <2>1. CASE more = <<>>
    <3>1. Len(more) = 0
      BY <2>1
    <3>. QED BY <1>2, <1>3, <1>9, <1>13, <3>1
  <2>2. CASE more # <<>>
    BY <1>2, <1>3, <1>7, <1>9, <1>11, <1>13, <2>2
  <2>. QED BY <2>1, <2>2
<1>. HIDE DEF p
<1>15. /\ DOMAIN more = 1 .. Len(more)
       /\ \A i \in 1 .. Len(more) : more[i] \in Nat
  BY <1>11
<1>16. far # {} => /\ Min(far) \in 1 .. Len(more)
                   /\ \A i \in 1 .. Min(far) - 1 : more[i] - fill_base <= U16
  <2>1. \A i \in 1 .. Len(more) : i \in far <=> ~(more[i] - fill_base <= U16)
    BY <1>2, <1>3, <1>15
  <2>2. \A i \in far : i \in 1 .. Len(more)
    BY <1>15
  <2>. HIDE DEF far
  <2>3. far \in SUBSET Nat
    BY <2>2
  <2>4. far # {} => Min(far) \in far /\ \A k \in far : Min(far) <= k
    BY <2>3, MinOfNumbers
  <2>5. far # {} => Min(far) \in 1 .. Len(more)
    BY <2>2, <2>4
  <2>6. far # {} => \A i \in 1 .. Min(far) - 1 : i \in 1 .. Len(more) /\ i \notin far
    BY <1>11, <2>4, <2>5
  <2>. QED BY <2>1, <2>5, <2>6
<1>17. far = {} => \A i \in 1 .. Len(more) : more[i] - fill_base <= U16
  BY <1>2, <1>3, <1>15
<1>. HIDE DEF far
<1>. DEFINE k == IF far = {} THEN Len(more) ELSE Min(far) - 1
<1>18. k \in 0 .. Len(more) /\ k \in Nat /\ (k < Len(more) <=> far # {})
  BY <1>11, <1>16
<1>19. /\ Chain(advance, fits, h, Size) /\ Len(fits) = k
       /\ \A i \in 1 .. k : fits[i] = more[i]
       /\ LastOf(fits, h) = IF k = 0 THEN h ELSE more[k]
  <2>1. CASE far = {}
    <3>1. more = <<>> <=> Len(more) = 0
      BY <1>11
    <3>. QED BY <1>11, <2>1, <3>1 DEF LastOf
  <2>2. CASE far # {}
    <3>1. fits = SubSeq(more, 1, k)
      BY <2>2
    <3>. HIDE DEF k, fits
    <3>. QED BY <1>11, <1>18, <3>1, ChainFront
  <2>. QED BY <2>1, <2>2
<1>20. \A i \in 1 .. k : more[i] - fill_base <= U16
  BY <1>16, <1>17
<1>. HIDE DEF k, fits
<1>. DEFINE all == head \o fits
            q == LastOf(all, fill_base)
<1>21. fits \in Seq(Nat)
  BY <1>19 DEF Chain
<1>22. /\ Chain(advance, all, fill_base, Size)
       /\ q = LastOf(fits, h)
  <2>1. Steps(advance, Size)
    BY <1>2, AdvanceSteps
  <2>. QED BY <1>3, <1>8, <1>19, <2>1, ChainJoin DEF h
<1>23. Len(all) = Len(head) + k /\ Len(all) \in Nat
       /\ \A i \in 1 .. Len(all) : all[i] = IF i <= Len(head) THEN head[i] ELSE fits[i - Len(head)]
  <2>1. /\ all \in Seq(Nat) /\ Len(all) = Len(head) + Len(fits)
        /\ \A i \in 1 .. Len(head) + Len(fits) :
             all[i] = IF i <= Len(head) THEN head[i] ELSE fits[i - Len(head)]
    BY <1>9, <1>21, ConcatProperties
  <2>. HIDE DEF all
  <2>. QED BY <1>9, <1>18, <1>19, <2>1
<1>24. Len(all) <= Chunk + W
  <2>. HIDE DEF all
  <2>. QED BY <1>2, <1>9, <1>11, <1>14, <1>18, <1>23
<1>25. \A i \in 1 .. Len(all) : all[i] - fill_base <= U16
  <2>. TAKE i \in 1 .. Len(all)
  <2>. HIDE DEF all
  <2>1. CASE i <= Len(head)
    <3>1. all[i] \in Nat /\ all[i] <= h
      BY <1>9, <1>23, <2>1
    <3>. QED BY <1>2, <1>3, <1>4, <1>8, <1>10, <3>1
  <2>2. CASE ~(i <= Len(head))
    <3>1. i - Len(head) \in 1 .. k
      BY <1>9, <1>18, <1>23, <2>2
    <3>2. all[i] = more[i - Len(head)]
      BY <1>19, <1>23, <2>2, <3>1
    <3>. QED BY <1>20, <3>1, <3>2
  <2>. QED BY <2>1, <2>2
<1>26. q \in Nat /\ h <= q
  BY <1>2, <1>8, <1>19, <1>22, ChainOfBoundaries
<1>27. nb' = all
  BY <1>1
<1>. HIDE DEF all
<1>28. Reached' = q
  BY <1>1, <1>27 DEF Reached, LastOf
<1>29. q = IF k = 0 THEN h ELSE more[k]
  BY <1>19, <1>22
<1>. HIDE DEF q
<1>30. NoneBetween(q, scan) /\ NoneBad(q, scan)
  BY <1>2, <1>8, <1>10, <1>26, Further
<1>31. /\ pc \in {"harvest", "batch"} /\ ~exhausted'
       /\ UNCHANGED <<input, fill_base, pending, ends>> /\ UNCHANGED <<batchVars, filled>>
  BY <1>1, <1>4
<1>32. Chain(advance, nb', fill_base, Size) /\ Len(nb') <= Chunk + W
       /\ \A i \in 1 .. Len(nb') : nb'[i] - fill_base <= U16
  BY <1>22, <1>24, <1>25, <1>27
<1>33. CASE k < Len(more)
  <2>1. /\ overflow_end' = more[k + 1] /\ pc' = "emit" /\ scan' = scan
    BY <1>1, <1>19, <1>33
  <2>2. Before(more, h, k + 1) = q
    BY <1>18, <1>29 DEF Before
  <2>3. k + 1 \in 1 .. Len(more)
    BY <1>11, <1>18, <1>33
  <2>4. more[k + 1] = advance[q]
    BY <1>11, <2>2, <2>3 DEF Chain
  <2>5. overflow_end' = advance[Reached']
    BY <1>28, <2>1, <2>4
  <2>6. OnGrid(scan') /\ NoneBetween(Reached', scan') /\ NoneBad(Reached', scan')
    BY <1>2, <1>28, <1>30, <2>1
  <2>. QED BY <1>31, <1>32, <2>1, <2>5, <2>6, HarvestGrows
<1>34. CASE ~(k < Len(more))
  <2>1. k = Len(more)
    BY <1>11, <1>18, <1>34
  <2>2. q = p
    <3>1. more = <<>> <=> Len(more) = 0
      BY <1>11
    <3>. QED BY <1>12, <1>29, <2>1, <3>1
  <2>3. /\ overflow_end' = Never
        /\ IF p >= scan + W
           THEN /\ scan' = scan + W * ((p - scan) \div W)
                /\ resume' = p
                /\ pc' = "harvest"
           ELSE /\ at' = p - scan
                /\ UNCHANGED <<scan, resume, masks, pc>>
    BY <1>1, <1>4, <1>19, <1>34
  <2>4. CASE p >= scan + W
    <3>1. scan' = scan + W * ((p - scan) \div W) /\ resume' = p /\ pc' = "harvest"
      BY <2>3, <2>4
    <3>2. scan <= p
      BY <1>2, <1>11, <2>4
    <3>3. OnGrid(scan') /\ scan' <= p /\ p < scan' + W
      BY <1>2, <1>11, <3>1, <3>2, GridJump
    <3>4. scan' \in Nat /\ p <= p /\ scan' <= p + 1
      BY <1>11, <3>3, GridNat
    <3>5. NoneBetween(p, scan') /\ NoneBad(p, scan')
      BY <1>2, <1>11, <3>3, <3>4, Further
    <3>6. NoneBetween(Reached', scan') /\ NoneBad(Reached', scan')
      BY <1>28, <2>2, <3>5
    <3>7. IF resume' >= scan' THEN Reached' = resume' ELSE Reached' < scan'
      BY <1>11, <1>28, <2>2, <3>1, <3>3, <3>4
    <3>8. resume' \in Nat /\ resume' < scan' + W
      BY <1>11, <3>1, <3>3
    <3>. QED BY <1>31, <1>32, <2>3, <3>1, <3>3, <3>6, <3>7, <3>8, HarvestGrows
  <2>5. CASE ~(p >= scan + W)
    <3>1. at' = p - scan /\ scan' = scan /\ resume' = resume /\ masks' = masks /\ pc' = "batch"
      BY <1>1, <2>3, <2>5
    <3>2. scan <= p /\ p < scan + W
      BY <1>2, <1>6, <1>7, <1>11, <2>5
    <3>3. at' \in 0 .. W - 1 /\ Reached' = scan' + at'
      BY <1>2, <1>11, <1>28, <2>2, <3>1, <3>2
    <3>4. Len(nb') <= Needed + at'
      <4>1. CASE more = <<>>
        <5>1. p = h /\ k = 0 /\ h >= scan
          BY <1>11, <1>18, <2>1, <3>2, <4>1
        <5>2. Len(nb') = Len(head)
          BY <1>9, <1>23, <1>27, <5>1
        <5>3. Len(head) <= Needed + (h - scan)
          BY <1>8, <5>1
        <5>. QED BY <3>1, <5>1, <5>2, <5>3
      <4>2. CASE more # <<>>
        <5>1. Len(nb') = Len(head) + Len(more)
          BY <1>23, <1>27, <2>1
        <5>. QED BY <1>2, <1>3, <1>9, <1>11, <1>13, <3>1, <4>2, <5>1
      <4>. QED BY <4>1, <4>2
    <3>5. OnGrid(scan') /\ NoneBetween(Reached', scan') /\ NoneBad(Reached', scan')
      BY <1>2, <1>28, <1>30, <3>1
    <3>6. /\ scan' \in Grid /\ masks' = batch_masks[scan'] /\ scan' - fill_base <= RelLimit
          /\ resume' \in Nat /\ resume' < scan' + W
      BY <1>4, <3>1
    <3>7. at' \in -1 .. W - 1 /\ (IF at' = -1 THEN Reached' < scan' ELSE Reached' = scan' + at')
      BY <1>2, <3>3
    <3>. QED BY <1>31, <1>32, <2>3, <3>1, <3>4, <3>5, <3>6, <3>7, HarvestGrows
  <2>. QED BY <2>4, <2>5
<1>. QED BY <1>33, <1>34

(* Of the ends of some tokens, those that glue_filter keeps are the ends   *)
(* of their units, one after the other; and it keeps the end of the text.  *)
LEMMA UnitEndsHere ==
  ASSUME Given, gluing, NEW base \in Nat, NEW s, Chain(advance, s, base, Size),
         NEW j \in 1 .. Len(s),
         IF j < Len(s) THEN <<Before(s, base, j), s[j]>> \notin glued ELSE s[j] >= Size,
         NEW i \in 1 .. j,
         \A m \in i .. j - 1 : <<Before(s, base, m), s[m]>> \in glued
  PROVE  Before(s, base, i) \in 0 .. Size - 1 /\ SpanEnds[Before(s, base, i)] = s[j]
<1>. DEFINE C(m) == Before(s, base, m)
<1>1. /\ s \in Seq(Nat) /\ Len(s) \in Nat /\ Size \in Nat /\ Steps(advance, Size)
      /\ \A m \in 1 .. Len(s) : C(m) \in 0 .. Size - 1 /\ s[m] = advance[C(m)]
      /\ \A q \in 0 .. Size - 1 : SpanEnds[q] = Span(q)
  BY AdvanceSteps, SpanSteps DEF Chain
<1>2. ASSUME NEW m \in 1 .. Len(s), m # Len(s) PROVE s[m] = C(m + 1) /\ s[m] < Size
  <2>1. m + 1 \in 1 .. Len(s) /\ m + 1 # 1 /\ (m + 1) - 1 = m
    BY <1>1, <1>2
  <2>2. C(m + 1) = s[m]
    BY <2>1 DEF Before
  <2>. QED BY <1>1, <2>1, <2>2
<1>. HIDE DEF C
<1>3. ASSUME NEW m \in 1 .. Len(s)
      PROVE  Span(C(m)) = IF s[m] < Size /\ <<C(m), s[m]>> \in glued THEN Span(s[m]) ELSE s[m]
  BY <1>1, UnitRecurs
<1>4. s[j] \in Nat
  BY <1>1
<1>5. Span(C(j)) = s[j]
  BY <1>1, <1>3, <1>4 DEF C
<1>. DEFINE Bad == {d \in 0 .. j - i : Span(C(j - d)) # s[j]}
<1>6. Bad = {}
  <2>1. SUFFICES ASSUME Bad # {} PROVE FALSE
    OBVIOUS
  <2>2. PICK d \in Bad : \A k \in Bad : d <= k
    <3>1. Bad \in SUBSET Nat
      BY <1>1
    <3>. HIDE DEF Bad
    <3>. QED BY <2>1, <3>1, LeastNumber
  <2>3. d \in 0 .. j - i /\ Span(C(j - d)) # s[j]
    OBVIOUS
  <2>4. d # 0
    <3>1. d = 0 => j - d = j
      BY <1>1
    <3>. QED BY <1>5, <2>3, <3>1
  <2>5. d - 1 \in 0 .. j - i /\ d - 1 \notin Bad
    <3>1. d - 1 \in 0 .. j - i /\ d - 1 < d
      BY <1>1, <2>3, <2>4
    <3>. HIDE DEF Bad
    <3>. QED BY <2>2, <2>3, <3>1
  <2>6. Span(C(j - (d - 1))) = s[j]
    BY <2>5
  <2>. DEFINE m == j - d
  <2>7. m \in 1 .. Len(s) /\ m # Len(s) /\ m \in i .. j - 1 /\ m + 1 = j - (d - 1)
    BY <1>1, <2>3, <2>4
  <2>8. Span(C(m)) # s[j] /\ Span(C(m + 1)) = s[j]
    BY <2>3, <2>6, <2>7
  <2>. HIDE DEF m
  <2>9. <<C(m), s[m]>> \in glued /\ s[m] = C(m + 1) /\ s[m] < Size
    BY <1>2, <2>7 DEF C
  <2>10. Span(C(m)) = Span(s[m])
    BY <1>3, <2>7, <2>9
  <2>. QED BY <2>8, <2>9, <2>10
<1>7. j - i \in 0 .. j - i /\ j - (j - i) = i /\ i \in 1 .. Len(s)
  BY <1>1
<1>8. Span(C(i)) = s[j]
  <2>1. j - i \notin Bad
    BY <1>6
  <2>2. Span(C(j - (j - i))) = s[j]
    BY <1>7, <2>1
  <2>. QED BY <1>7, <2>2
<1>. QED BY <1>1, <1>7, <1>8 DEF C

KeptOf(base, s) == IF gluing THEN glue_filter(Size, base, s, glued) ELSE s

LEMMA KeptFacts ==
  ASSUME Given, simd, NEW base \in Boundaries, NEW s, Chain(advance, s, base, Size)
  PROVE  /\ Chain(SpanEnds, KeptOf(base, s), base, Size)
         /\ \A a \in 1 .. Len(KeptOf(base, s)) : KeptOf(base, s)[a] \in Boundaries
         /\ LastOf(s, base) >= Size => LastOf(KeptOf(base, s), base) >= Size
         /\ ~gluing => KeptOf(base, s) = s
<1>1. /\ s \in Seq(Nat) /\ Len(s) \in Nat /\ Size \in Nat /\ base \in Nat
      /\ \A i \in 1 .. Len(s) : /\ s[i] \in Boundaries /\ s[i] \in Nat /\ base < s[i]
                                /\ s[i] <= LastOf(s, base)
      /\ \A b \in Boundaries : b \in Nat /\ b <= Size
      /\ Steps(SpanEnds, Size) /\ gluing \in BOOLEAN
  <2>1. \A b \in Boundaries : b \in Nat /\ b <= Size
    BY BoundariesAreFollowed, AdvanceSteps DEF BoundariesFollow
  <2>2. gluing \in BOOLEAN
    BY DEF Given
  <2>. QED BY <2>1, <2>2, ChainOfBoundaries, AdvanceSteps, SpanSteps
<1>2. CASE ~gluing
  <2>1. KeptOf(base, s) = s /\ SpanEnds = advance
    BY <1>2, SpanSteps DEF KeptOf
  <2>. QED BY <1>1, <2>1
<1>3. CASE gluing
  <2>. DEFINE n == Len(s)
              C(i) == Before(s, base, i)
              kept == {i \in 1 .. n : IF i < n THEN <<C(i), s[i]>> \notin glued ELSE s[n] >= Size}
              T == {s[i] : i \in kept}
              K == InOrder(T)
  <2>1. KeptOf(base, s) = K
    BY <1>3 DEF KeptOf, glue_filter, Before
  <2>2. \A i \in 1 .. n : i \in kept <=> (IF i < n THEN <<C(i), s[i]>> \notin glued ELSE s[i] >= Size)
    BY <1>1
  <2>3. kept \subseteq 1 .. n
    OBVIOUS
  <2>4. Increasing(s)
    BY <1>1, ChainGrows, AdvanceSteps
  <2>. HIDE DEF kept
  <2>5. \A x : x \in T <=> \E i \in kept : x = s[i]
    OBVIOUS
  <2>. HIDE DEF T
  <2>6. \A x \in T : x \in Nat /\ x \in Boundaries /\ x <= Size
    BY <1>1, <2>3, <2>5
  <2>7. IsFiniteSet(T)
    <3>1. IsFiniteSet(0 .. Size)
      BY <1>1, FS_Interval
    <3>2. \A x \in T : x \in 0 .. Size
      BY <1>1, <2>6
    <3>3. T \in SUBSET (0 .. Size)
      BY <3>2, Zenon
    <3>. QED BY <3>1, <3>3, FS_Subset, Zenon
  <2>8. /\ K \in Seq(Nat) /\ Increasing(K)
        /\ \A x : x \in T <=> \E a \in 1 .. Len(K) : K[a] = x
    BY <2>6, <2>7, InOrderLists
  <2>. HIDE DEF K
  <2>9. Len(K) \in Nat /\ \A a \in 1 .. Len(K) : K[a] \in Nat /\ K[a] \in T
    BY <2>8
  <2>10. ASSUME NEW a \in 1 .. Len(K)
         PROVE  Before(K, base, a) \in 0 .. Size - 1 /\ K[a] = SpanEnds[Before(K, base, a)]
    <3>1. PICK j \in kept : K[a] = s[j]
      BY <2>5, <2>9
    <3>2. j \in 1 .. n /\ n \in Nat
      BY <1>1, <2>3
    <3>3. IF j < n THEN <<C(j), s[j]>> \notin glued ELSE s[j] >= Size
      BY <2>2, <3>1, <3>2
    <3>4. ASSUME NEW m \in kept, m < j PROVE \E b \in 1 .. Len(K) : b < a /\ K[b] = s[m]
      <4>1. m \in 1 .. n /\ s[m] < s[j] /\ s[m] \in Nat /\ s[j] \in Nat
        BY <1>1, <2>3, <2>4, <3>2, <3>4 DEF Increasing
      <4>2. PICK b \in 1 .. Len(K) : K[b] = s[m]
        BY <2>5, <2>8
      <4>3. ~(b = a) /\ ~(a < b)
        BY <2>8, <3>1, <4>1, <4>2 DEF Increasing
      <4>4. b < a
        BY <2>9, <4>3
      <4>. QED BY <4>2, <4>4
    <3>5. \E i \in 1 .. j : /\ Before(K, base, a) = C(i)
                            /\ \A m \in i .. j - 1 : m \notin kept
      <4>1. CASE a = 1
        <5>1. \A m \in 1 .. j - 1 : m \notin kept
          BY <2>9, <3>2, <3>4, <4>1
        <5>2. 1 \in 1 .. j /\ Before(K, base, a) = C(1)
          BY <3>2, <4>1 DEF Before
        <5>. QED BY <5>1, <5>2
      <4>2. CASE a # 1
        <5>1. a - 1 \in 1 .. Len(K) /\ a - 1 < a
          BY <2>9, <4>2
        <5>2. PICK l \in kept : K[a - 1] = s[l]
          BY <2>5, <2>9, <5>1
        <5>3. l \in 1 .. n /\ K[a - 1] < K[a]
          BY <2>3, <2>8, <5>1 DEF Increasing
        <5>4. l < j
          <6>1. ~(l = j) /\ ~(j < l)
            BY <1>1, <2>4, <3>1, <3>2, <5>2, <5>3 DEF Increasing
          <6>. QED BY <3>2, <5>3, <6>1
        <5>5. l + 1 \in 1 .. j /\ l + 1 # 1 /\ (l + 1) - 1 = l
          BY <3>2, <5>3, <5>4
        <5>6. Before(K, base, a) = C(l + 1)
          BY <4>2, <5>2, <5>5 DEF Before
        <5>7. ASSUME NEW m \in l + 1 .. j - 1, m \in kept PROVE FALSE
          <6>1. m \in 1 .. n /\ m < j /\ l < m
            BY <3>2, <5>3, <5>7
          <6>2. PICK b \in 1 .. Len(K) : b < a /\ K[b] = s[m]
            BY <3>4, <5>7, <6>1
          <6>3. s[l] < s[m]
            BY <2>4, <5>3, <6>1 DEF Increasing
          <6>4. b = a - 1 \/ b < a - 1
            BY <2>9, <6>2
          <6>5. K[b] \in Nat /\ K[a - 1] \in Nat /\ (b < a - 1 => K[b] < K[a - 1])
            BY <2>8, <2>9, <5>1 DEF Increasing
          <6>. QED BY <5>2, <6>2, <6>3, <6>4, <6>5
        <5>. QED BY <5>5, <5>6, <5>7
      <4>. QED BY <4>1, <4>2
    <3>6. PICK i \in 1 .. j : /\ Before(K, base, a) = C(i)
                              /\ \A m \in i .. j - 1 : m \notin kept
      BY <3>5
    <3>7. \A m \in i .. j - 1 : <<Before(s, base, m), s[m]>> \in glued
      <4>. TAKE m \in i .. j - 1
      <4>1. m \in 1 .. n /\ m < n /\ m \notin kept
        BY <3>2, <3>6
      <4>. QED BY <2>2, <4>1
    <3>8. Before(s, base, i) \in 0 .. Size - 1 /\ SpanEnds[Before(s, base, i)] = s[j]
      BY <1>1, <1>3, <3>2, <3>3, <3>7, UnitEndsHere
    <3>. QED BY <3>1, <3>6, <3>8
  <2>11. Chain(SpanEnds, K, base, Size)
    BY <2>8, <2>10 DEF Chain
  <2>12. ASSUME LastOf(s, base) >= Size, s # <<>> PROVE LastOf(K, base) >= Size
    <3>1. n \in 1 .. n /\ s[n] >= Size
      BY <1>1, <2>12 DEF LastOf
    <3>2. n \in kept
      <4>1. ~(n < n)
        BY <1>1
      <4>. HIDE DEF C
      <4>. QED BY <2>2, <3>1, <4>1
    <3>3. PICK b \in 1 .. Len(K) : K[b] = s[n]
      BY <2>5, <2>8, <3>2
    <3>4. K[b] <= LastOf(K, base) /\ LastOf(K, base) \in Nat /\ K[b] \in Nat
      BY <1>1, <2>9, <2>11, ChainGrows
    <3>. QED BY <1>1, <3>1, <3>3, <3>4
  <2>13. ASSUME LastOf(s, base) >= Size, s = <<>> PROVE LastOf(K, base) >= Size
    <3>1. base >= Size
      BY <2>13 DEF LastOf
    <3>2. base + Len(K) <= LastOf(K, base) /\ LastOf(K, base) \in Nat
      BY <1>1, <2>11, ChainGrows
    <3>. QED BY <1>1, <2>9, <3>1, <3>2
  <2>. QED BY <1>3, <2>1, <2>6, <2>9, <2>11, <2>12, <2>13
<1>. QED BY <1>1, <1>2, <1>3

LEMMA EmitTypes ==
  ASSUME WalkInv, pc = "emit"
  PROVE  /\ Chain(SpanEnds, Kept, fill_base, Size) /\ Kept \in Seq(Nat) /\ Len(Kept) \in Nat
         /\ \A i \in 1 .. Len(Kept) : Kept[i] \in Boundaries
         /\ Reached >= Size => LastOf(Kept, fill_base) >= Size
         /\ ~gluing => Kept = nb
<1>1. simd /\ Given
  BY FillTypes
<1>2. fill_base \in Boundaries /\ Chain(advance, nb, fill_base, Size)
  BY HarvestTypes
<1>3. Kept = KeptOf(fill_base, nb)
  BY DEF Kept, KeptOf
<1>4. /\ Chain(SpanEnds, Kept, fill_base, Size)
      /\ \A i \in 1 .. Len(Kept) : Kept[i] \in Boundaries
      /\ Reached >= Size => LastOf(Kept, fill_base) >= Size
      /\ ~gluing => Kept = nb
  BY <1>1, <1>2, <1>3, KeptFacts DEF Reached
<1>5. Kept \in Seq(Nat) /\ Len(Kept) \in Nat
  BY <1>4 DEF Chain
<1>. QED BY <1>4, <1>5

LEMMA EmitDirectKeeps ==
  ASSUME WalkInv, EmitDirect
  PROVE  WalkInv'
<1>. DEFINE end == IF ~gluing /\ overflow_end # Never THEN overflow_end ELSE Span(fill_base)
<1>1. /\ pc = "emit" /\ Kept = <<>> /\ ends' = Append(ends, end) /\ pending' = end
      /\ filled' = filled + 1 /\ pc' = "fill"
      /\ UNCHANGED <<input, pos, scan, batchVars, fill_base, resume, masks, at, nb,
                     overflow_end, exhausted>>
  BY DEF EmitDirect
<1>2. /\ simd /\ Given /\ SimdInv /\ SpanChain(ends, 0) /\ pending = LastOf(ends, 0)
      /\ Size \in Nat /\ Never \in Nat /\ Size < Never /\ Chunk \in Nat
      /\ scan \in Nat /\ OnGrid(scan) /\ BufferFits
  BY <1>1, FillTypes, AdvanceSteps
<1>3. /\ HarvestInv /\ fill_base = pending /\ fill_base \in Boundaries /\ fill_base \in Nat
      /\ fill_base < Size /\ filled \in Nat /\ Reached \in Nat
      /\ NoneBetween(Reached, scan) /\ NoneBad(Reached, scan)
  BY <1>1, HarvestTypes
<1>4. /\ overflow_end # Never => overflow_end = advance[Reached]
      /\ exhausted => Reached >= Size
      /\ filled < Chunk
  BY <1>1, <1>3 DEF HarvestInv
<1>5. ~(Reached >= Size)
  <2>1. Reached >= Size => LastOf(Kept, fill_base) >= Size
    BY <1>1, EmitTypes
  <2>2. LastOf(Kept, fill_base) = fill_base
    BY <1>1 DEF LastOf
  <2>. QED BY <1>2, <1>3, <2>1, <2>2
<1>6. ~gluing => Reached = fill_base
  <2>1. ~gluing => nb = <<>>
    BY <1>1, EmitTypes
  <2>. QED BY <2>1 DEF Reached, LastOf
<1>7. fill_base \in 0 .. Size - 1
  BY <1>2, <1>3
<1>8. end = SpanEnds[fill_base]
  <2>1. SpanEnds[fill_base] = Span(fill_base) /\ (~gluing => SpanEnds = advance)
    BY <1>2, <1>7, SpanSteps
  <2>. QED BY <1>4, <1>6, <2>1
<1>. HIDE DEF end
<1>9. end \in Boundaries /\ end \in fill_base + 1 .. Size
  BY <1>2, <1>3, <1>8, SpanToBoundary
<1>10. end \in Nat /\ fill_base <= end /\ end # Never
  BY <1>2, <1>3, <1>9
<1>11. SpanChain(ends', 0) /\ LastOf(ends', 0) = end
  BY <1>1, <1>2, <1>3, <1>8, <1>10, OneSpanOut
<1>12. ~gluing => NoneBetween(end, scan) /\ NoneBad(end, scan)
  BY <1>2, <1>3, <1>6, <1>10, Further
<1>13. ~exhausted
  BY <1>4, <1>5
<1>14. FillInv'
  <2>1. filled' \in 0 .. Chunk
    BY <1>1, <1>2, <1>3, <1>4
  <2>2. ~exhausted'
    BY <1>1, <1>13
  <2>3. ~gluing' => NoneBetween(pending, scan)' /\ NoneBad(pending, scan)'
    BY <1>1, <1>12, InputKept DEF NoneBetween, NoneBad
  <2>. QED BY <2>1, <2>2, <2>3 DEF FillInv
<1>15. SimdInv'
  BY <1>1, <1>2, <1>9, <1>11, <1>14, InputKept DEF SimdInv, batchVars, OnGrid, LastOf
<1>16. BufferFits'
  BY <1>1, <1>2 DEF BufferFits
<1>. QED BY <1>1, <1>2, <1>11, <1>15, <1>16, FillStays

LEMMA EmitChunkKeeps ==
  ASSUME WalkInv, EmitChunk
  PROVE  WalkInv'
<1>. DEFINE k == Min({Len(Kept), Needed})
            out == SubSeq(Kept, 1, k)
<1>1. /\ pc = "emit" /\ Kept # <<>> /\ ends' = ends \o out
      /\ filled' = filled + Len(out) /\ pending' = out[Len(out)] /\ pc' = "fill"
      /\ UNCHANGED <<input, pos, scan, batchVars, fill_base, resume, masks, at, nb,
                     overflow_end, exhausted>>
  BY DEF EmitChunk
<1>2. /\ simd /\ Given /\ SimdInv /\ SpanChain(ends, 0) /\ pending = LastOf(ends, 0)
      /\ Size \in Nat /\ Chunk \in Nat /\ scan \in Nat /\ OnGrid(scan) /\ BufferFits
      /\ \A b \in Boundaries : b \in Nat /\ b <= Size
  BY <1>1, FillTypes, WalkTypes
<1>3. /\ HarvestInv /\ fill_base = pending /\ fill_base \in Boundaries
      /\ filled \in Nat /\ Needed \in Nat /\ Needed > 0 /\ Reached \in Nat
      /\ NoneBetween(Reached, scan) /\ NoneBad(Reached, scan)
  BY <1>1, HarvestTypes
<1>4. (exhausted => Reached >= Size) /\ Needed = Chunk - filled
  BY <1>1, <1>3 DEF HarvestInv, Needed
<1>5. /\ Chain(SpanEnds, Kept, fill_base, Size) /\ Kept \in Seq(Nat) /\ Len(Kept) \in Nat
      /\ \A i \in 1 .. Len(Kept) : Kept[i] \in Boundaries
      /\ Reached >= Size => LastOf(Kept, fill_base) >= Size
      /\ ~gluing => Kept = nb
  BY <1>1, EmitTypes
<1>6. Len(Kept) > 0
  BY <1>1, <1>5
<1>7. k \in 1 .. Len(Kept) /\ k <= Needed /\ (k = Len(Kept) \/ k = Needed)
  <2>. DEFINE S == {Len(Kept), Needed}
  <2>1. S \in SUBSET Nat /\ S # {}
    BY <1>3, <1>5
  <2>2. Min(S) \in S /\ \A x \in S : Min(S) <= x
    BY <2>1, MinOfNumbers
  <2>3. k \in {Len(Kept), Needed} /\ k <= Len(Kept) /\ k <= Needed
    BY <2>2
  <2>. HIDE DEF k
  <2>. QED BY <1>3, <1>5, <1>6, <2>3
<1>. HIDE DEF k
<1>8. /\ Chain(SpanEnds, out, fill_base, Size) /\ Len(out) = k
      /\ \A i \in 1 .. k : out[i] = Kept[i]
  BY <1>5, <1>7, ChainFront
<1>9. k \in Nat /\ k > 0 /\ k \in 1 .. k
  BY <1>5, <1>7
<1>. HIDE DEF out
<1>10. \A i \in 1 .. Len(out) : out[i] \in Boundaries /\ out[i] <= Size
  <2>. TAKE i \in 1 .. Len(out)
  <2>1. i \in 1 .. k /\ i \in 1 .. Len(Kept)
    BY <1>5, <1>7, <1>8
  <2>2. out[i] \in Boundaries
    BY <1>5, <1>8, <2>1
  <2>. QED BY <1>2, <2>2
<1>11. SpanChain(out, LastOf(ends, 0))
  BY <1>2, <1>3, <1>8, <1>10 DEF SpanChain
<1>12. out # <<>> /\ LastOf(out, LastOf(ends, 0)) = pending'
  <2>1. out # <<>>
    BY <1>8, <1>9
  <2>. QED BY <1>1, <2>1 DEF LastOf
<1>13. SpanChain(ends', 0) /\ LastOf(ends', 0) = pending'
  BY <1>1, <1>2, <1>11, <1>12, SpansOut
<1>14. pending' = Kept[k] /\ pending' \in Boundaries
  BY <1>1, <1>8, <1>9, <1>10
<1>15. filled' \in 0 .. Chunk /\ (filled' < Chunk => k = Len(Kept))
  BY <1>1, <1>2, <1>3, <1>4, <1>5, <1>7, <1>8, <1>9
<1>16. k = Len(Kept) => pending' = LastOf(Kept, fill_base)
  BY <1>1, <1>14 DEF LastOf
<1>17. ~gluing /\ k = Len(Kept) => pending' = Reached
  BY <1>5, <1>16 DEF Reached
<1>18. FillInv'
  <2>1. exhausted' = exhausted
    BY <1>1
  <2>2. filled' < Chunk /\ exhausted' => pending' >= Size'
    BY <1>4, <1>5, <1>15, <1>16, <2>1, <1>1, InputKept
  <2>3. filled' < Chunk /\ ~gluing' => NoneBetween(pending, scan)' /\ NoneBad(pending, scan)'
    BY <1>1, <1>3, <1>15, <1>17, InputKept DEF NoneBetween, NoneBad
  <2>. QED BY <1>4, <1>15, <2>1, <2>2, <2>3 DEF FillInv
<1>19. SimdInv'
  BY <1>1, <1>2, <1>13, <1>14, <1>18, InputKept DEF SimdInv, batchVars, OnGrid, LastOf
<1>20. BufferFits'
  BY <1>1, <1>2 DEF BufferFits
<1>. QED BY <1>1, <1>2, <1>13, <1>19, <1>20, FillStays

LEMMA FinishFillKeeps ==
  ASSUME WalkInv, FinishFill
  PROVE  WalkInv'
<1>1. /\ pc = "fill" /\ (filled >= Chunk \/ pending >= Size \/ exhausted)
      /\ pos' = pending /\ scan' = Rewound(scan, pending) /\ mask_base' = scan'
      /\ rem' = {} /\ bad' = {} /\ scalar_until' = pending /\ pre_base' = Never
      /\ pc' = (IF filled < Chunk THEN "done" ELSE "idle")
      /\ UNCHANGED <<input, fillVars, ends>>
  BY DEF FinishFill
<1>2. /\ simd /\ Given /\ SimdInv /\ SpanChain(ends, 0) /\ pending = LastOf(ends, 0)
      /\ pending \in Boundaries /\ pending \in Nat
      /\ Size \in Nat /\ Chunk \in Nat /\ scan \in Nat /\ OnGrid(scan)
  BY <1>1, FillTypes
<1>3. FillInv
  BY <1>1, <1>2 DEF SimdInv
<1>4. pc' = "done" => NoMore(LastOf(ends', 0))
  BY <1>1, <1>2, <1>3 DEF FillInv, NoMore
<1>5. OnGrid(scan') /\ scan' <= pending /\ scan' \in Nat
  <2>1. OnGrid(scan') /\ scan' <= pending
    BY <1>1, <1>2, GridRewound
  <2>. QED BY <2>1, GridNat
<1>6. PICK lim \in Nat : lim = scan'
  BY <1>5
<1>7. NoneBad(pending, lim) /\ NoneBetween(pending, lim)
  <2>1. pending <= pending /\ lim <= pending + 1 /\ lim <= pending
    BY <1>2, <1>5, <1>6
  <2>. QED BY <1>2, <1>6, <2>1, Further
<1>8. SegmentUpTo(lim)'
  <2>1. \A b : b \notin Stretch(pending, lim)
    BY <1>7 DEF NoneBetween, Stretch
  <2>. QED BY <1>1, <1>6, <1>7, <2>1, InputKept DEF SegmentUpTo, MasksOf, NoneBad, Stretch
<1>9. SegmentInv'
  BY <1>1, <1>2, <1>5, <1>8 DEF SegmentInv
<1>10. SimdInv'
  BY <1>1, <1>2, <1>5, <1>9, InputKept DEF SimdInv, OnGrid, LastOf
<1>. QED BY <1>1, <1>2, <1>4, <1>10, WalkStays DEF fillVars

------------------------------------------------------------------------------

LEMMA WalkBegins ==
  ASSUME Given, New(0)
  PROVE  WalkInv
<1>1. /\ pos = 0 /\ scan = 0 /\ mask_base = 0 /\ rem = {} /\ bad = {}
      /\ scalar_until = (IF simd THEN 0 ELSE Never)
      /\ pre_base = Never /\ nb = <<>> /\ pc = "idle" /\ ends = <<>>
  BY DEF New
<1>2. Size \in Nat /\ W \in Nat /\ Chunk \in Nat
  BY AdvanceSteps, WidthType, WalkerAssumption
<1>3. SpanChain(ends, 0) /\ LastOf(ends, 0) = 0
  BY <1>1, ChainEmpty DEF SpanChain
<1>4. simd => SimdInv
  <2>. SUFFICES ASSUME simd PROVE SimdInv
    OBVIOUS
  <2>1. 0 \in Boundaries
    BY BoundariesAreFollowed DEF BoundariesFollow
  <2>2. PICK lim \in Nat : lim = 0
    OBVIOUS
  <2>3. \A b \in Boundaries : b \in Nat
    BY BoundariesAreFollowed, <1>2 DEF BoundariesFollow
  <2>4. SegmentUpTo(lim)
    BY <1>1, <2>2, <2>3 DEF SegmentUpTo, MasksOf, NoneBad, Stretch
  <2>5. SegmentInv
    BY <1>1, <2>4 DEF SegmentInv
  <2>. QED BY <1>1, <1>3, <2>1, <2>5, GridZero DEF SimdInv
<1>5. BufferFits
  BY <1>1, <1>2 DEF BufferFits
<1>. QED BY <1>1, <1>3, <1>4, <1>5 DEF WalkInv

LEMMA WalkGoesOn ==
  ASSUME WalkInv, [Next]_vars
  PROVE  WalkInv'
<1>1. CASE UNCHANGED vars
  <2>1. UNCHANGED input /\ pc' = pc /\ pos' = pos /\ scan' = scan /\ ends' = ends
        /\ UNCHANGED batchVars /\ UNCHANGED fillVars
    BY <1>1 DEF vars
  <2>2. Given'
    BY <2>1, GivenKept DEF WalkInv
  <2>3. SimdInv => SimdInv'
    <3>1. SegmentInv => SegmentInv'
      BY <2>1, InputKept DEF SegmentInv, SegmentUpTo, MasksOf, NoneBad, Stretch, batchVars
    <3>2. FillInv => FillInv'
      BY <2>1, InputKept DEF FillInv, NoneBad, NoneBetween, fillVars
    <3>3. HarvestInv => HarvestInv'
      BY <2>1, InputKept
         DEF HarvestInv, Reached, LastOf, Chain, Before, NoneBetween, NoneBad, Needed,
             RelLimit, fillVars
    <3>. QED BY <2>1, <3>1, <3>2, <3>3, InputKept
         DEF SimdInv, OnGrid, LastOf, batchVars, fillVars
  <2>4. SpanChain(ends, 0)' <=> SpanChain(ends, 0)
    BY <2>1, InputKept DEF SpanChain, Chain, Before
  <2>5. BufferFits' <=> BufferFits
    BY <2>1 DEF BufferFits, fillVars
  <2>6. NoMore(LastOf(ends, 0))' <=> NoMore(LastOf(ends, 0))
    BY <2>1, InputKept DEF NoMore, LastOf
  <2>. QED BY <2>1, <2>2, <2>3, <2>4, <2>5, <2>6, InputKept
       DEF WalkInv, LastOf, batchVars, fillVars
<1>2. CASE Next
  <2>1. CASE Finished
    BY <1>1, <2>1 DEF Finished
  <2>. QED BY <1>2, <2>1, CallNextKeeps, PopBitKeeps, ScalarSpanKeeps, EndOfInputKeeps,
              NextSegmentKeeps, ScalarTailKeeps, NextBatchKeeps, FillScalarKeeps,
              CallFillKeeps, RefillKeeps, StopHarvestKeeps, HarvestTailKeeps,
              EnterBatchKeeps, HarvestCleanKeeps, HarvestDirtyKeeps, EmitDirectKeeps,
              EmitChunkKeeps, FinishFillKeeps DEF Next
<1>. QED BY <1>1, <1>2

LEMMA WalkIsInvariant == Walking => []WalkInv
<1>1. Given /\ New(0) => WalkInv
  BY WalkBegins
<1>2. WalkInv /\ [Next]_vars => WalkInv'
  BY WalkGoesOn
<1>. QED BY <1>1, <1>2, PTL DEF Walking

(* Every span handed out, by single pulls and fills in any order, for any  *)
(* text, batch width, chunk and range of the buffer, ends where the        *)
(* scheme's scalar advance ends it (mask.rs next_span and                  *)
(* fill_spans_two_phase); and when a pull says the input is over, all of   *)
(* the tokens have been handed out.                                        *)
THEOREM SpansScalar == Walking => []SpansAreScalar
<1>1. WalkInv => SpansAreScalar
  <2>. SUFFICES ASSUME WalkInv PROVE SpansAreScalar
    OBVIOUS
  <2>1. Given /\ SpanChain(ends, 0) /\ (pc = "done" => NoMore(LastOf(ends, 0)))
    BY DEF WalkInv
  <2>2. IsPrefix(ends, tokens) /\ (NoMore(LastOf(ends, 0)) => ends = tokens)
    BY <2>1, ChainIsPrefix
  <2>. QED BY <2>1, <2>2 DEF SpansAreScalar
<1>. QED BY <1>1, WalkIsInvariant, PTL

(* What fill_spans_two_phase writes to its boundary buffer without a check *)
(* never passes the room it has, and every offset fits sixteen bits.       *)
THEOREM BufferNeverOverflows == Walking => []BufferFits
<1>1. WalkInv => BufferFits
  BY DEF WalkInv
<1>. QED BY <1>1, WalkIsInvariant, PTL

=============================================================================
