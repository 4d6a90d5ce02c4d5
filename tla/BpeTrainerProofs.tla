-------------------------- MODULE BpeTrainerProofs --------------------------
(***************************************************************************)
(* Proofs about BpeTrainer, for any corpora over any set of bytes, any     *)
(* special tokens and any bounds.                                          *)
(***************************************************************************)
EXTENDS BpeTrainer, FiniteSetTheorems, SequenceTheorems, TLAPS

(* Symbols below Fresh were there before the merge in progress.            *)
Fresh == IF pc = "update" THEN Len(symbols) - 1 ELSE Len(symbols)
Ids(n) == 0 .. n - 1
WordOver(ids) == [symbols : Seq(ids), count : Nat \ {0}]
Spelled(x) == \E id \in Ids(Len(symbols)) : BytesOf(symbols, id) = x

TrainerTypes ==
  /\ symbols \in Seq(Seq(Nat)) /\ Cardinality(Bytes) <= Len(symbols)
  /\ words \in Seq(WordOver(Ids(Len(symbols))))
  /\ units \in Seq(Word)
  /\ merges \in Seq(Seq(Nat) \X Seq(Nat))
  /\ \A k \in DOMAIN merges :
       Spelled(merges[k][1]) /\ Spelled(merges[k][2]) /\ Spelled(merges[k][1] \o merges[k][2])
  /\ pc \in {"pick", "update", "done"}
  /\ \A p \in DOMAIN queue : queue[p] \in Int
  /\ \A p \in DOMAIN changes :
       changes[p] \in Int /\ p \in Ids(Len(symbols)) \X Ids(Len(symbols))
  /\ \A p \in DOMAIN queue : p \in Ids(Fresh) \X Ids(Fresh)
  /\ \A p \in DOMAIN index : index[p] \subseteq DOMAIN words
  /\ \A g \in gained : g[2] \in DOMAIN words

(* What the queue will have for a pair when the merge in progress is       *)
(* through.                                                                *)
Due(p) == (IF p \in DOMAIN queue THEN queue[p] ELSE 0)
            + (IF p \in DOMAIN changes THEN changes[p] ELSE 0)

(* A pair is counted exactly, or it is one of old symbols that has gone.   *)
Counted ==
  \A p : p # pair =>
    \/ Due(p) = PairCount(words, p)
    \/ p \in Ids(Fresh) \X Ids(Fresh) /\ p \notin PairsOf(words) /\ Due(p) <= 0

(* Every pair of a word is queued, and its word in the index.              *)
Indexed ==
  /\ \A p \in PairsOf(words) : p \in DOMAIN queue \cup DOMAIN changes \cup {pair}
  /\ \A w \in DOMAIN words : \A p \in AdjacentPairs(words[w].symbols) :
       \/ p \in DOMAIN index /\ w \in index[p]
       \/ <<p, w>> \in gained
  /\ \A p \in DOMAIN queue \cup DOMAIN changes :
       p \in DOMAIN index \/ \E g \in gained : g[1] = p

(* A merge in progress: the words it is through with have the pair no      *)
(* more, the others do not have the new symbol yet.                        *)
Updating ==
  /\ pc = "update" =>
       /\ pair \in Ids(Fresh) \X Ids(Fresh) /\ Due(pair) <= 0
       /\ pair \in DOMAIN index
       /\ todo \subseteq DOMAIN words
       /\ \A w \in todo : words[w].symbols \in Seq(Ids(Fresh))
       /\ \A w \in DOMAIN words \ todo : pair \notin AdjacentPairs(words[w].symbols)
  /\ pc # "update" => pair = <<>> /\ todo = {} /\ changes = Empty /\ gained = {}

IInv == TrainerTypes /\ Counted /\ Indexed /\ Updating

-----------------------------------------------------------------------------
(* Sums over finite sets, by the least counterexample.                     *)

LEMMA LeastNumber ==
  ASSUME NEW S \in SUBSET Nat, S # {}
  PROVE  \E m \in S : \A k \in S : m <= k
<1>. DEFINE R == OpToRel(<, Nat)
<1>1. IsWellFoundedOn(R, Nat)
  BY NatLessThanWellFounded
<1>2. \A k, m \in Nat : k < m => <<k, m>> \in R
  BY DEF OpToRel
<1>. HIDE DEF R
<1>3. PICK m \in S : \A k \in S : ~(<<k, m>> \in R)
  BY <1>1, WFMin
<1>4. \A k \in S : ~(k < m)
  BY <1>2, <1>3
<1>5. \A k \in S : k \in Nat /\ m \in Nat
  OBVIOUS
<1>. QED
  BY <1>4, <1>5

LEMMA SmallestSet ==
  ASSUME NEW B, B # {}, \A s \in B : IsFiniteSet(s)
  PROVE  \E m \in B : \A s \in B : Cardinality(m) <= Cardinality(s)
<1>. DEFINE sizes == {Cardinality(s) : s \in B}
<1>1. sizes \in SUBSET Nat /\ sizes # {}
  BY FS_CardinalityType
<1>. HIDE DEF sizes
<1>2. PICK c \in sizes : \A k \in sizes : c <= k
  BY <1>1, LeastNumber
<1>. QED BY <1>2 DEF sizes

Some(s) == CHOOSE x \in s : TRUE

(* g has the sums of f over the subsets of S that have up to n elements.   *)
IsSum(g, f, S, n) ==
  g = [s \in {t \in SUBSET S : Cardinality(t) <= n} |->
         IF s = {} THEN 0 ELSE f[Some(s)] + g[s \ {Some(s)}]]

LEMMA SumExists ==
  ASSUME NEW f, NEW S, IsFiniteSet(S), NEW n \in Nat
  PROVE  \E g : IsSum(g, f, S, n)
<1>. DEFINE Bad == {m \in Nat : ~ \E g : IsSum(g, f, S, m)}
<1>1. SUFFICES ASSUME n \in Bad PROVE FALSE
  OBVIOUS
<1>. HIDE DEF Bad
<1>2. PICK m \in Bad : \A k \in Bad : m <= k
  <2>1. Bad \in SUBSET Nat
    BY DEF Bad
  <2>. QED BY <1>1, <2>1, LeastNumber
<1>3. m \in Nat /\ ~ \E g : IsSum(g, f, S, m)
  BY <1>2 DEF Bad
<1>. DEFINE D(k) == {t \in SUBSET S : Cardinality(t) <= k}
<1>0. \A t \in SUBSET S : IsFiniteSet(t) /\ Cardinality(t) \in Nat
  BY FS_Subset, FS_CardinalityType
<1>4. \A k \in Nat : \A t \in D(k) : t # {} =>
        /\ t \ {Some(t)} \in SUBSET S /\ Some(t) \in t
        /\ Cardinality(t \ {Some(t)}) = Cardinality(t) - 1
        /\ Cardinality(t) \in Nat /\ Cardinality(t) <= k
  <2>. TAKE k \in Nat
  <2>. TAKE t \in D(k)
  <2>1. HAVE t # {}
  <2>2. Some(t) \in t
    BY <2>1 DEF Some
  <2>3. IsFiniteSet(t) /\ Cardinality(t) \in Nat /\ Cardinality(t) <= k
    BY <1>0
  <2>. QED BY <2>2, <2>3, FS_RemoveElement
<1>5. CASE m = 0
  <2>. DEFINE h == [s \in D(0) |-> 0]
  <2>1. \A s \in D(0) : s = {}
    <3>. TAKE s \in D(0)
    <3>1. IsFiniteSet(s) /\ Cardinality(s) = 0
      BY <1>0
    <3>. QED BY <3>1, FS_EmptySet
  <2>2. h = [s \in D(0) |-> IF s = {} THEN 0 ELSE f[Some(s)] + h[s \ {Some(s)}]]
    <3>. DEFINE e(s) == f[Some(s)] + h[s \ {Some(s)}]
    <3>. HIDE DEF e
    <3>1. [s \in D(0) |-> 0] = [s \in D(0) |-> IF s = {} THEN 0 ELSE e(s)]
      BY <2>1
    <3>. QED BY <3>1 DEF e
  <2>. HIDE DEF h
  <2>3. IsSum(h, f, S, 0)
    BY <2>2 DEF IsSum
  <2>. QED BY <2>3, <1>3, <1>5
<1>6. CASE m > 0
  <2>1. m - 1 \in Nat /\ m - 1 \notin Bad
    BY <1>2, <1>3, <1>6
  <2>2. PICK g : IsSum(g, f, S, m - 1)
    BY <2>1 DEF Bad
  <2>. DEFINE part(u, s) == IF s = {} THEN 0 ELSE f[Some(s)] + u[s \ {Some(s)}]
  <2>3. g = [s \in D(m - 1) |-> part(g, s)]
    BY <2>2 DEF IsSum
  <2>. DEFINE h == [s \in D(m) |-> part(g, s)]
  <2>4. \A s \in D(m - 1) : h[s] = g[s]
    <3>. HIDE DEF part
    <3>. TAKE s \in D(m - 1)
    <3>1. s \in D(m)
      BY <1>0, <1>3
    <3>2. g[s] = part(g, s)
      BY <2>3
    <3>. QED BY <3>1, <3>2
  <2>5. \A s \in D(m) : s # {} => s \ {Some(s)} \in D(m - 1)
    BY <1>3, <1>4
  <2>6. \A s \in D(m) : part(g, s) = part(h, s)
    <3>. HIDE DEF h, D
    <3>. TAKE s \in D(m)
    <3>. QED BY <2>4, <2>5
  <2>7. h = [s \in D(m) |-> part(h, s)]
    <3>. DEFINE hh == h
    <3>1. hh = [s \in D(m) |-> part(g, s)]
      OBVIOUS
    <3>2. \A s \in D(m) : part(g, s) = part(hh, s)
      BY <2>6
    <3>. HIDE DEF hh, part
    <3>3. hh = [s \in D(m) |-> part(hh, s)]
      BY <3>1, <3>2
    <3>. QED BY <3>3 DEF hh
  <2>. HIDE DEF h
  <2>8. IsSum(h, f, S, m)
    BY <2>7 DEF IsSum
  <2>. QED BY <2>8, <1>3
<1>. QED BY <1>3, <1>5, <1>6

IsTotal(g, f) ==
  g = [s \in SUBSET DOMAIN f |-> IF s = {} THEN 0 ELSE f[Some(s)] + g[s \ {Some(s)}]]

LEMMA TotalExists ==
  ASSUME NEW f, IsFiniteSet(DOMAIN f)
  PROVE  \E g : IsTotal(g, f) /\ SumFunction(f) = g[DOMAIN f]
<1>. DEFINE n == Cardinality(DOMAIN f)
            c == CHOOSE g : IsTotal(g, f)
<1>1. n \in Nat
  BY FS_CardinalityType
<1>2. PICK g : IsSum(g, f, DOMAIN f, n)
  BY <1>1, SumExists
<1>3. {t \in SUBSET DOMAIN f : Cardinality(t) <= n} = SUBSET DOMAIN f
  BY FS_Subset
<1>4. IsTotal(g, f)
  BY <1>2, <1>3 DEF IsSum, IsTotal
<1>5. IsTotal(c, f)
  BY <1>4
<1>6. SumFunction(f) = c[DOMAIN f]
  BY DEF SumFunction, SumFunctionOnSet, FoldFunctionOnSet, MapThenFoldSet, IsTotal, Some
<1>. QED BY <1>5, <1>6

Summable(f) == IsFiniteSet(DOMAIN f) /\ \A x \in DOMAIN f : f[x] \in Int

LEMMA TotalStep ==
  ASSUME NEW f, Summable(f), NEW g, IsTotal(g, f), NEW s \in SUBSET DOMAIN f
  PROVE  /\ s = {} => g[s] = 0
         /\ s # {} => Some(s) \in s /\ g[s] = f[Some(s)] + g[s \ {Some(s)}]
<1>1. g[s] = IF s = {} THEN 0 ELSE f[Some(s)] + g[s \ {Some(s)}]
  BY DEF IsTotal
<1>2. s # {} => Some(s) \in s
  BY DEF Some
<1>. QED BY <1>1, <1>2

LEMMA TotalType ==
  ASSUME NEW f, Summable(f), NEW g, IsTotal(g, f), NEW s \in SUBSET DOMAIN f
  PROVE  g[s] \in Int
<1>. DEFINE Bad == {t \in SUBSET DOMAIN f : g[t] \notin Int}
<1>0. \A t \in SUBSET DOMAIN f : IsFiniteSet(t) /\ Cardinality(t) \in Nat
  BY FS_Subset, FS_CardinalityType DEF Summable
<1>1. SUFFICES ASSUME Bad # {} PROVE FALSE
  OBVIOUS
<1>2. PICK t \in Bad : \A u \in Bad : Cardinality(t) <= Cardinality(u)
  <2>1. \A u \in Bad : IsFiniteSet(u)
    BY <1>0
  <2>. HIDE DEF Bad
  <2>. QED BY <1>1, <2>1, SmallestSet
<1>3. t \in SUBSET DOMAIN f /\ g[t] \notin Int
  OBVIOUS
<1>4. t # {} /\ Some(t) \in t /\ g[t] = f[Some(t)] + g[t \ {Some(t)}]
  <2>. HIDE DEF Bad
  <2>1. t # {}
    <3>1. t = {} => g[t] = 0
      BY <1>3, TotalStep
    <3>. QED BY <1>3, <3>1
  <2>. QED BY <1>3, <2>1, TotalStep
<1>. DEFINE u == t \ {Some(t)}
<1>5. u \in SUBSET DOMAIN f /\ Cardinality(u) = Cardinality(t) - 1
  BY <1>0, <1>3, <1>4, FS_RemoveElement
<1>6. u \notin Bad
  <2>. HIDE DEF u, Bad
  <2>. QED BY <1>0, <1>2, <1>3, <1>5
<1>7. g[u] \in Int
  BY <1>5, <1>6
<1>. QED BY <1>3, <1>4, <1>7 DEF Summable

(* Any element may be taken out of a sum.                                  *)
LEMMA TotalAny ==
  ASSUME NEW f, Summable(f), NEW g, IsTotal(g, f), NEW s \in SUBSET DOMAIN f, NEW y \in s
  PROVE  g[s] = f[y] + g[s \ {y}]
<1>. DEFINE Holds(t) == \A z \in t : g[t] = f[z] + g[t \ {z}]
            Bad == {t \in SUBSET DOMAIN f : ~Holds(t)}
<1>0. \A t \in SUBSET DOMAIN f : IsFiniteSet(t) /\ Cardinality(t) \in Nat
  BY FS_Subset, FS_CardinalityType DEF Summable
<1>1. SUFFICES ASSUME Bad # {} PROVE FALSE
  OBVIOUS
<1>2. PICK t \in Bad : \A u \in Bad : Cardinality(t) <= Cardinality(u)
  <2>1. \A u \in Bad : IsFiniteSet(u)
    BY <1>0
  <2>. HIDE DEF Bad
  <2>. QED BY <1>1, <2>1, SmallestSet
<1>3. t \in SUBSET DOMAIN f /\ \E z \in t : g[t] # f[z] + g[t \ {z}]
  OBVIOUS
<1>4. PICK z \in t : g[t] # f[z] + g[t \ {z}]
  BY <1>3
<1>. DEFINE x == Some(t)
<1>5. x \in t /\ g[t] = f[x] + g[t \ {x}]
  BY <1>3, <1>4, TotalStep
<1>6. z # x
  BY <1>4, <1>5
<1>. HIDE DEF x, Holds
<1>7. ASSUME NEW v \in t PROVE Holds(t \ {v})
  <2>1. t \ {v} \in SUBSET DOMAIN f /\ Cardinality(t \ {v}) = Cardinality(t) - 1
    BY <1>0, <1>3, FS_RemoveElement
  <2>2. t \ {v} \notin Bad
    <3>. HIDE DEF Bad
    <3>. QED BY <1>0, <1>2, <1>3, <2>1
  <2>. QED BY <2>1, <2>2
<1>8. g[t \ {x}] = f[z] + g[(t \ {x}) \ {z}]
  BY <1>5, <1>6, <1>7 DEF Holds
<1>9. g[t \ {z}] = f[x] + g[(t \ {z}) \ {x}]
  BY <1>4, <1>5, <1>6, <1>7 DEF Holds
<1>. DEFINE rest == (t \ {x}) \ {z}
<1>10. (t \ {z}) \ {x} = rest
  OBVIOUS
<1>11. f[x] \in Int /\ f[z] \in Int /\ g[rest] \in Int
  BY <1>3, <1>5, TotalType DEF Summable
<1>12. g[t \ {x}] = f[z] + g[rest] /\ g[t \ {z}] = f[x] + g[rest]
  BY <1>8, <1>9, <1>10
<1>. HIDE DEF rest
<1>13. g[t] = f[x] + (f[z] + g[rest])
  BY <1>5, <1>12
<1>14. g[t] # f[z] + (f[x] + g[rest])
  BY <1>4, <1>12
<1>. QED BY <1>11, <1>13, <1>14

LEMMA TotalsAgree ==
  ASSUME NEW f, Summable(f), NEW h, Summable(h), DOMAIN f = DOMAIN h,
         NEW g, IsTotal(g, f), NEW k, IsTotal(k, h), NEW s \in SUBSET DOMAIN f,
         \A x \in s : f[x] = h[x]
  PROVE  g[s] = k[s]
<1>. DEFINE Bad == {t \in SUBSET s : g[t] # k[t]}
<1>0. \A t \in SUBSET s : IsFiniteSet(t) /\ Cardinality(t) \in Nat /\ t \in SUBSET DOMAIN f
  BY FS_Subset, FS_CardinalityType DEF Summable
<1>1. SUFFICES ASSUME Bad # {} PROVE FALSE
  OBVIOUS
<1>2. PICK t \in Bad : \A u \in Bad : Cardinality(t) <= Cardinality(u)
  <2>1. \A u \in Bad : IsFiniteSet(u)
    BY <1>0
  <2>. HIDE DEF Bad
  <2>. QED BY <1>1, <2>1, SmallestSet
<1>3. t \in SUBSET s /\ g[t] # k[t]
  OBVIOUS
<1>4. t # {}
  BY <1>0, <1>3, TotalStep
<1>5. Some(t) \in t /\ g[t] = f[Some(t)] + g[t \ {Some(t)}]
      /\ k[t] = h[Some(t)] + k[t \ {Some(t)}]
  <2>1. t \in SUBSET DOMAIN f /\ t \in SUBSET DOMAIN h
    BY <1>0, <1>3
  <2>. HIDE DEF Bad
  <2>2. t # {} => Some(t) \in t /\ g[t] = f[Some(t)] + g[t \ {Some(t)}]
    BY <2>1, TotalStep
  <2>3. t # {} => Some(t) \in t /\ k[t] = h[Some(t)] + k[t \ {Some(t)}]
    BY <2>1, TotalStep
  <2>. QED BY <1>4, <2>2, <2>3
<1>. DEFINE u == t \ {Some(t)}
<1>7. u \in SUBSET s /\ Cardinality(u) = Cardinality(t) - 1
  BY <1>0, <1>3, <1>5, FS_RemoveElement
<1>8. u \notin Bad
  <2>. HIDE DEF u, Bad
  <2>. QED BY <1>0, <1>2, <1>3, <1>7
<1>9. g[u] = k[u]
  BY <1>7, <1>8
<1>. QED BY <1>3, <1>5, <1>9

(* What a sum gains when one of its terms changes.                         *)
LEMMA SumChanges ==
  ASSUME NEW f, Summable(f), NEW h, Summable(h), DOMAIN f = DOMAIN h,
         NEW y \in DOMAIN f, \A x \in DOMAIN f : x # y => f[x] = h[x]
  PROVE  SumFunction(h) = SumFunction(f) + h[y] - f[y]
<1>. DEFINE D == DOMAIN f
<1>1. PICK g : IsTotal(g, f) /\ SumFunction(f) = g[D]
  BY TotalExists DEF Summable
<1>2. PICK k : IsTotal(k, h) /\ SumFunction(h) = k[D]
  BY TotalExists DEF Summable
<1>3. g[D] = f[y] + g[D \ {y}]
  BY <1>1, TotalAny
<1>4. k[D] = h[y] + k[D \ {y}]
  BY <1>2, TotalAny, SMTT(60)
<1>5. g[D \ {y}] = k[D \ {y}]
  <2>1. \A x \in D \ {y} : f[x] = h[x]
    OBVIOUS
  <2>2. D \ {y} \in SUBSET DOMAIN f
    OBVIOUS
  <2>. HIDE DEF D
  <2>. QED BY <1>1, <1>2, <2>1, <2>2, TotalsAgree
<1>6. f[y] \in Int /\ h[y] \in Int /\ g[D \ {y}] \in Int
  BY <1>1, TotalType DEF Summable
<1>. QED BY <1>1, <1>2, <1>3, <1>4, <1>5, <1>6

LEMMA SumType ==
  ASSUME NEW f, Summable(f)
  PROVE  SumFunction(f) \in Int
BY TotalExists, TotalType DEF Summable

LEMMA SumZero ==
  ASSUME NEW f, Summable(f), \A x \in DOMAIN f : f[x] = 0
  PROVE  SumFunction(f) = 0
<1>1. PICK g : IsTotal(g, f) /\ SumFunction(f) = g[DOMAIN f]
  BY TotalExists DEF Summable
<1>. DEFINE B == {t \in SUBSET DOMAIN f : g[t] # 0}
<1>0. \A t \in SUBSET DOMAIN f : IsFiniteSet(t) /\ Cardinality(t) \in Nat
  BY FS_Subset, FS_CardinalityType DEF Summable
<1>2. SUFFICES ASSUME B # {} PROVE FALSE
  BY <1>1
<1>3. PICK t \in B : \A u \in B : Cardinality(t) <= Cardinality(u)
  <2>1. \A u \in B : IsFiniteSet(u)
    BY <1>0
  <2>. HIDE DEF B
  <2>. QED BY <1>2, <2>1, SmallestSet
<1>4. t \in SUBSET DOMAIN f /\ g[t] # 0
  OBVIOUS
<1>5. Some(t) \in t /\ g[t] = f[Some(t)] + g[t \ {Some(t)}]
  BY <1>1, <1>4, TotalStep
<1>. DEFINE u == t \ {Some(t)}
<1>6. u \in SUBSET DOMAIN f /\ Cardinality(u) = Cardinality(t) - 1
  BY <1>0, <1>4, <1>5, FS_RemoveElement
<1>7. u \notin B
  <2>. HIDE DEF u, B
  <2>. QED BY <1>0, <1>3, <1>4, <1>6
<1>8. g[u] = 0
  BY <1>6, <1>7
<1>. QED BY <1>4, <1>5, <1>8

-----------------------------------------------------------------------------
(* How a merge changes the number of places of a pair.                     *)

LEMMA MergedFacts ==
  ASSUME NEW S, NEW t \in Seq(S), NEW id \in S, NEW i \in 1 .. Len(t) - 1
  PROVE  /\ Merged(t, i, id) \in Seq(S)
         /\ Len(Merged(t, i, id)) = Len(t) - 1
         /\ \A k \in 1 .. Len(t) - 1 : Merged(t, i, id)[k] =
              IF k < i THEN t[k] ELSE IF k = i THEN id ELSE t[k + 1]
<1>. DEFINE v == [t EXCEPT ![i] = id]
            head == SubSeq(v, 1, i)
            tail == SubSeq(v, i + 2, Len(v))
<1>1. v \in Seq(S) /\ Len(v) = Len(t) /\ Len(t) \in Nat /\ i \in 1 .. Len(t)
      /\ \A k \in 1 .. Len(t) : v[k] = IF k = i THEN id ELSE t[k]
  OBVIOUS
<1>2. Merged(t, i, id) = head \o tail
  <2>1. (i + 1) - 1 = i /\ (i + 1) + 1 = i + 2
    BY <1>1
  <2>. QED BY <2>1 DEF Merged, RemoveAt
<1>. HIDE DEF v
<1>3. head \in Seq(S) /\ Len(head) = i /\ \A k \in 1 .. i : head[k] = v[k]
  BY <1>1
<1>4. tail \in Seq(S) /\ Len(tail) = Len(t) - 1 - i
      /\ \A k \in 1 .. Len(t) - 1 - i : tail[k] = v[k + i + 1]
  <2>1. Len(v) - (i + 2) + 1 = Len(t) - 1 - i /\ Len(t) - 1 - i \in Nat
    BY <1>1
  <2>2. tail \in Seq(S) /\ Len(tail) = Len(t) - 1 - i
    BY <1>1, <2>1
  <2>3. ASSUME NEW k \in 1 .. Len(t) - 1 - i PROVE tail[k] = v[k + i + 1]
    <3>1. tail[k] = v[(i + 2) + k - 1]
      BY <1>1, <2>1, <2>2
    <3>2. (i + 2) + k - 1 = k + i + 1
      BY <1>1
    <3>. QED BY <3>1, <3>2
  <2>. QED BY <2>2, <2>3
<1>. HIDE DEF head, tail
<1>5. /\ head \o tail \in Seq(S) /\ Len(head \o tail) = Len(t) - 1
      /\ \A k \in 1 .. Len(t) - 1 :
           (head \o tail)[k] = IF k <= i THEN head[k] ELSE tail[k - i]
  BY <1>1, <1>3, <1>4
<1>6. ASSUME NEW k \in 1 .. Len(t) - 1
      PROVE  (head \o tail)[k] = IF k < i THEN t[k] ELSE IF k = i THEN id ELSE t[k + 1]
  <2>1. CASE k <= i
    <3>1. k \in 1 .. i /\ k \in 1 .. Len(t)
      BY <1>1, <2>1
    <3>. QED BY <1>1, <1>3, <1>5, <2>1, <3>1
  <2>2. CASE k > i
    <3>1. k - i \in 1 .. Len(t) - 1 - i /\ (k - i) + i + 1 = k + 1 /\ k + 1 \in 1 .. Len(t)
          /\ k + 1 # i
      BY <1>1, <2>2
    <3>2. (head \o tail)[k] = v[k + 1]
      BY <1>4, <1>5, <2>2, <3>1
    <3>. QED BY <1>1, <2>2, <3>1, <3>2
  <2>3. k <= i \/ k > i
    BY <1>1
  <2>. QED BY <2>1, <2>2, <2>3
<1>. QED BY <1>2, <1>5, <1>6

One(c) == IF c THEN 1 ELSE 0

LEMMA CountOne ==
  ASSUME NEW A, IsFiniteSet(A), NEW x, x \notin A, NEW c \in BOOLEAN
  PROVE  LET B == A \cup {y \in {x} : c}
         IN  IsFiniteSet(B) /\ Cardinality(B) = Cardinality(A) + One(c)
<1>0. Cardinality(A) \in Nat
  BY FS_CardinalityType
<1>1. CASE c
  <2>1. A \cup {y \in {x} : c} = A \cup {x}
    BY <1>1
  <2>. QED BY <1>1, <2>1, FS_AddElement DEF One
<1>2. CASE ~c
  <2>1. A \cup {y \in {x} : c} = A
    BY <1>2
  <2>. QED BY <1>0, <1>2, <2>1 DEF One
<1>. QED BY <1>1, <1>2

PairAt(t, k) == <<t[k], t[k + 1]>>

(* The places of q in t, those near i and the others.                      *)
Apart(t, i, q) == {k \in 1 .. Len(t) - 1 : (k < i - 1 \/ k > i + 1) /\ PairAt(t, k) = q}

LEMMA PlacesFinite ==
  ASSUME NEW S, NEW t \in Seq(S), NEW q
  PROVE  IsFiniteSet(Places(t, q)) /\ Cardinality(Places(t, q)) \in Nat
<1>1. IsFiniteSet(1 .. Len(t) - 1)
  BY FS_Interval
<1>2. Places(t, q) \in SUBSET (1 .. Len(t) - 1)
  BY DEF Places
<1>. QED BY <1>1, <1>2, FS_Subset, FS_CardinalityType

LEMMA PlacesBefore ==
  ASSUME NEW S, NEW t \in Seq(S), NEW i \in 1 .. Len(t) - 1, NEW q
  PROVE  Cardinality(Places(t, q)) =
           Cardinality(Apart(t, i, q)) + One(1 < i /\ PairAt(t, i - 1) = q)
             + One(PairAt(t, i) = q) + One(i + 2 <= Len(t) /\ PairAt(t, i + 1) = q)
<1>. DEFINE A == Apart(t, i, q)
            left == 1 < i /\ PairAt(t, i - 1) = q
            here == PairAt(t, i) = q
            right == i + 2 <= Len(t) /\ PairAt(t, i + 1) = q
            A1 == A \cup {y \in {i - 1} : left}
            A2 == A1 \cup {y \in {i} : here}
            A3 == A2 \cup {y \in {i + 1} : right}
<1>0. Len(t) \in Nat /\ i \in Nat /\ left \in BOOLEAN /\ here \in BOOLEAN /\ right \in BOOLEAN
  OBVIOUS
<1>1. IsFiniteSet(A) /\ Cardinality(A) \in Nat
  <2>1. IsFiniteSet(1 .. Len(t) - 1)
    BY <1>0, FS_Interval
  <2>2. A \in SUBSET (1 .. Len(t) - 1)
    BY DEF Apart
  <2>. QED BY <2>1, <2>2, FS_Subset, FS_CardinalityType
<1>2. i - 1 \notin A /\ i \notin A1 /\ i + 1 \notin A2
  BY <1>0 DEF Apart
<1>3. Places(t, q) = A3
  <2>1. \A k : k \in Places(t, q) <=> k \in 1 .. Len(t) - 1 /\ PairAt(t, k) = q
    BY DEF Places, PairAt
  <2>2. \A k : k \in A <=> k \in 1 .. Len(t) - 1 /\ PairAt(t, k) = q /\ (k < i - 1 \/ k > i + 1)
    BY DEF Apart
  <2>3. ASSUME NEW k PROVE k \in Places(t, q) <=> k \in A3
    <3>1. CASE k = i - 1
      <4>1. k \in Places(t, q) <=> left
        BY <1>0, <2>1, <3>1
      <4>2. k \in A3 <=> left
        BY <1>0, <1>2, <3>1
      <4>. QED BY <4>1, <4>2
    <3>2. CASE k = i
      <4>1. k \in Places(t, q) <=> here
        BY <1>0, <2>1, <3>2
      <4>2. k \in A3 <=> here
        BY <1>0, <1>2, <3>2
      <4>. QED BY <4>1, <4>2
    <3>3. CASE k = i + 1
      <4>1. k \in Places(t, q) <=> right
        BY <1>0, <2>1, <3>3
      <4>2. k \in A3 <=> right
        BY <1>0, <1>2, <3>3
      <4>. QED BY <4>1, <4>2
    <3>4. CASE k # i - 1 /\ k # i /\ k # i + 1
      <4>1. k \in A3 <=> k \in A
        BY <3>4
      <4>. QED BY <1>0, <2>1, <2>2, <3>4, <4>1
    <3>. QED BY <3>1, <3>2, <3>3, <3>4
  <2>. QED BY <2>3
<1>. HIDE DEF A, left, here, right
<1>4. IsFiniteSet(A1) /\ Cardinality(A1) = Cardinality(A) + One(left)
  BY <1>0, <1>1, <1>2, CountOne
<1>. HIDE DEF A1
<1>5. IsFiniteSet(A2) /\ Cardinality(A2) = Cardinality(A1) + One(here)
  BY <1>0, <1>2, <1>4, CountOne
<1>. HIDE DEF A2
<1>6. IsFiniteSet(A3) /\ Cardinality(A3) = Cardinality(A2) + One(right)
  BY <1>0, <1>2, <1>5, CountOne
<1>. HIDE DEF A3
<1>7. Cardinality(Places(t, q)) = Cardinality(A) + One(left) + One(here) + One(right)
  BY <1>3, <1>4, <1>5, <1>6
<1>. QED BY <1>7 DEF A, left, here, right

LEMMA PlacesAfter ==
  ASSUME NEW S, NEW t \in Seq(S), NEW i \in 1 .. Len(t) - 1, NEW id \in S, NEW q
  PROVE  Cardinality(Places(Merged(t, i, id), q)) =
           Cardinality(Apart(t, i, q)) + One(1 < i /\ <<t[i - 1], id>> = q)
             + One(i + 2 <= Len(t) /\ <<id, t[i + 2]>> = q)
<1>. DEFINE u == Merged(t, i, id)
            n == Len(t)
            A == Apart(t, i, q)
            B == {k \in 1 .. n - 2 : (k < i - 1 \/ k > i) /\ PairAt(u, k) = q}
            left == 1 < i /\ <<t[i - 1], id>> = q
            right == i + 2 <= Len(t) /\ <<id, t[i + 2]>> = q
            B1 == B \cup {y \in {i - 1} : left}
            B2 == B1 \cup {y \in {i} : right}
<1>0. n \in Nat /\ i \in Nat /\ 1 <= i /\ i <= n - 1 /\ left \in BOOLEAN /\ right \in BOOLEAN
  OBVIOUS
<1>. HIDE DEF n
<1>1. /\ u \in Seq(S) /\ Len(u) = n - 1
      /\ \A k \in 1 .. n - 1 : u[k] = IF k < i THEN t[k] ELSE IF k = i THEN id ELSE t[k + 1]
  <2>1. /\ Merged(t, i, id) \in Seq(S)
        /\ Len(Merged(t, i, id)) = Len(t) - 1
        /\ \A k \in 1 .. Len(t) - 1 : Merged(t, i, id)[k] =
              IF k < i THEN t[k] ELSE IF k = i THEN id ELSE t[k + 1]
    BY MergedFacts
  <2>. QED BY <2>1 DEF n
<1>. HIDE DEF u
<1>2. /\ \A k \in 1 .. n - 2 : k < i - 1 => PairAt(u, k) = PairAt(t, k)
      /\ \A k \in 1 .. n - 2 : k > i => PairAt(u, k) = PairAt(t, k + 1)
      /\ i > 1 => PairAt(u, i - 1) = <<t[i - 1], id>>
      /\ i + 2 <= n => PairAt(u, i) = <<id, t[i + 2]>>
  <2>1. ASSUME NEW k \in 1 .. n - 2, k < i - 1 PROVE u[k] = t[k] /\ u[k + 1] = t[k + 1]
    <3>1. k \in 1 .. n - 1 /\ k + 1 \in 1 .. n - 1 /\ k < i /\ k + 1 < i
      BY <1>0, <2>1
    <3>. QED BY <1>1, <3>1
  <2>2. ASSUME NEW k \in 1 .. n - 2, k > i PROVE u[k] = t[k + 1] /\ u[k + 1] = t[(k + 1) + 1]
    <3>1. k \in 1 .. n - 1 /\ k + 1 \in 1 .. n - 1 /\ ~(k < i) /\ ~(k + 1 < i) /\ k # i /\ k + 1 # i
      BY <1>0, <2>2
    <3>. QED BY <1>1, <3>1
  <2>3. ASSUME i > 1 PROVE u[i - 1] = t[i - 1] /\ u[(i - 1) + 1] = id
    <3>1. i - 1 \in 1 .. n - 1 /\ i - 1 < i /\ (i - 1) + 1 = i /\ i \in 1 .. n - 1
      BY <1>0, <2>3
    <3>. QED BY <1>0, <1>1, <3>1
  <2>4. ASSUME i + 2 <= n PROVE u[i] = id /\ u[i + 1] = t[i + 2]
    <3>1. i \in 1 .. n - 1 /\ i + 1 \in 1 .. n - 1 /\ ~(i + 1 < i) /\ i + 1 # i /\ (i + 1) + 1 = i + 2
      BY <1>0, <2>4
    <3>. QED BY <1>0, <1>1, <3>1
  <2>. QED BY <2>1, <2>2, <2>3, <2>4 DEF PairAt
<1>3. IsFiniteSet(A) /\ Cardinality(A) \in Nat
  <2>1. IsFiniteSet(1 .. n - 1)
    BY <1>0, FS_Interval
  <2>2. A \in SUBSET (1 .. n - 1)
    BY DEF Apart, n
  <2>. QED BY <2>1, <2>2, FS_Subset, FS_CardinalityType
<1>4. IsFiniteSet(B) /\ Cardinality(B) = Cardinality(A)
  <2>. DEFINE f == [k \in A |-> IF k < i THEN k ELSE k - 1]
  <2>0. \A k : k \in A <=> k \in 1 .. n - 1 /\ (k < i - 1 \/ k > i + 1) /\ PairAt(t, k) = q
    BY DEF Apart, n
  <2>1. \A k \in A : f[k] \in B
    <3>. TAKE k \in A
    <3>1. k \in 1 .. n - 1 /\ (k < i - 1 \/ k > i + 1) /\ PairAt(t, k) = q
      BY <2>0
    <3>2. CASE k < i - 1
      <4>1. k \in 1 .. n - 2 /\ k < i
        BY <1>0, <3>1, <3>2
      <4>. QED BY <1>2, <3>1, <3>2, <4>1
    <3>3. CASE k > i + 1
      <4>1. k - 1 \in 1 .. n - 2 /\ ~(k < i) /\ k - 1 > i /\ (k - 1) + 1 = k
        BY <1>0, <3>1, <3>3
      <4>2. PairAt(u, k - 1) = q
        BY <1>2, <3>1, <4>1
      <4>. QED BY <4>1, <4>2
    <3>. QED BY <3>1, <3>2, <3>3
  <2>2. \A b \in B : \E k \in A : f[k] = b
    <3>. TAKE b \in B
    <3>1. b \in 1 .. n - 2 /\ (b < i - 1 \/ b > i) /\ PairAt(u, b) = q
      OBVIOUS
    <3>2. CASE b < i - 1
      <4>1. b \in A /\ b < i
        BY <1>0, <1>2, <2>0, <3>1, <3>2
      <4>2. f[b] = b
        BY <4>1
      <4>. QED BY <4>1, <4>2
    <3>3. CASE b > i
      <4>1. b + 1 \in 1 .. n - 1 /\ b + 1 > i + 1 /\ ~(b + 1 < i) /\ (b + 1) - 1 = b
        BY <1>0, <3>1, <3>3
      <4>2. b + 1 \in A
        BY <1>2, <2>0, <3>1, <3>3, <4>1
      <4>3. f[b + 1] = b
        BY <4>1, <4>2
      <4>. QED BY <4>2, <4>3
    <3>. QED BY <3>1, <3>2, <3>3
  <2>3. \A k, l \in A : f[k] = f[l] => k = l
    <3>1. \A k \in A : k \in Nat /\ (k < i - 1 \/ k > i + 1)
      BY <1>0, <2>0
    <3>2. \A k \in A : f[k] = IF k < i THEN k ELSE k - 1
      OBVIOUS
    <3>. HIDE DEF f, A
    <3>. QED BY <1>0, <3>1, <3>2
  <2>4. f \in [A -> B]
    BY <2>1
  <2>. HIDE DEF f, A, B
  <2>5. f \in Bijection(A, B)
    BY <2>2, <2>3, <2>4 DEF Bijection, Injection, Surjection, IsInjective
  <2>6. ExistsBijection(A, B)
    BY <2>5 DEF ExistsBijection
  <2>. QED BY <1>3, <2>6, FS_Bijection
<1>5. i - 1 \notin B /\ i \notin B1
  BY <1>0
<1>6. Places(u, q) = B2
  <2>1. \A k : k \in Places(u, q) <=> k \in 1 .. n - 2 /\ PairAt(u, k) = q
    <3>1. Len(u) - 1 = n - 2
      BY <1>0, <1>1
    <3>. QED BY <3>1 DEF Places, PairAt
  <2>3. ASSUME NEW k PROVE k \in Places(u, q) <=> k \in B2
    <3>1. CASE k = i - 1
      <4>1. k \in Places(u, q) <=> left
        BY <1>0, <1>2, <2>1, <3>1
      <4>2. k \in B2 <=> left
        BY <1>0, <1>5, <3>1
      <4>. QED BY <4>1, <4>2
    <3>2. CASE k = i
      <4>1. k \in Places(u, q) <=> right
        BY <1>0, <1>2, <2>1, <3>2 DEF n
      <4>2. k \in B2 <=> right
        BY <1>0, <1>5, <3>2
      <4>. QED BY <4>1, <4>2
    <3>3. CASE k # i - 1 /\ k # i
      <4>1. k \in B2 <=> k \in B
        BY <3>3
      <4>. QED BY <1>0, <2>1, <3>3, <4>1
    <3>. QED BY <3>1, <3>2, <3>3
  <2>. QED BY <2>3
<1>. HIDE DEF A, B, left, right
<1>7. IsFiniteSet(B1) /\ Cardinality(B1) = Cardinality(B) + One(left)
  BY <1>0, <1>4, <1>5, CountOne
<1>. HIDE DEF B1
<1>8. IsFiniteSet(B2) /\ Cardinality(B2) = Cardinality(B1) + One(right)
  BY <1>0, <1>5, <1>7, CountOne
<1>9. Cardinality(Places(u, q)) = Cardinality(A) + One(left) + One(right)
  <2>. HIDE DEF B2
  <2>. QED BY <1>4, <1>6, <1>7, <1>8
<1>. QED BY <1>9 DEF u, A, left, right

(* A merge of pair p changes the places of another pair q by what the loop *)
(* of update_word records.                                                 *)
LEMMA StepCount ==
  ASSUME NEW S, NEW t \in Seq(S), NEW i \in 1 .. Len(t) - 1, NEW id \in S, NEW p, NEW q,
         PairAt(t, i) = p, q # p
  PROVE  Cardinality(Places(Merged(t, i, id), q)) =
           Cardinality(Places(t, q))
             + One(1 < i /\ <<t[i - 1], id>> = q) - One(1 < i /\ PairAt(t, i - 1) = q)
             + One(i + 2 <= Len(t) /\ <<id, t[i + 2]>> = q)
             - One(i + 2 <= Len(t) /\ PairAt(t, i + 1) = q)
<1>. DEFINE a == Cardinality(Apart(t, i, q))
            gone1 == One(1 < i /\ PairAt(t, i - 1) = q)
            gone2 == One(i + 2 <= Len(t) /\ PairAt(t, i + 1) = q)
            come1 == One(1 < i /\ <<t[i - 1], id>> = q)
            come2 == One(i + 2 <= Len(t) /\ <<id, t[i + 2]>> = q)
            here == One(PairAt(t, i) = q)
            before == Cardinality(Places(t, q))
            after == Cardinality(Places(Merged(t, i, id), q))
<1>1. before = a + gone1 + here + gone2
  BY PlacesBefore
<1>2. after = a + come1 + come2
  BY PlacesAfter
<1>3. here = 0
  BY DEF One
<1>4. a \in Nat
  <2>1. Apart(t, i, q) \in SUBSET (1 .. Len(t) - 1)
    BY DEF Apart
  <2>2. IsFiniteSet(1 .. Len(t) - 1)
    BY FS_Interval
  <2>. QED BY <2>1, <2>2, FS_Subset, FS_CardinalityType
<1>5. gone1 \in Nat /\ gone2 \in Nat /\ come1 \in Nat /\ come2 \in Nat
  BY DEF One
<1>6. after = before + come1 - gone1 + come2 - gone2
  <2>. HIDE DEF a, gone1, gone2, come1, come2, here, before, after
  <2>. QED BY <1>1, <1>2, <1>3, <1>4, <1>5
<1>. QED BY <1>6

-----------------------------------------------------------------------------
(* What a record says about a pair, as it grows.                           *)

Hits(record, x) == {k \in DOMAIN record : record[k] = x}

LEMMA HitsAppend ==
  ASSUME NEW S, NEW r \in Seq(S), NEW y \in S, NEW x
  PROVE  /\ IsFiniteSet(Hits(r, x)) /\ Cardinality(Hits(r, x)) \in Nat
         /\ Cardinality(Hits(Append(r, y), x)) = Cardinality(Hits(r, x)) + One(y = x)
<1>. DEFINE A == Hits(r, x)
            c == y = x
            n == Len(r) + 1
<1>0. n \in Nat /\ DOMAIN r = 1 .. n - 1 /\ c \in BOOLEAN
  OBVIOUS
<1>1. IsFiniteSet(A) /\ Cardinality(A) \in Nat /\ n \notin A
  <2>1. IsFiniteSet(1 .. n - 1)
    BY <1>0, FS_Interval
  <2>2. A \in SUBSET (1 .. n - 1)
    BY <1>0 DEF Hits
  <2>3. n \notin 1 .. n - 1
    BY <1>0
  <2>. QED BY <2>1, <2>2, <2>3, FS_Subset, FS_CardinalityType
<1>2. Hits(Append(r, y), x) = A \cup {k \in {n} : c}
  <2>1. DOMAIN Append(r, y) = 1 .. n /\ Append(r, y)[n] = y
        /\ \A k \in 1 .. n - 1 : Append(r, y)[k] = r[k]
    OBVIOUS
  <2>2. 1 .. n = (1 .. n - 1) \cup {n} /\ n \notin 1 .. n - 1
    BY <1>0
  <2>. HIDE DEF n
  <2>. QED BY <1>0, <2>1, <2>2 DEF Hits
<1>. HIDE DEF A, c, n
<1>3. Cardinality(A \cup {k \in {n} : c}) = Cardinality(A) + One(c)
  BY <1>0, <1>1, CountOne
<1>. QED BY <1>1, <1>2, <1>3 DEF A, c

LEMMA NetChangeIsHits ==
  ASSUME NEW r, NEW q
  PROVE  NetChange(r, q) = Cardinality(Hits(r, <<q, 1>>)) - Cardinality(Hits(r, <<q, -1>>))
BY DEF NetChange, Hits

LEMMA NetChangeType ==
  ASSUME NEW S, NEW r \in Seq(S), NEW q
  PROVE  NetChange(r, q) \in Int
<1>1. IsFiniteSet(DOMAIN r)
  BY FS_Interval
<1>2. Hits(r, <<q, 1>>) \in SUBSET DOMAIN r /\ Hits(r, <<q, -1>>) \in SUBSET DOMAIN r
  BY DEF Hits
<1>3. Cardinality(Hits(r, <<q, 1>>)) \in Nat /\ Cardinality(Hits(r, <<q, -1>>)) \in Nat
  BY <1>1, <1>2, FS_Subset, FS_CardinalityType
<1>. QED BY <1>3, NetChangeIsHits

(* When one pair goes and one comes.                                       *)
GoneCome(r, gone, come) == Append(Append(r, <<gone, -1>>), <<come, 1>>)

LEMMA GoneComeSet ==
  ASSUME NEW P, NEW r \in Seq(P \X {1, -1}), NEW gone \in P, NEW come \in P
  PROVE  /\ GoneCome(r, gone, come) \in Seq(P \X {1, -1})
         /\ \A y : y \in ToSet(GoneCome(r, gone, come)) <=>
              y \in ToSet(r) \/ y = <<gone, -1>> \/ y = <<come, 1>>
<1>. DEFINE S == P \X {1, -1}
            r1 == Append(r, <<gone, -1>>)
            r2 == Append(r1, <<come, 1>>)
<1>1. <<gone, -1>> \in S /\ <<come, 1>> \in S
  OBVIOUS
<1>2. r \in Seq(S) /\ GoneCome(r, gone, come) = r2
  BY DEF GoneCome
<1>. HIDE DEF S
<1>3. r1 \in Seq(S) /\ r2 \in Seq(S)
  BY <1>1, <1>2
<1>4. \A y : y \in ToSet(r2) <=> y \in ToSet(r) \/ y = <<gone, -1>> \/ y = <<come, 1>>
  <2>1. ASSUME NEW v \in Seq(S), NEW z \in S, NEW y
        PROVE  y \in ToSet(Append(v, z)) <=> y \in ToSet(v) \/ y = z
    <3>1. DOMAIN Append(v, z) = 1 .. Len(v) + 1 /\ DOMAIN v = 1 .. Len(v) /\ Len(v) \in Nat
          /\ Append(v, z)[Len(v) + 1] = z
          /\ \A k \in 1 .. Len(v) : Append(v, z)[k] = v[k]
      OBVIOUS
    <3>2. 1 .. Len(v) + 1 = (1 .. Len(v)) \cup {Len(v) + 1}
      BY <3>1
    <3>. QED BY <3>1, <3>2 DEF ToSet
  <2>2. \A y : y \in ToSet(r1) <=> y \in ToSet(r) \/ y = <<gone, -1>>
    BY <1>1, <1>2, <2>1
  <2>. HIDE DEF r1
  <2>3. \A y : y \in ToSet(r2) <=> y \in ToSet(r1) \/ y = <<come, 1>>
    BY <1>1, <1>3, <2>1
  <2>. QED BY <2>2, <2>3
<1>. HIDE DEF r2
<1>. QED BY <1>2, <1>3, <1>4 DEF S

LEMMA GoneComeNet ==
  ASSUME NEW P, NEW r \in Seq(P \X {1, -1}), NEW gone \in P, NEW come \in P, NEW q
  PROVE  NetChange(GoneCome(r, gone, come), q) = NetChange(r, q)
           + (IF come = q THEN 1 ELSE 0) - (IF gone = q THEN 1 ELSE 0)
<1>. DEFINE S == P \X {1, -1}
            r1 == Append(r, <<gone, -1>>)
            r2 == Append(r1, <<come, 1>>)
<1>1. <<gone, -1>> \in S /\ <<come, 1>> \in S
  OBVIOUS
<1>2. r \in Seq(S) /\ GoneCome(r, gone, come) = r2
  BY DEF GoneCome
<1>. HIDE DEF S
<1>3. r1 \in Seq(S) /\ r2 \in Seq(S)
  BY <1>1, <1>2
<1>. DEFINE u0 == Cardinality(Hits(r, <<q, 1>>))
            u1 == Cardinality(Hits(r1, <<q, 1>>))
            u2 == Cardinality(Hits(r2, <<q, 1>>))
            d0 == Cardinality(Hits(r, <<q, -1>>))
            d1 == Cardinality(Hits(r1, <<q, -1>>))
            d2 == Cardinality(Hits(r2, <<q, -1>>))
<1>4. u0 \in Nat /\ d0 \in Nat
  <2>1. IsFiniteSet(DOMAIN r)
    BY FS_Interval
  <2>2. Hits(r, <<q, 1>>) \in SUBSET DOMAIN r /\ Hits(r, <<q, -1>>) \in SUBSET DOMAIN r
    BY DEF Hits
  <2>. QED BY <2>1, <2>2, FS_Subset, FS_CardinalityType
<1>5. ASSUME NEW v \in Seq(S), NEW z \in S, NEW x
      PROVE  /\ z = x => Cardinality(Hits(Append(v, z), x)) = Cardinality(Hits(v, x)) + 1
             /\ z # x => Cardinality(Hits(Append(v, z), x)) = Cardinality(Hits(v, x))
  BY HitsAppend DEF One
<1>6. u1 = u0 /\ (gone = q => d1 = d0 + 1) /\ (gone # q => d1 = d0)
  BY <1>1, <1>2, <1>5
<1>. HIDE DEF r1
<1>7. d2 = d1 /\ (come = q => u2 = u1 + 1) /\ (come # q => u2 = u1)
  BY <1>1, <1>3, <1>5
<1>. HIDE DEF r2
<1>8. NetChange(r2, q) = u2 - d2 /\ NetChange(r, q) = u0 - d0
  BY NetChangeIsHits
<1>. HIDE DEF u0, u1, u2, d0, d1, d2
<1>. QED BY <1>2, <1>4, <1>6, <1>7, <1>8

-----------------------------------------------------------------------------
(* What update_word does to a word.                                        *)

Pairs(n) == (0 .. n) \X (0 .. n)
Progress(n) == [symbols : Seq(0 .. n), at : Nat, record : Seq(Pairs(n) \X {1, -1})]

(* A pair of s, or one recorded as come. *)
Known(s, record, q) == q \in AdjacentPairs(s) \/ <<q, 1>> \in ToSet(record)

(* What has been recorded is what has happened to s so far.                *)
Faithful(r, s, p, new) ==
  /\ \A q : q # p => Cardinality(Places(r.symbols, q))
                       = Cardinality(Places(s, q)) + NetChange(r.record, q)
  /\ \A q \in AdjacentPairs(r.symbols) : Known(s, r.record, q)
  /\ \A y \in ToSet(r.record) :
       Known(s, r.record, y[1]) /\ (y[2] = 1 => y[1] \notin Ids(new) \X Ids(new))

(* After round n of the loop. *)
Round(r, s, p, new, n) ==
  /\ r \in Progress(new)
  /\ Len(r.symbols) <= Len(s)
  /\ r.at >= 1 /\ (r.at >= Len(r.symbols) \/ r.at = n + 1)
  /\ \A k \in Places(r.symbols, p) : k >= r.at
  /\ Faithful(r, s, p, new)

LEMMA AppendTwo ==
  ASSUME NEW S, NEW r \in Seq(S), NEW x \in S, NEW y \in S
  PROVE  r \o <<x, y>> = Append(Append(r, x), y)
<1>. DEFINE a == r \o <<x, y>>
            b == Append(Append(r, x), y)
            n == Len(r)
<1>1. n \in Nat /\ \A k \in 1 .. n + 2 : k \in 1 .. n \/ k = n + 1 \/ k = n + 2
  OBVIOUS
<1>2. a \in Seq(S) /\ b \in Seq(S) /\ Len(a) = n + 2 /\ Len(b) = n + 2
  OBVIOUS
<1>3. /\ \A k \in 1 .. n : a[k] = r[k] /\ b[k] = r[k]
      /\ a[n + 1] = x /\ b[n + 1] = x /\ a[n + 2] = y /\ b[n + 2] = y
  OBVIOUS
<1>. HIDE DEF a, b, n
<1>4. \A k \in 1 .. n + 2 : a[k] = b[k]
  BY <1>1, <1>3
<1>5. a = b
  BY <1>1, <1>2, <1>4
<1>. QED BY <1>5 DEF a, b

(* The two pairs a merge at i changes, to its left and to its right.       *)
LeftNoted(r, t, i, p, new) ==
  IF i > 1 THEN GoneCome(r, <<t[i - 1], p[1]>>, <<t[i - 1], new>>) ELSE r
RightNoted(r, t, i, p, new) ==
  IF i + 2 <= Len(t) THEN GoneCome(r, <<p[2], t[i + 2]>>, <<new, t[i + 2]>>) ELSE r

LEMMA RoundCases ==
  ASSUME NEW new \in Nat, NEW p \in Ids(new) \X Ids(new), NEW r \in Progress(new), r.at >= 1
  PROVE  LET t == r.symbols
             i == r.at
         IN /\ i >= Len(t) => UpdateRound(r, p, new) = r
            /\ i < Len(t) /\ PairAt(t, i) # p =>
                 UpdateRound(r, p, new) = [r EXCEPT !.at = i + 1]
            /\ i < Len(t) /\ PairAt(t, i) = p =>
                 UpdateRound(r, p, new) =
                   [symbols |-> Merged(t, i, new), at |-> i + 1,
                    record |-> RightNoted(LeftNoted(r.record, t, i, p, new), t, i, p, new)]
<1>. DEFINE t == r.symbols
            i == r.at
            S == Pairs(new) \X {1, -1}
<1>1. t \in Seq(0 .. new) /\ i \in Nat /\ r.record \in Seq(S) /\ Len(t) \in Nat
  BY DEF Progress
<1>2. p = <<p[1], p[2]>> /\ p[1] \in 0 .. new /\ p[2] \in 0 .. new /\ new \in 0 .. new
  BY DEF Ids
<1>3. ASSUME i < Len(t) PROVE i \in Places(t, p) <=> PairAt(t, i) = p
  <2>1. i \in 1 .. Len(t) - 1
    BY <1>1, <1>3
  <2>. QED BY <2>1 DEF Places, PairAt
<1>. DEFINE left == IF i = 1 THEN <<>>
                    ELSE << <<<<t[i - 1], p[1]>>, -1>>, <<<<t[i - 1], new>>, 1>> >>
            right == IF i + 2 > Len(t) THEN <<>>
                     ELSE << <<<<p[2], t[i + 2]>>, -1>>, <<<<new, t[i + 2]>>, 1>> >>
            r1 == LeftNoted(r.record, t, i, p, new)
            r2 == RightNoted(r1, t, i, p, new)
<1>4. ASSUME i < Len(t) PROVE r.record \o left = r1 /\ r1 \in Seq(S)
  <2>1. CASE i = 1
    <3>1. r1 = r.record
      BY <2>1 DEF LeftNoted, GoneCome
    <3>2. left = <<>>
      BY <2>1
    <3>. HIDE DEF left, r1, S
    <3>. QED BY <1>1, <3>1, <3>2
  <2>2. CASE i # 1
    <3>. DEFINE x == <<<<t[i - 1], p[1]>>, -1>>
                y == <<<<t[i - 1], new>>, 1>>
    <3>1. i > 1 /\ i - 1 \in 1 .. Len(t)
      BY <1>1, <1>4, <2>2
    <3>2. x \in S /\ y \in S
      BY <1>1, <1>2, <3>1, SMTT(60) DEF Pairs
    <3>3. left = <<x, y>> /\ r1 = Append(Append(r.record, x), y)
      BY <2>2, <3>1 DEF LeftNoted, GoneCome
    <3>. HIDE DEF x, y, S, left, r1
    <3>4. r.record \o <<x, y>> = Append(Append(r.record, x), y)
      BY <1>1, <3>2, AppendTwo, SMTT(60)
    <3>5. Append(Append(r.record, x), y) \in Seq(S)
      BY <1>1, <3>2
    <3>6. r.record \o left = r1
      BY <3>3, <3>4
    <3>7. r1 \in Seq(S)
      BY <3>3, <3>5
    <3>. QED BY <3>6, <3>7
  <2>. QED BY <2>1, <2>2
<1>5. ASSUME i < Len(t) PROVE r1 \o right = r2
  <2>0. r1 \in Seq(S)
    BY <1>4, <1>5
  <2>1. CASE i + 2 > Len(t)
    <3>1. ~(i + 2 <= Len(t))
      BY <1>1, <2>1
    <3>2. r2 = r1
      BY <3>1 DEF RightNoted, GoneCome
    <3>3. right = <<>>
      BY <2>1
    <3>. HIDE DEF right, r1, r2, S
    <3>. QED BY <2>0, <3>2, <3>3
  <2>2. CASE ~(i + 2 > Len(t))
    <3>. DEFINE x == <<<<p[2], t[i + 2]>>, -1>>
                y == <<<<new, t[i + 2]>>, 1>>
    <3>1. i + 2 <= Len(t) /\ i + 2 \in 1 .. Len(t)
      BY <1>1, <2>2
    <3>a. t[i + 2] \in 0 .. new
      <4>. HIDE DEF t, i
      <4>. QED BY <1>1, <3>1
    <3>2. x \in S /\ y \in S
      BY <1>2, <3>a DEF Pairs
    <3>3. right = <<x, y>> /\ r2 = Append(Append(r1, x), y)
      BY <2>2, <3>1 DEF RightNoted, GoneCome
    <3>. HIDE DEF x, y, S, right, r1, r2
    <3>4. r1 \o <<x, y>> = Append(Append(r1, x), y)
      BY <2>0, <3>2, AppendTwo
    <3>. QED BY <3>3, <3>4
  <2>. QED BY <2>1, <2>2
<1>6. UpdateRound(r, p, new) =
        IF i >= Len(t) THEN r
        ELSE IF i \notin Places(t, p) THEN [r EXCEPT !.at = i + 1]
        ELSE [symbols |-> Merged(t, i, new), at |-> i + 1, record |-> r.record \o left \o right]
  BY DEF UpdateRound
<1>. HIDE DEF t, i, left, right, r1, r2
<1>7. i >= Len(t) \/ i < Len(t)
  BY <1>1
<1>8. ~(i < Len(t) /\ i >= Len(t))
  BY <1>1
<1>9. i < Len(t) /\ PairAt(t, i) = p => r.record \o left \o right = r2
  BY <1>4, <1>5
<1>10. /\ i >= Len(t) => UpdateRound(r, p, new) = r
       /\ i < Len(t) /\ PairAt(t, i) # p => UpdateRound(r, p, new) = [r EXCEPT !.at = i + 1]
       /\ i < Len(t) /\ PairAt(t, i) = p =>
            UpdateRound(r, p, new) =
              [symbols |-> Merged(t, i, new), at |-> i + 1, record |-> r2]
  BY <1>3, <1>6, <1>8, <1>9
<1>. QED BY <1>10 DEF t, i, r1, r2

LEMMA RoundStep ==
  ASSUME NEW new \in Nat, NEW s \in Seq(Ids(new)), NEW p \in Ids(new) \X Ids(new),
         NEW n \in Nat, NEW r, Round(r, s, p, new, n)
  PROVE  Round(UpdateRound(r, p, new), s, p, new, n + 1)
<1>. DEFINE t == r.symbols
            i == r.at
            S == Pairs(new) \X {1, -1}
            u == UpdateRound(r, p, new)
<1>. SUFFICES Round(u, s, p, new, n + 1)
  OBVIOUS
<1>1. /\ r \in Progress(new) /\ t \in Seq(0 .. new) /\ i \in Nat /\ r.record \in Seq(S)
      /\ Len(t) \in Nat /\ i >= 1 /\ Len(t) <= Len(s) /\ Len(s) \in Nat
      /\ (i >= Len(t) \/ i = n + 1)
      /\ \A k \in Places(t, p) : k >= i
      /\ Faithful(r, s, p, new)
  BY DEF Round, Progress
<1>2. new \in 0 .. new /\ p \in Pairs(new) /\ p = <<p[1], p[2]>> /\ p[1] # new /\ p[2] # new
      /\ p[1] \in 0 .. new /\ p[2] \in 0 .. new
  BY DEF Ids, Pairs
<1>3. /\ i >= Len(t) => u = r
      /\ i < Len(t) /\ PairAt(t, i) # p => u = [r EXCEPT !.at = i + 1]
      /\ i < Len(t) /\ PairAt(t, i) = p =>
           u = [symbols |-> Merged(t, i, new), at |-> i + 1,
                record |-> RightNoted(LeftNoted(r.record, t, i, p, new), t, i, p, new)]
  BY <1>1, RoundCases
<1>4. CASE i >= Len(t)
  <2>1. u = r
    BY <1>3, <1>4
  <2>. QED BY <1>1, <1>4, <2>1 DEF Round
<1>5. CASE i < Len(t) /\ PairAt(t, i) # p
  <2>1. u = [r EXCEPT !.at = i + 1]
    BY <1>3, <1>5
  <2>2. u \in Progress(new) /\ u.symbols = t /\ u.at = i + 1 /\ u.record = r.record
    <3>1. r \in Progress(new) /\ i + 1 \in Nat
      BY <1>1
    <3>. QED BY <2>1, <3>1 DEF Progress
  <2>3. \A k \in Places(t, p) : k >= i + 1
    <3>1. \A k \in Places(t, p) : k \in Nat /\ PairAt(t, k) = p
      BY DEF Places, PairAt
    <3>2. \A k \in Places(t, p) : k # i
      BY <1>5, <3>1
    <3>. HIDE DEF t, i
    <3>. QED BY <1>1, <3>1, <3>2
  <2>4. Faithful(u, s, p, new)
    BY <1>1, <2>2 DEF Faithful
  <2>5. i + 1 >= 1 /\ (i + 1 >= Len(t) \/ i + 1 = (n + 1) + 1)
    <3>. HIDE DEF t, i
    <3>. QED BY <1>1
  <2>. HIDE DEF u
  <2>. QED BY <1>1, <2>2, <2>3, <2>4, <2>5 DEF Round
<1>6. CASE i < Len(t) /\ PairAt(t, i) = p
  <2>. DEFINE v == Merged(t, i, new)
              r1 == LeftNoted(r.record, t, i, p, new)
              r2 == RightNoted(r1, t, i, p, new)
              leftgone == <<t[i - 1], p[1]>>
              leftcome == <<t[i - 1], new>>
              rightgone == <<p[2], t[i + 2]>>
              rightcome == <<new, t[i + 2]>>
  <2>1. u = [symbols |-> v, at |-> i + 1, record |-> r2]
    BY <1>3, <1>6
  <2>2. i \in 1 .. Len(t) - 1
    BY <1>1, <1>6
  <2>3. /\ v \in Seq(0 .. new) /\ Len(v) = Len(t) - 1
        /\ \A k \in 1 .. Len(t) - 1 : v[k] = IF k < i THEN t[k] ELSE IF k = i THEN new ELSE t[k + 1]
    <3>. DEFINE Z == 0 .. new
    <3>1. t \in Seq(Z) /\ new \in Z
      BY <1>1, <1>2
    <3>. HIDE DEF t, i, Z
    <3>2. v \in Seq(Z)
      BY <2>2, <3>1, MergedFacts
    <3>3. Len(v) = Len(t) - 1
      BY <2>2, <3>1, MergedFacts
    <3>4. \A k \in 1 .. Len(t) - 1 : v[k] = IF k < i THEN t[k] ELSE IF k = i THEN new ELSE t[k + 1]
      BY <2>2, <3>1, MergedFacts
    <3>. QED BY <3>2, <3>3, <3>4 DEF Z
  <2>e. /\ \A k \in 1 .. Len(t) - 1 : k < i => v[k] = t[k]
        /\ \A k \in 1 .. Len(t) - 1 : k = i => v[k] = new
        /\ \A k \in 1 .. Len(t) - 1 : k > i => v[k] = t[k + 1]
    <3>. HIDE DEF t, i, v
    <3>. QED BY <1>1, <2>3, SMTT(60)
  <2>4. /\ i > 1 => i - 1 \in 1 .. Len(t) /\ t[i - 1] \in 0 .. new
        /\ i + 2 <= Len(t) => i + 2 \in 1 .. Len(t) /\ t[i + 2] \in 0 .. new
        /\ t[i] = p[1] /\ t[i + 1] = p[2]
    <3>1. t[i] = p[1] /\ t[i + 1] = p[2]
      BY <1>2, <1>6 DEF PairAt
    <3>. HIDE DEF t, i
    <3>. QED BY <1>1, <2>2, <3>1, SMTT(60)
  <2>5. /\ i > 1 => leftgone = PairAt(t, i - 1) /\ leftgone \in Pairs(new) /\ leftcome \in Pairs(new)
        /\ i + 2 <= Len(t) => rightgone = PairAt(t, i + 1)
             /\ rightgone \in Pairs(new) /\ rightcome \in Pairs(new)
    <3>. HIDE DEF t, i
    <3>1. (i - 1) + 1 = i /\ (i + 1) + 1 = i + 2
      BY <1>1
    <3>. QED BY <1>2, <2>4, <3>1 DEF PairAt, Pairs
  <2>. HIDE DEF t, i
  <2>6. /\ r1 \in Seq(S)
        /\ \A q : NetChange(r.record, q) \in Int
             /\ NetChange(r1, q) = NetChange(r.record, q)
                    + (IF i > 1 /\ leftcome = q THEN 1 ELSE 0)
                    - (IF i > 1 /\ leftgone = q THEN 1 ELSE 0)
        /\ \A y : y \in ToSet(r1) <=>
             \/ y \in ToSet(r.record)
             \/ i > 1 /\ (y = <<leftgone, -1>> \/ y = <<leftcome, 1>>)
    <3>. DEFINE P == Pairs(new)
                R == r.record
    <3>1. R \in Seq(P \X {1, -1}) /\ (i > 1 => leftgone \in P /\ leftcome \in P)
      BY <1>1, <2>5
    <3>2. r1 = IF i > 1 THEN GoneCome(R, leftgone, leftcome) ELSE R
      BY DEF LeftNoted
    <3>. HIDE DEF leftgone, leftcome, P, R, r1
    <3>3. \A q : NetChange(R, q) \in Int
      BY <3>1, NetChangeType
    <3>4. CASE i > 1
      <4>1. r1 = GoneCome(R, leftgone, leftcome) /\ leftgone \in P /\ leftcome \in P
        BY <3>1, <3>2, <3>4
      <4>2. r1 \in Seq(P \X {1, -1})
        BY <3>1, <4>1, GoneComeSet
      <4>3. ASSUME NEW q
            PROVE  NetChange(r1, q) = NetChange(R, q)
                     + (IF leftcome = q THEN 1 ELSE 0) - (IF leftgone = q THEN 1 ELSE 0)
        <5>1. NetChange(GoneCome(R, leftgone, leftcome), q) = NetChange(R, q)
                + (IF leftcome = q THEN 1 ELSE 0) - (IF leftgone = q THEN 1 ELSE 0)
          BY <3>1, <4>1, GoneComeNet
        <5>. QED BY <4>1, <5>1
      <4>4. \A y : y \in ToSet(r1) <=>
               y \in ToSet(R) \/ y = <<leftgone, -1>> \/ y = <<leftcome, 1>>
        BY <3>1, <4>1, GoneComeSet
      <4>. QED BY <3>3, <3>4, <4>2, <4>3, <4>4 DEF P, R
    <3>5. CASE ~(i > 1)
      <4>1. r1 = R
        BY <3>2, <3>5
      <4>. QED BY <3>1, <3>3, <3>5, <4>1 DEF P, R
    <3>. QED BY <3>4, <3>5
  <2>7. /\ r2 \in Seq(S)
        /\ \A q : NetChange(r1, q) \in Int
             /\ NetChange(r2, q) = NetChange(r1, q)
                    + (IF i + 2 <= Len(t) /\ rightcome = q THEN 1 ELSE 0)
                    - (IF i + 2 <= Len(t) /\ rightgone = q THEN 1 ELSE 0)
        /\ \A y : y \in ToSet(r2) <=>
             \/ y \in ToSet(r1)
             \/ i + 2 <= Len(t) /\ (y = <<rightgone, -1>> \/ y = <<rightcome, 1>>)
    <3>. DEFINE P == Pairs(new)
    <3>1. r1 \in Seq(P \X {1, -1}) /\ (i + 2 <= Len(t) => rightgone \in P /\ rightcome \in P)
      BY <2>5, <2>6
    <3>2. r2 = IF i + 2 <= Len(t) THEN GoneCome(r1, rightgone, rightcome) ELSE r1
      BY DEF RightNoted
    <3>. HIDE DEF rightgone, rightcome, P, r1, r2
    <3>3. \A q : NetChange(r1, q) \in Int
      BY <3>1, NetChangeType
    <3>4. CASE i + 2 <= Len(t)
      <4>1. r2 = GoneCome(r1, rightgone, rightcome) /\ rightgone \in P /\ rightcome \in P
        BY <3>1, <3>2, <3>4
      <4>2. r2 \in Seq(P \X {1, -1})
        BY <3>1, <4>1, GoneComeSet
      <4>3. ASSUME NEW q
            PROVE  NetChange(r2, q) = NetChange(r1, q)
                     + (IF rightcome = q THEN 1 ELSE 0) - (IF rightgone = q THEN 1 ELSE 0)
        <5>1. NetChange(GoneCome(r1, rightgone, rightcome), q) = NetChange(r1, q)
                + (IF rightcome = q THEN 1 ELSE 0) - (IF rightgone = q THEN 1 ELSE 0)
          BY <3>1, <4>1, GoneComeNet
        <5>. QED BY <4>1, <5>1
      <4>4. \A y : y \in ToSet(r2) <=>
               y \in ToSet(r1) \/ y = <<rightgone, -1>> \/ y = <<rightcome, 1>>
        BY <3>1, <4>1, GoneComeSet
      <4>. QED BY <3>3, <3>4, <4>2, <4>3, <4>4 DEF P
    <3>5. CASE ~(i + 2 <= Len(t))
      <4>1. r2 = r1
        BY <3>2, <3>5
      <4>. QED BY <3>1, <3>3, <3>5, <4>1 DEF P
    <3>. QED BY <3>4, <3>5
  <2>. HIDE DEF r1, r2, S
  <2>8. u \in Progress(new) /\ u.symbols = v /\ u.at = i + 1 /\ u.record = r2
    <3>. HIDE DEF v, u
    <3>1. v \in Seq(0 .. new) /\ i + 1 \in Nat /\ r2 \in Seq(Pairs(new) \X {1, -1})
      BY <1>1, <2>3, <2>7 DEF S
    <3>. QED BY <2>1, <3>1 DEF Progress
  <2>. HIDE DEF u
  <2>9. Len(v) <= Len(s) /\ i + 1 >= 1 /\ (i + 1 >= Len(v) \/ i + 1 = (n + 1) + 1)
    BY <1>1, <2>3
  <2>10. \A k \in Places(v, p) : k >= i + 1
    <3>. SUFFICES ASSUME NEW k \in Places(v, p), ~(k >= i + 1) PROVE FALSE
      OBVIOUS
    <3>0. ~(k >= i + 1)
      OBVIOUS
    <3>1. k \in 1 .. Len(t) - 2 /\ v[k] = p[1] /\ v[k + 1] = p[2] /\ k <= i
      <4>1. k \in 1 .. Len(v) - 1 /\ <<v[k], v[k + 1]>> = p
        BY DEF Places
      <4>2. v[k] = p[1] /\ v[k + 1] = p[2]
        BY <4>1
      <4>. HIDE DEF v
      <4>3. Len(v) = Len(t) - 1 /\ Len(t) \in Nat /\ i \in Nat
        BY <1>1, <2>3
      <4>4. k \in 1 .. Len(t) - 2
        BY <4>1, <4>3
      <4>. QED BY <3>0, <4>2, <4>3, <4>4
    <3>. HIDE DEF v
    <3>2. v[i] = new
      BY <1>1, <2>2, <2>3, SMTT(60)
    <3>3. k # i /\ k + 1 # i
      BY <1>1, <1>2, <3>1, <3>2
    <3>4. k < i /\ k + 1 < i /\ k \in 1 .. Len(t) - 1 /\ k + 1 \in 1 .. Len(t) - 1
      BY <1>1, <3>1, <3>3
    <3>5. t[k] = p[1] /\ t[k + 1] = p[2]
      BY <2>3, <3>1, <3>4
    <3>6. k \in Places(t, p)
      BY <1>2, <3>4, <3>5 DEF Places
    <3>. QED BY <1>1, <3>1, <3>3, <3>6
  <2>11. ASSUME NEW q, q # p
         PROVE  Cardinality(Places(v, q)) = Cardinality(Places(s, q)) + NetChange(r2, q)
    <3>. DEFINE lc == IF i > 1 /\ leftcome = q THEN 1 ELSE 0
                lg == IF i > 1 /\ leftgone = q THEN 1 ELSE 0
                rc == IF i + 2 <= Len(t) /\ rightcome = q THEN 1 ELSE 0
                rg == IF i + 2 <= Len(t) /\ rightgone = q THEN 1 ELSE 0
    <3>1. Cardinality(Places(v, q)) = Cardinality(Places(t, q))
             + One(1 < i /\ <<t[i - 1], new>> = q) - One(1 < i /\ PairAt(t, i - 1) = q)
             + One(i + 2 <= Len(t) /\ <<new, t[i + 2]>> = q)
             - One(i + 2 <= Len(t) /\ PairAt(t, i + 1) = q)
      BY <1>1, <1>2, <1>6, <2>2, <2>11, StepCount, SMTT(60)
    <3>2. /\ One(1 < i /\ <<t[i - 1], new>> = q) = lc
          /\ One(1 < i /\ PairAt(t, i - 1) = q) = lg
          /\ One(i + 2 <= Len(t) /\ <<new, t[i + 2]>> = q) = rc
          /\ One(i + 2 <= Len(t) /\ PairAt(t, i + 1) = q) = rg
      BY <1>1, <2>5 DEF One
    <3>3. Cardinality(Places(t, q)) = Cardinality(Places(s, q)) + NetChange(r.record, q)
      BY <1>1, <2>11 DEF Faithful, t
    <3>4. NetChange(r2, q) = NetChange(r1, q) + rc - rg
          /\ NetChange(r1, q) = NetChange(r.record, q) + lc - lg
          /\ NetChange(r.record, q) \in Int /\ NetChange(r1, q) \in Int
      BY <2>6, <2>7
    <3>5. lc \in Nat /\ lg \in Nat /\ rc \in Nat /\ rg \in Nat
      BY DEF One
    <3>6. Cardinality(Places(s, q)) \in Nat
      BY PlacesFinite
    <3>. DEFINE before == Cardinality(Places(s, q))
                now == Cardinality(Places(t, q))
                after == Cardinality(Places(v, q))
                n0 == NetChange(r.record, q)
                n1 == NetChange(r1, q)
                n2 == NetChange(r2, q)
    <3>7. after = now + lc - lg + rc - rg
      BY <3>1, <3>2
    <3>8. after = before + n2
      <4>. HIDE DEF lc, lg, rc, rg, before, now, after, n0, n1, n2
      <4>1. now = before + n0 /\ n2 = n1 + rc - rg /\ n1 = n0 + lc - lg /\ n0 \in Int /\ before \in Nat
        BY <3>3, <3>4, <3>6 DEF lc, lg, rc, rg, before, now, n0, n1, n2
      <4>. QED BY <3>5, <3>7, <4>1
    <3>. QED BY <3>8
  <2>12. \A q : Known(s, r.record, q) => Known(s, r2, q)
    BY <2>6, <2>7 DEF Known
  <2>13. /\ i > 1 => Known(s, r2, leftgone) /\ Known(s, r2, leftcome)
         /\ i + 2 <= Len(t) => Known(s, r2, rightgone) /\ Known(s, r2, rightcome)
    <3>1. i > 1 => leftgone \in AdjacentPairs(t)
      <4>1. i > 1 => i - 1 \in 1 .. Len(t) - 1
        BY <1>1, <2>2
      <4>. QED BY <2>5, <4>1 DEF AdjacentPairs, PairAt
    <3>2. i + 2 <= Len(t) => rightgone \in AdjacentPairs(t)
      <4>1. i + 2 <= Len(t) => i + 1 \in 1 .. Len(t) - 1
        BY <1>1, <2>2
      <4>. QED BY <2>5, <4>1 DEF AdjacentPairs, PairAt
    <3>3. \A q \in AdjacentPairs(t) : Known(s, r2, q)
      BY <1>1, <2>12 DEF Faithful, t
    <3>. HIDE DEF leftgone, leftcome, rightgone, rightcome
    <3>4. /\ i > 1 => <<leftcome, 1>> \in ToSet(r2)
          /\ i + 2 <= Len(t) => <<rightcome, 1>> \in ToSet(r2)
      BY <2>6, <2>7
    <3>. QED BY <3>1, <3>2, <3>3, <3>4 DEF Known
  <2>14. \A q \in AdjacentPairs(v) : Known(s, r2, q)
    <3>. TAKE q \in AdjacentPairs(v)
    <3>1. PICK k \in 1 .. Len(v) - 1 : q = <<v[k], v[k + 1]>>
      BY DEF AdjacentPairs
    <3>. HIDE DEF v
    <3>2. k \in 1 .. Len(t) - 2 /\ k \in 1 .. Len(t) - 1 /\ k + 1 \in 1 .. Len(t) - 1
      BY <1>1, <2>3, <3>1
    <3>3. ASSUME NEW j \in 1 .. Len(t) - 1 PROVE Known(s, r2, <<t[j], t[j + 1]>>)
      <4>1. <<t[j], t[j + 1]>> \in AdjacentPairs(t)
        BY DEF AdjacentPairs
      <4>2. Known(s, r.record, <<t[j], t[j + 1]>>)
        BY <1>1, <4>1 DEF Faithful, t
      <4>. QED BY <2>12, <4>2
    <3>4. CASE k < i /\ k + 1 < i
      <4>1. v[k] = t[k] /\ v[k + 1] = t[k + 1]
        BY <1>1, <2>e, <3>2, <3>4
      <4>. QED BY <3>1, <3>2, <3>3, <4>1
    <3>5. CASE k + 1 = i
      <4>1. v[k] = t[k] /\ v[k + 1] = new /\ k = i - 1 /\ i > 1
        BY <1>1, <2>e, <3>2, <3>5
      <4>2. q = leftcome
        BY <3>1, <4>1
      <4>. QED BY <2>13, <4>1, <4>2
    <3>6. CASE k = i
      <4>1. v[k] = new /\ v[k + 1] = t[(k + 1) + 1] /\ (k + 1) + 1 = i + 2 /\ i + 2 <= Len(t)
        BY <1>1, <2>e, <3>2, <3>6
      <4>2. q = rightcome
        BY <3>1, <4>1
      <4>. QED BY <2>13, <4>1, <4>2
    <3>7. CASE k > i
      <4>1. v[k] = t[k + 1] /\ v[k + 1] = t[(k + 1) + 1] /\ k + 1 \in 1 .. Len(t) - 1
        BY <1>1, <2>e, <3>2, <3>7
      <4>. QED BY <3>1, <3>3, <4>1
    <3>8. (k < i /\ k + 1 < i) \/ k + 1 = i \/ k = i \/ k > i
      BY <1>1, <3>2
    <3>. QED BY <3>4, <3>5, <3>6, <3>7, <3>8
  <2>15. \A y \in ToSet(r2) :
           Known(s, r2, y[1]) /\ (y[2] = 1 => y[1] \notin Ids(new) \X Ids(new))
    <3>. TAKE y \in ToSet(r2)
    <3>1. CASE y \in ToSet(r.record)
      <4>1. Known(s, r.record, y[1]) /\ (y[2] = 1 => y[1] \notin Ids(new) \X Ids(new))
        BY <1>1, <3>1 DEF Faithful
      <4>. QED BY <2>12, <4>1
    <3>2. leftcome \notin Ids(new) \X Ids(new) /\ rightcome \notin Ids(new) \X Ids(new)
      BY DEF Ids
    <3>. HIDE DEF leftgone, leftcome, rightgone, rightcome
    <3>3. CASE i > 1 /\ (y = <<leftgone, -1>> \/ y = <<leftcome, 1>>)
      BY <2>13, <3>2, <3>3
    <3>4. CASE i + 2 <= Len(t) /\ (y = <<rightgone, -1>> \/ y = <<rightcome, 1>>)
      BY <2>13, <3>2, <3>4
    <3>. QED BY <2>6, <2>7, <3>1, <3>3, <3>4
  <2>16. Faithful(u, s, p, new)
    <3>. HIDE DEF v
    <3>. QED BY <2>8, <2>11, <2>14, <2>15 DEF Faithful
  <2>. HIDE DEF v
  <2>. QED BY <2>8, <2>9, <2>10, <2>16 DEF Round
<1>7. i >= Len(t) \/ i < Len(t)
  BY <1>1
<1>. QED BY <1>4, <1>5, <1>6, <1>7

(* The rounds of update_word, up to n.                                     *)
IsRounds(g, s, p, new, n) ==
  g = [m \in 0 .. n |-> IF m = 0 THEN [symbols |-> s, at |-> 1, record |-> <<>>] ELSE UpdateRound(g[m - 1], p, new)]

LEMMA RoundsExist ==
  ASSUME NEW s, NEW p, NEW new, NEW n \in Nat
  PROVE  \E g : IsRounds(g, s, p, new, n)
<1>. DEFINE Bad == {m \in Nat : ~ \E g : IsRounds(g, s, p, new, m)}
            next(x) == UpdateRound(x, p, new)
<1>1. SUFFICES ASSUME n \in Bad PROVE FALSE
  OBVIOUS
<1>. HIDE DEF Bad
<1>2. PICK m \in Bad : \A k \in Bad : m <= k
  <2>1. Bad \in SUBSET Nat
    BY DEF Bad
  <2>. QED BY <1>1, <2>1, LeastNumber
<1>3. m \in Nat /\ ~ \E g : IsRounds(g, s, p, new, m)
  BY <1>2 DEF Bad
<1>4. CASE m = 0
  <2>. DEFINE h == [j \in 0 .. 0 |-> [symbols |-> s, at |-> 1, record |-> <<>>]]
  <2>1. h = [j \in 0 .. 0 |-> IF j = 0 THEN [symbols |-> s, at |-> 1, record |-> <<>>] ELSE next(h[j - 1])]
    OBVIOUS
  <2>. HIDE DEF h
  <2>2. IsRounds(h, s, p, new, 0)
    BY <2>1 DEF IsRounds
  <2>. QED BY <2>2, <1>3, <1>4
<1>5. CASE m > 0
  <2>1. m - 1 \in Nat /\ m - 1 \notin Bad
    BY <1>2, <1>3, <1>5
  <2>2. PICK g : IsRounds(g, s, p, new, m - 1)
    BY <2>1 DEF Bad
  <2>3. g = [j \in 0 .. m - 1 |-> IF j = 0 THEN [symbols |-> s, at |-> 1, record |-> <<>>] ELSE next(g[j - 1])]
    BY <2>2 DEF IsRounds
  <2>. HIDE DEF next
  <2>. DEFINE h == [j \in 0 .. m |-> IF j = 0 THEN [symbols |-> s, at |-> 1, record |-> <<>>] ELSE next(g[j - 1])]
  <2>4. ASSUME NEW j \in 0 .. m - 1 PROVE h[j] = g[j]
    <3>1. j \in 0 .. m
      BY <1>3
    <3>2. g[j] = IF j = 0 THEN [symbols |-> s, at |-> 1, record |-> <<>>] ELSE next(g[j - 1])
      BY <2>3
    <3>. QED BY <3>1, <3>2
  <2>5. \A j \in 0 .. m : j # 0 => j - 1 \in 0 .. m - 1
    BY <1>3
  <2>6. h = [j \in 0 .. m |-> IF j = 0 THEN [symbols |-> s, at |-> 1, record |-> <<>>] ELSE next(h[j - 1])]
    <3>. HIDE DEF h
    <3>1. \A j \in 0 .. m : j # 0 => h[j - 1] = g[j - 1]
      BY <2>4, <2>5
    <3>2. h = [j \in 0 .. m |-> IF j = 0 THEN [symbols |-> s, at |-> 1, record |-> <<>>] ELSE next(g[j - 1])]
      BY DEF h
    <3>. QED BY <3>1, <3>2
  <2>. HIDE DEF h
  <2>7. IsRounds(h, s, p, new, m)
    BY <2>6 DEF IsRounds, next
  <2>. QED BY <2>7, <1>3
<1>. QED BY <1>3, <1>4, <1>5

(* The rounds start with nothing noted.                                    *)
LEMMA RoundStart ==
  ASSUME NEW new \in Nat, NEW s \in Seq(Ids(new)), NEW p \in Ids(new) \X Ids(new)
  PROVE  Round([symbols |-> s, at |-> 1, record |-> <<>>], s, p, new, 0)
<1>. DEFINE start == [symbols |-> s, at |-> 1, record |-> <<>>]
<1>. SUFFICES Round(start, s, p, new, 0)
  OBVIOUS
<1>1. s \in Seq(0 .. new) /\ Len(s) \in Nat
  <2>1. \A k \in DOMAIN s : s[k] \in 0 .. new
    BY DEF Ids
  <2>. QED BY <2>1
<1>2. start \in Progress(new)
  BY <1>1 DEF Progress
<1>3. \A k \in Places(s, p) : k >= 1
  BY DEF Places
<1>4. \A q : NetChange(<<>>, q) = 0
  <2>1. \A x : Hits(<<>>, x) = {}
    BY DEF Hits
  <2>2. Cardinality({}) = 0
    BY FS_EmptySet
  <2>. TAKE q
  <2>3. Cardinality(Hits(<<>>, <<q, 1>>)) = 0 /\ Cardinality(Hits(<<>>, <<q, -1>>)) = 0
    BY <2>1, <2>2
  <2>. QED BY <2>3, NetChangeIsHits
<1>5. \A q : Cardinality(Places(s, q)) = Cardinality(Places(s, q)) + NetChange(<<>>, q)
  <2>1. \A q : Cardinality(Places(s, q)) \in Nat
    BY PlacesFinite
  <2>. QED BY <1>4, <2>1
<1>6. ToSet(<<>>) = {}
  BY DEF ToSet
<1>7. Faithful(start, s, p, new)
  BY <1>5, <1>6 DEF Faithful, Known
<1>8. start.symbols = s /\ start.at = 1
  OBVIOUS
<1>. HIDE DEF start
<1>. QED BY <1>1, <1>2, <1>3, <1>7, <1>8 DEF Round

LEMMA UpdateWordRounds ==
  ASSUME NEW new \in Nat, NEW s \in Seq(Ids(new)), NEW p \in Ids(new) \X Ids(new)
  PROVE  Round(UpdateWord(s, p, new), s, p, new, Len(s))
<1>. DEFINE n == Len(s)
            start == [symbols |-> s, at |-> 1, record |-> <<>>]
            c == CHOOSE g : IsRounds(g, s, p, new, n)
<1>1. n \in Nat
  OBVIOUS
<1>2. IsRounds(c, s, p, new, n)
  BY <1>1, RoundsExist
<1>3. UpdateWord(s, p, new) = c[n]
  BY DEF UpdateWord, IsRounds
<1>. HIDE DEF c, n
<1>4. c[0] = start
  BY <1>1, <1>2 DEF IsRounds
<1>5. \A m \in Nat : m < n => c[m + 1] = UpdateRound(c[m], p, new)
  <2>. TAKE m \in Nat
  <2>1. HAVE m < n
  <2>2. m + 1 \in 0 .. n /\ m + 1 # 0 /\ (m + 1) - 1 = m
    BY <1>1, <2>1
  <2>. QED BY <1>2, <2>2 DEF IsRounds
<1>6. Round(start, s, p, new, 0)
  BY RoundStart
<1>. HIDE DEF start
<1>. DEFINE Bad == {m \in Nat : m <= n /\ ~Round(c[m], s, p, new, m)}
<1>7. Bad = {}
  <2>1. SUFFICES ASSUME Bad # {} PROVE FALSE
    OBVIOUS
  <2>2. Bad \in SUBSET Nat
    OBVIOUS
  <2>3. PICK m \in Bad : \A k \in Bad : m <= k
    <3>. HIDE DEF Bad
    <3>. QED BY <2>1, <2>2, LeastNumber
  <2>4. m \in Nat /\ m <= n /\ ~Round(c[m], s, p, new, m)
    OBVIOUS
  <2>5. m # 0
    BY <1>4, <1>6, <2>4
  <2>6. m - 1 \in Nat /\ m - 1 < n /\ (m - 1) + 1 = m /\ m - 1 \notin Bad
    <3>1. m - 1 \in Nat /\ m - 1 < n /\ (m - 1) + 1 = m /\ ~(m <= m - 1)
      BY <1>1, <2>4, <2>5
    <3>. HIDE DEF Bad
    <3>. QED BY <2>3, <3>1
  <2>7. Round(c[m - 1], s, p, new, m - 1)
    BY <1>1, <2>6
  <2>8. Round(UpdateRound(c[m - 1], p, new), s, p, new, (m - 1) + 1)
    BY <2>6, <2>7, RoundStep
  <2>9. c[(m - 1) + 1] = UpdateRound(c[m - 1], p, new)
    BY <1>5, <2>6
  <2>. QED BY <2>4, <2>6, <2>8, <2>9
<1>8. Round(c[n], s, p, new, n)
  BY <1>1, <1>7
<1>. QED BY <1>3, <1>8 DEF n

(* The rounds of simple_bpe_merge, up to n.                                *)
IsMerges(g, map, s, n) ==
  g = [m \in 0 .. n |-> IF m = 0 THEN s ELSE MergeRound(map, g[m - 1])]

LEMMA MergesExist ==
  ASSUME NEW map, NEW s, NEW n \in Nat
  PROVE  \E g : IsMerges(g, map, s, n)
<1>. DEFINE Bad == {m \in Nat : ~ \E g : IsMerges(g, map, s, m)}
            next(x) == MergeRound(map, x)
<1>1. SUFFICES ASSUME n \in Bad PROVE FALSE
  OBVIOUS
<1>. HIDE DEF Bad
<1>2. PICK m \in Bad : \A k \in Bad : m <= k
  <2>1. Bad \in SUBSET Nat
    BY DEF Bad
  <2>. QED BY <1>1, <2>1, LeastNumber
<1>3. m \in Nat /\ ~ \E g : IsMerges(g, map, s, m)
  BY <1>2 DEF Bad
<1>4. CASE m = 0
  <2>. DEFINE h == [j \in 0 .. 0 |-> s]
  <2>1. h = [j \in 0 .. 0 |-> IF j = 0 THEN s ELSE next(h[j - 1])]
    OBVIOUS
  <2>. HIDE DEF h
  <2>2. IsMerges(h, map, s, 0)
    BY <2>1 DEF IsMerges
  <2>. QED BY <2>2, <1>3, <1>4
<1>5. CASE m > 0
  <2>1. m - 1 \in Nat /\ m - 1 \notin Bad
    BY <1>2, <1>3, <1>5
  <2>2. PICK g : IsMerges(g, map, s, m - 1)
    BY <2>1 DEF Bad
  <2>3. g = [j \in 0 .. m - 1 |-> IF j = 0 THEN s ELSE next(g[j - 1])]
    BY <2>2 DEF IsMerges
  <2>. HIDE DEF next
  <2>. DEFINE h == [j \in 0 .. m |-> IF j = 0 THEN s ELSE next(g[j - 1])]
  <2>4. ASSUME NEW j \in 0 .. m - 1 PROVE h[j] = g[j]
    <3>1. j \in 0 .. m
      BY <1>3
    <3>2. g[j] = IF j = 0 THEN s ELSE next(g[j - 1])
      BY <2>3
    <3>. QED BY <3>1, <3>2
  <2>5. \A j \in 0 .. m : j # 0 => j - 1 \in 0 .. m - 1
    BY <1>3
  <2>6. h = [j \in 0 .. m |-> IF j = 0 THEN s ELSE next(h[j - 1])]
    <3>. HIDE DEF h
    <3>1. \A j \in 0 .. m : j # 0 => h[j - 1] = g[j - 1]
      BY <2>4, <2>5
    <3>2. h = [j \in 0 .. m |-> IF j = 0 THEN s ELSE next(g[j - 1])]
      BY DEF h
    <3>. QED BY <3>1, <3>2
  <2>. HIDE DEF h
  <2>7. IsMerges(h, map, s, m)
    BY <2>6 DEF IsMerges, next
  <2>. QED BY <2>7, <1>3
<1>. QED BY <1>3, <1>4, <1>5

(* The symbols of a word stay in S when those of the map are.              *)
(* What a round of simple_bpe_merge finds in t: nothing, or the place of   *)
(* the lowest merged id, and of those the leftmost.                        *)
Stuck(map, t) == \A j \in 1 .. Len(t) - 1 : PairAt(t, j) \notin DOMAIN map

BestPlace(map, t, i) ==
  /\ i \in 1 .. Len(t) - 1 /\ PairAt(t, i) \in DOMAIN map
  /\ \A j \in 1 .. Len(t) - 1 : PairAt(t, j) \in DOMAIN map =>
       \/ map[PairAt(t, i)] < map[PairAt(t, j)]
       \/ map[PairAt(t, i)] = map[PairAt(t, j)] /\ i <= j

LEMMA MergeRoundCases ==
  ASSUME NEW S \in SUBSET Nat, NEW map, \A x \in DOMAIN map : map[x] \in S, NEW t \in Seq(S)
  PROVE  \/ Stuck(map, t) /\ MergeRound(map, t) = t
         \/ \E i : BestPlace(map, t, i) /\ MergeRound(map, t) = Merged(t, i, map[PairAt(t, i)])
<1>. DEFINE can == {i \in 1 .. Len(t) - 1 : <<t[i], t[i + 1]>> \in DOMAIN map}
            id(i) == map[<<t[i], t[i + 1]>>]
            least(i) == \A j \in can : id(i) < id(j) \/ (id(i) = id(j) /\ i <= j)
            best == CHOOSE i \in can : least(i)
<1>1. MergeRound(map, t) = IF can = {} THEN t ELSE Merged(t, best, id(best))
  BY DEF MergeRound
<1>2. \A i \in can : i \in 1 .. Len(t) - 1 /\ i \in Nat /\ id(i) \in S /\ id(i) \in Nat
  <2>. TAKE i \in can
  <2>1. i \in 1 .. Len(t) - 1 /\ <<t[i], t[i + 1]>> \in DOMAIN map
    OBVIOUS
  <2>2. map[<<t[i], t[i + 1]>>] \in S
    BY <2>1
  <2>3. \A x \in S : x \in Nat
    OBVIOUS
  <2>4. i \in Nat
    BY <2>1
  <2>5. map[<<t[i], t[i + 1]>>] \in Nat
    BY <2>2, <2>3
  <2>. HIDE DEF can
  <2>. QED BY <2>1, <2>2, <2>4, <2>5
<1>3. CASE can = {}
  <2>1. Stuck(map, t)
    BY <1>3 DEF Stuck, PairAt
  <2>. QED BY <1>1, <1>3, <2>1
<1>4. CASE can # {}
  <2>. DEFINE ids == {id(i) : i \in can}
  <2>1. ids \in SUBSET Nat /\ ids # {}
    BY <1>2, <1>4
  <2>2. PICK m \in ids : \A k \in ids : m <= k
    <3>. HIDE DEF ids
    <3>. QED BY <2>1, LeastNumber
  <2>. DEFINE first == {i \in can : id(i) = m}
  <2>3. first \in SUBSET Nat /\ first # {}
    BY <1>2, <2>2
  <2>4. PICK i \in first : \A j \in first : i <= j
    <3>. HIDE DEF first
    <3>. QED BY <2>3, LeastNumber
  <2>5. i \in can /\ least(i)
    <3>1. i \in can /\ id(i) = m
      OBVIOUS
    <3>2. ASSUME NEW j \in can PROVE id(i) < id(j) \/ (id(i) = id(j) /\ i <= j)
      <4>1. id(j) \in ids /\ m <= id(j) /\ id(j) \in Nat /\ m \in Nat
        BY <1>2, <2>1, <2>2
      <4>2. id(j) = m => i <= j
        BY <2>4
      <4>. HIDE DEF id, can
      <4>. QED BY <3>1, <4>1, <4>2
    <3>. QED BY <3>1, <3>2
  <2>6. best \in can /\ least(best)
    <3>. HIDE DEF least, can
    <3>. QED BY <2>5
  <2>. HIDE DEF best
  <2>7. BestPlace(map, t, best)
    BY <2>6 DEF BestPlace, PairAt
  <2>8. id(best) = map[PairAt(t, best)]
    BY DEF PairAt
  <2>. HIDE DEF id, can
  <2>. QED BY <1>1, <1>4, <2>7, <2>8
<1>. HIDE DEF can
<1>. QED BY <1>3, <1>4

LEMMA SimpleBpeMergeType ==
  ASSUME NEW S \in SUBSET Nat, NEW map, \A x \in DOMAIN map : map[x] \in S, NEW s \in Seq(S)
  PROVE  SimpleBpeMerge(map, s) \in Seq(S)
<1>. DEFINE n == Len(s)
            c == CHOOSE g : IsMerges(g, map, s, n)
<1>1. n \in Nat
  OBVIOUS
<1>2. IsMerges(c, map, s, n)
  BY <1>1, MergesExist
<1>3. SimpleBpeMerge(map, s) = c[n]
  BY DEF SimpleBpeMerge, IsMerges
<1>. HIDE DEF c, n
<1>4. c[0] = s
  BY <1>1, <1>2 DEF IsMerges
<1>5. \A m \in Nat : m < n => c[m + 1] = MergeRound(map, c[m])
  <2>. TAKE m \in Nat
  <2>1. HAVE m < n
  <2>2. m + 1 \in 0 .. n /\ m + 1 # 0 /\ (m + 1) - 1 = m
    BY <1>1, <2>1
  <2>. QED BY <1>2, <2>2 DEF IsMerges
<1>6. ASSUME NEW t \in Seq(S) PROVE MergeRound(map, t) \in Seq(S)
  <2>1. CASE Stuck(map, t) /\ MergeRound(map, t) = t
    BY <2>1
  <2>2. CASE \E i : BestPlace(map, t, i) /\ MergeRound(map, t) = Merged(t, i, map[PairAt(t, i)])
    <3>1. PICK i : BestPlace(map, t, i) /\ MergeRound(map, t) = Merged(t, i, map[PairAt(t, i)])
      BY <2>2
    <3>. DEFINE x == map[PairAt(t, i)]
    <3>2. i \in 1 .. Len(t) - 1 /\ x \in S
      BY <3>1 DEF BestPlace
    <3>. HIDE DEF x
    <3>3. Merged(t, i, x) \in Seq(S)
      BY <3>2, MergedFacts
    <3>. QED BY <3>1, <3>3 DEF x
  <2>. QED BY <2>1, <2>2, MergeRoundCases
<1>. DEFINE Bad == {m \in Nat : m <= n /\ c[m] \notin Seq(S)}
<1>7. Bad = {}
  <2>1. SUFFICES ASSUME Bad # {} PROVE FALSE
    OBVIOUS
  <2>2. Bad \in SUBSET Nat
    OBVIOUS
  <2>3. PICK m \in Bad : \A k \in Bad : m <= k
    <3>. HIDE DEF Bad
    <3>. QED BY <2>1, <2>2, LeastNumber
  <2>4. m \in Nat /\ m <= n /\ c[m] \notin Seq(S)
    OBVIOUS
  <2>5. m # 0
    BY <1>4, <2>4
  <2>6. m - 1 \in Nat /\ m - 1 < n /\ (m - 1) + 1 = m /\ m - 1 \notin Bad
    <3>1. m - 1 \in Nat /\ m - 1 < n /\ (m - 1) + 1 = m /\ ~(m <= m - 1)
      BY <1>1, <2>4, <2>5
    <3>. HIDE DEF Bad
    <3>. QED BY <2>3, <3>1
  <2>7. c[m - 1] \in Seq(S)
    BY <1>1, <2>6
  <2>8. MergeRound(map, c[m - 1]) \in Seq(S)
    BY <1>6, <2>7
  <2>9. c[(m - 1) + 1] = MergeRound(map, c[m - 1])
    BY <1>5, <2>6
  <2>. QED BY <2>4, <2>6, <2>8, <2>9
<1>8. c[n] \in Seq(S)
  BY <1>1, <1>7
<1>. QED BY <1>3, <1>8

LEMMA UpdateWordFacts ==
  ASSUME NEW new \in Nat, NEW s \in Seq(Ids(new)), NEW p \in Ids(new) \X Ids(new), NEW u,
         u = UpdateWord(s, p, new)
  PROVE  /\ u.symbols \in Seq(0 .. new) /\ u.record \in Seq(Pairs(new) \X {1, -1})
         /\ p \notin AdjacentPairs(u.symbols)
         /\ Faithful(u, s, p, new)
         /\ \A q : q \notin {u.record[k][1] : k \in DOMAIN u.record} => NetChange(u.record, q) = 0
         /\ \A q \in Ids(new) \X Ids(new) : NetChange(u.record, q) <= 0
<1>. DEFINE t == u.symbols
            e == u.record
<1>0. Round(u, s, p, new, Len(s))
  BY UpdateWordRounds
<1>1. /\ t \in Seq(0 .. new) /\ u.at \in Nat /\ e \in Seq(Pairs(new) \X {1, -1})
      /\ Len(t) \in Nat /\ Len(s) \in Nat /\ Len(t) <= Len(s)
      /\ u.at >= Len(t) \/ u.at = Len(s) + 1
      /\ \A k \in Places(t, p) : k >= u.at
      /\ Faithful(u, s, p, new)
  BY <1>0 DEF Round, Progress
<1>2. p \notin AdjacentPairs(t)
  <2>1. SUFFICES ASSUME p \in AdjacentPairs(t) PROVE FALSE
    OBVIOUS
  <2>2. PICK k \in 1 .. Len(t) - 1 : p = <<t[k], t[k + 1]>>
    BY <2>1 DEF AdjacentPairs
  <2>3. k \in Places(t, p)
    BY <2>2 DEF Places
  <2>4. k >= u.at /\ k \in Nat /\ k <= Len(t) - 1
    BY <1>1, <2>3
  <2>. HIDE DEF t
  <2>. QED BY <1>1, <2>4
<1>3. \A k \in DOMAIN e : e[k] \in ToSet(e) /\ e[k] = <<e[k][1], e[k][2]>>
  <2>1. \A k \in DOMAIN e : e[k] \in Pairs(new) \X {1, -1}
    BY <1>1
  <2>. QED BY <2>1 DEF ToSet
<1>4. \A x : Cardinality(Hits(e, x)) \in Nat
  <2>1. IsFiniteSet(DOMAIN e)
    <3>1. DOMAIN e = 1 .. Len(e) /\ Len(e) \in Nat
      BY <1>1
    <3>. HIDE DEF e
    <3>2. IsFiniteSet(1 .. Len(e))
      BY <3>1, FS_Interval
    <3>. QED BY <3>1, <3>2
  <2>2. \A x : Hits(e, x) \in SUBSET DOMAIN e
    BY DEF Hits
  <2>. QED BY <2>1, <2>2, FS_Subset, FS_CardinalityType
<1>5. Cardinality({}) = 0
  BY FS_EmptySet
<1>6. ASSUME NEW q, q \notin {e[k][1] : k \in DOMAIN e} PROVE NetChange(e, q) = 0
  <2>1. Hits(e, <<q, 1>>) = {} /\ Hits(e, <<q, -1>>) = {}
    BY <1>6 DEF Hits
  <2>2. Cardinality(Hits(e, <<q, 1>>)) = 0 /\ Cardinality(Hits(e, <<q, -1>>)) = 0
    BY <1>5, <2>1
  <2>. QED BY <2>2, NetChangeIsHits
<1>7. ASSUME NEW q \in Ids(new) \X Ids(new) PROVE NetChange(e, q) <= 0
  <2>1. Hits(e, <<q, 1>>) = {}
    <3>1. SUFFICES ASSUME NEW k \in DOMAIN e, e[k] = <<q, 1>> PROVE FALSE
      BY DEF Hits
    <3>2. e[k] \in ToSet(e) /\ e[k][1] = q /\ e[k][2] = 1
      BY <1>3, <3>1
    <3>. QED BY <1>1, <3>2 DEF Faithful
  <2>2. Cardinality(Hits(e, <<q, 1>>)) = 0 /\ Cardinality(Hits(e, <<q, -1>>)) \in Nat
    BY <1>4, <1>5, <2>1
  <2>. QED BY <2>2, NetChangeIsHits
<1>. HIDE DEF t, e
<1>8. /\ t \in Seq(0 .. new) /\ e \in Seq(Pairs(new) \X {1, -1})
      /\ p \notin AdjacentPairs(t)
      /\ Faithful(u, s, p, new)
      /\ \A q : q \notin {e[k][1] : k \in DOMAIN e} => NetChange(e, q) = 0
      /\ \A q \in Ids(new) \X Ids(new) : NetChange(e, q) <= 0
  BY <1>1, <1>2, <1>6, <1>7
<1>. QED BY <1>8 DEF t, e

-----------------------------------------------------------------------------
(* How often a pair occurs in some words.                                  *)

Terms(ws, q) == [w \in DOMAIN ws |-> ws[w].count * Cardinality(Places(ws[w].symbols, q))]

LEMMA WordType ==
  ASSUME NEW S, NEW ws \in Seq(WordOver(S)), NEW w \in DOMAIN ws
  PROVE  ws[w].symbols \in Seq(S) /\ ws[w].count \in Nat
<1>1. ws[w] \in WordOver(S)
  OBVIOUS
<1>. QED BY <1>1 DEF WordOver

LEMMA TermsSummable ==
  ASSUME NEW S, NEW ws \in Seq(WordOver(S)), NEW q
  PROVE  /\ Summable(Terms(ws, q)) /\ DOMAIN Terms(ws, q) = DOMAIN ws
         /\ PairCount(ws, q) = SumFunction(Terms(ws, q))
<1>1. IsFiniteSet(DOMAIN ws)
  BY FS_Interval
<1>2. ASSUME NEW w \in DOMAIN ws
      PROVE  ws[w].count * Cardinality(Places(ws[w].symbols, q)) \in Int
  <2>1. ws[w].symbols \in Seq(S) /\ ws[w].count \in Nat
    BY WordType
  <2>2. Cardinality(Places(ws[w].symbols, q)) \in Nat
    BY <2>1, PlacesFinite
  <2>. QED BY <2>1, <2>2
<1>. QED BY <1>1, <1>2 DEF Summable, Terms, PairCount

LEMMA PairCountGone ==
  ASSUME NEW S, NEW ws \in Seq(WordOver(S)), NEW q, q \notin PairsOf(ws)
  PROVE  PairCount(ws, q) = 0
<1>1. ASSUME NEW w \in DOMAIN ws PROVE Terms(ws, q)[w] = 0
  <2>1. q \notin AdjacentPairs(ws[w].symbols)
    BY DEF PairsOf
  <2>2. Places(ws[w].symbols, q) = {}
    BY <2>1 DEF Places, AdjacentPairs
  <2>3. Cardinality(Places(ws[w].symbols, q)) = 0
    BY <2>2, FS_EmptySet
  <2>4. ws[w].count \in Nat
    BY WordType
  <2>5. ws[w].count * Cardinality(Places(ws[w].symbols, q)) = 0
    BY <2>3, <2>4
  <2>. QED BY <2>5 DEF Terms
<1>. QED BY <1>1, TermsSummable, SumZero

LEMMA PairCountChanges ==
  ASSUME NEW S, NEW ws \in Seq(WordOver(S)), NEW vs \in Seq(WordOver(S)), NEW q,
         DOMAIN vs = DOMAIN ws, NEW w \in DOMAIN ws, vs[w].count = ws[w].count,
         \A x \in DOMAIN ws : x # w => vs[x] = ws[x],
         NEW d \in Int,
         Cardinality(Places(vs[w].symbols, q)) = Cardinality(Places(ws[w].symbols, q)) + d
  PROVE  PairCount(ws, q) \in Int /\ PairCount(vs, q) = PairCount(ws, q) + ws[w].count * d
<1>. DEFINE f == Terms(ws, q)
            h == Terms(vs, q)
            c == ws[w].count
            a == Cardinality(Places(ws[w].symbols, q))
            b == Cardinality(Places(vs[w].symbols, q))
<1>1. /\ Summable(f) /\ DOMAIN f = DOMAIN ws /\ PairCount(ws, q) = SumFunction(f)
      /\ Summable(h) /\ DOMAIN h = DOMAIN ws /\ PairCount(vs, q) = SumFunction(h)
  BY TermsSummable
<1>2. f[w] = c * a /\ h[w] = c * b
  BY DEF Terms
<1>3. \A x \in DOMAIN f : x # w => f[x] = h[x]
  BY <1>1 DEF Terms
<1>4. c \in Nat /\ a \in Nat /\ b = a + d
  <2>1. ws[w].symbols \in Seq(S) /\ ws[w].count \in Nat
    BY WordType
  <2>. QED BY <2>1, PlacesFinite
<1>. HIDE DEF f, h, c, a, b
<1>5. SumFunction(h) = SumFunction(f) + h[w] - f[w]
  BY <1>1, <1>3, SumChanges
<1>6. SumFunction(f) \in Int
  BY <1>1, SumType
<1>7. c * b = c * a + c * d
  <2>1. \A x, y, z \in Int : x * (y + z) = x * y + x * z
    OBVIOUS
  <2>. QED BY <1>4, <2>1
<1>8. c * a \in Int /\ c * d \in Int
  BY <1>4
<1>9. SumFunction(h) = SumFunction(f) + c * d
  BY <1>2, <1>5, <1>6, <1>7, <1>8
<1>. QED BY <1>1, <1>6, <1>9 DEF c

LEMMA WordsWiden ==
  ASSUME NEW S, NEW T, S \subseteq T, NEW ws \in Seq(WordOver(S))
  PROVE  ws \in Seq(WordOver(T))
<1>1. ASSUME NEW s \in Seq(S) PROVE s \in Seq(T)
  <2>1. \A k \in DOMAIN s : s[k] \in T
    OBVIOUS
  <2>. QED BY <2>1
<1>2. ASSUME NEW w \in DOMAIN ws PROVE ws[w] \in WordOver(T)
  <2>1. ws[w] \in WordOver(S)
    OBVIOUS
  <2>. QED BY <1>1, <2>1 DEF WordOver
<1>. QED BY <1>2

LEMMA AdjacentTyped ==
  ASSUME NEW S, NEW s \in Seq(S), NEW q \in AdjacentPairs(s)
  PROVE  q \in S \X S
<1>1. PICK i \in 1 .. Len(s) - 1 : q = <<s[i], s[i + 1]>>
  BY DEF AdjacentPairs
<1>2. i \in 1 .. Len(s) /\ i + 1 \in 1 .. Len(s)
  OBVIOUS
<1>3. s[i] \in S /\ s[i + 1] \in S
  BY <1>2
<1>. QED BY <1>1, <1>3

LEMMA PairsTyped ==
  ASSUME NEW S, NEW ws \in Seq(WordOver(S)), NEW q \in PairsOf(ws)
  PROVE  q \in S \X S
<1>1. PICK w \in DOMAIN ws : q \in AdjacentPairs(ws[w].symbols)
  BY DEF PairsOf
<1>. QED BY <1>1, WordType, AdjacentTyped

LEMMA NoEmptyPair ==
  ASSUME NEW S, NEW q \in S \X S
  PROVE  q # <<>>
OBVIOUS

(* Words counted afresh. *)
LEMMA CountingAfresh ==
  ASSUME NEW S, NEW ws \in Seq(WordOver(S)), NEW c, c = CountPairs(ws),
         NEW b, b = BuildContainedInWords(ws)
  PROVE  /\ \A p \in DOMAIN c : c[p] \in Int /\ p \in S \X S
         /\ \A p : (IF p \in DOMAIN c THEN c[p] ELSE 0) = PairCount(ws, p)
         /\ DOMAIN c = PairsOf(ws) /\ DOMAIN b = PairsOf(ws)
         /\ \A p \in DOMAIN b : b[p] \subseteq DOMAIN ws
         /\ \A w \in DOMAIN ws : \A p \in AdjacentPairs(ws[w].symbols) : p \in DOMAIN b /\ w \in b[p]
<1>1. DOMAIN c = PairsOf(ws) /\ \A p \in PairsOf(ws) : c[p] = PairCount(ws, p)
  BY DEF CountPairs
<1>2. DOMAIN b = PairsOf(ws) /\ \A p \in PairsOf(ws) :
        b[p] = {w \in DOMAIN ws : p \in AdjacentPairs(ws[w].symbols)}
  BY DEF BuildContainedInWords
<1>3. \A p : PairCount(ws, p) \in Int
  BY TermsSummable, SumType
<1>4. \A p : p \notin PairsOf(ws) => PairCount(ws, p) = 0
  BY PairCountGone
<1>5. \A w \in DOMAIN ws : \A p \in AdjacentPairs(ws[w].symbols) : p \in PairsOf(ws)
  BY DEF PairsOf
<1>6. \A p \in PairsOf(ws) : p \in S \X S
  BY PairsTyped
<1>. QED BY <1>1, <1>2, <1>3, <1>4, <1>5, <1>6

-----------------------------------------------------------------------------
(* The invariant holds when training starts.                               *)

LEMMA InitInv == Init => IInv
<1>. SUFFICES ASSUME Init PROVE IInv
  OBVIOUS
<1>. DEFINE B == Cardinality(Bytes)
            n == Len(symbols)
            first == [b \in 1 .. B |-> <<b - 1>>]
<1>1. B \in Nat /\ Bytes = 0 .. B - 1
  BY TrainerAssumption, FS_CardinalityType
<1>. HIDE DEF B
<1>2. first \in Seq(Seq(Nat)) /\ Len(first) = B
  <2>1. \A b \in 1 .. B : <<b - 1>> \in Seq(Nat)
    BY <1>1
  <2>. QED BY <1>1, <2>1
<1>3. symbols \in Seq(Seq(Nat)) /\ n \in Nat /\ B <= n
  <2>1. symbols = first \o Specials
    BY DEF Init, B
  <2>2. Specials \in Seq(Seq(Nat)) /\ Len(Specials) \in Nat
    BY TrainerAssumption
  <2>. HIDE DEF first
  <2>3. symbols \in Seq(Seq(Nat)) /\ Len(symbols) = B + Len(Specials)
    BY <1>2, <2>1, <2>2
  <2>. QED BY <1>1, <2>2, <2>3
<1>4. words \in Seq(Word) /\ units \in Seq(Word)
  BY TrainerAssumption DEF Init
<1>5. words \in Seq(WordOver(Ids(n)))
  <2>1. Bytes \subseteq Ids(n)
    BY <1>1, <1>3 DEF Ids
  <2>2. words \in Seq(WordOver(Bytes))
    <3>1. Word \subseteq WordOver(Bytes)
      BY DEF Word, WordOver
    <3>2. Seq(Word) \subseteq Seq(WordOver(Bytes))
      BY <3>1
    <3>. QED BY <1>4, <3>2
  <2>. QED BY <2>1, <2>2, WordsWiden
<1>6. /\ queue = CountPairs(words) /\ index = BuildContainedInWords(words)
      /\ merges = <<>> /\ pc = "pick" /\ pair = <<>> /\ todo = {} /\ changes = Empty /\ gained = {}
      /\ DOMAIN changes = {} /\ Fresh = n
  BY DEF Init, Empty, Fresh
<1>7. /\ \A p \in DOMAIN queue : queue[p] \in Int /\ p \in Ids(n) \X Ids(n)
      /\ \A p : (IF p \in DOMAIN queue THEN queue[p] ELSE 0) = PairCount(words, p)
      /\ DOMAIN queue = PairsOf(words) /\ DOMAIN index = PairsOf(words)
      /\ \A p \in DOMAIN index : index[p] \subseteq DOMAIN words
      /\ \A w \in DOMAIN words : \A p \in AdjacentPairs(words[w].symbols) :
            p \in DOMAIN index /\ w \in index[p]
  BY <1>5, <1>6, CountingAfresh
<1>. HIDE DEF n
<1>8. TrainerTypes
  <2>1. merges \in Seq(Seq(Nat) \X Seq(Nat)) /\ DOMAIN merges = {}
    BY <1>6
  <2>. QED BY <1>1, <1>3, <1>4, <1>5, <1>6, <1>7, <2>1 DEF TrainerTypes, n, B
<1>9. Counted
  <2>1. \A p : Due(p) = PairCount(words, p)
    <3>1. \A p : PairCount(words, p) \in Int
      BY <1>5, TermsSummable, SumType
    <3>2. \A p : p \notin DOMAIN changes
      BY <1>6
    <3>3. \A p : Due(p) = (IF p \in DOMAIN queue THEN queue[p] ELSE 0) + 0
      BY <3>2 DEF Due
    <3>. QED BY <1>7, <3>1, <3>3
  <2>. QED BY <2>1 DEF Counted
<1>10. Indexed
  BY <1>6, <1>7 DEF Indexed
<1>11. Updating
  BY <1>6 DEF Updating
<1>. QED BY <1>8, <1>9, <1>10, <1>11 DEF IInv

LEMMA PickInv ==
  ASSUME IInv, NEW p \in DOMAIN queue, Pick(p)
  PROVE  IInv'
<1>. DEFINE n == Len(symbols)
            x == BytesOf(symbols, p[1]) \o BytesOf(symbols, p[2])
            merge == <<BytesOf(symbols, p[1]), BytesOf(symbols, p[2])>>
<1>1. /\ pc = "pick" /\ pc' = "update" /\ words' = words /\ index' = index /\ units' = units
      /\ changes' = changes /\ gained' = gained /\ pair' = p /\ todo' = index[p]
      /\ queue' = [q \in DOMAIN queue \ {p} |-> queue[q]]
      /\ symbols' = Append(symbols, x) /\ merges' = Append(merges, merge)
  BY DEF Pick
<1>2. pair = <<>> /\ todo = {} /\ changes = Empty /\ gained = {} /\ DOMAIN changes = {}
  BY <1>1 DEF IInv, Updating, Empty
<1>3. /\ symbols \in Seq(Seq(Nat)) /\ Cardinality(Bytes) <= n
      /\ words \in Seq(WordOver(Ids(n))) /\ units \in Seq(Word)
      /\ merges \in Seq(Seq(Nat) \X Seq(Nat))
      /\ \A k \in DOMAIN merges :
           Spelled(merges[k][1]) /\ Spelled(merges[k][2]) /\ Spelled(merges[k][1] \o merges[k][2])
      /\ \A q \in DOMAIN queue : queue[q] \in Int /\ q \in Ids(n) \X Ids(n)
      /\ \A q \in DOMAIN index : index[q] \subseteq DOMAIN words
  BY <1>1 DEF IInv, TrainerTypes, Fresh
<1>4. n \in Nat /\ Cardinality(Bytes) \in Nat
  BY <1>3, TrainerAssumption, FS_CardinalityType
<1>5. p \in Ids(n) \X Ids(n) /\ p # <<>> /\ p[1] \in 0 .. n - 1 /\ p[2] \in 0 .. n - 1
  BY <1>3 DEF Ids
<1>6. BytesOf(symbols, p[1]) \in Seq(Nat) /\ BytesOf(symbols, p[2]) \in Seq(Nat) /\ x \in Seq(Nat)
  <2>1. p[1] + 1 \in 1 .. n /\ p[2] + 1 \in 1 .. n
    BY <1>4, <1>5
  <2>2. symbols[p[1] + 1] \in Seq(Nat) /\ symbols[p[2] + 1] \in Seq(Nat)
    BY <1>3, <2>1
  <2>. QED BY <2>2 DEF BytesOf
<1>. HIDE DEF x
<1>7. /\ symbols' \in Seq(Seq(Nat)) /\ Len(symbols') = n + 1
      /\ \A k \in 1 .. n : symbols'[k] = symbols[k]
      /\ symbols'[n + 1] = x
  BY <1>1, <1>3, <1>6
<1>. HIDE DEF n
<1>8. Fresh' = n /\ Fresh = n
  <2>1. Fresh' = Len(symbols') - 1
    BY <1>1 DEF Fresh
  <2>2. Fresh = n
    BY <1>1 DEF Fresh, n
  <2>. QED BY <1>4, <1>7, <2>1, <2>2
<1>9. ASSUME NEW y, Spelled(y) PROVE \E id \in Ids(n + 1) : BytesOf(symbols', id) = y
  <2>1. PICK id \in Ids(n) : BytesOf(symbols, id) = y
    BY <1>9 DEF Spelled, n
  <2>2. id + 1 \in 1 .. n /\ id \in Ids(n + 1)
    BY <1>4 DEF Ids
  <2>. QED BY <1>7, <2>1, <2>2 DEF BytesOf
<1>10. Spelled(BytesOf(symbols, p[1])) /\ Spelled(BytesOf(symbols, p[2]))
  BY <1>5 DEF Spelled, Ids, n
<1>11. \E id \in Ids(n + 1) : BytesOf(symbols', id) = x
  <2>1. n \in Ids(n + 1)
    BY <1>4 DEF Ids
  <2>. QED BY <1>7, <2>1 DEF BytesOf
<1>12. Ids(n) \subseteq Ids(n + 1)
  BY <1>4 DEF Ids
<1>13. merges' \in Seq(Seq(Nat) \X Seq(Nat)) /\ \A k \in DOMAIN merges' :
         Spelled(merges[k][1])' /\ Spelled(merges[k][2])' /\ Spelled(merges[k][1] \o merges[k][2])'
  <2>1. merge \in Seq(Nat) \X Seq(Nat) /\ merge[1] = BytesOf(symbols, p[1])
        /\ merge[2] = BytesOf(symbols, p[2]) /\ merge[1] \o merge[2] = x
    BY <1>6 DEF x
  <2>. HIDE DEF merge
  <2>2. merges' \in Seq(Seq(Nat) \X Seq(Nat)) /\ DOMAIN merges' = 1 .. Len(merges) + 1
        /\ Len(merges) \in Nat /\ DOMAIN merges = 1 .. Len(merges)
        /\ merges'[Len(merges) + 1] = merge
        /\ \A k \in 1 .. Len(merges) : merges'[k] = merges[k]
    BY <1>1, <1>3, <2>1
  <2>3. ASSUME NEW k \in DOMAIN merges'
        PROVE  /\ \E id \in Ids(n + 1) : BytesOf(symbols', id) = merges'[k][1]
               /\ \E id \in Ids(n + 1) : BytesOf(symbols', id) = merges'[k][2]
               /\ \E id \in Ids(n + 1) : BytesOf(symbols', id) = merges'[k][1] \o merges'[k][2]
    <3>1. CASE k \in 1 .. Len(merges)
      <4>1. merges'[k] = merges[k] /\ k \in DOMAIN merges
        BY <2>2, <3>1
      <4>2. Spelled(merges[k][1]) /\ Spelled(merges[k][2]) /\ Spelled(merges[k][1] \o merges[k][2])
        BY <1>3, <4>1
      <4>. QED BY <1>9, <4>1, <4>2
    <3>2. CASE k = Len(merges) + 1
      <4>1. merges'[k] = merge
        BY <2>2, <3>2
      <4>2. \E id \in Ids(n + 1) : BytesOf(symbols', id) = merge[1]
        BY <1>9, <1>10, <2>1
      <4>3. \E id \in Ids(n + 1) : BytesOf(symbols', id) = merge[2]
        BY <1>9, <1>10, <2>1
      <4>. QED BY <1>11, <2>1, <4>1, <4>2, <4>3
    <3>3. k \in 1 .. Len(merges) \/ k = Len(merges) + 1
      BY <2>2
    <3>. QED BY <3>1, <3>2, <3>3
  <2>. QED BY <1>7, <2>2, <2>3 DEF Spelled
<1>14. words \in Seq(WordOver(Ids(n + 1)))
  BY <1>3, <1>12, WordsWiden DEF n
<1>15. TrainerTypes'
  <2>1. Cardinality(Bytes) <= n + 1
    BY <1>3, <1>4 DEF n
  <2>2. /\ \A q \in DOMAIN queue' : queue'[q] \in Int
        /\ \A q \in DOMAIN queue' : q \in Ids(n) \X Ids(n)
    BY <1>1, <1>3 DEF n
  <2>. QED BY <1>1, <1>2, <1>3, <1>7, <1>8, <1>13, <1>14, <2>1, <2>2 DEF TrainerTypes
<1>16. \A q : q # p => Due(q)' = Due(q)
  <2>1. \A q : q # p => (q \in DOMAIN queue' <=> q \in DOMAIN queue)
    BY <1>1
  <2>2. \A q : q # p /\ q \in DOMAIN queue => queue'[q] = queue[q]
    BY <1>1
  <2>. QED BY <1>1, <2>1, <2>2 DEF Due
<1>17. Counted'
  <2>1. ASSUME NEW q, q # p, q # <<>>
        PROVE  \/ Due(q)' = PairCount(words, q)
               \/ q \in Ids(n) \X Ids(n) /\ q \notin PairsOf(words) /\ Due(q)' <= 0
    <3>1. \/ Due(q) = PairCount(words, q)
          \/ q \in Ids(n) \X Ids(n) /\ q \notin PairsOf(words) /\ Due(q) <= 0
      BY <1>2, <1>8, <2>1 DEF IInv, Counted
    <3>. QED BY <1>16, <2>1, <3>1
  <2>2. Due(<<>>)' = PairCount(words, <<>>)
    <3>1. <<>> \notin Ids(n) \X Ids(n)
      BY NoEmptyPair
    <3>2. PairCount(words, <<>>) = 0
      <4>1. <<>> \notin PairsOf(words)
        BY <1>3, <3>1, PairsTyped DEF n
      <4>. QED BY <1>3, <4>1, PairCountGone
    <3>3. <<>> \notin DOMAIN queue
      BY <1>3, <3>1 DEF n
    <3>4. <<>> \notin DOMAIN changes
      BY <1>2
    <3>5. Due(<<>>) = 0
      BY <3>3, <3>4 DEF Due
    <3>. QED BY <1>5, <1>16, <3>2, <3>5
  <2>. QED BY <1>1, <1>8, <2>1, <2>2 DEF Counted
<1>18. Indexed'
  <2>1. \A q \in PairsOf(words) : q \in DOMAIN queue' \cup DOMAIN changes' \cup {p}
    <3>1. \A q \in PairsOf(words) : q \in DOMAIN queue \cup DOMAIN changes \cup {pair}
      BY DEF IInv, Indexed
    <3>2. \A q \in PairsOf(words) : q # <<>>
      BY <1>3, PairsTyped, NoEmptyPair
    <3>. QED BY <1>1, <1>2, <3>1, <3>2
  <2>2. \A q \in DOMAIN queue' \cup DOMAIN changes' : q \in DOMAIN queue \cup DOMAIN changes
    BY <1>1
  <2>. QED BY <1>1, <2>1, <2>2 DEF IInv, Indexed
<1>19. Updating'
  <2>1. p \in DOMAIN index
    BY <1>2 DEF IInv, Indexed
  <2>2. \A w \in DOMAIN words \ index[p] : p \notin AdjacentPairs(words[w].symbols)
    BY <1>2 DEF IInv, Indexed
  <2>3. index[p] \subseteq DOMAIN words
    BY <1>3, <2>1
  <2>4. \A w \in index[p] : words[w].symbols \in Seq(Ids(n))
    BY <1>3, <2>3, WordType DEF n
  <2>5. Due(p)' <= 0
    <3>1. p \notin DOMAIN queue' /\ p \notin DOMAIN changes'
      BY <1>1, <1>2
    <3>2. Due(p)' = 0 + 0
      BY <3>1 DEF Due
    <3>. QED BY <3>2
  <2>. QED BY <1>1, <1>5, <1>8, <2>1, <2>2, <2>3, <2>4, <2>5 DEF Updating
<1>. QED BY <1>15, <1>17, <1>18, <1>19 DEF IInv

LEMMA UpdateOneInv ==
  ASSUME IInv, NEW w \in todo, UpdateOne(w)
  PROVE  IInv'
<1>. DEFINE n == Len(symbols) - 1
            s == words[w].symbols
            u == UpdateWord(s, pair, n)
            touched == {u.record[k][1] : k \in DOMAIN u.record}
            change(q) == words[w].count * NetChange(u.record, q)
            old(q) == IF q \in DOMAIN changes THEN changes[q] ELSE 0
<1>1. /\ pc = "update" /\ pc' = pc /\ symbols' = symbols /\ merges' = merges /\ queue' = queue
      /\ index' = index /\ units' = units /\ pair' = pair /\ todo' = todo \ {w}
      /\ words' = [words EXCEPT ![w].symbols = u.symbols]
      /\ changes' = [q \in DOMAIN changes \cup touched |-> old(q) + change(q)]
      /\ gained' = gained \cup {<<r[1], w>> : r \in {r \in ToSet(u.record) : r[2] > 0}}
  BY DEF UpdateOne
<1>2. Fresh = n /\ Fresh' = n
  BY <1>1 DEF Fresh
<1>3. /\ symbols \in Seq(Seq(Nat)) /\ Cardinality(Bytes) <= Len(symbols)
      /\ words \in Seq(WordOver(Ids(Len(symbols)))) /\ units \in Seq(Word)
      /\ merges \in Seq(Seq(Nat) \X Seq(Nat))
      /\ \A k \in DOMAIN merges :
           Spelled(merges[k][1]) /\ Spelled(merges[k][2]) /\ Spelled(merges[k][1] \o merges[k][2])
      /\ \A q \in DOMAIN queue : queue[q] \in Int /\ q \in Ids(n) \X Ids(n)
      /\ \A q \in DOMAIN changes :
           changes[q] \in Int /\ q \in Ids(Len(symbols)) \X Ids(Len(symbols))
      /\ \A q \in DOMAIN index : index[q] \subseteq DOMAIN words
      /\ \A g \in gained : g[2] \in DOMAIN words
  BY <1>2 DEF IInv, TrainerTypes
<1>4. /\ pair \in Ids(n) \X Ids(n) /\ Due(pair) <= 0 /\ pair \in DOMAIN index
      /\ w \in DOMAIN words /\ todo \subseteq DOMAIN words
      /\ \A v \in todo : words[v].symbols \in Seq(Ids(n))
      /\ \A v \in DOMAIN words \ todo : pair \notin AdjacentPairs(words[v].symbols)
      /\ s \in Seq(Ids(n)) /\ words[w].count \in Nat
  <2>1. /\ pair \in Ids(n) \X Ids(n) /\ Due(pair) <= 0 /\ pair \in DOMAIN index
        /\ todo \subseteq DOMAIN words
        /\ \A v \in todo : words[v].symbols \in Seq(Ids(n))
        /\ \A v \in DOMAIN words \ todo : pair \notin AdjacentPairs(words[v].symbols)
    BY <1>1, <1>2 DEF IInv, Updating
  <2>. QED BY <1>3, <2>1, WordType
<1>5. n \in Nat /\ Len(symbols) = n + 1 /\ Ids(Len(symbols)) = 0 .. n /\ Ids(n) \subseteq 0 .. n
  <2>1. Len(symbols) \in Nat
    BY <1>3
  <2>2. pair[1] \in 0 .. n - 1
    BY <1>4 DEF Ids
  <2>3. n \in Nat /\ Len(symbols) = n + 1
    BY <2>1, <2>2
  <2>. QED BY <2>3 DEF Ids
<1>. HIDE DEF n
<1>6. /\ u.symbols \in Seq(0 .. n) /\ u.record \in Seq(Pairs(n) \X {1, -1})
      /\ pair \notin AdjacentPairs(u.symbols)
      /\ Faithful(u, s, pair, n)
      /\ \A q : q \notin touched => NetChange(u.record, q) = 0
      /\ \A q \in Ids(n) \X Ids(n) : NetChange(u.record, q) <= 0
  BY <1>4, <1>5, UpdateWordFacts
<1>7. \A q : NetChange(u.record, q) \in Int
  BY <1>6, NetChangeType
<1>. HIDE DEF u
<1>8. /\ words' \in Seq(WordOver(Ids(Len(symbols)))) /\ DOMAIN words' = DOMAIN words
      /\ words'[w].symbols = u.symbols /\ words'[w].count = words[w].count
      /\ \A v \in DOMAIN words : v # w => words'[v] = words[v]
  <2>1. words[w] \in WordOver(0 .. n)
    BY <1>3, <1>4, <1>5
  <2>2. [words[w] EXCEPT !.symbols = u.symbols] \in WordOver(0 .. n)
    BY <1>6, <2>1 DEF WordOver
  <2>3. words' = [words EXCEPT ![w] = [words[w] EXCEPT !.symbols = u.symbols]]
    BY <1>1
  <2>4. words \in Seq(WordOver(0 .. n))
    BY <1>3, <1>5
  <2>5. words' \in Seq(WordOver(0 .. n))
    BY <1>4, <2>2, <2>3, <2>4
  <2>6. /\ [words[w] EXCEPT !.symbols = u.symbols].symbols = u.symbols
        /\ [words[w] EXCEPT !.symbols = u.symbols].count = words[w].count
    BY <2>1 DEF WordOver
  <2>. QED BY <1>4, <1>5, <2>3, <2>4, <2>5, <2>6
(* The loop never records a pair that was neither in the word nor new.     *)
<1>9. ASSUME NEW q, Known(s, u.record, q)
      PROVE  q \in AdjacentPairs(s) \/ <<q, w>> \in gained'
  <2>1. CASE <<q, 1>> \in ToSet(u.record)
    <3>. DEFINE r == <<q, 1>>
    <3>1. r \in {y \in ToSet(u.record) : y[2] > 0} /\ <<r[1], w>> = <<q, w>>
      BY <2>1
    <3>. HIDE DEF r
    <3>2. <<r[1], w>> \in gained'
      BY <1>1, <3>1
    <3>. QED BY <3>1, <3>2
  <2>. QED BY <1>9, <2>1 DEF Known
<1>10. /\ \A q \in AdjacentPairs(u.symbols) : Known(s, u.record, q)
       /\ \A q \in touched : Known(s, u.record, q)
       /\ \A q \in Ids(n) \X Ids(n) : <<q, 1>> \notin ToSet(u.record)
  <2>1. \A q \in touched : Known(s, u.record, q)
    <3>. TAKE q \in touched
    <3>1. PICK k \in DOMAIN u.record : q = u.record[k][1]
      OBVIOUS
    <3>2. u.record[k] \in ToSet(u.record)
      BY DEF ToSet
    <3>. QED BY <1>6, <3>1, <3>2 DEF Faithful
  <2>2. ASSUME NEW q \in Ids(n) \X Ids(n), <<q, 1>> \in ToSet(u.record) PROVE FALSE
    <3>. DEFINE y == <<q, 1>>
    <3>1. y \in ToSet(u.record) /\ y[1] = q /\ y[2] = 1
      BY <2>2
    <3>. HIDE DEF y
    <3>. QED BY <1>6, <3>1 DEF Faithful
  <2>. QED BY <1>6, <2>1, <2>2 DEF Faithful
<1>11. \A q \in touched : q \in Pairs(n)
  <2>. TAKE q \in touched
  <2>1. PICK k \in DOMAIN u.record : q = u.record[k][1]
    OBVIOUS
  <2>2. u.record[k] \in Pairs(n) \X {1, -1}
    BY <1>6
  <2>. QED BY <2>1, <2>2
<1>. HIDE DEF touched
<1>12. \A q : change(q) \in Int
  <2>. TAKE q
  <2>. QED BY <1>4, <1>7
<1>13. \A q \in DOMAIN changes' :
         changes'[q] \in Int /\ q \in Ids(Len(symbols)) \X Ids(Len(symbols))
  <2>. TAKE q \in DOMAIN changes'
  <2>1. q \in DOMAIN changes \cup touched /\ changes'[q] = old(q) + change(q)
    BY <1>1
  <2>2. old(q) \in Int
    BY <1>3
  <2>3. q \in Ids(Len(symbols)) \X Ids(Len(symbols))
    BY <1>3, <1>5, <1>11, <2>1 DEF Pairs
  <2>4. change(q) \in Int
    BY <1>12
  <2>. HIDE DEF old, change
  <2>. QED BY <2>1, <2>2, <2>3, <2>4
<1>14. \A q : Due(q) \in Int /\ Due(q)' = Due(q) + change(q)
  <2>. TAKE q
  <2>. DEFINE base == IF q \in DOMAIN queue THEN queue[q] ELSE 0
              then == IF q \in DOMAIN changes' THEN changes'[q] ELSE 0
  <2>1. base \in Int /\ old(q) \in Int /\ change(q) \in Int
    BY <1>3, <1>12
  <2>2. Due(q) = base + old(q)
    BY DEF Due
  <2>3. Due(q)' = base + then
    BY <1>1 DEF Due
  <2>4. then = old(q) + change(q)
    <3>1. CASE q \in DOMAIN changes \cup touched
      <4>1. q \in DOMAIN changes' /\ changes'[q] = old(q) + change(q)
        BY <1>1, <3>1
      <4>. HIDE DEF old, change
      <4>. QED BY <4>1
    <3>2. CASE q \notin DOMAIN changes \cup touched
      <4>1. q \notin DOMAIN changes' /\ old(q) = 0
        BY <1>1, <3>2
      <4>2. NetChange(u.record, q) = 0
        BY <1>6, <3>2
      <4>3. change(q) = 0
        BY <1>4, <4>2
      <4>. HIDE DEF old, change
      <4>. QED BY <4>1, <4>3
    <3>. QED BY <3>1, <3>2
  <2>. HIDE DEF base, then, old, change
  <2>. QED BY <2>1, <2>2, <2>3, <2>4
<1>15. \A q \in Ids(n) \X Ids(n) : change(q) <= 0
  <2>. TAKE q \in Ids(n) \X Ids(n)
  <2>1. NetChange(u.record, q) <= 0
    BY <1>6
  <2>2. \A a \in Nat, b \in Int : b <= 0 => a * b <= 0
    OBVIOUS
  <2>. QED BY <1>4, <1>7, <2>1, <2>2
<1>16. \A q : q # pair => /\ PairCount(words, q) \in Int
                         /\ PairCount(words', q) = PairCount(words, q) + change(q)
  <2>. TAKE q
  <2>1. HAVE q # pair
  <2>2. Cardinality(Places(words'[w].symbols, q))
          = Cardinality(Places(words[w].symbols, q)) + NetChange(u.record, q)
    BY <1>6, <1>8, <2>1 DEF Faithful
  <2>. DEFINE d == NetChange(u.record, q)
              S == Ids(Len(symbols))
  <2>3. d \in Int /\ words \in Seq(WordOver(S)) /\ words' \in Seq(WordOver(S))
        /\ w \in DOMAIN words
        /\ Cardinality(Places(words'[w].symbols, q)) = Cardinality(Places(words[w].symbols, q)) + d
    BY <1>3, <1>4, <1>7, <1>8, <2>2
  <2>. HIDE DEF d, S
  <2>4. PairCount(words, q) \in Int /\ PairCount(words', q) = PairCount(words, q) + words[w].count * d
    BY <1>8, <2>3, PairCountChanges
  <2>. QED BY <2>4 DEF d
<1>17. \A q : q \in PairsOf(words') => q \in PairsOf(words) \/ <<q, 1>> \in ToSet(u.record)
  <2>. TAKE q
  <2>1. HAVE q \in PairsOf(words')
  <2>2. PICK v \in DOMAIN words : q \in AdjacentPairs(words'[v].symbols)
    BY <1>8, <2>1 DEF PairsOf
  <2>3. CASE v = w
    <3>1. q \in AdjacentPairs(s) \/ <<q, 1>> \in ToSet(u.record)
      BY <1>8, <1>10, <2>2, <2>3 DEF Known
    <3>. QED BY <1>4, <3>1 DEF PairsOf
  <2>4. CASE v # w
    BY <1>8, <2>2, <2>4 DEF PairsOf
  <2>. QED BY <2>3, <2>4
<1>. HIDE DEF change, old
<1>18. TrainerTypes'
  <2>1. \A k \in DOMAIN merges :
          Spelled(merges[k][1])' /\ Spelled(merges[k][2])' /\ Spelled(merges[k][1] \o merges[k][2])'
    BY <1>1, <1>3 DEF Spelled
  <2>2. \A g \in gained' : g[2] \in DOMAIN words'
    BY <1>1, <1>3, <1>4, <1>8
  <2>. QED BY <1>1, <1>2, <1>3, <1>8, <1>13, <2>1, <2>2 DEF TrainerTypes
<1>19. Counted'
  <2>1. ASSUME NEW q, q # pair
        PROVE  \/ Due(q)' = PairCount(words', q)
               \/ q \in Ids(n) \X Ids(n) /\ q \notin PairsOf(words') /\ Due(q)' <= 0
    <3>1. \/ Due(q) = PairCount(words, q)
          \/ q \in Ids(n) \X Ids(n) /\ q \notin PairsOf(words) /\ Due(q) <= 0
      BY <1>2, <2>1 DEF IInv, Counted
    <3>2. CASE Due(q) = PairCount(words, q)
      BY <1>14, <1>16, <2>1, <3>2
    <3>3. CASE q \in Ids(n) \X Ids(n) /\ q \notin PairsOf(words) /\ Due(q) <= 0
      <4>1. q \notin PairsOf(words')
        BY <1>10, <1>17, <3>3
      <4>2. Due(q)' <= 0
        BY <1>12, <1>14, <1>15, <3>3
      <4>. QED BY <3>3, <4>1, <4>2
    <3>. QED BY <3>1, <3>2, <3>3
  <2>. QED BY <1>1, <1>2, <2>1 DEF Counted
<1>20. Indexed'
  <2>1. \A q \in touched : q \in DOMAIN changes'
    BY <1>1
  <2>2. DOMAIN changes \subseteq DOMAIN changes' /\ gained \subseteq gained'
    BY <1>1
  <2>3. \A q : <<q, 1>> \in ToSet(u.record) => q \in touched
    <3>. TAKE q
    <3>1. HAVE <<q, 1>> \in ToSet(u.record)
    <3>2. PICK k \in DOMAIN u.record : u.record[k] = <<q, 1>>
      BY <3>1 DEF ToSet
    <3>3. u.record[k][1] = q
      BY <3>2
    <3>. QED BY <3>3 DEF touched
  <2>4. \A q \in PairsOf(words') : q \in DOMAIN queue' \cup DOMAIN changes' \cup {pair'}
    <3>. TAKE q \in PairsOf(words')
    <3>1. q \in PairsOf(words) \/ q \in touched
      BY <1>17, <2>3
    <3>2. \A x \in PairsOf(words) : x \in DOMAIN queue \cup DOMAIN changes \cup {pair}
      BY DEF IInv, Indexed
    <3>. QED BY <1>1, <2>1, <2>2, <3>1, <3>2
  <2>5. \A v \in DOMAIN words : \A q \in AdjacentPairs(words[v].symbols) :
          (q \in DOMAIN index /\ v \in index[q]) \/ <<q, v>> \in gained
    BY DEF IInv, Indexed
  <2>6. ASSUME NEW v \in DOMAIN words', NEW q \in AdjacentPairs(words'[v].symbols)
        PROVE  (q \in DOMAIN index' /\ v \in index'[q]) \/ <<q, v>> \in gained'
    <3>1. CASE v = w
      <4>1. Known(s, u.record, q)
        BY <1>8, <1>10, <2>6, <3>1
      <4>2. q \in AdjacentPairs(s) \/ <<q, w>> \in gained'
        BY <1>9, <4>1
      <4>. QED BY <1>1, <1>4, <2>2, <2>5, <3>1, <4>2
    <3>2. CASE v # w
      <4>1. v \in DOMAIN words /\ q \in AdjacentPairs(words[v].symbols)
        BY <1>8, <2>6, <3>2
      <4>. QED BY <1>1, <2>2, <2>5, <4>1
    <3>. QED BY <3>1, <3>2
  <2>7. \A q \in DOMAIN queue' \cup DOMAIN changes' :
          q \in DOMAIN index' \/ \E g \in gained' : g[1] = q
    <3>. TAKE q \in DOMAIN queue' \cup DOMAIN changes'
    <3>1. q \in DOMAIN queue \cup DOMAIN changes \/ q \in touched
      BY <1>1
    <3>2. CASE q \in DOMAIN queue \cup DOMAIN changes
      <4>1. q \in DOMAIN index \/ \E g \in gained : g[1] = q
        BY <3>2 DEF IInv, Indexed
      <4>. QED BY <1>1, <2>2, <4>1
    <3>3. CASE q \in touched
      <4>1. Known(s, u.record, q)
        BY <1>10, <3>3
      <4>2. q \in AdjacentPairs(s) \/ <<q, w>> \in gained'
        BY <1>9, <4>1
      <4>3. CASE <<q, w>> \in gained'
        <5>. DEFINE g == <<q, w>>
        <5>1. g \in gained' /\ g[1] = q
          BY <4>3
        <5>. HIDE DEF g
        <5>. QED BY <5>1
      <4>4. CASE q \in AdjacentPairs(s)
        <5>1. q \in DOMAIN index \/ <<q, w>> \in gained
          BY <1>4, <2>5, <4>4
        <5>. QED BY <1>1, <2>2, <4>3, <5>1
      <4>. QED BY <4>2, <4>3, <4>4
    <3>. QED BY <3>1, <3>2, <3>3
  <2>. QED BY <2>4, <2>6, <2>7 DEF Indexed
<1>21. Updating'
  <2>1. Due(pair)' <= 0
    <3>1. ASSUME NEW q, q = pair PROVE Due(q)' <= 0
      BY <1>4, <1>12, <1>14, <1>15, <3>1
    <3>. QED BY <1>1, <3>1 DEF Due
  <2>2. \A v \in todo' : words'[v].symbols \in Seq(Ids(n))
    BY <1>1, <1>4, <1>8
  <2>3. \A v \in DOMAIN words' \ todo' : pair \notin AdjacentPairs(words'[v].symbols)
    <3>. TAKE v \in DOMAIN words' \ todo'
    <3>1. CASE v = w
      BY <1>6, <1>8, <3>1
    <3>2. CASE v # w
      <4>1. v \in DOMAIN words \ todo /\ words'[v] = words[v]
        BY <1>1, <1>8, <3>2
      <4>. QED BY <1>4, <4>1
    <3>. QED BY <3>1, <3>2
  <2>4. todo' \subseteq DOMAIN words'
    BY <1>1, <1>4, <1>8
  <2>. QED BY <1>1, <1>2, <1>4, <2>1, <2>2, <2>3, <2>4 DEF Updating
<1>. QED BY <1>18, <1>19, <1>20, <1>21 DEF IInv

LEMMA ApplyInv ==
  ASSUME IInv, Apply
  PROVE  IInv'
<1>. DEFINE n == Len(symbols) - 1
            added(q) == {g[2] : g \in {g \in gained : g[1] = q}}
            queued(q) == IF q \in DOMAIN queue THEN queue[q] ELSE 0
            changed(q) == IF q \in DOMAIN changes THEN changes[q] ELSE 0
            held(q) == IF q \in DOMAIN index THEN index[q] ELSE {}
<1>1. /\ pc = "update" /\ todo = {} /\ pc' = "pick" /\ pair' = <<>> /\ changes' = Empty
      /\ gained' = {} /\ todo' = {} /\ words' = words /\ symbols' = symbols
      /\ merges' = merges /\ units' = units
      /\ index' = [q \in DOMAIN index \cup {g[1] : g \in gained} |-> held(q) \cup added(q)]
      /\ queue' = [q \in DOMAIN queue \cup DOMAIN changes |-> queued(q) + changed(q)]
  BY DEF Apply
<1>2. Fresh = n /\ Fresh' = Len(symbols)
  BY <1>1 DEF Fresh
<1>3. /\ symbols \in Seq(Seq(Nat)) /\ Cardinality(Bytes) <= Len(symbols)
      /\ words \in Seq(WordOver(Ids(Len(symbols)))) /\ units \in Seq(Word)
      /\ merges \in Seq(Seq(Nat) \X Seq(Nat))
      /\ \A k \in DOMAIN merges :
           Spelled(merges[k][1]) /\ Spelled(merges[k][2]) /\ Spelled(merges[k][1] \o merges[k][2])
      /\ \A q \in DOMAIN queue : queue[q] \in Int /\ q \in Ids(n) \X Ids(n)
      /\ \A q \in DOMAIN changes :
           changes[q] \in Int /\ q \in Ids(Len(symbols)) \X Ids(Len(symbols))
      /\ \A q \in DOMAIN index : index[q] \subseteq DOMAIN words
      /\ \A g \in gained : g[2] \in DOMAIN words
  BY <1>2 DEF IInv, TrainerTypes
<1>4. /\ pair \in Ids(n) \X Ids(n) /\ Due(pair) <= 0
      /\ \A v \in DOMAIN words : pair \notin AdjacentPairs(words[v].symbols)
  BY <1>1, <1>2 DEF IInv, Updating
<1>5. \A q \in Ids(n) \X Ids(n) : q \in Ids(Len(symbols)) \X Ids(Len(symbols))
  <2>1. Len(symbols) \in Nat
    BY <1>3
  <2>2. Ids(n) \subseteq Ids(Len(symbols))
    BY <2>1 DEF Ids
  <2>. QED BY <2>2
<1>. HIDE DEF n
<1>6. \A q : queued(q) \in Int /\ changed(q) \in Int
  BY <1>3
<1>7. \A q : Due(q) = queued(q) + changed(q)
  BY DEF Due
<1>8. \A q : q \notin DOMAIN queue \cup DOMAIN changes => queued(q) + changed(q) = 0
  OBVIOUS
<1>9. \A q : q \in DOMAIN index' => index'[q] = held(q) \cup added(q)
  BY <1>1
<1>10. \A q : q \in DOMAIN index => held(q) = index[q]
  OBVIOUS
<1>11. \A q : q \notin DOMAIN index => held(q) = {}
  OBVIOUS
<1>12. \A q, v : <<q, v>> \in gained => q \in {g[1] : g \in gained} /\ v \in added(q)
  <2>. TAKE q, v
  <2>. DEFINE g == <<q, v>>
  <2>1. HAVE g \in gained
  <2>2. g[1] = q /\ g[2] = v
    OBVIOUS
  <2>. HIDE DEF g
  <2>. QED BY <2>1, <2>2
<1>13. \A q : added(q) \subseteq DOMAIN words
  BY <1>3
<1>. HIDE DEF queued, changed, held, added
<1>14. \A q : Due(q)' = Due(q)
  <2>. TAKE q
  <2>1. DOMAIN changes' = {}
    BY <1>1 DEF Empty
  <2>2. Due(q)' = (IF q \in DOMAIN queue' THEN queue'[q] ELSE 0) + 0
    BY <2>1 DEF Due
  <2>3. CASE q \in DOMAIN queue \cup DOMAIN changes
    <3>1. q \in DOMAIN queue' /\ queue'[q] = queued(q) + changed(q)
      BY <1>1, <2>3
    <3>. QED BY <1>6, <1>7, <2>2, <3>1
  <2>4. CASE q \notin DOMAIN queue \cup DOMAIN changes
    <3>1. q \notin DOMAIN queue'
      BY <1>1, <2>4
    <3>. QED BY <1>7, <1>8, <2>2, <2>4, <3>1
  <2>. QED BY <2>3, <2>4
<1>15. TrainerTypes'
  <2>1. \A k \in DOMAIN merges :
          Spelled(merges[k][1])' /\ Spelled(merges[k][2])' /\ Spelled(merges[k][1] \o merges[k][2])'
    BY <1>1, <1>3 DEF Spelled
  <2>2. \A q \in DOMAIN queue' : queue'[q] \in Int /\ q \in Ids(Len(symbols)) \X Ids(Len(symbols))
    <3>. TAKE q \in DOMAIN queue'
    <3>1. q \in DOMAIN queue \cup DOMAIN changes /\ queue'[q] = queued(q) + changed(q)
      BY <1>1
    <3>2. q \in Ids(Len(symbols)) \X Ids(Len(symbols))
      BY <1>3, <1>5, <3>1
    <3>. QED BY <1>6, <3>1, <3>2
  <2>3. \A q \in DOMAIN index' : index'[q] \subseteq DOMAIN words
    <3>. TAKE q \in DOMAIN index'
    <3>1. held(q) \subseteq DOMAIN words
      BY <1>3, <1>10, <1>11
    <3>. QED BY <1>9, <1>13, <3>1
  <2>4. DOMAIN changes' = {}
    BY <1>1 DEF Empty
  <2>. QED BY <1>1, <1>2, <1>3, <2>1, <2>2, <2>3, <2>4 DEF TrainerTypes
<1>16. Counted'
  <2>1. ASSUME NEW q, q # <<>>
        PROVE  \/ Due(q) = PairCount(words, q)
               \/ /\ q \in Ids(Len(symbols)) \X Ids(Len(symbols))
                  /\ q \notin PairsOf(words) /\ Due(q) <= 0
    <3>1. CASE q = pair
      <4>1. q \notin PairsOf(words)
        BY <1>4, <3>1 DEF PairsOf
      <4>. QED BY <1>4, <1>5, <3>1, <4>1
    <3>2. CASE q # pair
      <4>1. \/ Due(q) = PairCount(words, q)
            \/ q \in Ids(n) \X Ids(n) /\ q \notin PairsOf(words) /\ Due(q) <= 0
        BY <1>2, <3>2 DEF IInv, Counted
      <4>. QED BY <1>5, <4>1
    <3>. QED BY <3>1, <3>2
  <2>. QED BY <1>1, <1>2, <1>14, <2>1 DEF Counted
<1>17. Indexed'
  <2>1. \A q \in PairsOf(words) : q \in DOMAIN queue'
    <3>. TAKE q \in PairsOf(words)
    <3>1. q # pair
      BY <1>4 DEF PairsOf
    <3>2. q \in DOMAIN queue \cup DOMAIN changes \cup {pair}
      BY DEF IInv, Indexed
    <3>. QED BY <1>1, <3>1, <3>2
  <2>2. \A v \in DOMAIN words : \A q \in AdjacentPairs(words[v].symbols) :
          q \in DOMAIN index' /\ v \in index'[q]
    <3>. TAKE v \in DOMAIN words
    <3>. TAKE q \in AdjacentPairs(words[v].symbols)
    <3>1. (q \in DOMAIN index /\ v \in index[q]) \/ <<q, v>> \in gained
      BY DEF IInv, Indexed
    <3>2. CASE q \in DOMAIN index /\ v \in index[q]
      <4>1. q \in DOMAIN index' /\ v \in held(q)
        BY <1>1, <1>10, <3>2
      <4>. QED BY <1>9, <4>1
    <3>3. CASE <<q, v>> \in gained
      <4>1. q \in DOMAIN index' /\ v \in added(q)
        BY <1>1, <1>12, <3>3
      <4>. QED BY <1>9, <4>1
    <3>. QED BY <3>1, <3>2, <3>3
  <2>3. \A q \in DOMAIN queue' \cup DOMAIN changes' : q \in DOMAIN index'
    <3>. TAKE q \in DOMAIN queue' \cup DOMAIN changes'
    <3>1. q \in DOMAIN queue \cup DOMAIN changes
      BY <1>1 DEF Empty
    <3>2. q \in DOMAIN index \/ \E g \in gained : g[1] = q
      BY <3>1 DEF IInv, Indexed
    <3>. QED BY <1>1, <3>2
  <2>. QED BY <1>1, <2>1, <2>2, <2>3 DEF Indexed
<1>18. Updating'
  BY <1>1 DEF Updating
<1>. QED BY <1>15, <1>16, <1>17, <1>18 DEF IInv

LEMMA IdOfSpelled ==
  ASSUME symbols \in Seq(Seq(Nat)), NEW x, Spelled(x)
  PROVE  /\ IdOf(x) \in Ids(Len(symbols)) /\ BytesOf(symbols, IdOf(x)) = x
         /\ \A k \in Ids(Len(symbols)) : BytesOf(symbols, k) = x => IdOf(x) <= k
<1>. DEFINE same == {id \in 0 .. Len(symbols) - 1 : BytesOf(symbols, id) = x}
<1>1. same \in SUBSET Nat /\ same # {}
  <2>1. Len(symbols) \in Nat
    OBVIOUS
  <2>2. PICK id \in 0 .. Len(symbols) - 1 : BytesOf(symbols, id) = x
    BY DEF Spelled, Ids
  <2>3. \A k \in 0 .. Len(symbols) - 1 : k \in Nat
    BY <2>1
  <2>. QED BY <2>2, <2>3
<1>2. IdOf(x) = CHOOSE m \in same : \A k \in same : m <= k
  BY DEF IdOf, Min
<1>3. IdOf(x) \in same /\ \A k \in same : IdOf(x) <= k
  <2>. HIDE DEF same
  <2>1. \E m \in same : \A k \in same : m <= k
    BY <1>1, LeastNumber
  <2>. QED BY <1>2, <2>1
<1>. QED BY <1>3 DEF Ids

LEMMA ResumeInv ==
  ASSUME IInv, Resume
  PROVE  IInv'
<1>. DEFINE n == Len(symbols)
<1>1. /\ pc = "pick" /\ pc' = pc /\ symbols' = symbols /\ merges' = merges /\ units' = units
      /\ pair' = pair /\ todo' = todo /\ changes' = changes /\ gained' = gained
      /\ queue' = CountPairs(words') /\ index' = BuildContainedInWords(words')
      /\ words' = [u \in DOMAIN units |->
            [symbols |-> SimpleBpeMerge(MergeMap, units[u].symbols), count |-> units[u].count]]
  BY DEF Resume, update
<1>2. pair = <<>> /\ todo = {} /\ changes = Empty /\ gained = {}
  BY <1>1 DEF IInv, Updating
<1>3. /\ symbols \in Seq(Seq(Nat)) /\ Cardinality(Bytes) <= n /\ units \in Seq(Word)
      /\ merges \in Seq(Seq(Nat) \X Seq(Nat))
      /\ \A k \in DOMAIN merges :
           Spelled(merges[k][1]) /\ Spelled(merges[k][2]) /\ Spelled(merges[k][1] \o merges[k][2])
  BY DEF IInv, TrainerTypes
<1>4. n \in Nat /\ Fresh = n /\ Fresh' = n /\ Bytes \subseteq Ids(n)
  <2>1. n \in Nat
    BY <1>3
  <2>2. Cardinality(Bytes) \in Nat /\ Bytes = 0 .. Cardinality(Bytes) - 1
    BY TrainerAssumption, FS_CardinalityType
  <2>. QED BY <1>1, <1>3, <2>1, <2>2 DEF Fresh, Ids
<1>5. \A p \in DOMAIN MergeMap : MergeMap[p] \in Ids(n)
  <2>. TAKE p \in DOMAIN MergeMap
  <2>1. PICK m \in ToSet(merges) : p = <<IdOf(m[1]), IdOf(m[2])>>
    BY DEF MergeMap
  <2>2. PICK k \in DOMAIN merges : m = merges[k]
    BY <2>1 DEF ToSet
  <2>3. Spelled(m[1]) /\ Spelled(m[2]) /\ Spelled(m[1] \o m[2])
    BY <1>3, <2>2
  <2>4. BytesOf(symbols, IdOf(m[1])) = m[1] /\ BytesOf(symbols, IdOf(m[2])) = m[2]
    BY <1>3, <2>3, IdOfSpelled
  <2>5. p[1] = IdOf(m[1]) /\ p[2] = IdOf(m[2])
    BY <2>1
  <2>6. MergeMap[p] = IdOf(BytesOf(symbols, p[1]) \o BytesOf(symbols, p[2]))
    BY DEF MergeMap
  <2>7. MergeMap[p] = IdOf(m[1] \o m[2])
    BY <2>4, <2>5, <2>6
  <2>. QED BY <1>3, <2>3, <2>7, IdOfSpelled
<1>. DEFINE S == Ids(n)
<1>6. S \in SUBSET Nat
  BY <1>4 DEF Ids
<1>. HIDE DEF n
<1>7. words' \in Seq(WordOver(S))
  <2>1. ASSUME NEW u \in DOMAIN units
        PROVE  [symbols |-> SimpleBpeMerge(MergeMap, units[u].symbols), count |-> units[u].count]
                 \in WordOver(S)
    <3>1. units[u] \in Word
      BY <1>3
    <3>2. units[u].symbols \in Seq(Bytes) /\ units[u].count \in Nat \ {0}
      BY <3>1 DEF Word
    <3>3. units[u].symbols \in Seq(S)
      <4>1. \A k \in DOMAIN units[u].symbols : units[u].symbols[k] \in S
        BY <1>4, <3>2
      <4>. QED BY <3>2, <4>1
    <3>4. SimpleBpeMerge(MergeMap, units[u].symbols) \in Seq(S)
      <4>. HIDE DEF S
      <4>1. \A x \in DOMAIN MergeMap : MergeMap[x] \in S
        BY <1>5 DEF S
      <4>. QED BY <1>6, <3>3, <4>1, SimpleBpeMergeType
    <3>. QED BY <3>2, <3>4 DEF WordOver
  <2>2. DOMAIN units = 1 .. Len(units) /\ Len(units) \in Nat
    BY <1>3
  <2>. HIDE DEF S
  <2>. QED BY <1>1, <2>1, <2>2
<1>8. /\ \A p \in DOMAIN queue' : queue'[p] \in Int /\ p \in S \X S
      /\ \A p : (IF p \in DOMAIN queue' THEN queue'[p] ELSE 0) = PairCount(words', p)
      /\ DOMAIN queue' = PairsOf(words') /\ DOMAIN index' = PairsOf(words')
      /\ \A p \in DOMAIN index' : index'[p] \subseteq DOMAIN words'
      /\ \A w \in DOMAIN words' : \A p \in AdjacentPairs(words'[w].symbols) :
            p \in DOMAIN index' /\ w \in index'[p]
  <2>. DEFINE ws == words'
              c == queue'
              b == index'
  <2>1. ws \in Seq(WordOver(S)) /\ c = CountPairs(ws) /\ b = BuildContainedInWords(ws)
    BY <1>1, <1>7
  <2>. HIDE DEF S, ws, c, b
  <2>2. \A p \in DOMAIN c : c[p] \in Int /\ p \in S \X S
    BY <2>1, CountingAfresh
  <2>3. \A p : (IF p \in DOMAIN c THEN c[p] ELSE 0) = PairCount(ws, p)
    BY <2>1, CountingAfresh
  <2>4. DOMAIN c = PairsOf(ws) /\ DOMAIN b = PairsOf(ws)
    BY <2>1, CountingAfresh
  <2>5. \A p \in DOMAIN b : b[p] \subseteq DOMAIN ws
    BY <2>1, CountingAfresh
  <2>6. \A w \in DOMAIN ws : \A p \in AdjacentPairs(ws[w].symbols) : p \in DOMAIN b /\ w \in b[p]
    BY <2>1, CountingAfresh
  <2>. QED BY <2>2, <2>3, <2>4, <2>5, <2>6 DEF ws, c, b
<1>9. DOMAIN changes' = {} /\ gained' = {}
  BY <1>1, <1>2 DEF Empty
<1>10. TrainerTypes'
  <2>1. \A k \in DOMAIN merges :
          Spelled(merges[k][1])' /\ Spelled(merges[k][2])' /\ Spelled(merges[k][1] \o merges[k][2])'
    BY <1>1, <1>3 DEF Spelled
  <2>. QED BY <1>1, <1>3, <1>4, <1>7, <1>8, <1>9, <2>1 DEF TrainerTypes, n
<1>11. Counted'
  <2>1. \A p : Due(p)' = PairCount(words', p)
    <3>. TAKE p
    <3>1. PairCount(words', p) \in Int
      BY <1>7, TermsSummable, SumType
    <3>2. p \notin DOMAIN changes'
      BY <1>9
    <3>3. Due(p)' = (IF p \in DOMAIN queue' THEN queue'[p] ELSE 0) + 0
      BY <3>2 DEF Due
    <3>. QED BY <1>8, <3>1, <3>3
  <2>. QED BY <2>1 DEF Counted
<1>12. Indexed'
  BY <1>8, <1>9 DEF Indexed
<1>13. Updating'
  BY <1>1, <1>2 DEF Updating
<1>. QED BY <1>10, <1>11, <1>12, <1>13 DEF IInv

LEMMA SameInv ==
  ASSUME IInv, symbols' = symbols, words' = words, units' = units, merges' = merges,
         queue' = queue, index' = index, changes' = changes, gained' = gained, pair' = pair,
         todo' = todo, pc' = pc \/ (pc = "pick" /\ pc' = "done")
  PROVE  IInv'
<1>1. Fresh' = Fresh /\ (pc' = "update" <=> pc = "update") /\ pc' \in {"pick", "update", "done"}
  BY DEF Fresh, IInv, TrainerTypes
<1>2. \A k \in DOMAIN merges :
        Spelled(merges[k][1])' /\ Spelled(merges[k][2])' /\ Spelled(merges[k][1] \o merges[k][2])'
  BY DEF IInv, TrainerTypes, Spelled
<1>3. TrainerTypes'
  BY <1>1, <1>2 DEF IInv, TrainerTypes
<1>4. \A q : Due(q)' = Due(q)
  BY DEF Due
<1>5. Counted'
  BY <1>1, <1>4 DEF IInv, Counted
<1>6. Indexed'
  BY DEF IInv, Indexed
<1>7. Due(pair)' = Due(pair)
  BY DEF Due
<1>8. Updating'
  BY <1>1, <1>7 DEF IInv, Updating
<1>. QED BY <1>3, <1>5, <1>6, <1>8 DEF IInv

LEMMA TrainerInv == Spec => []IInv
<1>1. Init => IInv
  BY InitInv
<1>2. IInv /\ [Next]_vars => IInv'
  <2>. SUFFICES ASSUME IInv, [Next]_vars PROVE IInv'
    OBVIOUS
  <2>1. ASSUME NEW p \in DOMAIN queue, Pick(p) PROVE IInv'
    BY <2>1, PickInv
  <2>2. ASSUME NEW w \in todo, UpdateOne(w) PROVE IInv'
    BY <2>2, UpdateOneInv
  <2>3. CASE Apply
    BY <2>3, ApplyInv
  <2>4. CASE Resume
    BY <2>4, ResumeInv
  <2>5. CASE Finish
    BY <2>5, SameInv DEF Finish, update
  <2>6. CASE UNCHANGED vars
    BY <2>6, SameInv DEF vars, update
  <2>. QED BY <2>1, <2>2, <2>3, <2>4, <2>5, <2>6 DEF Next
<1>. QED BY <1>1, <1>2, PTL DEF Spec

(* Between merges the queue of training has the true count of every pair   *)
(* that occurs and no positive count of any other, although it is only     *)
(* ever changed by what update_word records; and the index, which never    *)
(* forgets, names every word of every pair, so that a merge reaches all.   *)
THEOREM CountsStayExact == Spec => []CountsExact
<1>1. IInv => CountsExact
  <2>. SUFFICES ASSUME IInv, pc = "pick" PROVE CountsExact
    BY DEF CountsExact
  <2>1. pair = <<>> /\ gained = {} /\ DOMAIN changes = {} /\ Fresh = Len(symbols)
    BY DEF IInv, Updating, Empty, Fresh
  <2>2. /\ words \in Seq(WordOver(Ids(Len(symbols))))
        /\ \A q \in DOMAIN queue : queue[q] \in Int /\ q \in Ids(Len(symbols)) \X Ids(Len(symbols))
    BY <2>1 DEF IInv, TrainerTypes
  <2>3. \A q \in PairsOf(words) : q # <<>>
    BY <2>2, PairsTyped, NoEmptyPair
  <2>4. PairsOf(words) \subseteq DOMAIN queue
    BY <2>1, <2>3 DEF IInv, Indexed
  <2>5. ASSUME NEW p \in DOMAIN queue
        PROVE  IF p \in PairsOf(words) THEN queue[p] = PairCount(words, p) ELSE queue[p] <= 0
    <3>1. p # <<>>
      BY <2>2, NoEmptyPair
    <3>2. Due(p) = queue[p]
      <4>1. p \notin DOMAIN changes
        BY <2>1
      <4>2. Due(p) = queue[p] + 0
        BY <4>1 DEF Due
      <4>. QED BY <2>2, <4>2
    <3>3. Due(p) = PairCount(words, p) \/ (p \notin PairsOf(words) /\ Due(p) <= 0)
      BY <2>1, <3>1 DEF IInv, Counted
    <3>4. p \notin PairsOf(words) => PairCount(words, p) = 0
      BY <2>2, PairCountGone
    <3>. QED BY <3>2, <3>3, <3>4
  <2>6. DOMAIN queue \subseteq DOMAIN index
    BY <2>1 DEF IInv, Indexed
  <2>7. \A w \in DOMAIN words : \A p \in AdjacentPairs(words[w].symbols) : w \in index[p]
    BY <2>1 DEF IInv, Indexed
  <2>. QED BY <2>4, <2>5, <2>6, <2>7 DEF CountsExact
<1>2. Spec => []IInv
  BY TrainerInv
<1>. QED BY <1>1, <1>2, PTL

-----------------------------------------------------------------------------
(* Replacing a pair, from left to right.                                   *)

(* g has what is made of s from each position on, from position m.         *)
IsRest(g, s, p, id, m) ==
  g = [i \in m .. Len(s) + 1 |->
         IF i > Len(s) THEN <<>>
         ELSE IF i < Len(s) /\ <<s[i], s[i + 1]>> = p THEN <<id>> \o g[i + 2]
         ELSE <<s[i]>> \o g[i + 1]]

LEMMA RestsExist ==
  ASSUME NEW S, NEW s \in Seq(S), NEW p, NEW id, NEW n \in Nat, n <= Len(s)
  PROVE  \E g : IsRest(g, s, p, id, Len(s) + 1 - n)
<1>. DEFINE L == Len(s)
            part(g, i) == IF i > L THEN <<>>
                          ELSE IF i < L /\ <<s[i], s[i + 1]>> = p THEN <<id>> \o g[i + 2]
                          ELSE <<s[i]>> \o g[i + 1]
            Bad == {m \in Nat : m <= L /\ ~ \E g : IsRest(g, s, p, id, L + 1 - m)}
<1>0. L \in Nat
  OBVIOUS
<1>1. SUFFICES ASSUME n \in Bad PROVE FALSE
  OBVIOUS
<1>. HIDE DEF Bad
<1>2. PICK m \in Bad : \A k \in Bad : m <= k
  <2>1. Bad \in SUBSET Nat
    BY DEF Bad
  <2>. QED BY <1>1, <2>1, LeastNumber
<1>3. m \in Nat /\ m <= L /\ ~ \E g : IsRest(g, s, p, id, L + 1 - m)
  BY <1>2 DEF Bad
<1>4. \A g, k : IsRest(g, s, p, id, k) <=> g = [i \in k .. L + 1 |-> part(g, i)]
  BY DEF IsRest
<1>5. CASE m = 0
  <2>. DEFINE h == [i \in L + 1 .. L + 1 |-> <<>>]
  <2>1. \A i \in L + 1 .. L + 1 : part(h, i) = <<>>
    BY <1>0
  <2>. HIDE DEF part
  <2>2. h = [i \in L + 1 .. L + 1 |-> part(h, i)]
    <3>. DEFINE hh == h
    <3>1. \A i \in L + 1 .. L + 1 : part(hh, i) = <<>>
      BY <2>1
    <3>2. hh = [i \in L + 1 .. L + 1 |-> <<>>]
      OBVIOUS
    <3>. HIDE DEF hh
    <3>3. hh = [i \in L + 1 .. L + 1 |-> part(hh, i)]
      BY <3>1, <3>2
    <3>. QED BY <3>3 DEF hh
  <2>. HIDE DEF h, L
  <2>3. IsRest(h, s, p, id, L + 1)
    BY <2>2, <1>4
  <2>4. L + 1 - m = L + 1
    BY <1>0, <1>5
  <2>. QED BY <2>3, <2>4, <1>3
<1>6. CASE m > 0
  <2>1. m - 1 \in Nat /\ m - 1 <= L /\ m - 1 \notin Bad
    BY <1>0, <1>2, <1>3, <1>6
  <2>. DEFINE a == L + 1 - m
  <2>2. L + 1 - (m - 1) = a + 1 /\ a \in Nat /\ a >= 1 /\ a <= L
    BY <1>0, <1>3, <1>6
  <2>3. PICK g : IsRest(g, s, p, id, a + 1)
    BY <2>1, <2>2 DEF Bad
  <2>. HIDE DEF a, L
  <2>4. g = [i \in a + 1 .. L + 1 |-> part(g, i)]
    BY <2>3, <1>4
  <2>. DEFINE h == [i \in a .. L + 1 |-> part(g, i)]
  <2>5. \A i \in a + 1 .. L + 1 : h[i] = g[i]
    <3>. HIDE DEF part
    <3>. TAKE i \in a + 1 .. L + 1
    <3>1. i \in a .. L + 1
      BY <1>0, <2>2
    <3>2. g[i] = part(g, i)
      BY <2>4
    <3>. QED BY <3>1, <3>2
  <2>6. \A i \in a .. L + 1 : part(g, i) = part(h, i)
    <3>. HIDE DEF h
    <3>. TAKE i \in a .. L + 1
    <3>1. i > L \/ i + 1 \in a + 1 .. L + 1
      BY <1>0, <2>2
    <3>2. i < L => i + 2 \in a + 1 .. L + 1
      BY <1>0, <2>2
    <3>3. i > L \/ h[i + 1] = g[i + 1]
      BY <2>5, <3>1
    <3>4. i < L => h[i + 2] = g[i + 2]
      BY <2>5, <3>2
    <3>. QED BY <3>3, <3>4
  <2>7. h = [i \in a .. L + 1 |-> part(h, i)]
    <3>. DEFINE hh == h
    <3>1. hh = [i \in a .. L + 1 |-> part(g, i)]
      OBVIOUS
    <3>2. \A i \in a .. L + 1 : part(g, i) = part(hh, i)
      BY <2>6
    <3>. HIDE DEF hh, part
    <3>3. hh = [i \in a .. L + 1 |-> part(hh, i)]
      BY <3>1, <3>2
    <3>. QED BY <3>3 DEF hh
  <2>. HIDE DEF h
  <2>8. IsRest(h, s, p, id, a)
    BY <2>7, <1>4
  <2>. QED BY <2>8, <1>3 DEF a
<1>. QED BY <1>3, <1>5, <1>6

LEMMA ReplacedRest ==
  ASSUME NEW S, NEW s \in Seq(S), NEW p, NEW id
  PROVE  \E g : IsRest(g, s, p, id, 1) /\ Replaced(s, p, id) = g[1]
<1>. DEFINE c == CHOOSE g : IsRest(g, s, p, id, 1)
<1>1. Len(s) \in Nat /\ Len(s) <= Len(s) /\ Len(s) + 1 - Len(s) = 1
  OBVIOUS
<1>2. \E g : IsRest(g, s, p, id, 1)
  <2>1. \E g : IsRest(g, s, p, id, Len(s) + 1 - Len(s))
    BY <1>1, RestsExist
  <2>. QED BY <1>1, <2>1
<1>3. IsRest(c, s, p, id, 1)
  BY <1>2
<1>4. Replaced(s, p, id) = c[1]
  BY DEF Replaced, IsRest
<1>. QED BY <1>3, <1>4

(* The sequence from position d + 1 on.                                    *)
From(s, d) == SubSeq(s, d + 1, Len(s))

LEMMA FromFacts ==
  ASSUME NEW S, NEW s \in Seq(S), NEW d \in 0 .. Len(s)
  PROVE  /\ From(s, d) \in Seq(S) /\ Len(From(s, d)) = Len(s) - d
         /\ \A i \in 1 .. Len(s) - d : From(s, d)[i] = s[i + d]
<1>1. Len(s) \in Nat /\ d \in Nat /\ d <= Len(s)
  OBVIOUS
<1>. DEFINE L == Len(s)
            u == SubSeq(s, d + 1, L)
<1>2. L - (d + 1) + 1 = L - d /\ L - d \in Nat
  BY <1>1
<1>3. u \in Seq(S)
  BY <1>1
<1>4. Len(u) = L - d
  BY <1>1
<1>5. ASSUME NEW i \in 1 .. L - d PROVE u[i] = s[i + d]
  <2>1. i \in 1 .. L + 1 - (d + 1) /\ d + 1 + i - 1 = i + d
    BY <1>1
  <2>2. u[i] = s[d + 1 + i - 1]
    BY <1>1, <2>1
  <2>. QED BY <2>1, <2>2
<1>. QED BY <1>3, <1>4, <1>5 DEF From

(* What is made of a sequence from a position on is what is made of the    *)
(* rest of it.                                                             *)
LEMMA RestShifts ==
  ASSUME NEW S, NEW s \in Seq(S), NEW p, NEW id, NEW d \in 0 .. Len(s),
         NEW g, IsRest(g, s, p, id, 1), NEW h, IsRest(h, From(s, d), p, id, 1)
  PROVE  h[1] = g[d + 1]
<1>. DEFINE L == Len(s)
            u == From(s, d)
            Bad == {m \in Nat : m <= L - d /\ h[L - d + 1 - m] # g[L + 1 - m]}
<1>1. L \in Nat /\ d \in Nat /\ d <= L
  OBVIOUS
<1>2. Len(u) = L - d /\ \A i \in 1 .. L - d : u[i] = s[i + d]
  BY FromFacts
<1>. HIDE DEF u, L
<1>3. \A i \in 1 .. L + 1 : g[i] =
         IF i > L THEN <<>>
         ELSE IF i < L /\ <<s[i], s[i + 1]>> = p THEN <<id>> \o g[i + 2]
         ELSE <<s[i]>> \o g[i + 1]
  BY DEF IsRest, L
<1>4. \A i \in 1 .. L - d + 1 : h[i] =
         IF i > L - d THEN <<>>
         ELSE IF i < L - d /\ <<u[i], u[i + 1]>> = p THEN <<id>> \o h[i + 2]
         ELSE <<u[i]>> \o h[i + 1]
  BY <1>2 DEF IsRest, u
<1>5. Bad = {}
  <2>1. SUFFICES ASSUME Bad # {} PROVE FALSE
    OBVIOUS
  <2>2. Bad \in SUBSET Nat
    OBVIOUS
  <2>3. PICK m \in Bad : \A k \in Bad : m <= k
    <3>. HIDE DEF Bad
    <3>. QED BY <2>1, <2>2, LeastNumber
  <2>4. m \in Nat /\ m <= L - d /\ h[L - d + 1 - m] # g[L + 1 - m]
    OBVIOUS
  <2>. DEFINE i == L - d + 1 - m
              j == L + 1 - m
  <2>5. j = i + d /\ i \in 1 .. L - d + 1 /\ j \in 1 .. L + 1
    BY <1>1, <2>4
  <2>6. ASSUME NEW k \in 1 .. m, m - k >= 0 PROVE h[i + k] = g[j + k]
    <3>1. m - k \in Nat /\ m - k < m
      BY <2>4
    <3>2. m - k \notin Bad
      <4>. HIDE DEF Bad
      <4>. QED BY <2>3, <2>4, <3>1
    <3>3. h[L - d + 1 - (m - k)] = g[L + 1 - (m - k)]
      BY <1>1, <2>4, <3>1, <3>2
    <3>4. L - d + 1 - (m - k) = i + k /\ L + 1 - (m - k) = j + k
      BY <1>1, <2>4
    <3>. QED BY <3>3, <3>4
  <2>7. i > L - d <=> j > L
    BY <1>1, <2>4
  <2>8. i < L - d <=> j < L
    BY <1>1, <2>4
  <2>9. ~(i > L - d) => u[i] = s[j] /\ h[i + 1] = g[j + 1]
    <3>1. ~(i > L - d) => i \in 1 .. L - d /\ 1 \in 1 .. m /\ m - 1 >= 0
      BY <1>1, <2>4
    <3>. HIDE DEF i, j
    <3>. QED BY <1>2, <2>5, <2>6, <3>1
  <2>10. i < L - d => u[i + 1] = s[j + 1] /\ h[i + 2] = g[j + 2]
    <3>1. i < L - d => i + 1 \in 1 .. L - d /\ 2 \in 1 .. m /\ m - 2 >= 0 /\ (i + 1) + d = j + 1
      BY <1>1, <2>4
    <3>. HIDE DEF i, j
    <3>2. i < L - d => u[i + 1] = s[(i + 1) + d]
      BY <1>2, <3>1
    <3>. QED BY <2>6, <3>1, <3>2
  <2>11. h[i] # g[j]
    BY <2>4
  <2>. HIDE DEF i, j, Bad
  <2>12. h[i] = IF i > L - d THEN <<>>
         ELSE IF i < L - d /\ <<u[i], u[i + 1]>> = p THEN <<id>> \o h[i + 2]
         ELSE <<u[i]>> \o h[i + 1]
    BY <1>4, <2>5
  <2>13. g[j] = IF j > L THEN <<>>
         ELSE IF j < L /\ <<s[j], s[j + 1]>> = p THEN <<id>> \o g[j + 2]
         ELSE <<s[j]>> \o g[j + 1]
    BY <1>3, <2>5
  <2>14. CASE i > L - d
    BY <2>7, <2>11, <2>12, <2>13, <2>14
  <2>15. CASE ~(i > L - d) /\ i < L - d
    <3>1. u[i] = s[j] /\ h[i + 1] = g[j + 1] /\ u[i + 1] = s[j + 1] /\ h[i + 2] = g[j + 2]
      BY <2>9, <2>10, <2>15
    <3>. QED BY <3>1, <2>7, <2>8, <2>11, <2>12, <2>13, <2>15
  <2>16. CASE ~(i > L - d) /\ ~(i < L - d)
    <3>1. u[i] = s[j] /\ h[i + 1] = g[j + 1]
      BY <2>9, <2>16
    <3>. QED BY <3>1, <2>7, <2>8, <2>11, <2>12, <2>13, <2>16
  <2>. QED BY <2>14, <2>15, <2>16
<1>6. L - d \in Nat /\ L - d <= L - d /\ L - d + 1 - (L - d) = 1 /\ L + 1 - (L - d) = d + 1
  BY <1>1
<1>. QED BY <1>5, <1>6

(* Replacing looks at the first two symbols, then goes on with the rest.   *)
LEMMA ReplacedUnfolds ==
  ASSUME NEW S, NEW s \in Seq(S), NEW p, NEW id
  PROVE  /\ Len(s) = 0 => Replaced(s, p, id) = <<>>
         /\ Len(s) > 1 /\ <<s[1], s[2]>> = p =>
              Replaced(s, p, id) = <<id>> \o Replaced(From(s, 2), p, id)
         /\ Len(s) > 0 /\ ~(Len(s) > 1 /\ <<s[1], s[2]>> = p) =>
              Replaced(s, p, id) = <<s[1]>> \o Replaced(From(s, 1), p, id)
<1>1. PICK g : IsRest(g, s, p, id, 1) /\ Replaced(s, p, id) = g[1]
  BY ReplacedRest
<1>2. Len(s) \in Nat
  OBVIOUS
<1>3. ASSUME NEW d \in 0 .. Len(s) PROVE Replaced(From(s, d), p, id) = g[d + 1]
  <2>1. From(s, d) \in Seq(S)
    BY FromFacts
  <2>2. PICK h : IsRest(h, From(s, d), p, id, 1) /\ Replaced(From(s, d), p, id) = h[1]
    BY <2>1, ReplacedRest
  <2>. QED BY <1>1, <2>2, RestShifts
<1>4. g[1] = IF 1 > Len(s) THEN <<>>
         ELSE IF 1 < Len(s) /\ <<s[1], s[2]>> = p THEN <<id>> \o g[3]
         ELSE <<s[1]>> \o g[2]
  <2>1. \A i \in 1 .. Len(s) + 1 : g[i] =
         IF i > Len(s) THEN <<>>
         ELSE IF i < Len(s) /\ <<s[i], s[i + 1]>> = p THEN <<id>> \o g[i + 2]
         ELSE <<s[i]>> \o g[i + 1]
    BY <1>1 DEF IsRest
  <2>2. 1 \in 1 .. Len(s) + 1 /\ 1 + 1 = 2 /\ 1 + 2 = 3
    BY <1>2
  <2>3. g[1] = IF 1 > Len(s) THEN <<>>
         ELSE IF 1 < Len(s) /\ <<s[1], s[1 + 1]>> = p THEN <<id>> \o g[1 + 2]
         ELSE <<s[1]>> \o g[1 + 1]
    BY <2>1, <2>2
  <2>. QED BY <2>2, <2>3
<1>5. Len(s) > 0 => Replaced(From(s, 1), p, id) = g[2]
  BY <1>2, <1>3
<1>6. Len(s) > 1 => Replaced(From(s, 2), p, id) = g[3]
  BY <1>2, <1>3
<1>. QED BY <1>1, <1>2, <1>4, <1>5, <1>6

LEMMA ShortestSeq ==
  ASSUME NEW S, NEW B \in SUBSET Seq(S), B # {}
  PROVE  \E s \in B : \A u \in B : Len(s) <= Len(u)
<1>. DEFINE sizes == {Len(s) : s \in B}
<1>0. \A s \in B : Len(s) \in Nat
  OBVIOUS
<1>1. sizes \in SUBSET Nat /\ sizes # {}
  BY <1>0
<1>. HIDE DEF sizes
<1>2. PICK c \in sizes : \A k \in sizes : c <= k
  BY <1>1, LeastNumber
<1>. QED BY <1>2 DEF sizes

LEMMA ConcatFacts ==
  ASSUME NEW S, NEW a \in Seq(S), NEW b \in Seq(S)
  PROVE  /\ a \o b \in Seq(S) /\ Len(a \o b) = Len(a) + Len(b)
         /\ Len(a) \in Nat /\ Len(b) \in Nat
         /\ \A k \in 1 .. Len(a) + Len(b) :
              (a \o b)[k] = IF k <= Len(a) THEN a[k] ELSE b[k - Len(a)]
OBVIOUS

(* Taking off the first d symbols and putting them back.                   *)
LEMMA SplitFacts ==
  ASSUME NEW S, NEW s \in Seq(S)
  PROVE  /\ Len(s) > 0 => s[1] \in S /\ s = <<s[1]>> \o From(s, 1)
         /\ Len(s) > 1 => s[1] \in S /\ s[2] \in S /\ s = <<s[1], s[2]>> \o From(s, 2)
<1>0. Len(s) \in Nat
  OBVIOUS
<1>1. ASSUME Len(s) > 0 PROVE s[1] \in S /\ s = <<s[1]>> \o From(s, 1)
  <2>. DEFINE x == <<s[1]>>
              u == From(s, 1)
              r == x \o u
  <2>1. 1 \in 0 .. Len(s)
    BY <1>0, <1>1
  <2>2. u \in Seq(S) /\ Len(u) = Len(s) - 1 /\ \A i \in 1 .. Len(s) - 1 : u[i] = s[i + 1]
    BY <2>1, FromFacts
  <2>3. s[1] \in S /\ x \in Seq(S) /\ Len(x) = 1 /\ x[1] = s[1]
    BY <1>0, <1>1
  <2>. HIDE DEF x, u
  <2>4. r \in Seq(S) /\ Len(r) = Len(s) /\ \A k \in 1 .. Len(s) : r[k] = s[k]
    <3>0. x \o u \in Seq(S) /\ Len(x \o u) = Len(x) + Len(u)
      BY <2>2, <2>3, ConcatFacts
    <3>1. r \in Seq(S) /\ Len(r) = 1 + (Len(s) - 1)
      BY <2>2, <2>3, <3>0
    <3>2. ASSUME NEW k \in 1 .. Len(s) PROVE r[k] = s[k]
      <4>1. k \in 1 .. 1 + (Len(s) - 1)
        BY <1>0
      <4>0. k \in 1 .. Len(x) + Len(u)
        BY <2>2, <2>3, <4>1
      <4>1a. x \in Seq(S) /\ u \in Seq(S)
        BY <2>2, <2>3
      <4>1b. \A j \in 1 .. Len(x) + Len(u) :
               (x \o u)[j] = IF j <= Len(x) THEN x[j] ELSE u[j - Len(x)]
        BY ONLY <4>1a, ConcatFacts
      <4>2a. (x \o u)[k] = IF k <= Len(x) THEN x[k] ELSE u[k - Len(x)]
        BY <4>0, <4>1b
      <4>2. r[k] = IF k <= 1 THEN x[k] ELSE u[k - 1]
        BY <2>3, <4>2a
      <4>3. k > 1 => u[k - 1] = s[k]
        <5>1. k > 1 => k - 1 \in 1 .. Len(s) - 1 /\ (k - 1) + 1 = k
          BY <1>0
        <5>. QED BY <2>2, <5>1
      <4>. QED BY <2>3, <4>1, <4>2, <4>3
    <3>. QED BY <1>0, <3>1, <3>2
  <2>. HIDE DEF r
  <2>5. r = s
    BY <2>4, SeqEqual
  <2>. QED BY <2>3, <2>5 DEF r, x, u
<1>2. ASSUME Len(s) > 1 PROVE s[1] \in S /\ s[2] \in S /\ s = <<s[1], s[2]>> \o From(s, 2)
  <2>. DEFINE x == <<s[1], s[2]>>
              u == From(s, 2)
              r == x \o u
  <2>1. 2 \in 0 .. Len(s)
    BY <1>0, <1>2
  <2>2. u \in Seq(S) /\ Len(u) = Len(s) - 2 /\ \A i \in 1 .. Len(s) - 2 : u[i] = s[i + 2]
    BY <2>1, FromFacts
  <2>3. s[1] \in S /\ s[2] \in S /\ x \in Seq(S) /\ Len(x) = 2 /\ x[1] = s[1] /\ x[2] = s[2]
    BY <1>0, <1>2
  <2>. HIDE DEF x, u
  <2>4. r \in Seq(S) /\ Len(r) = Len(s) /\ \A k \in 1 .. Len(s) : r[k] = s[k]
    <3>0. x \o u \in Seq(S) /\ Len(x \o u) = Len(x) + Len(u)
      BY <2>2, <2>3, ConcatFacts
    <3>1. r \in Seq(S) /\ Len(r) = 2 + (Len(s) - 2)
      BY <2>2, <2>3, <3>0
    <3>2. ASSUME NEW k \in 1 .. Len(s) PROVE r[k] = s[k]
      <4>1. k \in 1 .. 2 + (Len(s) - 2)
        BY <1>0
      <4>0. k \in 1 .. Len(x) + Len(u)
        BY <2>2, <2>3, <4>1
      <4>1a. x \in Seq(S) /\ u \in Seq(S)
        BY <2>2, <2>3
      <4>1b. \A j \in 1 .. Len(x) + Len(u) :
               (x \o u)[j] = IF j <= Len(x) THEN x[j] ELSE u[j - Len(x)]
        BY ONLY <4>1a, ConcatFacts
      <4>2a. (x \o u)[k] = IF k <= Len(x) THEN x[k] ELSE u[k - Len(x)]
        BY <4>0, <4>1b
      <4>2. r[k] = IF k <= 2 THEN x[k] ELSE u[k - 2]
        BY <2>3, <4>2a
      <4>3. k > 2 => u[k - 2] = s[k]
        <5>1. k > 2 => k - 2 \in 1 .. Len(s) - 2 /\ (k - 2) + 2 = k
          BY <1>0
        <5>. QED BY <2>2, <5>1
      <4>4. k > 2 \/ k = 1 \/ k = 2
        BY <1>0
      <4>. QED BY <2>3, <4>1, <4>2, <4>3, <4>4
    <3>. QED BY <1>0, <3>1, <3>2
  <2>. HIDE DEF r
  <2>5. r = s
    BY <2>4, SeqEqual
  <2>. QED BY <2>3, <2>5 DEF r, x, u
<1>. QED BY <1>1, <1>2

LEMMA FromConcat ==
  ASSUME NEW S, NEW a \in Seq(S), NEW b \in Seq(S)
  PROVE  From(a \o b, Len(a)) = b
<1>. DEFINE c == a \o b
            u == From(c, Len(a))
<1>1. c \in Seq(S) /\ Len(c) = Len(a) + Len(b) /\ Len(a) \in Nat /\ Len(b) \in Nat
  BY ConcatFacts
<1>2. Len(a) \in 0 .. Len(c) /\ Len(c) - Len(a) = Len(b)
  BY <1>1
<1>. HIDE DEF c
<1>3. u \in Seq(S) /\ Len(u) = Len(b) /\ \A i \in 1 .. Len(b) : u[i] = c[i + Len(a)]
  BY <1>1, <1>2, FromFacts
<1>4. ASSUME NEW i \in 1 .. Len(b) PROVE c[i + Len(a)] = b[i]
  <2>1. i + Len(a) \in 1 .. Len(a) + Len(b) /\ ~(i + Len(a) <= Len(a)) /\ (i + Len(a)) - Len(a) = i
    BY <1>1
  <2>. QED BY <2>1, ConcatFacts DEF c
<1>. HIDE DEF u
<1>5. u = b
  BY <1>3, <1>4, SeqEqual
<1>. QED BY <1>5 DEF u, c

(* The first symbol, and the rest, of a sequence put together of two.      *)
LEMMA ConcatCancels ==
  ASSUME NEW S, NEW x \in S, NEW u \in Seq(S), NEW a \in Seq(S), NEW b \in Seq(S),
         <<x>> \o u = a \o b, Len(a) > 0
  PROVE  a = <<x>> \o From(a, 1) /\ u = From(a, 1) \o b /\ From(a, 1) \in Seq(S)
<1>. DEFINE v == <<x>>
            c == From(a, 1)
<1>1. v \in Seq(S) /\ Len(v) = 1 /\ v[1] = x
  OBVIOUS
<1>2. a[1] \in S /\ a = <<a[1]>> \o c
  BY SplitFacts
<1>3. c \in Seq(S)
  <2>1. 1 \in 0 .. Len(a)
    OBVIOUS
  <2>. QED BY <2>1, FromFacts
<1>4. Len(a) \in Nat /\ Len(b) \in Nat /\ Len(u) \in Nat
  OBVIOUS
<1>5. a[1] = x
  <2>1. (a \o b)[1] = a[1]
    <3>1. 1 \in 1 .. Len(a) + Len(b) /\ 1 <= Len(a)
      BY <1>4
    <3>. QED BY <3>1, ConcatFacts
  <2>2. (v \o u)[1] = x
    <3>1. 1 \in 1 .. Len(v) + Len(u) /\ 1 <= Len(v)
      BY <1>1, <1>4
    <3>. QED BY <1>1, <3>1, ConcatFacts
  <2>. QED BY <2>1, <2>2
<1>6. a = v \o c
  BY <1>2, <1>5
<1>7. v \o u = v \o (c \o b)
  <2>. HIDE DEF v, c
  <2>1. v \o u = a \o b
    BY DEF v
  <2>2. v \o u = (v \o c) \o b
    BY <1>6, <2>1
  <2>3. (v \o c) \o b = v \o (c \o b)
    BY <1>1, <1>3, ConcatAssociative, SMTT(60)
  <2>. QED BY <2>2, <2>3
<1>8. c \o b \in Seq(S)
  BY <1>3, ConcatFacts
<1>. HIDE DEF v, c
<1>9. From(v \o u, Len(v)) = u /\ From(v \o (c \o b), Len(v)) = c \o b
  BY <1>1, <1>8, FromConcat
<1>10. u = c \o b
  BY <1>7, <1>9
<1>. QED BY <1>3, <1>6, <1>10 DEF v, c

(* The rest of a sequence is a shorter one.                                *)
LEMMA FromShorter ==
  ASSUME NEW S, NEW s \in Seq(S), NEW d \in 1 .. 2, Len(s) >= d
  PROVE  From(s, d) \in Seq(S) /\ Len(From(s, d)) = Len(s) - d /\ Len(s) \in Nat
<1>1. d \in 0 .. Len(s) /\ Len(s) \in Nat
  OBVIOUS
<1>. QED BY <1>1, FromFacts

(* A sequence starts with the pair, or with a symbol that is kept.         *)
PairFirst(S, s, p, id) ==
  \E u \in Seq(S), x \in S, y \in S :
    /\ Len(u) < Len(s) /\ s = <<x, y>> \o u /\ p = <<x, y>>
    /\ Replaced(s, p, id) = <<id>> \o Replaced(u, p, id)
KeptFirst(S, s, p, id) ==
  \E u \in Seq(S), x \in S :
    /\ Len(u) < Len(s) /\ s = <<x>> \o u /\ ~(Len(u) > 0 /\ <<x, u[1]>> = p)
    /\ Replaced(s, p, id) = <<x>> \o Replaced(u, p, id)

LEMMA ReplacedKeeps ==
  ASSUME NEW S, NEW v \in Seq(S), Len(v) = 1, NEW u \in Seq(S), NEW p, NEW id,
         ~(Len(u) > 0 /\ <<v[1], u[1]>> = p)
  PROVE  Replaced(v \o u, p, id) = v \o Replaced(u, p, id)
<1>. DEFINE s == v \o u
            w == <<s[1]>>
<1>2. s \in Seq(S) /\ Len(s) = 1 + Len(u) /\ Len(u) \in Nat
  BY ConcatFacts, SMTT(60)
<1>3. \A k \in 1 .. 1 + Len(u) : s[k] = IF k <= 1 THEN v[k] ELSE u[k - 1]
  <2>1. \A k \in 1 .. Len(v) + Len(u) : (v \o u)[k] = IF k <= Len(v) THEN v[k] ELSE u[k - Len(v)]
    BY ConcatFacts
  <2>. QED BY <2>1
<1>4. From(s, 1) = u
  <2>1. From(v \o u, Len(v)) = u
    BY FromConcat
  <2>. QED BY <2>1
<1>. HIDE DEF s
<1>5. s[1] = v[1] /\ (Len(s) > 1 => s[2] = u[1])
  <2>1. 1 \in 1 .. 1 + Len(u) /\ (Len(s) > 1 => 2 \in 1 .. 1 + Len(u) /\ 2 - 1 = 1)
    BY <1>2
  <2>2. s[1] = v[1]
    BY <1>3, <2>1
  <2>3. Len(s) > 1 => s[2] = u[2 - 1]
    BY <1>3, <2>1
  <2>. QED BY <2>1, <2>2, <2>3
<1>6. Len(s) > 0 /\ ~(Len(s) > 1 /\ <<s[1], s[2]>> = p)
  <2>1. Len(s) > 0 /\ (Len(s) > 1 => Len(u) > 0)
    BY <1>2
  <2>. QED BY <1>5, <2>1
<1>7. Replaced(s, p, id) = <<s[1]>> \o Replaced(From(s, 1), p, id)
  BY <1>2, <1>6, ReplacedUnfolds
<1>8. w = v
  <2>0. v \in Seq(S) /\ 1 \in 1 .. Len(v)
    OBVIOUS
  <2>1. v[1] \in S
    BY ONLY <2>0
  <2>2. w \in Seq(S) /\ Len(w) = 1 /\ w[1] = v[1]
    BY <1>5, <2>1
  <2>3. \A k \in 1 .. 1 : k = 1
    OBVIOUS
  <2>. HIDE DEF w
  <2>4. \A k \in 1 .. Len(w) : w[k] = v[k]
    BY <2>2, <2>3
  <2>. QED BY <2>2, <2>4, SeqEqual
<1>. QED BY <1>4, <1>7, <1>8 DEF s

LEMMA ReplacedMakes ==
  ASSUME NEW S, NEW v \in Seq(S), Len(v) = 2, NEW u \in Seq(S), NEW id
  PROVE  Replaced(v \o u, v, id) = <<id>> \o Replaced(u, v, id)
<1>. DEFINE s == v \o u
            w == <<s[1], s[2]>>
<1>2. s \in Seq(S) /\ Len(s) = 2 + Len(u) /\ Len(u) \in Nat
  <2>1. s \in Seq(S)
    BY ConcatFacts
  <2>2. Len(s) = Len(v) + Len(u)
    BY ConcatFacts
  <2>. QED BY <2>1, <2>2
<1>3. \A k \in 1 .. 2 + Len(u) : s[k] = IF k <= 2 THEN v[k] ELSE u[k - 2]
  <2>1. \A k \in 1 .. Len(v) + Len(u) : (v \o u)[k] = IF k <= Len(v) THEN v[k] ELSE u[k - Len(v)]
    BY ConcatFacts
  <2>. QED BY <2>1
<1>4. From(s, 2) = u
  <2>1. From(v \o u, Len(v)) = u
    BY FromConcat
  <2>. QED BY <2>1
<1>. HIDE DEF s
<1>5. s[1] = v[1] /\ s[2] = v[2]
  <2>1. 1 \in 1 .. 2 + Len(u) /\ 2 \in 1 .. 2 + Len(u)
    BY <1>2
  <2>. QED BY <1>3, <2>1
<1>6. Len(s) > 1
  BY <1>2
<1>7. w = v
  <2>1. v[1] \in S /\ v[2] \in S
    BY SMTT(60)
  <2>2. w \in Seq(S) /\ Len(w) = 2 /\ w[1] = v[1] /\ w[2] = v[2]
    BY <1>5, <2>1
  <2>3. \A k \in 1 .. 2 : k = 1 \/ k = 2
    OBVIOUS
  <2>. HIDE DEF w
  <2>4. \A k \in 1 .. Len(w) : w[k] = v[k]
    BY <2>2, <2>3
  <2>. QED BY <2>2, <2>4, SeqEqual
<1>8. Replaced(s, v, id) = <<id>> \o Replaced(From(s, 2), v, id)
  BY <1>2, <1>6, <1>7, ReplacedUnfolds
<1>. QED BY <1>4, <1>8 DEF s

(* The ways a sequence may start.                                          *)
LEMMA StartCases ==
  ASSUME NEW S, NEW s \in Seq(S), NEW p, NEW id
  PROVE  \/ s = <<>> /\ Replaced(s, p, id) = <<>>
         \/ PairFirst(S, s, p, id)
         \/ KeptFirst(S, s, p, id)
<1>1. Len(s) \in Nat
  OBVIOUS
<1>2. CASE Len(s) = 0
  <2>1. s = <<>>
    BY <1>2
  <2>2. Replaced(s, p, id) = <<>>
    BY <1>2, ReplacedUnfolds
  <2>. QED BY <2>1, <2>2
<1>3. CASE Len(s) > 1 /\ <<s[1], s[2]>> = p
  <2>. DEFINE u == From(s, 2)
  <2>1. u \in Seq(S) /\ Len(u) < Len(s)
    <3>1. Len(s) >= 2 /\ 2 \in 1 .. 2
      BY <1>1, <1>3
    <3>2. u \in Seq(S) /\ Len(u) = Len(s) - 2
      BY <3>1, FromShorter
    <3>. QED BY <1>1, <3>2
  <2>2. s[1] \in S /\ s[2] \in S /\ s = <<s[1], s[2]>> \o u
    BY <1>3, SplitFacts
  <2>3. Replaced(s, p, id) = <<id>> \o Replaced(u, p, id)
    BY <1>3, ReplacedUnfolds
  <2>. HIDE DEF u
  <2>4. PairFirst(S, s, p, id)
    BY <1>3, <2>1, <2>2, <2>3 DEF PairFirst
  <2>. QED BY <2>4
<1>4. CASE Len(s) > 0 /\ ~(Len(s) > 1 /\ <<s[1], s[2]>> = p)
  <2>. DEFINE u == From(s, 1)
  <2>1. u \in Seq(S) /\ Len(u) = Len(s) - 1 /\ Len(u) < Len(s)
    <3>1. Len(s) >= 1 /\ 1 \in 1 .. 2
      BY <1>1, <1>4
    <3>2. u \in Seq(S) /\ Len(u) = Len(s) - 1
      BY <3>1, FromShorter
    <3>. QED BY <1>1, <3>2
  <2>2. s[1] \in S /\ s = <<s[1]>> \o u
    BY <1>4, SplitFacts
  <2>3. Replaced(s, p, id) = <<s[1]>> \o Replaced(u, p, id)
    BY <1>4, ReplacedUnfolds
  <2>4. Len(u) > 0 => u[1] = s[2] /\ Len(s) > 1
    <3>1. Len(u) > 0 => 1 \in 1 .. Len(s) - 1 /\ 1 + 1 = 2 /\ Len(s) > 1
      BY <1>1, <2>1
    <3>2. 1 \in 0 .. Len(s)
      BY <1>1, <1>4
    <3>3. \A i \in 1 .. Len(s) - 1 : u[i] = s[i + 1]
      BY <3>2, FromFacts
    <3>. QED BY <3>1, <3>3
  <2>5. ~(Len(u) > 0 /\ <<s[1], u[1]>> = p)
    BY <1>4, <2>4
  <2>. HIDE DEF u
  <2>6. KeptFirst(S, s, p, id)
    BY <2>1, <2>2, <2>3, <2>5 DEF KeptFirst
  <2>. QED BY <2>6
<1>5. Len(s) = 0 \/ Len(s) > 0
  BY <1>1
<1>. QED BY <1>2, <1>3, <1>4, <1>5

LEMMA ReplacedType ==
  ASSUME NEW S, NEW s \in Seq(S), NEW p, NEW id \in S
  PROVE  /\ Replaced(s, p, id) \in Seq(S) /\ Len(Replaced(s, p, id)) <= Len(s)
         /\ Len(s) > 0 => Len(Replaced(s, p, id)) > 0
<1>. DEFINE R(t) == Replaced(t, p, id)
            Good(t) == R(t) \in Seq(S) /\ Len(R(t)) <= Len(t) /\ (Len(t) > 0 => Len(R(t)) > 0)
            Bad == {t \in Seq(S) : ~Good(t)}
<1>1. SUFFICES ASSUME Bad # {} PROVE FALSE
  OBVIOUS
<1>2. PICK t \in Bad : \A u \in Bad : Len(t) <= Len(u)
  <2>1. Bad \in SUBSET Seq(S)
    OBVIOUS
  <2>. HIDE DEF Bad
  <2>. QED BY <1>1, <2>1, ShortestSeq
<1>3. t \in Seq(S) /\ ~Good(t) /\ Len(t) \in Nat
  OBVIOUS
<1>. HIDE DEF Good
<1>4. ASSUME NEW u \in Seq(S), Len(u) < Len(t) PROVE Good(u)
  <2>1. Len(u) \in Nat
    OBVIOUS
  <2>2. u \notin Bad
    <3>. HIDE DEF Bad
    <3>. QED BY <1>2, <1>3, <1>4, <2>1
  <2>. QED BY <2>2
<1>. HIDE DEF Bad
<1>5. ASSUME NEW u \in Seq(S), NEW x \in S, Good(u), R(t) = <<x>> \o R(u), Len(u) < Len(t)
      PROVE  FALSE
  <2>. DEFINE v == <<x>>
              r == R(u)
  <2>1. r \in Seq(S) /\ Len(r) <= Len(u) /\ Len(r) \in Nat /\ Len(u) \in Nat
    BY <1>5 DEF Good
  <2>2. v \in Seq(S) /\ Len(v) = 1
    OBVIOUS
  <2>. HIDE DEF v, r
  <2>3. v \o r \in Seq(S) /\ Len(v \o r) = Len(v) + Len(r)
    BY <2>1, <2>2, ConcatFacts
  <2>4. R(t) = v \o r
    BY <1>5 DEF v, r
  <2>5. Good(t)
    BY <1>3, <1>5, <2>1, <2>2, <2>3, <2>4 DEF Good
  <2>. QED BY <1>3, <2>5
<1>6. CASE t = <<>> /\ R(t) = <<>>
  <2>1. Len(t) = 0 /\ t \in Seq(S)
    BY <1>3, <1>6
  <2>2. R(t) = t
    BY <1>6
  <2>. HIDE DEF R
  <2>3. Good(t)
    BY <2>1, <2>2 DEF Good
  <2>. QED BY <1>3, <2>3
<1>7a. CASE PairFirst(S, t, p, id)
  <2>1. PICK u \in Seq(S) : Len(u) < Len(t) /\ R(t) = <<id>> \o R(u)
    BY <1>7a DEF PairFirst
  <2>. QED BY <1>4, <1>5, <2>1
<1>7. CASE KeptFirst(S, t, p, id)
  <2>1. PICK u \in Seq(S), x \in S : Len(u) < Len(t) /\ R(t) = <<x>> \o R(u)
    BY <1>7 DEF KeptFirst
  <2>. QED BY <1>4, <1>5, <2>1
<1>8. (t = <<>> /\ R(t) = <<>>) \/ PairFirst(S, t, p, id) \/ KeptFirst(S, t, p, id)
  BY <1>3, StartCases
<1>. QED BY <1>6, <1>7a, <1>7, <1>8

(* Without the pair there is nothing to replace.                           *)
LEMMA ReplacedNothing ==
  ASSUME NEW S, NEW s \in Seq(S), NEW p, NEW id, p \notin AdjacentPairs(s)
  PROVE  Replaced(s, p, id) = s
<1>. DEFINE R(t) == Replaced(t, p, id)
            Bad == {t \in Seq(S) : p \notin AdjacentPairs(t) /\ R(t) # t}
<1>1. SUFFICES ASSUME Bad # {} PROVE FALSE
  OBVIOUS
<1>2. PICK t \in Bad : \A u \in Bad : Len(t) <= Len(u)
  <2>1. Bad \in SUBSET Seq(S)
    OBVIOUS
  <2>. HIDE DEF Bad
  <2>. QED BY <1>1, <2>1, ShortestSeq
<1>3. t \in Seq(S) /\ p \notin AdjacentPairs(t) /\ R(t) # t /\ Len(t) \in Nat
  OBVIOUS
<1>4. ASSUME NEW u \in Seq(S), Len(u) < Len(t), p \notin AdjacentPairs(u) PROVE R(u) = u
  <2>1. Len(u) \in Nat
    OBVIOUS
  <2>2. u \notin Bad
    <3>. HIDE DEF Bad
    <3>. QED BY <1>2, <1>3, <1>4, <2>1
  <2>. QED BY <1>4, <2>2
<1>. HIDE DEF Bad
<1>5. CASE PairFirst(S, t, p, id)
  <2>1. PICK u \in Seq(S), x \in S, y \in S : t = <<x, y>> \o u /\ p = <<x, y>>
    BY <1>5 DEF PairFirst
  <2>. DEFINE v == <<x, y>>
  <2>2. v \in Seq(S) /\ Len(v) = 2 /\ v[1] = x /\ v[2] = y /\ Len(u) \in Nat
    OBVIOUS
  <2>3. Len(t) = 2 + Len(u) /\ t[1] = x /\ t[2] = y
    <3>1. t = v \o u
      BY <2>1
    <3>. HIDE DEF v
    <3>2. Len(v \o u) = Len(v) + Len(u)
      BY <2>2, ConcatFacts
    <3>3. \A k \in 1 .. Len(v) + Len(u) : (v \o u)[k] = IF k <= Len(v) THEN v[k] ELSE u[k - Len(v)]
      BY <2>2, ConcatFacts
    <3>4. 1 \in 1 .. Len(v) + Len(u) /\ 2 \in 1 .. Len(v) + Len(u)
      BY <2>2
    <3>. QED BY <2>2, <3>1, <3>2, <3>3, <3>4
  <2>4. 1 \in 1 .. Len(t) - 1 /\ 1 + 1 = 2
    BY <2>2, <2>3
  <2>5. <<t[1], t[2]>> \in AdjacentPairs(t)
    BY <2>4 DEF AdjacentPairs
  <2>. QED BY <1>3, <2>1, <2>3, <2>5
<1>6. CASE KeptFirst(S, t, p, id)
  <2>1. PICK u \in Seq(S), x \in S : Len(u) < Len(t) /\ t = <<x>> \o u /\ R(t) = <<x>> \o R(u)
    BY <1>6 DEF KeptFirst
  <2>. DEFINE v == <<x>>
  <2>2. v \in Seq(S) /\ Len(v) = 1 /\ Len(u) \in Nat
    OBVIOUS
  <2>3. t = v \o u
    BY <2>1
  <2>. HIDE DEF v
  <2>4. Len(t) = 1 + Len(u)
    <3>1. Len(v \o u) = Len(v) + Len(u)
      BY <2>2, ConcatFacts
    <3>. QED BY <2>2, <2>3, <3>1
  <2>5. \A k \in 1 .. Len(u) : t[k + 1] = u[k]
    <3>. TAKE k \in 1 .. Len(u)
    <3>1. \A j \in 1 .. Len(v) + Len(u) : (v \o u)[j] = IF j <= Len(v) THEN v[j] ELSE u[j - Len(v)]
      BY <2>2, ConcatFacts
    <3>2. k + 1 \in 1 .. Len(v) + Len(u) /\ ~(k + 1 <= Len(v)) /\ (k + 1) - Len(v) = k
      BY <2>2
    <3>. QED BY <2>3, <3>1, <3>2
  <2>6. p \notin AdjacentPairs(u)
    <3>1. SUFFICES ASSUME NEW i \in 1 .. Len(u) - 1, p = <<u[i], u[i + 1]>> PROVE FALSE
      BY DEF AdjacentPairs
    <3>2. i + 1 \in 1 .. Len(t) - 1 /\ i \in 1 .. Len(u) /\ i + 1 \in 1 .. Len(u)
      BY <2>2, <2>4
    <3>3. <<t[i + 1], t[(i + 1) + 1]>> \in AdjacentPairs(t)
      BY <3>2 DEF AdjacentPairs
    <3>4. t[i + 1] = u[i] /\ t[(i + 1) + 1] = u[i + 1]
      BY <2>5, <3>2
    <3>. QED BY <1>3, <3>1, <3>3, <3>4
  <2>7. R(u) = u
    BY <1>4, <2>1, <2>6
  <2>. QED BY <1>3, <2>1, <2>7
<1>7. CASE t = <<>> /\ R(t) = <<>>
  BY <1>3, <1>7
<1>8. (t = <<>> /\ R(t) = <<>>) \/ PairFirst(S, t, p, id) \/ KeptFirst(S, t, p, id)
  BY <1>3, StartCases
<1>. QED BY <1>5, <1>6, <1>7, <1>8

LEMMA ConsFacts ==
  ASSUME NEW S, NEW u \in Seq(S), NEW x \in S
  PROVE  /\ <<x>> \o u \in Seq(S) /\ Len(<<x>> \o u) = 1 + Len(u) /\ Len(u) \in Nat
         /\ (<<x>> \o u)[1] = x
         /\ \A k \in 1 .. Len(u) : (<<x>> \o u)[k + 1] = u[k]
<1>. DEFINE v == <<x>>
            s == v \o u
<1>1. v \in Seq(S) /\ Len(v) = 1 /\ v[1] = x /\ Len(u) \in Nat
  OBVIOUS
<1>. HIDE DEF v
<1>2. v \o u \in Seq(S) /\ Len(v \o u) = Len(v) + Len(u)
  BY <1>1, ConcatFacts
<1>3. \A k \in 1 .. Len(v) + Len(u) : (v \o u)[k] = IF k <= Len(v) THEN v[k] ELSE u[k - Len(v)]
  BY <1>1, ConcatFacts
<1>4. s[1] = x
  <2>1. 1 \in 1 .. Len(v) + Len(u) /\ 1 <= Len(v)
    BY <1>1
  <2>. QED BY <1>1, <1>3, <2>1
<1>5. ASSUME NEW k \in 1 .. Len(u) PROVE s[k + 1] = u[k]
  <2>1. k + 1 \in 1 .. Len(v) + Len(u) /\ ~(k + 1 <= Len(v)) /\ (k + 1) - Len(v) = k
    BY <1>1
  <2>. QED BY <1>3, <2>1
<1>. QED BY <1>1, <1>2, <1>4, <1>5 DEF v

LEMMA ConsPairFacts ==
  ASSUME NEW S, NEW u \in Seq(S), NEW x \in S, NEW y \in S
  PROVE  /\ <<x, y>> \o u \in Seq(S) /\ Len(<<x, y>> \o u) = 2 + Len(u) /\ Len(u) \in Nat
         /\ (<<x, y>> \o u)[1] = x /\ (<<x, y>> \o u)[2] = y
         /\ \A k \in 1 .. Len(u) : (<<x, y>> \o u)[k + 2] = u[k]
<1>. DEFINE v == <<x, y>>
            s == v \o u
<1>1. v \in Seq(S) /\ Len(v) = 2 /\ v[1] = x /\ v[2] = y /\ Len(u) \in Nat
  OBVIOUS
<1>. HIDE DEF v
<1>2. v \o u \in Seq(S) /\ Len(v \o u) = Len(v) + Len(u)
  BY <1>1, ConcatFacts
<1>3. \A k \in 1 .. Len(v) + Len(u) : (v \o u)[k] = IF k <= Len(v) THEN v[k] ELSE u[k - Len(v)]
  BY <1>1, ConcatFacts
<1>4. s[1] = x /\ s[2] = y
  <2>1. 1 \in 1 .. Len(v) + Len(u) /\ 2 \in 1 .. Len(v) + Len(u) /\ 1 <= Len(v) /\ 2 <= Len(v)
    BY <1>1
  <2>. QED BY <1>1, <1>3, <2>1
<1>5. ASSUME NEW k \in 1 .. Len(u) PROVE s[k + 2] = u[k]
  <2>1. k + 2 \in 1 .. Len(v) + Len(u) /\ ~(k + 2 <= Len(v)) /\ (k + 2) - Len(v) = k
    BY <1>1
  <2>. QED BY <1>3, <2>1
<1>. QED BY <1>1, <1>2, <1>4, <1>5 DEF v

(* Merging the first place of the pair by hand makes no difference.        *)
LEMMA ReplacedFirst ==
  ASSUME NEW S, NEW s \in Seq(S), NEW a \in S, NEW b \in S, NEW id \in S, id # a, id # b,
         NEW i \in Places(s, <<a, b>>), \A k \in Places(s, <<a, b>>) : i <= k
  PROVE  Replaced(Merged(s, i, id), <<a, b>>, id) = Replaced(s, <<a, b>>, id)
<1>. DEFINE p == <<a, b>>
            R(t) == Replaced(t, p, id)
            First(t, j) == j \in Places(t, p) /\ \A k \in Places(t, p) : j <= k
            Bad == {t \in Seq(S) : \E j : First(t, j) /\ R(Merged(t, j, id)) # R(t)}
<1>0. p[1] = a /\ p[2] = b
  OBVIOUS
<1>. HIDE DEF p
<1>1. SUFFICES ASSUME Bad # {} PROVE FALSE
  <2>1. First(s, i)
    BY DEF p
  <2>. HIDE DEF First
  <2>2. s \notin Bad => R(Merged(s, i, id)) = R(s)
    BY <2>1
  <2>. QED BY <2>2 DEF p
<1>2. PICK t \in Bad : \A u \in Bad : Len(t) <= Len(u)
  <2>1. Bad \in SUBSET Seq(S)
    OBVIOUS
  <2>. HIDE DEF Bad
  <2>. QED BY <1>1, <2>1, ShortestSeq
<1>3. t \in Seq(S) /\ Len(t) \in Nat
  OBVIOUS
<1>4. PICK j : First(t, j) /\ R(Merged(t, j, id)) # R(t)
  OBVIOUS
<1>5. ASSUME NEW u \in Seq(S), Len(u) < Len(t), NEW k, First(u, k)
      PROVE  R(Merged(u, k, id)) = R(u)
  <2>1. Len(u) \in Nat
    OBVIOUS
  <2>2. u \notin Bad
    <3>. HIDE DEF Bad
    <3>. QED BY <1>2, <1>3, <1>5, <2>1
  <2>. HIDE DEF First
  <2>. QED BY <1>5, <2>2
<1>. HIDE DEF Bad
<1>6. j \in 1 .. Len(t) - 1 /\ <<t[j], t[j + 1]>> = p /\ \A k \in Places(t, p) : j <= k
  BY <1>4 DEF Places
<1>7. /\ Merged(t, j, id) \in Seq(S) /\ Len(Merged(t, j, id)) = Len(t) - 1
      /\ \A k \in 1 .. Len(t) - 1 : Merged(t, j, id)[k] =
           IF k < j THEN t[k] ELSE IF k = j THEN id ELSE t[k + 1]
  BY <1>3, <1>6, MergedFacts
<1>8. CASE PairFirst(S, t, p, id)
  <2>1. PICK u \in Seq(S), x \in S, y \in S :
          t = <<x, y>> \o u /\ p = <<x, y>> /\ R(t) = <<id>> \o R(u)
    BY <1>8 DEF PairFirst
  <2>2. Len(t) = 2 + Len(u) /\ Len(u) \in Nat /\ t[1] = x /\ t[2] = y
        /\ \A k \in 1 .. Len(u) : t[k + 2] = u[k]
    BY <2>1, ConsPairFacts
  <2>3. j = 1
    <3>1. 1 \in 1 .. Len(t) - 1 /\ 1 + 1 = 2
      BY <2>2
    <3>2. 1 \in Places(t, p)
      BY <2>1, <2>2, <3>1 DEF Places
    <3>. QED BY <1>6, <3>2
  <2>. DEFINE m == Merged(t, j, id)
              c == <<id>> \o u
  <2>4. c \in Seq(S) /\ Len(c) = 1 + Len(u) /\ c[1] = id /\ \A k \in 1 .. Len(u) : c[k + 1] = u[k]
    BY ConsFacts
  <2>5. m \in Seq(S) /\ Len(m) = 1 + Len(u)
    BY <1>7, <2>2
  <2>6. ASSUME NEW k \in 1 .. 1 + Len(u) PROVE m[k] = c[k]
    <3>1. k \in 1 .. Len(t) - 1 /\ ~(k < 1)
      BY <2>2
    <3>2. m[k] = IF k = 1 THEN id ELSE t[k + 1]
      BY <1>7, <2>3, <3>1
    <3>3. k # 1 => k - 1 \in 1 .. Len(u) /\ (k - 1) + 2 = k + 1 /\ (k - 1) + 1 = k
      BY <2>2
    <3>. HIDE DEF m, c
    <3>4. k # 1 => t[k + 1] = u[k - 1] /\ c[k] = u[k - 1]
      <4>1. k # 1 => t[(k - 1) + 2] = u[k - 1] /\ c[(k - 1) + 1] = u[k - 1]
        BY <2>2, <2>4, <3>3
      <4>. QED BY <3>3, <4>1
    <3>. QED BY <2>4, <3>2, <3>4
  <2>7. m = c
    <3>. HIDE DEF m, c
    <3>1. Len(m) = Len(c)
      BY <2>4, <2>5
    <3>. QED BY <2>4, <2>5, <2>6, <3>1, SeqEqual
  <2>8. ~(Len(u) > 0 /\ <<id, u[1]>> = p)
    <3>1. <<id, u[1]>>[1] = id
      OBVIOUS
    <3>. QED BY <1>0, <3>1
  <2>9. R(c) = <<id>> \o R(u)
    <3>. DEFINE v == <<id>>
    <3>1. v \in Seq(S) /\ Len(v) = 1 /\ v[1] = id
      OBVIOUS
    <3>. HIDE DEF v
    <3>2. ~(Len(u) > 0 /\ <<v[1], u[1]>> = p)
      BY <2>8, <3>1
    <3>3. Replaced(v \o u, p, id) = v \o Replaced(u, p, id)
      BY <3>1, <3>2, ReplacedKeeps
    <3>. QED BY <3>3 DEF v
  <2>. QED BY <1>4, <2>1, <2>7, <2>9
<1>9. CASE KeptFirst(S, t, p, id)
  <2>1. PICK u \in Seq(S), x \in S :
          /\ Len(u) < Len(t) /\ t = <<x>> \o u /\ ~(Len(u) > 0 /\ <<x, u[1]>> = p)
          /\ R(t) = <<x>> \o R(u)
    BY <1>9 DEF KeptFirst
  <2>2. Len(t) = 1 + Len(u) /\ Len(u) \in Nat /\ t[1] = x
        /\ \A k \in 1 .. Len(u) : t[k + 1] = u[k]
    BY <2>1, ConsFacts
  <2>3. j > 1
    <3>1. j = 1 => 1 \in 1 .. Len(u) /\ 1 + 1 = 2
      BY <1>6, <2>2
    <3>2. j = 1 => t[1 + 1] = u[1] /\ Len(u) > 0
      BY <2>2, <3>1
    <3>3. j # 1
      BY <1>6, <2>1, <2>2, <3>1, <3>2
    <3>. QED BY <1>6, <3>3
  <2>4. \A k \in 1 .. Len(u) - 1 : k + 1 \in 1 .. Len(t) - 1 /\ t[k + 1] = u[k] /\ t[(k + 1) + 1] = u[k + 1]
    <3>. TAKE k \in 1 .. Len(u) - 1
    <3>1. k \in 1 .. Len(u) /\ k + 1 \in 1 .. Len(u) /\ k + 1 \in 1 .. Len(t) - 1
      BY <2>2
    <3>. QED BY <2>2, <3>1
  <2>5. First(u, j - 1)
    <3>1. j - 1 \in 1 .. Len(u) - 1 /\ (j - 1) + 1 = j
      BY <1>6, <2>2, <2>3
    <3>2. <<u[j - 1], u[(j - 1) + 1]>> = p
      <4>1. t[(j - 1) + 1] = u[j - 1] /\ t[((j - 1) + 1) + 1] = u[(j - 1) + 1]
        BY <2>4, <3>1
      <4>. QED BY <1>6, <3>1, <4>1
    <3>3. j - 1 \in Places(u, p)
      BY <3>1, <3>2 DEF Places
    <3>4. ASSUME NEW k \in Places(u, p) PROVE j - 1 <= k
      <4>1. k \in 1 .. Len(u) - 1 /\ <<u[k], u[k + 1]>> = p
        BY DEF Places
      <4>2. k + 1 \in 1 .. Len(t) - 1 /\ t[k + 1] = u[k] /\ t[(k + 1) + 1] = u[k + 1]
        BY <2>4, <4>1
      <4>3. k + 1 \in Places(t, p)
        BY <4>1, <4>2 DEF Places
      <4>4. j <= k + 1
        BY <1>6, <4>3
      <4>. QED BY <1>6, <4>1, <4>4
    <3>. QED BY <3>3, <3>4
  <2>. DEFINE m == Merged(t, j, id)
              n == Merged(u, j - 1, id)
              c == <<x>> \o n
  <2>6. /\ n \in Seq(S) /\ Len(n) = Len(u) - 1
        /\ \A k \in 1 .. Len(u) - 1 : n[k] = IF k < j - 1 THEN u[k] ELSE IF k = j - 1 THEN id ELSE u[k + 1]
    <3>1. j - 1 \in 1 .. Len(u) - 1
      BY <1>6, <2>2, <2>3
    <3>2. u \in Seq(S) /\ id \in S
      OBVIOUS
    <3>. DEFINE h == j - 1
    <3>3. h \in 1 .. Len(u) - 1
      BY <3>1
    <3>. HIDE DEF n, h
    <3>4. Merged(u, h, id) \in Seq(S) /\ Len(Merged(u, h, id)) = Len(u) - 1
      BY ONLY <3>2, <3>3, MergedFacts
    <3>5. \A k \in 1 .. Len(u) - 1 : Merged(u, h, id)[k] =
            IF k < h THEN u[k] ELSE IF k = h THEN id ELSE u[k + 1]
      BY ONLY <3>2, <3>3, MergedFacts
    <3>. QED BY <3>4, <3>5 DEF n, h
  <2>. HIDE DEF n
  <2>7. c \in Seq(S) /\ Len(c) = 1 + Len(n) /\ c[1] = x /\ \A k \in 1 .. Len(n) : c[k + 1] = n[k]
    BY <2>6, ConsFacts
  <2>8. m \in Seq(S) /\ Len(m) = Len(t) - 1
    BY <1>7
  <2>9. ASSUME NEW k \in 1 .. Len(t) - 1 PROVE m[k] = c[k]
    <3>1. m[k] = IF k < j THEN t[k] ELSE IF k = j THEN id ELSE t[k + 1]
      BY <1>7
    <3>. HIDE DEF m, c
    <3>2. CASE k = 1
      BY <2>2, <2>3, <2>7, <3>1, <3>2
    <3>3. CASE k # 1
      <4>1. k - 1 \in 1 .. Len(n) /\ k - 1 \in 1 .. Len(u) - 1 /\ (k - 1) + 1 = k
            /\ k - 1 \in 1 .. Len(u) /\ k \in 1 .. Len(u)
        BY <2>2, <2>6, <3>3
      <4>2. c[k] = n[k - 1]
        BY <2>7, <4>1
      <4>3. n[k - 1] = IF k - 1 < j - 1 THEN u[k - 1] ELSE IF k - 1 = j - 1 THEN id ELSE u[k]
        BY <2>6, <4>1
      <4>4. t[k] = u[k - 1] /\ t[k + 1] = u[k]
        BY <2>2, <4>1
      <4>5. (k - 1 < j - 1 <=> k < j) /\ (k - 1 = j - 1 <=> k = j)
        BY <1>6
      <4>. QED BY <3>1, <4>2, <4>3, <4>4, <4>5
    <3>. QED BY <3>2, <3>3
  <2>10. m = c
    <3>. HIDE DEF m, c
    <3>1. Len(m) = Len(c) /\ Len(m) = Len(t) - 1
      BY <1>3, <2>2, <2>6, <2>7, <2>8
    <3>. QED BY <2>7, <2>8, <2>9, <3>1, SeqEqual
  <2>11. ~(Len(n) > 0 /\ <<x, n[1]>> = p)
    <3>1. Len(n) > 0 => 1 \in 1 .. Len(u) - 1 /\ Len(u) > 0 /\ ~(1 < j - 1 /\ 1 = j - 1) /\ ~(1 > j - 1)
      BY <1>6, <2>2, <2>3, <2>6
    <3>2. Len(n) > 0 => n[1] = IF 1 < j - 1 THEN u[1] ELSE IF 1 = j - 1 THEN id ELSE u[1 + 1]
      BY <2>6, <3>1
    <3>3. Len(n) > 0 => n[1] = u[1] \/ n[1] = id
      <4>1. 1 < j - 1 \/ 1 = j - 1 \/ 1 > j - 1
        BY <1>6
      <4>. QED BY <3>1, <3>2, <4>1
    <3>4. <<x, n[1]>>[2] = n[1]
      OBVIOUS
    <3>5. SUFFICES ASSUME Len(n) > 0, <<x, n[1]>> = p PROVE FALSE
      OBVIOUS
    <3>6. n[1] = b
      BY <1>0, <3>4, <3>5
    <3>7. n[1] = u[1] /\ Len(u) > 0
      BY <3>1, <3>3, <3>5, <3>6
    <3>. QED BY <2>1, <3>5, <3>7
  <2>12. R(c) = <<x>> \o R(n)
    <3>. DEFINE v == <<x>>
    <3>1. v \in Seq(S) /\ Len(v) = 1 /\ v[1] = x
      OBVIOUS
    <3>. HIDE DEF v
    <3>2. ~(Len(n) > 0 /\ <<v[1], n[1]>> = p)
      BY <2>11, <3>1
    <3>3. Replaced(v \o n, p, id) = v \o Replaced(n, p, id)
      BY <2>6, <3>1, <3>2, ReplacedKeeps
    <3>. QED BY <3>3 DEF v
  <2>13. R(n) = R(u)
    BY <1>5, <2>1, <2>5 DEF n
  <2>. HIDE DEF m, c
  <2>14. R(m) = R(t)
    BY <2>1, <2>10, <2>12, <2>13
  <2>. QED BY <1>4, <2>14 DEF m
<1>10. CASE t = <<>>
  BY <1>6, <1>10
<1>11. t = <<>> \/ PairFirst(S, t, p, id) \/ KeptFirst(S, t, p, id)
  BY <1>3, StartCases
<1>. QED BY <1>8, <1>9, <1>10, <1>11

-----------------------------------------------------------------------------
(* A boundary that a replacement keeps: the two sides are what replacing   *)
(* makes of two parts.                                                     *)

Splits(S, t, p, id, A, B) ==
  \E a \in Seq(S), b \in Seq(S) :
    t = a \o b /\ Replaced(a, p, id) = A /\ Replaced(b, p, id) = B

LEMMA ReplacedSplits ==
  ASSUME NEW S, NEW s \in Seq(S), NEW p, NEW id \in S, NEW A \in Seq(S), NEW B \in Seq(S),
         Replaced(s, p, id) = A \o B
  PROVE  Splits(S, s, p, id, A, B)
<1>. DEFINE R(t) == Replaced(t, p, id)
            Bad == {t \in Seq(S) : \E C \in Seq(S), D \in Seq(S) :
                      R(t) = C \o D /\ ~Splits(S, t, p, id, C, D)}
<1>1. SUFFICES ASSUME Bad # {} PROVE FALSE
  <2>1. s \notin Bad => Splits(S, s, p, id, A, B)
    OBVIOUS
  <2>. QED BY <2>1
<1>2. PICK t \in Bad : \A u \in Bad : Len(t) <= Len(u)
  <2>1. Bad \in SUBSET Seq(S)
    OBVIOUS
  <2>. HIDE DEF Bad
  <2>. QED BY <1>1, <2>1, ShortestSeq
<1>3. t \in Seq(S) /\ Len(t) \in Nat
  OBVIOUS
<1>4. PICK C \in Seq(S), D \in Seq(S) : R(t) = C \o D /\ ~Splits(S, t, p, id, C, D)
  OBVIOUS
<1>5. ASSUME NEW u \in Seq(S), Len(u) < Len(t), NEW E \in Seq(S), NEW F \in Seq(S), R(u) = E \o F
      PROVE  Splits(S, u, p, id, E, F)
  <2>1. Len(u) \in Nat
    OBVIOUS
  <2>2. u \notin Bad
    <3>. HIDE DEF Bad
    <3>. QED BY <1>2, <1>3, <1>5, <2>1
  <2>. QED BY <1>5, <2>2
<1>. HIDE DEF Bad
<1>6. <<>> \in Seq(S) /\ Len(<<>>) = 0 /\ R(<<>>) = <<>>
  <2>1. <<>> \in Seq(S) /\ Len(<<>>) = 0
    OBVIOUS
  <2>2. Replaced(<<>>, p, id) = <<>>
    BY ONLY <2>1, ReplacedUnfolds, ZenonT(60)
  <2>. QED BY <2>1, <2>2
<1>7. C # <<>>
  <2>1. SUFFICES ASSUME C = <<>> PROVE FALSE
    OBVIOUS
  <2>2. <<>> \o D = D /\ <<>> \o t = t
    BY <1>3
  <2>3. Splits(S, t, p, id, <<>>, D)
    BY <1>3, <1>4, <1>6, <2>1, <2>2 DEF Splits
  <2>. QED BY <1>4, <2>1, <2>3
<1>8. Len(C) > 0
  BY <1>7
<1>9. CASE PairFirst(S, t, p, id)
  <2>1. PICK u \in Seq(S), x \in S, y \in S :
          Len(u) < Len(t) /\ t = <<x, y>> \o u /\ p = <<x, y>> /\ R(t) = <<id>> \o R(u)
    BY <1>9 DEF PairFirst
  <2>. DEFINE E == From(C, 1)
              r == R(u)
  <2>2. r \in Seq(S)
    BY ReplacedType
  <2>3. C = <<id>> \o E /\ R(u) = E \o D /\ E \in Seq(S)
    <3>. HIDE DEF E, r
    <3>1. <<id>> \o r = C \o D
      BY <1>4, <2>1 DEF r
    <3>1a. id \in S /\ r \in Seq(S) /\ C \in Seq(S) /\ D \in Seq(S)
      BY <2>2
    <3>1b. C = <<id>> \o From(C, 1) /\ r = From(C, 1) \o D /\ From(C, 1) \in Seq(S)
      <4>1. id \in S
        BY <3>1a
      <4>2. r \in Seq(S)
        BY <3>1a
      <4>3. C \in Seq(S)
        BY <3>1a
      <4>4. D \in Seq(S)
        BY <3>1a
      <4>. QED BY ONLY <1>8, <3>1, <4>1, <4>2, <4>3, <4>4, ConcatCancels, ZenonT(60)
    <3>2. C = <<id>> \o E
      BY <3>1b DEF E
    <3>3. r = E \o D
      BY <3>1b DEF E
    <3>4. E \in Seq(S)
      BY <3>1b DEF E
    <3>. QED BY <3>2, <3>3, <3>4 DEF r
  <2>. HIDE DEF E, r
  <2>4. PICK a \in Seq(S), b \in Seq(S) : u = a \o b /\ R(a) = E /\ R(b) = D
    <3>1. Splits(S, u, p, id, E, D)
      BY <1>5, <2>1, <2>3
    <3>. QED BY <3>1 DEF Splits
  <2>. DEFINE v == <<x, y>>
              w == v \o a
  <2>5. v \in Seq(S) /\ w \in Seq(S)
    BY ConsPairFacts
  <2>6. t = w \o b
    <3>1. t = v \o (a \o b)
      BY <2>1, <2>4
    <3>. HIDE DEF v
    <3>2. v \in Seq(S) /\ a \in Seq(S) /\ b \in Seq(S)
      BY <2>5
    <3>3. (v \o a) \o b = v \o (a \o b)
      BY ONLY <3>2, ConcatAssociative, SMTT(30)
    <3>. QED BY <3>1, <3>3
  <2>7. R(w) = C
    <3>0. a \in Seq(S) /\ v \in Seq(S) /\ Len(v) = 2
      BY <2>5
    <3>. HIDE DEF v
    <3>3. Replaced(v \o a, v, id) = <<id>> \o Replaced(a, v, id)
      <4>1. a \in Seq(S)
        BY <3>0
      <4>2. v \in Seq(S)
        BY <3>0
      <4>3. Len(v) = 2
        BY <3>0
      <4>. QED BY ONLY <4>1, <4>2, <4>3, ReplacedMakes, SMTT(60)
    <3>4. p = v
      BY <2>1 DEF v
    <3>. QED BY <2>3, <2>4, <3>3, <3>4
  <2>. HIDE DEF v, w
  <2>8. Splits(S, t, p, id, C, D)
    BY <2>4, <2>5, <2>6, <2>7 DEF Splits
  <2>. QED BY <1>4, <2>8
<1>10. CASE KeptFirst(S, t, p, id)
  <2>1. PICK u \in Seq(S), x \in S :
          /\ Len(u) < Len(t) /\ t = <<x>> \o u /\ ~(Len(u) > 0 /\ <<x, u[1]>> = p)
          /\ R(t) = <<x>> \o R(u)
    BY <1>10 DEF KeptFirst
  <2>. DEFINE E == From(C, 1)
              r == R(u)
  <2>2. r \in Seq(S)
    BY ReplacedType
  <2>3. C = <<x>> \o E /\ R(u) = E \o D /\ E \in Seq(S)
    <3>. HIDE DEF E, r
    <3>1. <<x>> \o r = C \o D
      BY <1>4, <2>1 DEF r
    <3>1a. x \in S /\ r \in Seq(S) /\ C \in Seq(S) /\ D \in Seq(S)
      BY <2>2
    <3>1b. C = <<x>> \o From(C, 1) /\ r = From(C, 1) \o D /\ From(C, 1) \in Seq(S)
      <4>1. x \in S
        BY <3>1a
      <4>2. r \in Seq(S)
        BY <3>1a
      <4>3. C \in Seq(S)
        BY <3>1a
      <4>4. D \in Seq(S)
        BY <3>1a
      <4>. QED BY ONLY <1>8, <3>1, <4>1, <4>2, <4>3, <4>4, ConcatCancels
    <3>2. C = <<x>> \o E
      BY <3>1b DEF E
    <3>3. r = E \o D
      BY <3>1b DEF E
    <3>4. E \in Seq(S)
      BY <3>1b DEF E
    <3>. QED BY <3>2, <3>3, <3>4 DEF r
  <2>. HIDE DEF E, r
  <2>4. PICK a \in Seq(S), b \in Seq(S) : u = a \o b /\ R(a) = E /\ R(b) = D
    <3>1. Splits(S, u, p, id, E, D)
      BY <1>5, <2>1, <2>3
    <3>. QED BY <3>1 DEF Splits
  <2>. DEFINE v == <<x>>
              w == v \o a
  <2>5. v \in Seq(S) /\ w \in Seq(S)
    BY ConsFacts
  <2>6. t = w \o b
    <3>1. t = v \o (a \o b)
      BY <2>1, <2>4
    <3>. HIDE DEF v
    <3>2. v \in Seq(S) /\ a \in Seq(S) /\ b \in Seq(S)
      BY <2>5
    <3>3. (v \o a) \o b = v \o (a \o b)
      BY ONLY <3>2, ConcatAssociative, SMTT(30)
    <3>. QED BY <3>1, <3>3
  <2>7. ~(Len(a) > 0 /\ <<x, a[1]>> = p)
    <3>1. Len(a) \in Nat /\ Len(b) \in Nat /\ Len(u) = Len(a) + Len(b)
      BY <2>4, ConcatFacts
    <3>2. Len(a) > 0 => u[1] = a[1] /\ Len(u) > 0
      <4>1. Len(a) > 0 => 1 \in 1 .. Len(a) + Len(b) /\ 1 <= Len(a)
        BY <3>1
      <4>2. \A k \in 1 .. Len(a) + Len(b) : (a \o b)[k] = IF k <= Len(a) THEN a[k] ELSE b[k - Len(a)]
        BY ConcatFacts
      <4>3. Len(a) > 0 => (a \o b)[1] = a[1]
        BY <4>1, <4>2
      <4>. QED BY <2>4, <3>1, <4>3
    <3>. QED BY <2>1, <3>2
  <2>8. R(w) = C
    <3>0. a \in Seq(S) /\ v \in Seq(S) /\ Len(v) = 1 /\ v[1] = x
      BY <2>5
    <3>. HIDE DEF v
    <3>2. ~(Len(a) > 0 /\ <<v[1], a[1]>> = p)
      BY <2>7, <3>0
    <3>3. Replaced(v \o a, p, id) = v \o Replaced(a, p, id)
      BY ONLY <3>0, <3>2, ReplacedKeeps, SMTT(60)
    <3>4. C = v \o E
      BY <2>3 DEF v
    <3>. QED BY <2>4, <3>3, <3>4
  <2>. HIDE DEF v, w
  <2>9. Splits(S, t, p, id, C, D)
    BY <2>4, <2>5, <2>6, <2>8 DEF Splits
  <2>. QED BY <1>4, <2>9
<1>11. CASE t = <<>> /\ R(t) = <<>>
  <2>1. Len(C \o D) = Len(C) + Len(D) /\ Len(C) \in Nat /\ Len(D) \in Nat
    BY ConcatFacts
  <2>2. Len(C \o D) = 0
    BY <1>4, <1>6, <1>11
  <2>. QED BY <1>8, <2>1, <2>2
<1>12. (t = <<>> /\ R(t) = <<>>) \/ PairFirst(S, t, p, id) \/ KeptFirst(S, t, p, id)
  BY <1>3, StartCases
<1>. QED BY <1>9, <1>10, <1>11, <1>12

-----------------------------------------------------------------------------
(* The bytes a sequence of symbols stands for.                             *)

(* g has what the first elements of q come to, up to n.                    *)
IsFlat(g, q, n) == g = [i \in 1 .. n |-> IF i = 1 THEN q[i] ELSE g[i - 1] \o q[i]]

LEMMA FlatsExist ==
  ASSUME NEW q, NEW n \in Nat
  PROVE  \E g : IsFlat(g, q, n)
<1>. DEFINE part(g, i) == IF i = 1 THEN q[i] ELSE g[i - 1] \o q[i]
            Bad == {m \in Nat : ~ \E g : IsFlat(g, q, m)}
<1>1. SUFFICES ASSUME n \in Bad PROVE FALSE
  OBVIOUS
<1>. HIDE DEF Bad
<1>2. PICK m \in Bad : \A k \in Bad : m <= k
  <2>1. Bad \in SUBSET Nat
    BY DEF Bad
  <2>. QED BY <1>1, <2>1, LeastNumber
<1>3. m \in Nat /\ ~ \E g : IsFlat(g, q, m)
  BY <1>2 DEF Bad
<1>4. \A g, k : IsFlat(g, q, k) <=> g = [i \in 1 .. k |-> part(g, i)]
  BY DEF IsFlat
<1>5. CASE m = 0
  <2>. DEFINE h == [i \in 1 .. 0 |-> <<>>]
  <2>1. \A i \in 1 .. 0 : FALSE
    OBVIOUS
  <2>. HIDE DEF part
  <2>2. h = [i \in 1 .. 0 |-> part(h, i)]
    <3>. DEFINE hh == h
    <3>1. hh = [i \in 1 .. 0 |-> <<>>]
      OBVIOUS
    <3>. HIDE DEF hh
    <3>2. hh = [i \in 1 .. 0 |-> part(hh, i)]
      BY <2>1, <3>1
    <3>. QED BY <3>2 DEF hh
  <2>. HIDE DEF h
  <2>3. IsFlat(h, q, 0)
    BY <2>2, <1>4
  <2>. QED BY <2>3, <1>3, <1>5
<1>6. CASE m > 0
  <2>1. m - 1 \in Nat /\ m - 1 \notin Bad
    BY <1>2, <1>3, <1>6
  <2>2. PICK g : IsFlat(g, q, m - 1)
    BY <2>1 DEF Bad
  <2>3. g = [i \in 1 .. m - 1 |-> part(g, i)]
    BY <2>2, <1>4
  <2>. DEFINE h == [i \in 1 .. m |-> part(g, i)]
  <2>4. \A i \in 1 .. m - 1 : h[i] = g[i]
    <3>. HIDE DEF part
    <3>. TAKE i \in 1 .. m - 1
    <3>1. i \in 1 .. m
      BY <1>3
    <3>2. g[i] = part(g, i)
      BY <2>3
    <3>. QED BY <3>1, <3>2
  <2>5. \A i \in 1 .. m : part(g, i) = part(h, i)
    <3>. HIDE DEF h
    <3>. TAKE i \in 1 .. m
    <3>1. i = 1 \/ i - 1 \in 1 .. m - 1
      BY <1>3
    <3>2. i = 1 \/ h[i - 1] = g[i - 1]
      BY <2>4, <3>1
    <3>. QED BY <3>2
  <2>6. h = [i \in 1 .. m |-> part(h, i)]
    <3>. DEFINE hh == h
    <3>1. hh = [i \in 1 .. m |-> part(g, i)]
      OBVIOUS
    <3>2. \A i \in 1 .. m : part(g, i) = part(hh, i)
      BY <2>5
    <3>. HIDE DEF hh, part
    <3>3. hh = [i \in 1 .. m |-> part(hh, i)]
      BY <3>1, <3>2
    <3>. QED BY <3>3 DEF hh
  <2>. HIDE DEF h
  <2>7. IsFlat(h, q, m)
    BY <2>6, <1>4
  <2>. QED BY <2>7, <1>3
<1>. QED BY <1>3, <1>5, <1>6

LEMMA FlattenIs ==
  ASSUME NEW S, NEW q \in Seq(Seq(S))
  PROVE  /\ Len(q) = 0 => FlattenSeq(q) = <<>>
         /\ \E g : IsFlat(g, q, Len(q)) /\ (Len(q) > 0 => FlattenSeq(q) = g[Len(q)])
<1>. DEFINE c == CHOOSE g : IsFlat(g, q, Len(q))
<1>0. Len(q) \in Nat
  OBVIOUS
<1>1. Len(q) = 0 => FlattenSeq(q) = <<>>
  <2>1. Len(q) = 0 => q = <<>>
    OBVIOUS
  <2>. QED BY <2>1 DEF FlattenSeq
<1>2. IsFlat(c, q, Len(q))
  BY <1>0, FlatsExist
<1>3. Len(q) > 0 => FlattenSeq(q) = c[Len(q)]
  <2>1. SUFFICES ASSUME Len(q) > 0 PROVE FlattenSeq(q) = c[Len(q)]
    OBVIOUS
  <2>2. ~(Len(q) = 0)
    BY <1>0, <2>1
  <2>. QED BY <2>2 DEF FlattenSeq, IsFlat
<1>. QED BY <1>1, <1>2, <1>3

LEMMA FlattenAppend ==
  ASSUME NEW S, NEW q \in Seq(Seq(S)), NEW x \in Seq(S)
  PROVE  FlattenSeq(Append(q, x)) = FlattenSeq(q) \o x
<1>. DEFINE n == Len(q)
            r == Append(q, x)
<1>1. n \in Nat /\ r \in Seq(Seq(S)) /\ Len(r) = n + 1 /\ r[n + 1] = x /\ \A i \in 1 .. n : r[i] = q[i]
  OBVIOUS
<1>2. PICK g : IsFlat(g, q, n) /\ (n > 0 => FlattenSeq(q) = g[n])
  BY FlattenIs
<1>. HIDE DEF r
<1>3. PICK h : IsFlat(h, r, Len(r)) /\ (Len(r) > 0 => FlattenSeq(r) = h[Len(r)])
  BY <1>1, FlattenIs
<1>4. n = 0 => FlattenSeq(q) = <<>>
  BY FlattenIs
<1>. HIDE DEF n
<1>5. \A i \in 1 .. n : g[i] = IF i = 1 THEN q[i] ELSE g[i - 1] \o q[i]
  BY <1>2 DEF IsFlat
<1>6. \A i \in 1 .. n + 1 : h[i] = IF i = 1 THEN r[i] ELSE h[i - 1] \o r[i]
  BY <1>1, <1>3 DEF IsFlat
<1>. DEFINE Bad == {i \in Nat : i \in 1 .. n /\ h[i] # g[i]}
<1>7. Bad = {}
  <2>1. SUFFICES ASSUME Bad # {} PROVE FALSE
    OBVIOUS
  <2>2. Bad \in SUBSET Nat
    OBVIOUS
  <2>3. PICK i \in Bad : \A k \in Bad : i <= k
    <3>. HIDE DEF Bad
    <3>. QED BY <2>1, <2>2, LeastNumber
  <2>4. i \in Nat /\ i \in 1 .. n /\ h[i] # g[i]
    OBVIOUS
  <2>5. i # 1 => h[i - 1] = g[i - 1]
    <3>1. i # 1 => i - 1 \in Nat /\ i - 1 \in 1 .. n /\ ~(i <= i - 1)
      BY <1>1, <2>4
    <3>2. i # 1 => i - 1 \notin Bad
      <4>. HIDE DEF Bad
      <4>. QED BY <2>3, <3>1
    <3>. QED BY <3>1, <3>2
  <2>6. i \in 1 .. n + 1
    BY <1>1, <2>4
  <2>7. h[i] = IF i = 1 THEN r[i] ELSE h[i - 1] \o r[i]
    BY <1>6, <2>6
  <2>8. g[i] = IF i = 1 THEN q[i] ELSE g[i - 1] \o q[i]
    BY <1>5, <2>4
  <2>9. r[i] = q[i]
    BY <1>1, <2>4
  <2>. HIDE DEF Bad
  <2>. QED BY <2>4, <2>5, <2>7, <2>8, <2>9
<1>8. n + 1 \in 1 .. n + 1 /\ (n + 1) - 1 = n /\ n + 1 > 0
  BY <1>1
<1>9. FlattenSeq(r) = h[n + 1]
  BY <1>1, <1>3, <1>8
<1>10. h[n + 1] = IF n + 1 = 1 THEN x ELSE h[n] \o x
  BY <1>1, <1>6, <1>8
<1>11. CASE n = 0
  <2>1. <<>> \o x = x
    OBVIOUS
  <2>2. n + 1 = 1
    BY <1>11
  <2>. QED BY <1>4, <1>9, <1>10, <1>11, <2>1, <2>2 DEF r
<1>12. CASE n > 0
  <2>1. n \in Nat /\ n \in 1 .. n /\ n + 1 # 1
    BY <1>1, <1>12
  <2>2. h[n] = g[n]
    BY <1>7, <2>1
  <2>. QED BY <1>2, <1>9, <1>10, <1>12, <2>1, <2>2 DEF r
<1>. QED BY <1>1, <1>11, <1>12

Text(table, s) == FlattenSeq([i \in DOMAIN s |-> BytesOf(table, s[i])])

LEMMA BytesType ==
  ASSUME NEW table \in Seq(Seq(Nat)), NEW id \in Ids(Len(table))
  PROVE  BytesOf(table, id) \in Seq(Nat)
<1>1. id + 1 \in 1 .. Len(table)
  BY DEF Ids
<1>. QED BY <1>1 DEF BytesOf

LEMMA TextAppend ==
  ASSUME NEW table \in Seq(Seq(Nat)), NEW s \in Seq(Ids(Len(table))), NEW x \in Ids(Len(table))
  PROVE  /\ Text(table, <<>>) = <<>>
         /\ Text(table, Append(s, x)) = Text(table, s) \o BytesOf(table, x)
<1>. DEFINE V == Ids(Len(table))
            n == Len(s)
            q == [i \in DOMAIN s |-> BytesOf(table, s[i])]
            t == Append(s, x)
            r == [i \in DOMAIN t |-> BytesOf(table, t[i])]
            y == BytesOf(table, x)
            w == Append(q, y)
            T == Seq(Nat)
<1>1. n \in Nat /\ DOMAIN s = 1 .. n /\ \A i \in 1 .. n : s[i] \in V
  OBVIOUS
<1>2. t \in Seq(V) /\ Len(t) = n + 1 /\ DOMAIN t = 1 .. n + 1 /\ t[n + 1] = x
      /\ \A i \in 1 .. n : t[i] = s[i]
  OBVIOUS
<1>3. y \in T
  BY BytesType
<1>. HIDE DEF t, V
<1>4. q \in Seq(T) /\ Len(q) = n /\ \A i \in 1 .. n : q[i] = BytesOf(table, s[i])
  <2>1. \A i \in 1 .. n : BytesOf(table, s[i]) \in T
    BY <1>1, BytesType DEF V
  <2>2. q = [i \in 1 .. n |-> BytesOf(table, s[i])]
    BY <1>1
  <2>. HIDE DEF q, n, T
  <2>. QED BY <1>1, <2>1, <2>2
<1>5. r \in Seq(T) /\ Len(r) = n + 1 /\ \A i \in 1 .. n + 1 : r[i] = BytesOf(table, t[i])
  <2>1. \A i \in 1 .. n + 1 : BytesOf(table, t[i]) \in T
    BY <1>2, BytesType DEF V
  <2>2. r = [i \in 1 .. n + 1 |-> BytesOf(table, t[i])]
    BY <1>2
  <2>. HIDE DEF r, n, T
  <2>. QED BY <1>1, <2>1, <2>2
<1>. HIDE DEF q, r, y, n, T
<1>6. w \in Seq(T) /\ Len(w) = n + 1 /\ w[n + 1] = y /\ \A i \in 1 .. n : w[i] = q[i]
  BY <1>3, <1>4
<1>7. r = w
  <2>1. ASSUME NEW i \in 1 .. n + 1 PROVE r[i] = w[i]
    <3>1. CASE i = n + 1
      BY <1>1, <1>2, <1>5, <1>6, <3>1 DEF y
    <3>2. CASE i # n + 1
      <4>1. i \in 1 .. n
        BY <1>1, <3>2
      <4>. QED BY <4>1, <1>2, <1>4, <1>5, <1>6
    <3>. QED BY <3>1, <3>2
  <2>. HIDE DEF w
  <2>. QED BY <1>5, <1>6, <2>1, SeqEqual
<1>8. FlattenSeq(w) = FlattenSeq(q) \o y
  BY <1>3, <1>4, FlattenAppend DEF T
<1>9. Text(table, <<>>) = <<>>
  <2>. DEFINE e == [i \in DOMAIN <<>> |-> BytesOf(table, <<>>[i])]
  <2>1. e = <<>>
    <3>1. DOMAIN <<>> = {}
      OBVIOUS
    <3>. QED BY <3>1
  <2>2. <<>> \in Seq(T) /\ Len(<<>>) = 0
    OBVIOUS
  <2>3. FlattenSeq(<<>>) = <<>>
    BY <2>2, FlattenIs DEF T
  <2>. QED BY <2>1, <2>3 DEF Text
<1>. QED BY <1>7, <1>8, <1>9 DEF Text, q, r, t, y

LEMMA LastFacts ==
  ASSUME NEW S, NEW s \in Seq(S), Len(s) > 0
  PROVE  \E f \in Seq(S), x \in S : s = Append(f, x) /\ Len(f) < Len(s)
<1>1. s # <<>>
  OBVIOUS
<1>2. PICK f \in Seq(S), x \in S : s = Append(f, x)
  BY <1>1, SequenceEmptyOrAppend
<1>3. Len(s) = Len(f) + 1 /\ Len(f) \in Nat
  BY <1>2
<1>. QED BY <1>2, <1>3

LEMMA ConcatAppend ==
  ASSUME NEW S, NEW a \in Seq(S), NEW b \in Seq(S), NEW x \in S
  PROVE  a \o Append(b, x) = Append(a \o b, x)
<1>. DEFINE v == <<x>>
<1>1. v \in Seq(S)
  OBVIOUS
<1>2. Append(b, x) = b \o v
  BY AppendIsConcat
<1>. DEFINE c == a \o b
<1>3. c \in Seq(S)
  BY ConcatFacts
<1>. HIDE DEF v, c
<1>4. Append(c, x) = c \o v
  BY <1>3, AppendIsConcat DEF v
<1>5. c \o v = a \o (b \o v)
  BY <1>1, ConcatAssociative DEF c
<1>. QED BY <1>2, <1>4, <1>5 DEF c

LEMMA TextEmpty ==
  ASSUME NEW table \in Seq(Seq(Nat))
  PROVE  Text(table, <<>>) = <<>>
<1>1. DOMAIN <<>> = {}
  OBVIOUS
<1>2. [i \in DOMAIN <<>> |-> BytesOf(table, <<>>[i])] = <<>>
  BY <1>1
<1>3. <<>> \in Seq(Seq(Nat)) /\ Len(<<>>) = 0
  OBVIOUS
<1>4. FlattenSeq(<<>>) = <<>>
  BY <1>3, FlattenIs
<1>. QED BY <1>2, <1>4 DEF Text

LEMMA TextType ==
  ASSUME NEW table \in Seq(Seq(Nat)), NEW s \in Seq(Ids(Len(table)))
  PROVE  Text(table, s) \in Seq(Nat)
<1>. DEFINE V == Ids(Len(table))
            X(t) == Text(table, t)
            Bad == {t \in Seq(V) : X(t) \notin Seq(Nat)}
<1>1. SUFFICES ASSUME Bad # {} PROVE FALSE
  OBVIOUS
<1>2. PICK t \in Bad : \A u \in Bad : Len(t) <= Len(u)
  <2>1. Bad \in SUBSET Seq(V)
    OBVIOUS
  <2>. HIDE DEF Bad, V
  <2>. QED BY <1>1, <2>1, ShortestSeq
<1>3. t \in Seq(V) /\ X(t) \notin Seq(Nat) /\ Len(t) \in Nat
  OBVIOUS
<1>4. t # <<>>
  <2>2. Text(table, <<>>) = <<>>
    BY TextEmpty
  <2>3. <<>> \in Seq(Nat)
    OBVIOUS
  <2>. HIDE DEF Bad
  <2>. QED BY <1>3, <2>2, <2>3
<1>5. Len(t) > 0
  BY <1>3, <1>4
<1>6. PICK f \in Seq(V), x \in V : t = Append(f, x) /\ Len(f) < Len(t)
  <2>. HIDE DEF V, Bad
  <2>. QED BY <1>3, <1>5, LastFacts
<1>7. X(f) \in Seq(Nat)
  <2>1. Len(f) \in Nat
    OBVIOUS
  <2>2. f \notin Bad
    <3>. HIDE DEF Bad
    <3>. QED BY <1>2, <1>3, <1>6, <2>1
  <2>. QED BY <2>2
<1>. HIDE DEF Bad
<1>8. X(t) = X(f) \o BytesOf(table, x) /\ BytesOf(table, x) \in Seq(Nat)
  BY <1>6, TextAppend, BytesType
<1>. DEFINE y == BytesOf(table, x)
            z == X(f)
<1>9. z \o y \in Seq(Nat)
  <2>1. z \in Seq(Nat) /\ y \in Seq(Nat)
    BY <1>7, <1>8
  <2>. HIDE DEF y, z
  <2>. QED BY <2>1, ConcatFacts
<1>. QED BY <1>3, <1>8, <1>9

LEMMA BytesJoin ==
  ASSUME NEW a \in Seq(Nat), NEW b \in Seq(Nat), NEW c \in Seq(Nat)
  PROVE  (a \o b) \o c = a \o (b \o c)
BY ConcatAssociative

LEMMA TextConcat ==
  ASSUME NEW table \in Seq(Seq(Nat)), NEW a \in Seq(Ids(Len(table))), NEW b \in Seq(Ids(Len(table)))
  PROVE  Text(table, a \o b) = Text(table, a) \o Text(table, b)
<1>. DEFINE V == Ids(Len(table))
            X(t) == Text(table, t)
            Bad == {t \in Seq(V) : X(a \o t) # X(a) \o X(t)}
<1>1. SUFFICES ASSUME Bad # {} PROVE FALSE
  OBVIOUS
<1>2. PICK t \in Bad : \A u \in Bad : Len(t) <= Len(u)
  <2>1. Bad \in SUBSET Seq(V)
    OBVIOUS
  <2>. HIDE DEF Bad, V
  <2>. QED BY <1>1, <2>1, ShortestSeq
<1>3. t \in Seq(V) /\ X(a \o t) # X(a) \o X(t) /\ Len(t) \in Nat /\ a \in Seq(V)
  OBVIOUS
<1>0. ASSUME NEW u \in Seq(V) PROVE X(u) \in Seq(Nat)
  BY TextType
<1>4. t # <<>>
  <2>1. a \o <<>> = a
    OBVIOUS
  <2>2. X(<<>>) = <<>>
    BY TextEmpty
  <2>. DEFINE xa == X(a)
  <2>3. xa \in Seq(Nat)
    BY <1>0
  <2>. HIDE DEF xa
  <2>4. xa \o <<>> = xa
    BY <2>3
  <2>. HIDE DEF Bad
  <2>. QED BY <1>3, <2>1, <2>2, <2>4 DEF xa
<1>5. Len(t) > 0
  BY <1>3, <1>4
<1>6. PICK f \in Seq(V), x \in V : t = Append(f, x) /\ Len(f) < Len(t)
  <2>. HIDE DEF V, Bad
  <2>. QED BY <1>3, <1>5, LastFacts
<1>7. X(a \o f) = X(a) \o X(f)
  <2>1. Len(f) \in Nat
    OBVIOUS
  <2>2. f \notin Bad
    <3>. HIDE DEF Bad
    <3>. QED BY <1>2, <1>3, <1>6, <2>1
  <2>. QED BY <2>2
<1>. HIDE DEF Bad
<1>. DEFINE y == BytesOf(table, x)
            w == a \o f
<1>8. w \in Seq(V)
  <2>. HIDE DEF V
  <2>. QED BY <1>3, ConcatFacts
<1>9. a \o t = Append(w, x)
  <2>. HIDE DEF V
  <2>. QED BY <1>3, <1>6, ConcatAppend, SMTT(60)
<1>. HIDE DEF w
<1>10. X(Append(w, x)) = X(w) \o y
  BY <1>8, TextAppend
<1>11. X(t) = X(f) \o y
  BY <1>6, TextAppend
<1>12. y \in Seq(Nat) /\ X(a) \in Seq(Nat) /\ X(f) \in Seq(Nat)
  BY <1>0, BytesType
<1>13. (X(a) \o X(f)) \o y = X(a) \o (X(f) \o y)
  <2>. DEFINE xa == X(a)
              xf == X(f)
  <2>1. y \in Seq(Nat) /\ xa \in Seq(Nat) /\ xf \in Seq(Nat)
    BY <1>12
  <2>. HIDE DEF xa, xf, y
  <2>2. (xa \o xf) \o y = xa \o (xf \o y)
    BY <2>1, BytesJoin
  <2>. QED BY <2>2 DEF xa, xf
<1>. QED BY <1>3, <1>7, <1>9, <1>10, <1>11, <1>13 DEF w

LEMMA TextOne ==
  ASSUME NEW table \in Seq(Seq(Nat)), NEW x \in Ids(Len(table))
  PROVE  Text(table, <<x>>) = BytesOf(table, x)
<1>1. <<>> \in Seq(Ids(Len(table)))
  OBVIOUS
<1>2. Append(<<>>, x) = <<x>>
  OBVIOUS
<1>3. Text(table, Append(<<>>, x)) = Text(table, <<>>) \o BytesOf(table, x)
  BY <1>1, TextAppend
<1>. DEFINE y == BytesOf(table, x)
<1>4. y \in Seq(Nat)
  BY BytesType
<1>. HIDE DEF y
<1>5. <<>> \o y = y
  BY <1>4
<1>. QED BY <1>2, <1>3, <1>5, TextEmpty DEF y

LEMMA TextTwo ==
  ASSUME NEW table \in Seq(Seq(Nat)), NEW x \in Ids(Len(table)), NEW y \in Ids(Len(table))
  PROVE  Text(table, <<x, y>>) = BytesOf(table, x) \o BytesOf(table, y)
<1>. DEFINE f == <<x>>
<1>1. f \in Seq(Ids(Len(table)))
  OBVIOUS
<1>2. Append(f, y) = <<x, y>>
  <2>. DEFINE V == Ids(Len(table))
              l == Append(f, y)
              r == <<x, y>>
  <2>1. f \in Seq(V) /\ Len(f) = 1 /\ f[1] = x
    OBVIOUS
  <2>2. r \in Seq(V) /\ Len(r) = 2 /\ r[1] = x /\ r[2] = y
    OBVIOUS
  <2>0. y \in V
    OBVIOUS
  <2>. HIDE DEF f, V
  <2>3. l \in Seq(V) /\ Len(l) = 2 /\ l[1] = x /\ l[2] = y
    <3>0. f \in Seq(V) /\ y \in V
      BY <2>0, <2>1
    <3>1. l \in Seq(V)
      BY ONLY <3>0, AppendProperties
    <3>1a. Len(l) = Len(f) + 1
      BY ONLY <3>0, AppendProperties
    <3>1b. l[Len(f) + 1] = y
      BY ONLY <3>0, AppendProperties
    <3>2. \A i \in 1 .. Len(f) : l[i] = f[i]
      BY ONLY <3>0, AppendProperties
    <3>3. 1 \in 1 .. Len(f) /\ Len(f) + 1 = 2
      BY <2>1
    <3>. QED BY <2>1, <3>1, <3>1a, <3>1b, <3>2, <3>3
  <2>4. \A k \in 1 .. 2 : k = 1 \/ k = 2
    OBVIOUS
  <2>. HIDE DEF l, r, V
  <2>5. l = r
    BY <2>2, <2>3, <2>4, SeqEqual
  <2>. QED BY <2>5 DEF l, r
<1>. HIDE DEF f
<1>3. Text(table, Append(f, y)) = Text(table, f) \o BytesOf(table, y)
  BY <1>1, TextAppend
<1>4. Text(table, f) = BytesOf(table, x)
  BY TextOne DEF f
<1>. QED BY <1>2, <1>3, <1>4

(* Text does not depend on the symbols that come later.                    *)
LEMMA TextGrows ==
  ASSUME NEW table \in Seq(Seq(Nat)), NEW z \in Seq(Nat), NEW s \in Seq(Ids(Len(table)))
  PROVE  /\ Text(Append(table, z), s) = Text(table, s)
         /\ \A id \in Ids(Len(table)) : BytesOf(Append(table, z), id) = BytesOf(table, id)
<1>. DEFINE t == Append(table, z)
<1>1. ASSUME NEW id \in Ids(Len(table)) PROVE BytesOf(t, id) = BytesOf(table, id)
  <2>1. id + 1 \in 1 .. Len(table)
    BY DEF Ids
  <2>2. t[id + 1] = table[id + 1]
    BY <2>1
  <2>. QED BY <2>2 DEF BytesOf
<1>2. \A i \in DOMAIN s : s[i] \in Ids(Len(table))
  OBVIOUS
<1>. HIDE DEF t
<1>3. \A i \in DOMAIN s : BytesOf(t, s[i]) = BytesOf(table, s[i])
  BY <1>1, <1>2
<1>4. [i \in DOMAIN s |-> BytesOf(t, s[i])] = [i \in DOMAIN s |-> BytesOf(table, s[i])]
  BY <1>3
<1>. QED BY <1>1, <1>4 DEF Text, t

(* Replacing a pair by a symbol with its bytes leaves the text alone.      *)
LEMMA TextReplaced ==
  ASSUME NEW table \in Seq(Seq(Nat)), NEW s \in Seq(Ids(Len(table))),
         NEW p \in Ids(Len(table)) \X Ids(Len(table)), NEW id \in Ids(Len(table)),
         BytesOf(table, id) = BytesOf(table, p[1]) \o BytesOf(table, p[2])
  PROVE  Text(table, Replaced(s, p, id)) = Text(table, s)
<1>. DEFINE V == Ids(Len(table))
            X(t) == Text(table, t)
            R(t) == Replaced(t, p, id)
            Bad == {t \in Seq(V) : X(R(t)) # X(t)}
<1>1. SUFFICES ASSUME Bad # {} PROVE FALSE
  OBVIOUS
<1>2. PICK t \in Bad : \A u \in Bad : Len(t) <= Len(u)
  <2>1. Bad \in SUBSET Seq(V)
    OBVIOUS
  <2>. HIDE DEF Bad, V
  <2>. QED BY <1>1, <2>1, ShortestSeq
<1>3. t \in Seq(V) /\ X(R(t)) # X(t) /\ Len(t) \in Nat
  OBVIOUS
<1>4. ASSUME NEW u \in Seq(V), Len(u) < Len(t) PROVE X(R(u)) = X(u)
  <2>1. Len(u) \in Nat
    OBVIOUS
  <2>2. u \notin Bad
    <3>. HIDE DEF Bad
    <3>. QED BY <1>2, <1>3, <1>4, <2>1
  <2>. QED BY <2>2
<1>. HIDE DEF Bad
<1>5. ASSUME NEW u \in Seq(V) PROVE R(u) \in Seq(V)
  <2>1. id \in V
    OBVIOUS
  <2>. HIDE DEF V
  <2>. QED BY <2>1, ReplacedType
<1>6. CASE PairFirst(V, t, p, id)
  <2>1. PICK u \in Seq(V), x \in V, y \in V :
          Len(u) < Len(t) /\ t = <<x, y>> \o u /\ p = <<x, y>> /\ R(t) = <<id>> \o R(u)
    BY <1>6 DEF PairFirst
  <2>. DEFINE v == <<x, y>>
              w == <<id>>
              r == R(u)
  <2>2. v \in Seq(V) /\ w \in Seq(V) /\ r \in Seq(V)
    BY <1>5
  <2>3. X(v) = BytesOf(table, x) \o BytesOf(table, y) /\ X(w) = BytesOf(table, id)
    BY TextOne, TextTwo
  <2>4. X(v) = X(w)
    BY <2>1, <2>3
  <2>5. X(r) = X(u)
    BY <1>4, <2>1
  <2>6. t = v \o u /\ R(t) = w \o r
    BY <2>1
  <2>. HIDE DEF v, w, r
  <2>7. X(v \o u) = X(v) \o X(u) /\ X(w \o r) = X(w) \o X(r)
    BY <2>2, TextConcat
  <2>. QED BY <1>3, <2>4, <2>5, <2>6, <2>7
<1>7. CASE KeptFirst(V, t, p, id)
  <2>1. PICK u \in Seq(V), x \in V : Len(u) < Len(t) /\ t = <<x>> \o u /\ R(t) = <<x>> \o R(u)
    BY <1>7 DEF KeptFirst
  <2>. DEFINE v == <<x>>
              r == R(u)
  <2>2. v \in Seq(V) /\ r \in Seq(V)
    BY <1>5
  <2>5. X(r) = X(u)
    BY <1>4, <2>1
  <2>6. t = v \o u /\ R(t) = v \o r
    BY <2>1
  <2>. HIDE DEF v, r
  <2>7. X(v \o u) = X(v) \o X(u) /\ X(v \o r) = X(v) \o X(r)
    BY <2>2, TextConcat
  <2>. QED BY <1>3, <2>5, <2>6, <2>7
<1>8. CASE t = <<>> /\ R(t) = <<>>
  BY <1>3, <1>8
<1>9. (t = <<>> /\ R(t) = <<>>) \/ PairFirst(V, t, p, id) \/ KeptFirst(V, t, p, id)
  <2>. HIDE DEF V
  <2>. QED BY <1>3, StartCases
<1>. QED BY <1>6, <1>7, <1>8, <1>9

-----------------------------------------------------------------------------
(* What replacing a pair does to a sequence in parts.                      *)

(* Two parts are replaced apart when no pair stands across them.           *)
LEMMA ReplacedJoins ==
  ASSUME NEW S, NEW a \in Seq(S), NEW b \in Seq(S), NEW p, NEW id \in S,
         NEW A \in Seq(S), NEW z \in S, Replaced(a, p, id) = Append(A, z),
         ~(Len(b) > 0 /\ <<z, b[1]>> = p)
  PROVE  Replaced(a \o b, p, id) = Append(A, z) \o Replaced(b, p, id)
<1>. DEFINE R(t) == Replaced(t, p, id)
            Bad == {t \in Seq(S) : \E C \in Seq(S) :
                      R(t) = Append(C, z) /\ R(t \o b) # Append(C, z) \o R(b)}
<1>1. SUFFICES ASSUME Bad # {} PROVE FALSE
  <2>1. a \notin Bad => R(a \o b) = Append(A, z) \o R(b)
    OBVIOUS
  <2>. QED BY <2>1
<1>2. PICK t \in Bad : \A u \in Bad : Len(t) <= Len(u)
  <2>1. Bad \in SUBSET Seq(S)
    OBVIOUS
  <2>. HIDE DEF Bad
  <2>. QED BY <1>1, <2>1, ShortestSeq
<1>3. t \in Seq(S) /\ Len(t) \in Nat
  OBVIOUS
<1>4. PICK C \in Seq(S) : R(t) = Append(C, z) /\ R(t \o b) # Append(C, z) \o R(b)
  OBVIOUS
<1>5. ASSUME NEW u \in Seq(S), Len(u) < Len(t), NEW E \in Seq(S), R(u) = Append(E, z)
      PROVE  R(u \o b) = Append(E, z) \o R(b)
  <2>1. Len(u) \in Nat
    OBVIOUS
  <2>2. u \notin Bad
    <3>. HIDE DEF Bad
    <3>. QED BY <1>2, <1>3, <1>5, <2>1
  <2>. QED BY <1>5, <2>2
<1>. HIDE DEF Bad
<1>. DEFINE F == Append(C, z)
<1>6. F \in Seq(S) /\ Len(F) = Len(C) + 1 /\ Len(C) \in Nat /\ F[Len(C) + 1] = z
  OBVIOUS
<1>7. ASSUME NEW u \in Seq(S) PROVE R(u) \in Seq(S)
  BY ReplacedType
<1>. HIDE DEF F
(* What is left of Append(C, z) once its first symbol is off.              *)
<1>8. ASSUME NEW u \in Seq(S), Len(u) < Len(t), NEW y \in S, F = <<y>> \o R(u), R(u) # <<>>
      PROVE  R(u \o b) = R(u) \o R(b)
  <2>. DEFINE r == R(u)
  <2>1. r \in Seq(S) /\ Len(r) > 0
    <3>1. r \in Seq(S)
      BY <1>7
    <3>. QED BY <1>8, <3>1
  <2>. HIDE DEF r
  <2>2. PICK E \in Seq(S), x \in S : r = Append(E, x)
    BY <2>1, LastFacts
  <2>3. Len(r) = Len(E) + 1 /\ Len(E) \in Nat /\ r[Len(E) + 1] = x
    BY <2>2
  <2>4. Len(F) = 1 + Len(r) /\ F[Len(r) + 1] = r[Len(r)]
    <3>1. F = <<y>> \o r
      BY <1>8 DEF r
    <3>2. Len(<<y>> \o r) = 1 + Len(r)
      BY <2>1, ConsFacts
    <3>3. \A k \in 1 .. Len(r) : (<<y>> \o r)[k + 1] = r[k]
      BY <2>1, ConsFacts
    <3>4. Len(r) \in 1 .. Len(r)
      BY <2>3
    <3>. QED BY <3>1, <3>2, <3>3, <3>4
  <2>5. x = z
    <3>1. Len(C) = Len(r)
      BY <1>6, <2>3, <2>4
    <3>. QED BY <1>6, <2>3, <2>4, <3>1
  <2>6. R(u) = Append(E, z)
    BY <2>2, <2>5 DEF r
  <2>. QED BY <1>5, <1>8, <2>6
<1>9. CASE PairFirst(S, t, p, id)
  <2>1. PICK u \in Seq(S), x \in S, y \in S :
          Len(u) < Len(t) /\ t = <<x, y>> \o u /\ p = <<x, y>> /\ R(t) = <<id>> \o R(u)
    BY <1>9 DEF PairFirst
  <2>. DEFINE v == <<x, y>>
              w == <<id>>
              r == R(u)
              c == R(b)
              ub == u \o b
  <2>2. v \in Seq(S) /\ Len(v) = 2 /\ w \in Seq(S) /\ r \in Seq(S) /\ c \in Seq(S)
    BY <1>7
  <2>3. t = v \o u /\ F = w \o r
    BY <1>4, <2>1 DEF F
  <2>4. p = v
    BY <2>1
  <2>. HIDE DEF v, w
  <2>5. t \o b = v \o ub
    <3>1. v \in Seq(S) /\ u \in Seq(S) /\ b \in Seq(S)
      BY <2>2
    <3>2. (v \o u) \o b = v \o (u \o b)
      BY ONLY <3>1, ConcatAssociative, SMTT(60)
    <3>. QED BY <2>3, <3>2 DEF ub
  <2>6. ub \in Seq(S)
    BY ConcatFacts
  <2>. HIDE DEF ub, r, c
  <2>7. R(v \o ub) = w \o R(ub)
    <3>1. v \in Seq(S) /\ Len(v) = 2 /\ ub \in Seq(S)
      BY <2>2, <2>6
    <3>2. Replaced(v \o ub, v, id) = <<id>> \o Replaced(ub, v, id)
      BY ONLY <3>1, ReplacedMakes
    <3>. QED BY <2>4, <3>2 DEF w
  <2>8. R(ub) = r \o c
    <3>1. CASE r = <<>>
      <4>1. u = <<>>
        <5>1. Len(u) > 0 => Len(R(u)) > 0
          BY ReplacedType
        <5>2. ~(Len(u) > 0)
          BY <3>1, <5>1 DEF r
        <5>. QED BY <5>2
      <4>2. ub = b
        BY <4>1 DEF ub
      <4>3. r \o c = c
        BY <2>2, <3>1
      <4>. QED BY <4>2, <4>3 DEF c
    <3>2. CASE r # <<>>
      <4>1. F = <<id>> \o R(u) /\ R(u) # <<>>
        BY <2>3, <3>2 DEF r, w
      <4>2. R(u \o b) = R(u) \o R(b)
        BY <1>8, <2>1, <4>1
      <4>. QED BY <4>2 DEF r, c, ub
    <3>. QED BY <3>1, <3>2
  <2>9. (w \o r) \o c = w \o (r \o c)
    <3>1. w \in Seq(S) /\ r \in Seq(S) /\ c \in Seq(S)
      BY <2>2
    <3>. QED BY ONLY <3>1, ConcatAssociative, SMTT(60)
  <2>10. R(t \o b) = F \o c
    BY <2>3, <2>5, <2>7, <2>8, <2>9
  <2>. QED BY <1>4, <2>10 DEF F, c
<1>10. CASE KeptFirst(S, t, p, id)
  <2>1. PICK u \in Seq(S), x \in S :
          /\ Len(u) < Len(t) /\ t = <<x>> \o u /\ ~(Len(u) > 0 /\ <<x, u[1]>> = p)
          /\ R(t) = <<x>> \o R(u)
    BY <1>10 DEF KeptFirst
  <2>. DEFINE v == <<x>>
              r == R(u)
              c == R(b)
              ub == u \o b
  <2>2. v \in Seq(S) /\ Len(v) = 1 /\ v[1] = x /\ r \in Seq(S) /\ c \in Seq(S)
    BY <1>7
  <2>3. t = v \o u /\ F = v \o r
    BY <1>4, <2>1 DEF F
  <2>4. u = <<>> => r = <<>>
    <3>1. <<>> \in Seq(S) /\ Len(<<>>) = 0
      OBVIOUS
    <3>2. Replaced(<<>>, p, id) = <<>>
      BY ONLY <3>1, ReplacedUnfolds
    <3>. QED BY <3>2
  <2>5. r = <<>> => u = <<>>
    <3>1. Len(u) > 0 => Len(R(u)) > 0
      BY ReplacedType
    <3>2. r = <<>> => ~(Len(u) > 0)
      BY <3>1
    <3>. QED BY <3>2
  <2>6. r = <<>> => x = z
    <3>1. SUFFICES ASSUME r = <<>> PROVE x = z
      OBVIOUS
    <3>2. F = v
      BY <2>2, <2>3, <3>1
    <3>3. Len(C) + 1 = 1
      BY <1>6, <2>2, <3>2
    <3>4. F[1] = z
      BY <1>6, <3>3
    <3>. HIDE DEF v
    <3>. QED BY <2>2, <3>2, <3>4
  <2>. HIDE DEF v
  <2>7. t \o b = v \o ub
    <3>1. v \in Seq(S) /\ u \in Seq(S) /\ b \in Seq(S)
      BY <2>2
    <3>2. (v \o u) \o b = v \o (u \o b)
      BY ONLY <3>1, ConcatAssociative, SMTT(60)
    <3>. QED BY <2>3, <3>2 DEF ub
  <2>8. ub \in Seq(S) /\ Len(ub) = Len(u) + Len(b)
    <3>1. ub \in Seq(S)
      BY ConcatFacts
    <3>2. Len(ub) = Len(u) + Len(b)
      BY ConcatFacts
    <3>. QED BY <3>1, <3>2
  <2>9. ~(Len(ub) > 0 /\ <<x, ub[1]>> = p)
    <3>1. CASE u = <<>>
      <4>1. ub = b
        BY <3>1
      <4>. HIDE DEF ub, r
      <4>2. x = z
        BY <2>4, <2>6, <3>1
      <4>. QED BY <4>1, <4>2
    <3>2. CASE u # <<>>
      <4>1. 1 \in 1 .. Len(u) + Len(b) /\ 1 <= Len(u) /\ Len(u) > 0
        BY <3>2
      <4>2. \A k \in 1 .. Len(u) + Len(b) : (u \o b)[k] = IF k <= Len(u) THEN u[k] ELSE b[k - Len(u)]
        BY ConcatFacts
      <4>3. ub[1] = u[1]
        BY <4>1, <4>2
      <4>. HIDE DEF ub
      <4>. QED BY <2>1, <4>1, <4>3
    <3>. QED BY <3>1, <3>2
  <2>. HIDE DEF ub, r, c
  <2>10. R(v \o ub) = v \o R(ub)
    <3>1. v \in Seq(S) /\ Len(v) = 1 /\ ub \in Seq(S) /\ ~(Len(ub) > 0 /\ <<v[1], ub[1]>> = p)
      BY <2>2, <2>8, <2>9
    <3>. QED BY ONLY <3>1, ReplacedKeeps
  <2>11. R(ub) = r \o c
    <3>1. CASE r = <<>>
      <4>1. u = <<>>
        BY <2>5, <3>1
      <4>2. ub = b
        BY <4>1 DEF ub
      <4>3. r \o c = c
        BY <2>2, <3>1
      <4>. QED BY <4>2, <4>3 DEF c
    <3>2. CASE r # <<>>
      <4>1. F = <<x>> \o R(u) /\ R(u) # <<>>
        BY <2>3, <3>2 DEF r, v
      <4>2. R(u \o b) = R(u) \o R(b)
        BY <1>8, <2>1, <4>1
      <4>. QED BY <4>2 DEF r, c, ub
    <3>. QED BY <3>1, <3>2
  <2>12. (v \o r) \o c = v \o (r \o c)
    <3>1. v \in Seq(S) /\ r \in Seq(S) /\ c \in Seq(S)
      BY <2>2
    <3>. QED BY ONLY <3>1, ConcatAssociative, SMTT(60)
  <2>13. R(t \o b) = F \o c
    BY <2>3, <2>7, <2>10, <2>11, <2>12
  <2>. QED BY <1>4, <2>13 DEF F, c
<1>11. CASE t = <<>> /\ R(t) = <<>>
  <2>1. F = <<>>
    BY <1>4, <1>11 DEF F
  <2>2. Len(F) = 0
    BY <2>1
  <2>. DEFINE n == Len(C)
  <2>3. Len(F) = n + 1 /\ n \in Nat
    BY <1>6
  <2>. HIDE DEF n, F
  <2>4. n + 1 = 0 /\ n \in Nat
    BY <2>2, <2>3
  <2>. QED BY ONLY <2>4
<1>12. (t = <<>> /\ R(t) = <<>>) \/ PairFirst(S, t, p, id) \/ KeptFirst(S, t, p, id)
  BY <1>3, StartCases
<1>. QED BY <1>9, <1>10, <1>11, <1>12

(* Pair p stands across the end of A and the start of b.                   *)
Across(A, b, p) == Len(A) > 0 /\ Len(b) > 0 /\ <<A[Len(A)], b[1]>> = p

(* The same for any first part.                                            *)
LEMMA ReplacedJoined ==
  ASSUME NEW S, NEW a \in Seq(S), NEW b \in Seq(S), NEW p, NEW id \in S,
         ~Across(Replaced(a, p, id), b, p)
  PROVE  Replaced(a \o b, p, id) = Replaced(a, p, id) \o Replaced(b, p, id)
<1>. DEFINE A == Replaced(a, p, id)
            B == Replaced(b, p, id)
<1>1. A \in Seq(S) /\ B \in Seq(S)
  BY ReplacedType
<1>2. Len(a) > 0 => Len(A) > 0
  BY ReplacedType
<1>3. ~Across(A, b, p)
  OBVIOUS
<1>4. CASE Len(A) > 0
  <2>. HIDE DEF A
  <2>1. PICK C \in Seq(S), z \in S : A = Append(C, z)
    BY <1>1, <1>4, LastFacts
  <2>2. A[Len(A)] = z
    BY <2>1
  <2>3. ~(Len(b) > 0 /\ <<z, b[1]>> = p)
    BY <1>3, <1>4, <2>1, <2>2 DEF Across
  <2>4. Replaced(a, p, id) = Append(C, z)
    BY <2>1 DEF A
  <2>5. Replaced(a \o b, p, id) = Append(C, z) \o Replaced(b, p, id)
    <3>1. /\ a \in Seq(S) /\ b \in Seq(S) /\ id \in S /\ C \in Seq(S) /\ z \in S
          /\ Replaced(a, p, id) = Append(C, z) /\ ~(Len(b) > 0 /\ <<z, b[1]>> = p)
      BY <2>3, <2>4
    <3>. QED BY ONLY <3>1, ReplacedJoins, SMTT(60)
  <2>. QED BY <2>4, <2>5
<1>5. CASE ~(Len(A) > 0)
  <2>1. a = <<>> /\ A = <<>>
    <3>1. Len(a) \in Nat /\ Len(A) \in Nat
      <4>. HIDE DEF A
      <4>. QED BY <1>1
    <3>2. Len(a) = 0 /\ Len(A) = 0
      <4>. HIDE DEF A
      <4>. QED BY <1>2, <1>5, <3>1
    <3>. HIDE DEF A
    <3>. QED BY <1>1, <3>2
  <2>2. a \o b = b
    BY <2>1
  <2>. HIDE DEF A, B
  <2>3. A \o B = B
    BY <1>1, <2>1
  <2>. QED BY <2>2, <2>3 DEF A, B
<1>. QED BY <1>4, <1>5

(* A merge, seen as a sequence in three parts.                             *)
LEMMA MergedParts ==
  ASSUME NEW S, NEW A \in Seq(S), NEW v \in Seq(S), Len(v) = 2, NEW c \in Seq(S),
         NEW x \in S, NEW i \in Nat, Len(A) = i - 1
  PROVE  Merged(A \o (v \o c), i, x) = (A \o <<x>>) \o c
<1>. DEFINE w == <<x>>
            b == v \o c
            n == Len(A)
            m == Len(c)
            t == A \o b
            Aw == A \o w
            u == Aw \o c
<1>1. n \in Nat /\ m \in Nat /\ w[1] \in S /\ w[1] = x /\ w \in Seq(S) /\ Len(w) = 1
      /\ n + 1 = i
  OBVIOUS
<1>. HIDE DEF w
<1>2. b \in Seq(S) /\ Len(b) = m + 2
  <2>1. b \in Seq(S)
    BY ConcatFacts
  <2>2. Len(b) = Len(v) + Len(c)
    BY ConcatFacts
  <2>. QED BY <2>1, <2>2, <1>1
<1>3. \A k \in 1 .. Len(v) + Len(c) : b[k] = IF k <= Len(v) THEN v[k] ELSE c[k - Len(v)]
  BY ConcatFacts
<1>4. \A k \in 1 .. m + 2 : k > 2 => b[k] = c[k - 2]
  <2>. TAKE k \in 1 .. m + 2
  <2>. HAVE k > 2
  <2>1. k \in 1 .. Len(v) + Len(c) /\ ~(k <= Len(v)) /\ Len(v) = 2
    BY <1>1
  <2>2. b[k] = c[k - Len(v)]
    BY <1>3, <2>1
  <2>. QED BY <2>1, <2>2
<1>5. Aw \in Seq(S) /\ Len(Aw) = n + 1
  <2>1. Aw \in Seq(S)
    BY <1>1, ConcatFacts
  <2>2. Len(Aw) = Len(A) + Len(w)
    BY <1>1, ConcatFacts
  <2>. QED BY <1>1, <2>1, <2>2
<1>6. \A k \in 1 .. Len(A) + Len(w) : Aw[k] = IF k <= Len(A) THEN A[k] ELSE w[k - Len(A)]
  BY <1>1, ConcatFacts
<1>7. \A k \in 1 .. n + 1 : Aw[k] = IF k <= n THEN A[k] ELSE w[1]
  <2>. TAKE k \in 1 .. n + 1
  <2>1. k \in 1 .. Len(A) + Len(w)
    BY <1>1
  <2>2. Aw[k] = IF k <= Len(A) THEN A[k] ELSE w[k - Len(A)]
    BY <1>6, <2>1
  <2>3. ~(k <= n) => k - Len(A) = 1
    BY <1>1
  <2>. QED BY <2>2, <2>3
<1>. HIDE DEF b, Aw
<1>8. t \in Seq(S) /\ Len(t) = n + (m + 2)
  <2>1. t \in Seq(S)
    BY <1>2, ConcatFacts
  <2>2. Len(t) = Len(A) + Len(b)
    BY <1>2, ConcatFacts
  <2>. QED BY <2>1, <2>2, <1>2
<1>9. \A k \in 1 .. n + (m + 2) : t[k] = IF k <= n THEN A[k] ELSE b[k - n]
  <2>1. \A k \in 1 .. Len(A) + Len(b) : t[k] = IF k <= Len(A) THEN A[k] ELSE b[k - Len(A)]
    BY <1>2, ConcatFacts
  <2>. QED BY <1>2, <2>1
<1>10. u \in Seq(S) /\ Len(u) = (n + 1) + m
  <2>1. u \in Seq(S)
    BY <1>5, ConcatFacts
  <2>2. Len(u) = Len(Aw) + Len(c)
    BY <1>5, ConcatFacts
  <2>. QED BY <2>1, <2>2, <1>5
<1>11. \A k \in 1 .. (n + 1) + m : u[k] = IF k <= n + 1 THEN Aw[k] ELSE c[k - (n + 1)]
  <2>1. \A k \in 1 .. Len(Aw) + Len(c) : u[k] = IF k <= Len(Aw) THEN Aw[k] ELSE c[k - Len(Aw)]
    BY <1>5, ConcatFacts
  <2>. QED BY <1>5, <2>1
<1>. DEFINE M == Merged(t, n + 1, w[1])
<1>. HIDE DEF t, u
<1>12. n + 1 \in 1 .. Len(t) - 1
  BY <1>1, <1>8
<1>. DEFINE i0 == n + 1
            w1 == w[1]
<1>0. t \in Seq(S) /\ i0 \in 1 .. Len(t) - 1 /\ w1 \in S
  BY <1>1, <1>8, <1>12
<1>13. M \in Seq(S) /\ Len(M) = Len(t) - 1
  <2>. HIDE DEF i0, w1
  <2>1. Merged(t, i0, w1) \in Seq(S)
    BY ONLY <1>0, MergedFacts
  <2>2. Len(Merged(t, i0, w1)) = Len(t) - 1
    BY ONLY <1>0, MergedFacts
  <2>. USE DEF i0, w1
  <2>. QED BY <2>1, <2>2
<1>14. \A k \in 1 .. Len(t) - 1 : M[k] =
         IF k < n + 1 THEN t[k] ELSE IF k = n + 1 THEN w[1] ELSE t[k + 1]
  <2>. HIDE DEF i0, w1
  <2>1. \A k \in 1 .. Len(t) - 1 : Merged(t, i0, w1)[k] =
          IF k < i0 THEN t[k] ELSE IF k = i0 THEN w1 ELSE t[k + 1]
    BY ONLY <1>0, MergedFacts
  <2>. QED BY <2>1 DEF i0, w1, M
<1>. HIDE DEF M, n, m, i0, w1
<1>15. \A k \in 1 .. Len(u) : M[k] = u[k]
  <2>. TAKE k \in 1 .. Len(u)
  <2>1. k \in 1 .. (n + 1) + m /\ k \in 1 .. Len(t) - 1 /\ k \in Int
    BY <1>1, <1>8, <1>10
  <2>2. CASE k < n + 1
    <3>1. M[k] = t[k] /\ t[k] = A[k]
      BY <1>1, <1>9, <1>14, <2>1, <2>2
    <3>2. u[k] = Aw[k] /\ Aw[k] = A[k]
      BY <1>1, <1>7, <1>11, <2>1, <2>2
    <3>. QED BY <3>1, <3>2
  <2>3. CASE k = n + 1
    <3>1. M[k] = w[1]
      BY <1>1, <1>14, <2>1, <2>3
    <3>2. u[k] = Aw[k] /\ Aw[k] = w[1]
      BY <1>1, <1>7, <1>11, <2>1, <2>3
    <3>. QED BY <3>1, <3>2
  <2>4. CASE k > n + 1
    <3>. DEFINE j == k + 1
    <3>0. ~(k < n + 1) /\ k # n + 1
      BY <1>1, <2>1, <2>4
    <3>1. M[k] = t[j]
      BY <1>14, <2>1, <3>0
    <3>2. j \in 1 .. n + (m + 2) /\ ~(j <= n)
      BY <1>1, <2>1, <2>4
    <3>3. t[j] = b[j - n]
      BY <1>9, <3>2
    <3>. DEFINE h == j - n
    <3>4. h \in 1 .. m + 2 /\ h > 2 /\ h - 2 = k - (n + 1)
      BY <1>1, <2>1, <2>4
    <3>5. b[h] = c[h - 2]
      BY <1>4, <3>4
    <3>6. u[k] = c[k - (n + 1)]
      BY <1>1, <1>11, <2>1, <2>4
    <3>. QED BY <3>1, <3>3, <3>4, <3>5, <3>6
  <2>. QED BY <1>1, <2>1, <2>2, <2>3, <2>4
<1>16. Len(M) = Len(u)
  BY <1>1, <1>8, <1>10, <1>13
<1>17. M = u
  BY <1>10, <1>13, <1>15, <1>16, SeqEqual
<1>. QED BY <1>1, <1>17 DEF M, t, u, b, Aw, n, w

(* A sequence of one symbol, and the pair itself, replaced.                *)
LEMMA ReplacedShort ==
  ASSUME NEW S, NEW v \in Seq(S), NEW p, NEW id
  PROVE  /\ Len(v) <= 1 => Replaced(v, p, id) = v
         /\ Len(v) = 2 => Replaced(v, v, id) = <<id>>
<1>1. ASSUME Len(v) <= 1 PROVE Replaced(v, p, id) = v
  <2>1. AdjacentPairs(v) = {}
    <3>1. 1 .. Len(v) - 1 = {}
      BY <1>1
    <3>. QED BY <3>1 DEF AdjacentPairs
  <2>2. p \notin AdjacentPairs(v)
    BY <2>1
  <2>. QED BY <2>2, ReplacedNothing
<1>2. ASSUME Len(v) = 2 PROVE Replaced(v, v, id) = <<id>>
  <2>. DEFINE e == <<>>
  <2>1. e \in Seq(S) /\ Len(e) = 0 /\ v \o e = v
    OBVIOUS
  <2>2. Replaced(e, v, id) = e
    <3>1. Len(e) = 0 => Replaced(e, v, id) = <<>>
      BY <2>1, ReplacedUnfolds, ZenonT(60)
    <3>. QED BY <2>1, <3>1
  <2>3. <<id>> \o e = <<id>>
    OBVIOUS
  <2>. HIDE DEF e
  <2>4. Replaced(v \o e, v, id) = <<id>> \o Replaced(e, v, id)
    <3>1. v \in Seq(S) /\ Len(v) = 2 /\ e \in Seq(S)
      BY <1>2, <2>1
    <3>. QED BY ONLY <3>1, ReplacedMakes
  <2>. QED BY <2>1, <2>2, <2>3, <2>4
<1>. QED BY <1>1, <1>2

Piece(S, u, s) == \E l \in Seq(S), r \in Seq(S) : s = l \o (u \o r)

(* Replacing p in a piece of s gives q.                                    *)
Comes(S, s, p, id, q) == \E u \in Seq(S) : Piece(S, u, s) /\ Replaced(u, p, id) = q

LEMMA TwoOnes ==
  ASSUME NEW S, NEW x \in S, NEW y \in S
  PROVE  <<x>> \o <<y>> = <<x, y>> /\ <<x>> \in Seq(S) /\ Len(<<x>>) = 1
<1>. DEFINE v == <<x>> \o <<y>>
            w == <<x, y>>
<1>1. v \in Seq(S) /\ w \in Seq(S) /\ Len(v) = 2 /\ Len(w) = 2 /\ v[1] = x /\ v[2] = y
      /\ w[1] = x /\ w[2] = y
  OBVIOUS
<1>. HIDE DEF v, w
<1>2. \A k \in 1 .. Len(v) : v[k] = w[k]
  <2>1. \A k \in 1 .. 2 : k = 1 \/ k = 2
    OBVIOUS
  <2>. QED BY <1>1, <2>1
<1>3. v = w
  BY <1>1, <1>2, SeqEqual
<1>. QED BY <1>3 DEF v, w

(* A part of s that is through, then one more symbol, or one more pair.    *)
LEMMA GoesOn ==
  ASSUME NEW S, NEW a \in Seq(S), NEW b \in Seq(S), NEW p, NEW id \in S,
         ~Across(Replaced(a, p, id), b, p), Len(b) <= 1
  PROVE  Replaced(a \o b, p, id) = Replaced(a, p, id) \o b
<1>1. Replaced(a \o b, p, id) = Replaced(a, p, id) \o Replaced(b, p, id)
  BY ReplacedJoined
<1>2. Replaced(b, p, id) = b
  BY ReplacedShort
<1>. QED BY <1>1, <1>2

LEMMA GoesOnByPair ==
  ASSUME NEW S, NEW a \in Seq(S), NEW v \in Seq(S), Len(v) = 2, NEW id \in S,
         ~Across(Replaced(a, v, id), v, v)
  PROVE  Replaced(a \o v, v, id) = Replaced(a, v, id) \o <<id>>
<1>1. Replaced(a \o v, v, id) = Replaced(a, v, id) \o Replaced(v, v, id)
  BY ReplacedJoined
<1>2. Replaced(v, v, id) = <<id>>
  BY ReplacedShort
<1>. QED BY <1>1, <1>2

(* The pair a merge makes with the symbol on its left.                     *)
LEMMA LeftComes ==
  ASSUME NEW S, NEW a \in Seq(S), NEW v \in Seq(S), Len(v) = 2, NEW c \in Seq(S), NEW id \in S,
         NEW A \in Seq(S), Replaced(a, v, id) = A, Len(A) > 0,
         ~Across(A, v, v)
  PROVE  Comes(S, a \o (v \o c), v, id, <<A[Len(A)], id>>)
<1>1. PICK C \in Seq(S), z \in S : A = Append(C, z)
  BY LastFacts
<1>. DEFINE w == <<z>>
<1>2. w \in Seq(S) /\ Len(w) = 1 /\ w[1] = z /\ A = C \o w /\ A[Len(A)] = z
  BY <1>1
<1>3. <<z>> \o <<id>> = <<z, id>>
  BY TwoOnes
<1>. HIDE DEF w
<1>4. PICK f \in Seq(S), g \in Seq(S) :
        a = f \o g /\ Replaced(f, v, id) = C /\ Replaced(g, v, id) = w
  <2>1. Replaced(a, v, id) = C \o w
    BY <1>2
  <2>2. Splits(S, a, v, id, C, w)
    BY <1>2, <2>1, ReplacedSplits
  <2>. QED BY <2>2 DEF Splits
<1>. DEFINE u == g \o v
<1>5. u \in Seq(S)
  BY ConcatFacts
<1>6. Replaced(u, v, id) = w \o <<id>>
  <2>1. ~Across(Replaced(g, v, id), v, v)
    BY <1>2, <1>4 DEF Across
  <2>2. Replaced(g \o v, v, id) = Replaced(g, v, id) \o <<id>>
    BY <2>1, GoesOnByPair
  <2>. QED BY <1>4, <2>2
<1>7. a \o (v \o c) = f \o (u \o c)
  <2>. DEFINE vc == v \o c
  <2>1. f \in Seq(S) /\ g \in Seq(S) /\ v \in Seq(S) /\ c \in Seq(S)
    OBVIOUS
  <2>2. vc \in Seq(S)
    BY ConcatFacts
  <2>3. (g \o v) \o c = g \o (v \o c)
    BY ONLY <2>1, ConcatAssociative, SMTT(60)
  <2>. HIDE DEF vc
  <2>4. (f \o g) \o vc = f \o (g \o vc)
    BY ONLY <2>1, <2>2, ConcatAssociative, SMTT(60)
  <2>. QED BY <1>4, <2>3, <2>4 DEF vc
<1>8. Piece(S, u, a \o (v \o c))
  BY <1>7 DEF Piece
<1>. HIDE DEF u
<1>. QED BY <1>2, <1>3, <1>5, <1>6, <1>8 DEF Comes, w

(* The pair a merge makes with the symbol on its right.                    *)
LEMMA RightComes ==
  ASSUME NEW S, NEW a \in Seq(S), NEW v \in Seq(S), Len(v) = 2, NEW c \in Seq(S), NEW id \in S,
         Len(c) > 0
  PROVE  Comes(S, a \o (v \o c), v, id, <<id, c[1]>>)
<1>. DEFINE x == c[1]
            w == <<x>>
            d == From(c, 1)
            u == v \o w
<1>1. x \in S /\ c = w \o d
  BY SplitFacts
<1>2. d \in Seq(S)
  <2>1. 1 \in 0 .. Len(c)
    OBVIOUS
  <2>. QED BY <2>1, FromFacts
<1>3. w \in Seq(S) /\ Len(w) = 1 /\ <<id>> \o w = <<id, x>>
  <2>. HIDE DEF x
  <2>. QED BY <1>1, TwoOnes
<1>4. Replaced(w, v, id) = w
  <2>. HIDE DEF w
  <2>1. Len(w) <= 1 => Replaced(w, v, id) = w
    BY <1>3, ReplacedShort
  <2>. QED BY <1>3, <2>1
<1>5. Replaced(u, v, id) = <<id, x>>
  <2>. HIDE DEF w, x
  <2>1. Replaced(v \o w, v, id) = <<id>> \o Replaced(w, v, id)
    BY <1>3, ReplacedMakes
  <2>. QED BY <1>3, <1>4, <2>1
<1>6. u \in Seq(S)
  <2>. HIDE DEF w
  <2>. QED BY <1>3, ConcatFacts
<1>7. v \o c = u \o d
  <2>. HIDE DEF w, d
  <2>1. v \in Seq(S) /\ w \in Seq(S) /\ d \in Seq(S)
    BY <1>2, <1>3
  <2>2. (v \o w) \o d = v \o (w \o d)
    BY ONLY <2>1, ConcatAssociative, SMTT(60)
  <2>. QED BY <1>1, <2>2
<1>8. Piece(S, u, a \o (v \o c))
  <2>. HIDE DEF u, d
  <2>. QED BY <1>2, <1>7 DEF Piece
<1>. HIDE DEF u, d, w
<1>. QED BY <1>5, <1>6, <1>8 DEF Comes

(* What a round notes as come.                                             *)
LEMMA NotedComes ==
  ASSUME NEW new \in Nat, NEW t \in Seq(0 .. new), NEW i \in 1 .. Len(t) - 1,
         NEW p \in Pairs(new), NEW record \in Seq(Pairs(new) \X {1, -1}),
         NEW y \in ToSet(RightNoted(LeftNoted(record, t, i, p, new), t, i, p, new)), y[2] = 1
  PROVE  \/ y \in ToSet(record)
         \/ i > 1 /\ y[1] = <<t[i - 1], new>>
         \/ i + 2 <= Len(t) /\ y[1] = <<new, t[i + 2]>>
<1>. DEFINE P == Pairs(new)
            r1 == LeftNoted(record, t, i, p, new)
            leftgone == <<t[i - 1], p[1]>>
            leftcome == <<t[i - 1], new>>
            rightgone == <<p[2], t[i + 2]>>
            rightcome == <<new, t[i + 2]>>
<1>1. p[1] \in 0 .. new /\ p[2] \in 0 .. new /\ new \in 0 .. new
  BY DEF Pairs
<1>2. i > 1 => leftgone \in P /\ leftcome \in P
  <2>1. i > 1 => i - 1 \in 1 .. Len(t)
    OBVIOUS
  <2>2. i > 1 => t[i - 1] \in 0 .. new
    BY <2>1, SMTT(60)
  <2>. QED BY <1>1, <2>2 DEF Pairs
<1>3. i + 2 <= Len(t) => rightgone \in P /\ rightcome \in P
  <2>1. i + 2 <= Len(t) => i + 2 \in 1 .. Len(t)
    OBVIOUS
  <2>2. i + 2 <= Len(t) => t[i + 2] \in 0 .. new
    BY <2>1
  <2>. QED BY <1>1, <2>2 DEF Pairs
<1>4. r1 = IF i > 1 THEN GoneCome(record, leftgone, leftcome) ELSE record
  BY DEF LeftNoted
<1>5. RightNoted(r1, t, i, p, new) = IF i + 2 <= Len(t) THEN GoneCome(r1, rightgone, rightcome) ELSE r1
  BY DEF RightNoted
<1>6. y \in ToSet(RightNoted(r1, t, i, p, new))
  OBVIOUS
<1>7. record \in Seq(P \X {1, -1})
  OBVIOUS
<1>8. (<<leftgone, -1>>)[2] = -1 /\ (<<leftcome, 1>>)[1] = leftcome
      /\ (<<rightgone, -1>>)[2] = -1 /\ (<<rightcome, 1>>)[1] = rightcome
  OBVIOUS
<1>. HIDE DEF P, r1, leftgone, leftcome, rightgone, rightcome
<1>9. r1 \in Seq(P \X {1, -1})
  BY <1>2, <1>4, <1>7, GoneComeSet
<1>10. \A x : x \in ToSet(r1) => x \in ToSet(record) \/ (i > 1 /\ (x = <<leftgone, -1>> \/ x = <<leftcome, 1>>))
  <2>. TAKE x
  <2>1. CASE i > 1
    <3>1. leftgone \in P /\ leftcome \in P
      BY <1>2, <2>1
    <3>2. x \in ToSet(GoneCome(record, leftgone, leftcome)) <=>
            x \in ToSet(record) \/ x = <<leftgone, -1>> \/ x = <<leftcome, 1>>
      BY <1>7, <3>1, GoneComeSet
    <3>. QED BY <1>4, <2>1, <3>2
  <2>2. CASE ~(i > 1)
    BY <1>4, <2>2
  <2>. QED BY <2>1, <2>2
<1>11. y \in ToSet(r1) \/ (i + 2 <= Len(t) /\ (y = <<rightgone, -1>> \/ y = <<rightcome, 1>>))
  <2>1. CASE i + 2 <= Len(t)
    <3>1. rightgone \in P /\ rightcome \in P
      BY <1>3, <2>1
    <3>2. y \in ToSet(GoneCome(r1, rightgone, rightcome)) <=>
            y \in ToSet(r1) \/ y = <<rightgone, -1>> \/ y = <<rightcome, 1>>
      BY <1>9, <3>1, GoneComeSet
    <3>. QED BY <1>5, <1>6, <2>1, <3>2
  <2>2. CASE ~(i + 2 <= Len(t))
    BY <1>5, <1>6, <2>2
  <2>. QED BY <2>1, <2>2
<1>12. y # <<leftgone, -1>> /\ y # <<rightgone, -1>>
  BY <1>8
<1>13. y \in ToSet(record) \/ (i > 1 /\ y = <<leftcome, 1>>) \/ (i + 2 <= Len(t) /\ y = <<rightcome, 1>>)
  BY <1>10, <1>11, <1>12
<1>. QED BY <1>8, <1>13 DEF leftcome, rightcome

-----------------------------------------------------------------------------
(* update_word does what replacing the pair does.                          *)

LEMMA SeamFacts ==
  ASSUME NEW S, NEW A \in Seq(S), NEW b \in Seq(S), NEW t, t = A \o b
  PROVE  /\ t \in Seq(S) /\ Len(t) = Len(A) + Len(b) /\ Len(A) \in Nat /\ Len(b) \in Nat
         /\ \A k \in 1 .. Len(A) : t[k] = A[k]
         /\ \A k \in 1 .. Len(b) : t[Len(A) + k] = b[k]
<1>1. t \in Seq(S)
  BY ConcatFacts
<1>2. Len(t) = Len(A) + Len(b)
  BY ConcatFacts
<1>3. Len(A) \in Nat /\ Len(b) \in Nat
  OBVIOUS
<1>4. \A k \in 1 .. Len(A) + Len(b) : t[k] = IF k <= Len(A) THEN A[k] ELSE b[k - Len(A)]
  BY ConcatFacts
<1>5. \A k \in 1 .. Len(A) : t[k] = A[k]
  <2>. TAKE k \in 1 .. Len(A)
  <2>1. k \in 1 .. Len(A) + Len(b) /\ k <= Len(A)
    BY <1>3
  <2>. QED BY <1>4, <2>1
<1>6. \A k \in 1 .. Len(b) : t[Len(A) + k] = b[k]
  <2>. TAKE k \in 1 .. Len(b)
  <2>. DEFINE j == Len(A) + k
  <2>1. j \in 1 .. Len(A) + Len(b) /\ ~(j <= Len(A)) /\ j - Len(A) = k
    BY <1>3
  <2>. HIDE DEF j
  <2>2. t[j] = b[k]
    BY <1>4, <2>1
  <2>. QED BY <2>2 DEF j
<1>. QED BY <1>1, <1>2, <1>3, <1>5, <1>6

LEMMA NotAcross ==
  ASSUME NEW S, NEW A \in Seq(S), NEW b \in Seq(S), NEW p,
         \A k \in Places(A \o b, p) : k > Len(A)
  PROVE  ~Across(A, b, p)
<1>. DEFINE t == A \o b
            n == Len(A)
            h == n + 1
<1>1. SUFFICES ASSUME Across(A, b, p) PROVE FALSE
  OBVIOUS
<1>2. n > 0 /\ Len(b) > 0 /\ <<A[n], b[1]>> = p
  BY <1>1 DEF Across
<1>3. Len(t) = n + Len(b) /\ n \in Nat /\ Len(b) \in Nat
  <2>1. Len(t) = Len(A) + Len(b)
    BY SeamFacts
  <2>. QED BY <2>1
<1>4. \A k \in 1 .. Len(A) : t[k] = A[k]
  BY SeamFacts
<1>5. \A k \in 1 .. Len(b) : t[n + k] = b[k]
  BY SeamFacts
<1>. HIDE DEF t
<1>6. t[n] = A[n]
  <2>1. n \in 1 .. Len(A)
    BY <1>2, <1>3
  <2>. QED BY <1>4, <2>1
<1>7. t[h] = b[1]
  <2>1. 1 \in 1 .. Len(b)
    BY <1>2, <1>3
  <2>. QED BY <1>5, <2>1
<1>8. n \in 1 .. Len(t) - 1
  BY <1>2, <1>3
<1>9. n \in Places(t, p)
  BY <1>2, <1>6, <1>7, <1>8 DEF Places
<1>. QED BY <1>3, <1>9 DEF t

(* How far the rounds of update_word have come: up to the position r.at    *)
(* the symbols are replaced, from there on they are the word's.            *)
Through(S, r, s, p, id) ==
  \E a \in Seq(S), b \in Seq(S) :
    /\ s = a \o b /\ r.symbols = Replaced(a, p, id) \o b
    /\ Len(Replaced(a, p, id)) = r.at - 1

Halfway(S, r, s, p, id) ==
  /\ Through(S, r, s, p, id)
  /\ \A y \in ToSet(r.record) : y[2] = 1 => Comes(S, s, p, id, y[1])

LEMMA HalfwayStep ==
  ASSUME NEW new \in Nat, NEW s \in Seq(Ids(new)), NEW p \in Ids(new) \X Ids(new),
         NEW n \in Nat, NEW r, Round(r, s, p, new, n), Halfway(0 .. new, r, s, p, new)
  PROVE  Halfway(0 .. new, UpdateRound(r, p, new), s, p, new)
<1>. DEFINE S == 0 .. new
            t == r.symbols
            i == r.at
            R(x) == Replaced(x, p, new)
            u == UpdateRound(r, p, new)
<1>. SUFFICES Halfway(S, u, s, p, new)
  OBVIOUS
<1>1. /\ r \in Progress(new) /\ t \in Seq(0 .. new) /\ i \in Nat
      /\ r.record \in Seq(Pairs(new) \X {1, -1})
      /\ i >= 1 /\ \A k \in Places(t, p) : k >= i
  BY DEF Round, Progress
<1>2. new \in S /\ p \in Pairs(new) /\ p = <<p[1], p[2]>> /\ p[1] \in S /\ p[2] \in S
  BY DEF Ids, Pairs
<1>3. /\ i >= Len(t) => u = r
      /\ i < Len(t) /\ PairAt(t, i) # p => u = [r EXCEPT !.at = i + 1]
      /\ i < Len(t) /\ PairAt(t, i) = p =>
           u = [symbols |-> Merged(t, i, new), at |-> i + 1,
                record |-> RightNoted(LeftNoted(r.record, t, i, p, new), t, i, p, new)]
  BY <1>1, RoundCases
<1>4. PICK a \in Seq(S), b \in Seq(S) :
        s = a \o b /\ t = R(a) \o b /\ Len(R(a)) = i - 1
  BY DEF Halfway, Through
<1>5. \A y \in ToSet(r.record) : y[2] = 1 => Comes(S, s, p, new, y[1])
  BY DEF Halfway
<1>. DEFINE A == R(a)
<1>. HIDE DEF S, t, i, u
<1>6. A \in Seq(S) /\ Len(A) = i - 1 /\ t = A \o b
  <2>1. A \in Seq(S)
    BY <1>2, ReplacedType
  <2>. QED BY <1>4, <2>1
<1>. HIDE DEF A
<1>7. /\ t \in Seq(S) /\ Len(t) = Len(A) + Len(b) /\ Len(A) \in Nat /\ Len(b) \in Nat
      /\ Len(t) \in Nat
  <2>1. t \in Seq(S)
    BY <1>6, SeamFacts
  <2>2. Len(t) = Len(A) + Len(b)
    <3>1. A \in Seq(S) /\ b \in Seq(S) /\ t = A \o b
      BY <1>6
    <3>. QED BY ONLY <3>1, SeamFacts
  <2>3. Len(A) \in Nat /\ Len(b) \in Nat
    BY <1>6, SeamFacts
  <2>. QED BY <2>1, <2>2, <2>3
<1>8. \A k \in 1 .. Len(A) : t[k] = A[k]
  BY <1>6, SeamFacts
<1>9. \A k \in 1 .. Len(b) : t[Len(A) + k] = b[k]
  BY <1>6, SeamFacts, SMTT(60)
<1>10. ~Across(A, b, p)
  <2>1. \A k \in Places(A \o b, p) : k > Len(A)
    <3>1. \A k \in Places(t, p) : k \in Int
      BY DEF Places
    <3>2. \A k \in Places(t, p) : k > Len(A)
      BY <1>1, <1>6, <3>1
    <3>. QED BY <1>6, <3>2
  <2>. QED BY <1>6, <2>1, NotAcross
<1>11. CASE i >= Len(t)
  <2>1. u = r
    BY <1>3, <1>11
  <2>. QED BY <2>1 DEF S
<1>12. CASE i < Len(t) /\ PairAt(t, i) # p
  <2>. DEFINE x == b[1]
              w == <<x>>
              c == From(b, 1)
  <2>1. Len(b) > 1
    BY <1>1, <1>6, <1>7, <1>12
  <2>2. x \in S /\ b = w \o c
    <3>1. Len(b) > 0 /\ b \in Seq(S)
      BY <2>1, <1>7
    <3>2. b[1] \in S /\ b = <<b[1]>> \o From(b, 1)
      BY ONLY <3>1, SplitFacts
    <3>. QED BY <3>2
  <2>3. c \in Seq(S)
    <3>1. 1 \in 0 .. Len(b)
      BY <2>1, <1>7
    <3>. QED BY <3>1, FromFacts
  <2>4. w \in Seq(S) /\ Len(w) = 1 /\ w[1] = x
    BY <2>2
  <2>5. ~Across(A, w, p)
    BY <1>10, <2>1, <2>4, <1>7 DEF Across
  <2>. HIDE DEF w, c, x
  <2>6. R(a \o w) = A \o w
    <3>1. ~Across(Replaced(a, p, new), w, p)
      BY <2>5 DEF A
    <3>2. Replaced(a \o w, p, new) = Replaced(a, p, new) \o w
      <4>1. a \in Seq(S) /\ w \in Seq(S) /\ Len(w) <= 1 /\ new \in S
            /\ ~Across(Replaced(a, p, new), w, p)
        BY <1>2, <2>4, <3>1
      <4>. QED BY ONLY <4>1, GoesOn
    <3>. QED BY <3>2 DEF A
  <2>7. a \in Seq(S) /\ A \in Seq(S) /\ w \in Seq(S) /\ c \in Seq(S)
    BY <1>6, <2>3, <2>4
  <2>8. (a \o w) \o c = a \o (w \o c)
    BY ONLY <2>7, ConcatAssociative, SMTT(60)
  <2>9. (A \o w) \o c = A \o (w \o c)
    BY ONLY <2>7, ConcatAssociative, SMTT(60)
  <2>. DEFINE aw == a \o w
  <2>10. aw \in Seq(S)
    BY <2>7, ConcatFacts
  <2>11. Len(A \o w) = Len(A) + Len(w)
    BY <2>7, ConcatFacts
  <2>12. u = [r EXCEPT !.at = i + 1]
    BY <1>3, <1>12
  <2>13. u.symbols = t /\ u.at = i + 1 /\ u.record = r.record
    BY <2>12, <1>1 DEF Progress, t
  <2>14. s = aw \o c /\ t = R(aw) \o c /\ Len(R(aw)) = u.at - 1
    <3>1. s = aw \o c
      BY <1>4, <2>2, <2>8
    <3>2. t = R(aw) \o c
      BY <1>6, <2>2, <2>6, <2>9
    <3>3. Len(R(aw)) = i
      BY <2>4, <2>6, <2>11, <1>6, <1>1
    <3>. QED BY <3>1, <3>2, <3>3, <2>13, <1>1
  <2>. HIDE DEF aw
  <2>15. Through(S, u, s, p, new)
    BY <2>10, <2>3, <2>13, <2>14 DEF Through
  <2>. QED BY <1>5, <2>13, <2>15 DEF Halfway
<1>13. CASE i < Len(t) /\ PairAt(t, i) = p
  <2>. DEFINE c == From(b, 2)
              w == <<new>>
              rec == RightNoted(LeftNoted(r.record, t, i, p, new), t, i, p, new)
              A1 == Len(A)
  <2>1. Len(b) > 1 /\ Len(b) >= 2
    BY <1>1, <1>6, <1>7, <1>13
  <2>2. t[i] = p[1] /\ t[i + 1] = p[2]
    BY <1>2, <1>13 DEF PairAt
  <2>3. b[1] = p[1] /\ b[2] = p[2]
    <3>1. 1 \in 1 .. Len(b) /\ 2 \in 1 .. Len(b) /\ Len(A) + 1 = i /\ Len(A) + 2 = i + 1
      BY <2>1, <1>7, <1>6, <1>1
    <3>2. t[Len(A) + 1] = b[1] /\ t[Len(A) + 2] = b[2]
      BY <3>1, <1>9
    <3>. QED BY <2>2, <3>1, <3>2
  <2>4. b = p \o c
    <3>1. b = <<b[1], b[2]>> \o c
      BY <2>1, SplitFacts
    <3>. QED BY <1>2, <2>3, <3>1
  <2>5. c \in Seq(S) /\ Len(c) = Len(b) - 2
    <3>1. 2 \in 0 .. Len(b)
      BY <2>1, <1>7
    <3>2. From(b, 2) \in Seq(S)
      BY <3>1, FromFacts
    <3>3. Len(From(b, 2)) = Len(b) - 2
      BY <3>1, FromFacts
    <3>. QED BY <3>2, <3>3
  <2>6. p \in Seq(S) /\ Len(p) = 2
    <3>1. <<p[1], p[2]>> \in Seq(S) /\ Len(<<p[1], p[2]>>) = 2
      BY <1>2
    <3>. QED BY <1>2, <3>1
  <2>7. w \in Seq(S) /\ Len(w) = 1 /\ w[1] = new
    BY <1>2
  <2>8. ~Across(A, p, p)
    BY <1>10, <2>1, <2>3, <2>6, <1>7 DEF Across
  <2>. HIDE DEF c, w, rec
  <2>9. R(a \o p) = A \o w
    <3>1. ~Across(Replaced(a, p, new), p, p)
      BY <2>8 DEF A
    <3>2. Replaced(a \o p, p, new) = Replaced(a, p, new) \o <<new>>
      <4>1. a \in Seq(S) /\ p \in Seq(S) /\ Len(p) = 2 /\ new \in S
            /\ ~Across(Replaced(a, p, new), p, p)
        BY <1>2, <2>6, <3>1
      <4>. QED BY ONLY <4>1, GoesOnByPair
    <3>. QED BY <3>2 DEF A, w
  <2>10. a \in Seq(S) /\ A \in Seq(S) /\ p \in Seq(S) /\ w \in Seq(S) /\ c \in Seq(S)
         /\ Len(p) = 2 /\ Len(w) = 1 /\ new \in S
    BY <1>2, <1>6, <2>5, <2>6, <2>7
  <2>11. (a \o p) \o c = a \o (p \o c)
    BY ONLY <2>10, ConcatAssociative, SMTT(60)
  <2>12. Merged(A \o (p \o c), i, new) = (A \o <<new>>) \o c
    <3>1. A \in Seq(S) /\ p \in Seq(S) /\ Len(p) = 2 /\ c \in Seq(S) /\ new \in S /\ i \in Nat
          /\ Len(A) = i - 1
      BY <1>1, <1>6, <2>10
    <3>. QED BY ONLY <3>1, MergedParts, SMTT(60)
  <2>13. Merged(t, i, new) = (A \o w) \o c
    BY <1>6, <2>4, <2>12 DEF w
  <2>. DEFINE ap == a \o p
  <2>14. ap \in Seq(S)
    BY <2>10, ConcatFacts
  <2>15. Len(A \o w) = Len(A) + Len(w)
    BY <2>10, ConcatFacts
  <2>16. u = [symbols |-> Merged(t, i, new), at |-> i + 1, record |-> rec]
    BY <1>3, <1>13 DEF rec
  <2>17. u.symbols = Merged(t, i, new) /\ u.at = i + 1 /\ u.record = rec
    BY <2>16
  <2>18. s = ap \o c /\ u.symbols = R(ap) \o c /\ Len(R(ap)) = u.at - 1
    <3>1. s = ap \o c
      BY <1>4, <2>4, <2>11
    <3>2. u.symbols = R(ap) \o c
      BY <2>9, <2>13, <2>17
    <3>3. Len(R(ap)) = i
      BY <2>7, <2>9, <2>15, <1>6, <1>1
    <3>. QED BY <3>1, <3>2, <3>3, <2>17, <1>1
  <2>. HIDE DEF ap
  <2>19. Through(S, u, s, p, new)
    BY <2>14, <2>5, <2>18 DEF Through
  <2>20. s = a \o (p \o c)
    BY <1>4, <2>4
  <2>21. ASSUME NEW y \in ToSet(rec), y[2] = 1 PROVE Comes(S, s, p, new, y[1])
    <3>1. \/ y \in ToSet(r.record)
          \/ i > 1 /\ y[1] = <<t[i - 1], new>>
          \/ i + 2 <= Len(t) /\ y[1] = <<new, t[i + 2]>>
      <4>1. t \in Seq(0 .. new) /\ i \in 1 .. Len(t) - 1
        BY <1>1, <1>7, <1>13 DEF S
      <4>. DEFINE record == r.record
      <4>2. record \in Seq(Pairs(new) \X {1, -1})
        BY <1>1
      <4>3. y \in ToSet(RightNoted(LeftNoted(record, t, i, p, new), t, i, p, new)) /\ y[2] = 1
        BY <2>21 DEF rec
      <4>4. p \in Pairs(new) /\ new \in Nat
        BY <1>2
      <4>. HIDE DEF record
      <4>. QED BY ONLY <4>1, <4>2, <4>3, <4>4, NotedComes, ZenonT(60) DEF record
    <3>2. CASE y \in ToSet(r.record)
      BY <1>5, <2>21, <3>2
    <3>3. CASE i > 1 /\ y[1] = <<t[i - 1], new>>
      <4>1. Len(A) > 0 /\ Len(A) \in 1 .. Len(A) /\ i - 1 = Len(A)
        BY <3>3, <1>6, <1>7, <1>1
      <4>2. t[i - 1] = A[Len(A)]
        BY <4>1, <1>8
      <4>3. ~Across(Replaced(a, p, new), p, p) /\ Len(Replaced(a, p, new)) > 0
        BY <2>8, <4>1 DEF A
      <4>4. Replaced(a, p, new) = A
        BY DEF A
      <4>5. Comes(S, a \o (p \o c), p, new, <<A[Len(A)], new>>)
        BY ONLY <2>10, <4>1, <4>4, <2>8, LeftComes
      <4>. QED BY <2>20, <3>3, <4>2, <4>5
    <3>4. CASE i + 2 <= Len(t) /\ y[1] = <<new, t[i + 2]>>
      <4>1. 3 \in 1 .. Len(b) /\ Len(A) + 3 = i + 2 /\ Len(c) > 0
        BY <3>4, <1>6, <1>7, <1>1, <2>5
      <4>2. t[i + 2] = b[3]
        BY <4>1, <1>9
      <4>3. b[3] = c[1]
        <5>1. 2 \in 0 .. Len(b) /\ 1 \in 1 .. Len(b) - 2
          BY <4>1, <2>5, <1>7
        <5>2. \A k \in 1 .. Len(b) - 2 : From(b, 2)[k] = b[k + 2]
          BY <5>1, FromFacts
        <5>3. From(b, 2)[1] = b[1 + 2]
          BY <5>1, <5>2
        <5>. QED BY <5>3 DEF c
      <4>4. Comes(S, a \o (p \o c), p, new, <<new, c[1]>>)
        BY ONLY <2>10, <4>1, RightComes
      <4>. QED BY <2>20, <3>4, <4>2, <4>3, <4>4
    <3>. QED BY <3>1, <3>2, <3>3, <3>4
  <2>. QED BY <2>17, <2>19, <2>21 DEF Halfway
<1>. QED BY <1>1, <1>7, <1>11, <1>12, <1>13

LEMMA HalfwayStart ==
  ASSUME NEW S, NEW s \in Seq(S), NEW p, NEW new \in S
  PROVE  Halfway(S, [symbols |-> s, at |-> 1, record |-> <<>>], s, p, new)
<1>. DEFINE start == [symbols |-> s, at |-> 1, record |-> <<>>]
            e == <<>>
<1>1. e \in Seq(S) /\ Len(e) = 0 /\ e \o s = s
  OBVIOUS
<1>2. start.symbols = s /\ start.at = 1 /\ start.record = <<>>
  OBVIOUS
<1>3. ToSet(<<>>) = {}
  BY DEF ToSet
<1>4. Replaced(e, p, new) = e
  <2>1. Len(e) = 0 => Replaced(e, p, new) = <<>>
    BY <1>1, ReplacedUnfolds, ZenonT(60)
  <2>. QED BY <1>1, <2>1
<1>. HIDE DEF start, e
<1>5. Through(S, start, s, p, new)
  <2>1. s = e \o s /\ start.symbols = Replaced(e, p, new) \o s
        /\ Len(Replaced(e, p, new)) = start.at - 1
    BY <1>1, <1>2, <1>4
  <2>. QED BY <1>1, <2>1 DEF Through
<1>6. Halfway(S, start, s, p, new)
  BY <1>2, <1>3, <1>5 DEF Halfway
<1>. QED BY <1>6 DEF start

(* update_word leaves the word with the pair replaced, and what it notes   *)
(* as come is what becomes of a piece of the word.                         *)
LEMMA UpdateWordReplaces ==
  ASSUME NEW new \in Nat, NEW s \in Seq(Ids(new)), NEW p \in Ids(new) \X Ids(new), NEW u,
         u = UpdateWord(s, p, new)
  PROVE  /\ u.symbols = Replaced(s, p, new)
         /\ \A y \in ToSet(u.record) : y[2] = 1 => Comes(0 .. new, s, p, new, y[1])
<1>. DEFINE n == Len(s)
            S == 0 .. new
            start == [symbols |-> s, at |-> 1, record |-> <<>>]
            c == CHOOSE g : IsRounds(g, s, p, new, n)
            Good(r, m) == Round(r, s, p, new, m) /\ Halfway(S, r, s, p, new)
<1>1. n \in Nat /\ new \in S
  OBVIOUS
<1>2. IsRounds(c, s, p, new, n)
  BY <1>1, RoundsExist
<1>3. u = c[n]
  BY DEF UpdateWord, IsRounds
<1>. HIDE DEF c, n
<1>4. c[0] = start
  BY <1>1, <1>2 DEF IsRounds
<1>5. \A m \in Nat : m < n => c[m + 1] = UpdateRound(c[m], p, new)
  <2>. TAKE m \in Nat
  <2>1. HAVE m < n
  <2>2. m + 1 \in 0 .. n /\ m + 1 # 0 /\ (m + 1) - 1 = m
    BY <1>1, <2>1
  <2>. QED BY <1>2, <2>2 DEF IsRounds
<1>6. Good(start, 0)
  <2>1. Round(start, s, p, new, 0)
    BY RoundStart
  <2>2. s \in Seq(S)
    BY DEF Ids
  <2>. HIDE DEF S
  <2>3. Halfway(S, start, s, p, new)
    BY <1>1, <2>2, HalfwayStart
  <2>. QED BY <2>1, <2>3
<1>. HIDE DEF start
<1>. DEFINE Bad == {m \in Nat : m <= n /\ ~Good(c[m], m)}
<1>7. Bad = {}
  <2>1. SUFFICES ASSUME Bad # {} PROVE FALSE
    OBVIOUS
  <2>2. Bad \in SUBSET Nat
    OBVIOUS
  <2>3. PICK m \in Bad : \A k \in Bad : m <= k
    <3>. HIDE DEF Bad
    <3>. QED BY <2>1, <2>2, LeastNumber
  <2>4. m \in Nat /\ m <= n /\ ~Good(c[m], m)
    OBVIOUS
  <2>5. m # 0
    BY <1>4, <1>6, <2>4
  <2>6. m - 1 \in Nat /\ m - 1 < n /\ (m - 1) + 1 = m /\ m - 1 \notin Bad
    <3>1. m - 1 \in Nat /\ m - 1 < n /\ (m - 1) + 1 = m /\ ~(m <= m - 1)
      BY <1>1, <2>4, <2>5
    <3>. HIDE DEF Bad
    <3>. QED BY <2>3, <3>1
  <2>7. Round(c[m - 1], s, p, new, m - 1) /\ Halfway(S, c[m - 1], s, p, new)
    BY <1>1, <2>6
  <2>8. Round(UpdateRound(c[m - 1], p, new), s, p, new, (m - 1) + 1)
    BY <2>6, <2>7, RoundStep
  <2>9. Halfway(S, UpdateRound(c[m - 1], p, new), s, p, new)
    BY <2>6, <2>7, HalfwayStep
  <2>10. c[(m - 1) + 1] = UpdateRound(c[m - 1], p, new)
    BY <1>5, <2>6
  <2>. QED BY <2>4, <2>6, <2>8, <2>9, <2>10
<1>8. Round(u, s, p, new, n) /\ Halfway(S, u, s, p, new)
  BY <1>1, <1>3, <1>7
<1>9. u.symbols = Replaced(s, p, new)
  <2>. DEFINE t == u.symbols
              A(x) == Replaced(x, p, new)
  <2>1. PICK a \in Seq(S), b \in Seq(S) :
          s = a \o b /\ t = A(a) \o b /\ Len(A(a)) = u.at - 1
    BY <1>8 DEF Halfway, Through
  <2>. DEFINE at == u.at
              B == A(a)
  <2>2. /\ at \in Nat /\ Len(t) \in Nat /\ Len(t) <= n
        /\ (at >= Len(t) \/ at = n + 1)
        /\ \A k \in Places(t, p) : k >= at
    <3>1. u \in Progress(new)
      BY <1>8 DEF Round
    <3>2. at \in Nat /\ t \in Seq(0 .. new)
      BY <3>1 DEF Progress
    <3>3. Len(t) <= n /\ (at >= Len(t) \/ at = n + 1) /\ \A k \in Places(t, p) : k >= at
      BY <1>8 DEF Round, n
    <3>. HIDE DEF at, t
    <3>. QED BY <3>2, <3>3
  <2>. HIDE DEF S
  <2>3. B \in Seq(S) /\ b \in Seq(S) /\ t = B \o b /\ Len(B) = at - 1
    <3>1. B \in Seq(S)
      BY <1>1, ReplacedType
    <3>. QED BY <2>1, <3>1
  <2>. HIDE DEF B, t, at
  <2>4. Len(t) = Len(B) + Len(b)
    <3>1. B \in Seq(S) /\ b \in Seq(S)
      BY <2>3
    <3>2. Len(B \o b) = Len(B) + Len(b)
      BY ONLY <3>1, ConcatFacts
    <3>. QED BY <2>3, <3>2
  <2>5. Len(B) = at - 1 /\ Len(b) \in Nat
    BY <2>3
  <2>6. Len(b) <= 1
    BY <1>1, <2>2, <2>4, <2>5
  <2>7. ~Across(B, b, p)
    <3>1. \A k \in Places(t, p) : k \in Int
      BY DEF Places
    <3>2. \A k \in Places(t, p) : k > Len(B)
      BY <2>2, <2>5, <3>1
    <3>3. \A k \in Places(B \o b, p) : k > Len(B)
      BY <2>3, <3>2
    <3>. QED BY <2>3, <3>3, NotAcross
  <2>8. Replaced(a \o b, p, new) = Replaced(a, p, new) \o b
    <3>1. a \in Seq(S) /\ b \in Seq(S) /\ Len(b) <= 1 /\ new \in S
          /\ ~Across(Replaced(a, p, new), b, p)
      BY <1>1, <2>6, <2>7 DEF B
    <3>. QED BY ONLY <3>1, GoesOn
  <2>. QED BY <2>1, <2>8 DEF t
<1>10. \A y \in ToSet(u.record) : y[2] = 1 => Comes(S, s, p, new, y[1])
  BY <1>8 DEF Halfway
<1>. QED BY <1>9, <1>10

-----------------------------------------------------------------------------
(* Merges replayed one after the other.                                    *)

MergeOver(S) == [pair : S \X S, id : S]

(* The sequence s after each of the first n merges.                        *)
IsReplay(g, s, ms, n) ==
  g = [k \in 0 .. n |-> IF k = 0 THEN s ELSE Replaced(g[k - 1], ms[k].pair, ms[k].id)]

LEMMA ReplaysExist ==
  ASSUME NEW s, NEW ms, NEW n \in Nat
  PROVE  \E g : IsReplay(g, s, ms, n)
<1>. DEFINE Bad == {m \in Nat : ~ \E g : IsReplay(g, s, ms, m)}
            next(x, k) == Replaced(x, ms[k].pair, ms[k].id)
<1>1. SUFFICES ASSUME n \in Bad PROVE FALSE
  OBVIOUS
<1>. HIDE DEF Bad
<1>2. PICK m \in Bad : \A k \in Bad : m <= k
  <2>1. Bad \in SUBSET Nat
    BY DEF Bad
  <2>. QED BY <1>1, <2>1, LeastNumber
<1>3. m \in Nat /\ ~ \E g : IsReplay(g, s, ms, m)
  BY <1>2 DEF Bad
<1>4. CASE m = 0
  <2>. DEFINE h == [j \in 0 .. 0 |-> s]
  <2>1. h = [j \in 0 .. 0 |-> IF j = 0 THEN s ELSE next(h[j - 1], j)]
    OBVIOUS
  <2>. HIDE DEF h
  <2>2. IsReplay(h, s, ms, 0)
    BY <2>1 DEF IsReplay
  <2>. QED BY <2>2, <1>3, <1>4
<1>5. CASE m > 0
  <2>1. m - 1 \in Nat /\ m - 1 \notin Bad
    BY <1>2, <1>3, <1>5
  <2>2. PICK g : IsReplay(g, s, ms, m - 1)
    BY <2>1 DEF Bad
  <2>3. g = [j \in 0 .. m - 1 |-> IF j = 0 THEN s ELSE next(g[j - 1], j)]
    BY <2>2 DEF IsReplay
  <2>. HIDE DEF next
  <2>. DEFINE h == [j \in 0 .. m |-> IF j = 0 THEN s ELSE IF j < m THEN g[j] ELSE next(g[m - 1], m)]
  <2>4. \A j \in 0 .. m - 1 : h[j] = g[j]
    <3>. TAKE j \in 0 .. m - 1
    <3>1. j \in 0 .. m /\ j < m /\ 0 \in 0 .. m - 1
      BY <1>3, <1>5
    <3>2. g[0] = s
      BY <2>3, <3>1
    <3>. QED BY <3>1, <3>2
  <2>5. \A j \in 0 .. m : h[j] = IF j = 0 THEN s ELSE next(h[j - 1], j)
    <3>. TAKE j \in 0 .. m
    <3>1. CASE j = 0
      BY <3>1
    <3>2. CASE j # 0 /\ j < m
      <4>1. j \in 0 .. m - 1 /\ j - 1 \in 0 .. m - 1
        BY <1>3, <3>2
      <4>2. h[j] = g[j] /\ h[j - 1] = g[j - 1]
        BY <2>4, <4>1
      <4>3. g[j] = next(g[j - 1], j)
        BY <2>3, <3>2, <4>1
      <4>. HIDE DEF h
      <4>. QED BY <3>2, <4>2, <4>3
    <3>3. CASE j = m
      <4>1. m - 1 \in 0 .. m - 1 /\ m # 0 /\ ~(m < m) /\ m \in 0 .. m
        BY <1>3, <1>5
      <4>2. h[m] = next(g[m - 1], m)
        BY <4>1
      <4>3. h[m - 1] = g[m - 1]
        BY <2>4, <4>1
      <4>. HIDE DEF h
      <4>. QED BY <3>3, <4>1, <4>2, <4>3
    <3>. QED BY <1>3, <3>1, <3>2, <3>3
  <2>6. h = [j \in 0 .. m |-> IF j = 0 THEN s ELSE next(h[j - 1], j)]
    <3>1. h = [j \in 0 .. m |-> h[j]]
      OBVIOUS
    <3>. HIDE DEF h
    <3>. QED BY <2>5, <3>1
  <2>. HIDE DEF h
  <2>7. IsReplay(h, s, ms, m)
    BY <2>6 DEF IsReplay, next
  <2>. QED BY <2>7, <1>3
<1>. QED BY <1>3, <1>4, <1>5

LEMMA ReplayFacts ==
  ASSUME NEW s, NEW ms, NEW n \in Nat, NEW g, IsReplay(g, s, ms, n)
  PROVE  /\ g[0] = s
         /\ \A k \in 1 .. n : g[k] = Replaced(g[k - 1], ms[k].pair, ms[k].id)
<1>1. 0 \in 0 .. n /\ \A k \in 1 .. n : k \in 0 .. n /\ k # 0
  OBVIOUS
<1>. QED BY <1>1 DEF IsReplay

LEMMA ReplayedIs ==
  ASSUME NEW s, NEW ms, Len(ms) \in Nat
  PROVE  \E g : IsReplay(g, s, ms, Len(ms)) /\ Replayed(s, ms) = g[Len(ms)]
<1>. DEFINE n == Len(ms)
            c == CHOOSE g : IsReplay(g, s, ms, n)
<1>1. IsReplay(c, s, ms, n)
  BY ReplaysExist
<1>2. Replayed(s, ms) = c[n]
  BY DEF Replayed, IsReplay
<1>. HIDE DEF c
<1>. QED BY <1>1, <1>2

(* Two replays that start the same and make the same merges agree.         *)
LEMMA ReplaysAgree ==
  ASSUME NEW s, NEW ms, NEW xs, NEW n \in Nat, NEW m \in Nat, NEW g, IsReplay(g, s, ms, n),
         NEW h, IsReplay(h, s, xs, m), n <= m, \A k \in 1 .. n : ms[k] = xs[k]
  PROVE  g[n] = h[n]
<1>. DEFINE i == n
            Bad == {k \in Nat : k <= i /\ g[k] # h[k]}
<1>1. SUFFICES ASSUME Bad # {} PROVE FALSE
  OBVIOUS
<1>2. Bad \in SUBSET Nat
  OBVIOUS
<1>3. PICK k \in Bad : \A j \in Bad : k <= j
  <2>. HIDE DEF Bad
  <2>. QED BY <1>1, <1>2, LeastNumber
<1>4. k \in Nat /\ k <= i /\ g[k] # h[k]
  OBVIOUS
<1>5. g[0] = s /\ h[0] = s
  BY ReplayFacts
<1>6. k # 0
  BY <1>4, <1>5
<1>7. k \in 1 .. n /\ k \in 1 .. m /\ k \in 1 .. i
  BY <1>4, <1>6
<1>8. g[k] = Replaced(g[k - 1], ms[k].pair, ms[k].id)
  BY <1>7, ReplayFacts
<1>9. h[k] = Replaced(h[k - 1], xs[k].pair, xs[k].id)
  BY <1>7, ReplayFacts
<1>10. g[k - 1] = h[k - 1]
  <2>1. k - 1 \in Nat /\ k - 1 <= i /\ ~(k <= k - 1)
    BY <1>4, <1>6
  <2>2. k - 1 \notin Bad
    <3>. HIDE DEF Bad
    <3>. QED BY <1>3, <2>1
  <2>. QED BY <2>1, <2>2
<1>. QED BY <1>4, <1>7, <1>8, <1>9, <1>10

LEMMA ReplayedUnfoldsNone ==
  ASSUME NEW s
  PROVE  Replayed(s, <<>>) = s
<1>. DEFINE e0 == <<>>
            n == Len(e0)
<1>1. n = 0 /\ n \in Nat
  OBVIOUS
<1>. HIDE DEF e0
<1>2. PICK g : IsReplay(g, s, e0, n) /\ Replayed(s, e0) = g[n]
  BY <1>1, ReplayedIs
<1>. HIDE DEF n
<1>3. g[0] = s
  <2>1. n \in Nat /\ IsReplay(g, s, e0, n)
    BY <1>1, <1>2
  <2>. QED BY ONLY <2>1, ReplayFacts
<1>. QED BY <1>1, <1>2, <1>3 DEF e0

LEMMA ReplayedUnfolds ==
  ASSUME NEW S, NEW ms \in Seq(S), NEW e \in S, NEW s
  PROVE  Replayed(s, Append(ms, e)) = Replaced(Replayed(s, ms), e.pair, e.id)
<1>. DEFINE xs == Append(ms, e)
            n == Len(ms)
            m == Len(xs)
<1>1. n \in Nat /\ m = n + 1 /\ xs[m] = e /\ \A k \in 1 .. n : ms[k] = xs[k]
  OBVIOUS
<1>2. m \in Nat /\ n <= m /\ m \in 1 .. m /\ m - 1 = n
  BY <1>1
<1>. HIDE DEF xs
<1>3. PICK g : IsReplay(g, s, ms, n) /\ Replayed(s, ms) = g[n]
  BY <1>1, ReplayedIs
<1>4. PICK h : IsReplay(h, s, xs, m) /\ Replayed(s, xs) = h[m]
  BY <1>2, ReplayedIs
<1>. HIDE DEF n, m
<1>5. g[n] = h[n]
  <2>1. /\ n \in Nat /\ m \in Nat /\ n <= m
        /\ IsReplay(g, s, ms, n) /\ IsReplay(h, s, xs, m)
    BY <1>1, <1>2, <1>3, <1>4
  <2>2. \A k \in 1 .. n : ms[k] = xs[k]
    BY <1>1
  <2>. QED BY ONLY <2>1, <2>2, ReplaysAgree
<1>6. h[m] = Replaced(h[m - 1], xs[m].pair, xs[m].id)
  BY <1>2, <1>4, ReplayFacts
<1>. QED BY <1>1, <1>2, <1>3, <1>4, <1>5, <1>6 DEF xs

(* A set of sequences that is closed under appending has all of them.      *)
LEMMA AllByAppending ==
  ASSUME NEW M, NEW G \in SUBSET Seq(M), <<>> \in G,
         \A f \in G : \A x \in M : Append(f, x) \in G
  PROVE  \A s \in Seq(M) : s \in G
<1>. DEFINE Bad == {s \in Seq(M) : s \notin G}
<1>1. SUFFICES ASSUME Bad # {} PROVE FALSE
  OBVIOUS
<1>2. Bad \in SUBSET Seq(M)
  OBVIOUS
<1>3. PICK s \in Bad : \A u \in Bad : Len(s) <= Len(u)
  <2>. HIDE DEF Bad
  <2>. QED BY <1>1, <1>2, ShortestSeq
<1>4. s \in Seq(M) /\ s \notin G /\ Len(s) \in Nat
  OBVIOUS
<1>5. Len(s) > 0
  BY <1>4
<1>6. PICK f \in Seq(M), x \in M : s = Append(f, x) /\ Len(f) < Len(s)
  BY <1>4, <1>5, LastFacts
<1>7. f \notin Bad
  <2>1. Len(f) \in Nat
    OBVIOUS
  <2>. HIDE DEF Bad
  <2>. QED BY <1>3, <1>4, <1>6, <2>1
<1>8. f \in G
  BY <1>7
<1>. QED BY <1>4, <1>6, <1>8

LEMMA ReplayedType ==
  ASSUME NEW S, NEW s \in Seq(S), NEW ms \in Seq(MergeOver(S))
  PROVE  Replayed(s, ms) \in Seq(S)
<1>. DEFINE M == MergeOver(S)
            G == {m \in Seq(M) : Replayed(s, m) \in Seq(S)}
<1>1. <<>> \in G
  <2>1. <<>> \in Seq(M)
    OBVIOUS
  <2>2. Replayed(s, <<>>) = s
    BY ReplayedUnfoldsNone
  <2>. QED BY <2>1, <2>2
<1>2. ASSUME NEW f \in G, NEW x \in M PROVE Append(f, x) \in G
  <2>1. f \in Seq(M) /\ Replayed(s, f) \in Seq(S)
    OBVIOUS
  <2>2. x.id \in S
    BY DEF MergeOver
  <2>. HIDE DEF M
  <2>3. Append(f, x) \in Seq(M)
    BY <2>1
  <2>4. Replayed(s, Append(f, x)) = Replaced(Replayed(s, f), x.pair, x.id)
    BY <2>1, ReplayedUnfolds
  <2>. DEFINE r == Replayed(s, f)
  <2>. HIDE DEF r
  <2>5. Replaced(r, x.pair, x.id) \in Seq(S)
    BY <2>1, <2>2, ReplacedType DEF r
  <2>. QED BY <2>3, <2>4, <2>5 DEF r
<1>3. G \in SUBSET Seq(M)
  OBVIOUS
<1>. HIDE DEF G, M
<1>4. \A m \in Seq(M) : m \in G
  BY <1>1, <1>2, <1>3, AllByAppending
<1>. QED BY <1>4 DEF G, M

(* The parts of a result come from parts of the sequence.                  *)
ReplayedFrom(S, s, ms, A, B) ==
  \E a \in Seq(S), b \in Seq(S) : s = a \o b /\ Replayed(a, ms) = A /\ Replayed(b, ms) = B

LEMMA ReplayedSplits ==
  ASSUME NEW S, NEW s \in Seq(S), NEW ms \in Seq(MergeOver(S)),
         NEW A \in Seq(S), NEW B \in Seq(S), Replayed(s, ms) = A \o B
  PROVE  ReplayedFrom(S, s, ms, A, B)
<1>. DEFINE M == MergeOver(S)
            G == {m \in Seq(M) : \A C \in Seq(S), D \in Seq(S) :
                    Replayed(s, m) = C \o D => ReplayedFrom(S, s, m, C, D)}
<1>1. <<>> \in G
  <2>1. <<>> \in Seq(M)
    OBVIOUS
  <2>2. \A r : Replayed(r, <<>>) = r
    BY ReplayedUnfoldsNone
  <2>3. ASSUME NEW C \in Seq(S), NEW D \in Seq(S), Replayed(s, <<>>) = C \o D
        PROVE  ReplayedFrom(S, s, <<>>, C, D)
    BY <2>2, <2>3 DEF ReplayedFrom
  <2>. QED BY <2>1, <2>3
<1>2. ASSUME NEW f \in G, NEW x \in M PROVE Append(f, x) \in G
  <2>1. f \in Seq(M)
    OBVIOUS
  <2>2. x.id \in S
    BY DEF MergeOver
  <2>3. Append(f, x) \in Seq(M)
    BY <2>1
  <2>4. ASSUME NEW C \in Seq(S), NEW D \in Seq(S), Replayed(s, Append(f, x)) = C \o D
        PROVE  ReplayedFrom(S, s, Append(f, x), C, D)
    <3>. DEFINE r == Replayed(s, f)
                p == x.pair
                id == x.id
    <3>1. r \in Seq(S)
      BY <2>1, ReplayedType
    <3>2. \A u : Replayed(u, Append(f, x)) = Replaced(Replayed(u, f), p, id)
      BY <2>1, ReplayedUnfolds
    <3>3. Replaced(r, p, id) = C \o D
      BY <2>4, <3>2
    <3>. HIDE DEF r, p, id
    <3>4. Splits(S, r, p, id, C, D)
      BY <2>2, <3>1, <3>3, ReplacedSplits DEF id
    <3>5. PICK c \in Seq(S), d \in Seq(S) :
            r = c \o d /\ Replaced(c, p, id) = C /\ Replaced(d, p, id) = D
      BY <3>4 DEF Splits
    <3>6. ReplayedFrom(S, s, f, c, d)
      <4>1. Replayed(s, f) = c \o d
        BY <3>5 DEF r
      <4>2. \A C1 \in Seq(S), D1 \in Seq(S) : Replayed(s, f) = C1 \o D1 => ReplayedFrom(S, s, f, C1, D1)
        OBVIOUS
      <4>. HIDE DEF G
      <4>. QED BY <4>1, <4>2
    <3>7. PICK a \in Seq(S), b \in Seq(S) :
            s = a \o b /\ Replayed(a, f) = c /\ Replayed(b, f) = d
      BY <3>6 DEF ReplayedFrom
    <3>8. Replayed(a, Append(f, x)) = C /\ Replayed(b, Append(f, x)) = D
      BY <3>2, <3>5, <3>7
    <3>. QED BY <3>7, <3>8 DEF ReplayedFrom
  <2>. QED BY <2>3, <2>4
<1>3. G \in SUBSET Seq(M)
  OBVIOUS
<1>4. ms \in G => ReplayedFrom(S, s, ms, A, B)
  OBVIOUS
<1>. HIDE DEF G, M
<1>5. \A m \in Seq(M) : m \in G
  BY <1>1, <1>2, <1>3, AllByAppending
<1>. QED BY <1>4, <1>5 DEF M

LEMMA ReplayedPiece ==
  ASSUME NEW S, NEW s \in Seq(S), NEW ms \in Seq(MergeOver(S)), NEW u \in Seq(S),
         Piece(S, u, Replayed(s, ms))
  PROVE  \E v \in Seq(S) : Piece(S, v, s) /\ Replayed(v, ms) = u
<1>1. PICK l \in Seq(S), r \in Seq(S) : Replayed(s, ms) = l \o (u \o r)
  BY DEF Piece
<1>. DEFINE ur == u \o r
<1>2. ur \in Seq(S)
  BY ConcatFacts
<1>. HIDE DEF ur
<1>3. ReplayedFrom(S, s, ms, l, ur)
  BY <1>1, <1>2, ReplayedSplits DEF ur
<1>4. PICK a \in Seq(S), b \in Seq(S) : s = a \o b /\ Replayed(b, ms) = ur
  BY <1>3 DEF ReplayedFrom
<1>5. ReplayedFrom(S, b, ms, u, r)
  BY <1>4, ReplayedSplits DEF ur
<1>6. PICK v \in Seq(S), d \in Seq(S) : b = v \o d /\ Replayed(v, ms) = u
  BY <1>5 DEF ReplayedFrom
<1>7. Piece(S, v, s)
  BY <1>4, <1>6 DEF Piece
<1>. QED BY <1>6, <1>7

LEMMA PieceOfPiece ==
  ASSUME NEW S, NEW u \in Seq(S), NEW v \in Seq(S), NEW s \in Seq(S),
         Piece(S, u, v), Piece(S, v, s)
  PROVE  Piece(S, u, s)
<1>1. PICK l \in Seq(S), r \in Seq(S) : v = l \o (u \o r)
  BY DEF Piece
<1>2. PICK f \in Seq(S), g \in Seq(S) : s = f \o (v \o g)
  BY DEF Piece
<1>. DEFINE ur == u \o r
            fl == f \o l
            rg == r \o g
            urg == ur \o g
<1>3. ur \in Seq(S) /\ fl \in Seq(S) /\ rg \in Seq(S)
  <2>1. ur \in Seq(S)
    BY ConcatFacts
  <2>2. fl \in Seq(S)
    BY ConcatFacts
  <2>3. rg \in Seq(S)
    BY ConcatFacts
  <2>. QED BY <2>1, <2>2, <2>3
<1>4. urg = u \o rg
  <2>1. u \in Seq(S) /\ r \in Seq(S) /\ g \in Seq(S)
    OBVIOUS
  <2>. QED BY ONLY <2>1, ConcatAssociative, SMTT(60)
<1>. HIDE DEF ur
<1>5. v \o g = l \o urg
  <2>1. l \in Seq(S) /\ ur \in Seq(S) /\ g \in Seq(S)
    BY <1>3
  <2>2. (l \o ur) \o g = l \o (ur \o g)
    BY ONLY <2>1, ConcatAssociative, SMTT(60)
  <2>. QED BY <1>1, <2>2 DEF ur
<1>6. urg \in Seq(S)
  BY <1>3, ConcatFacts
<1>. HIDE DEF urg
<1>7. fl \o urg = f \o (l \o urg)
  <2>1. f \in Seq(S) /\ l \in Seq(S) /\ urg \in Seq(S)
    BY <1>6
  <2>. QED BY ONLY <2>1, ConcatAssociative, SMTT(60)
<1>8. s = fl \o (u \o rg)
  BY <1>2, <1>4, <1>5, <1>7
<1>. HIDE DEF fl, rg
<1>. QED BY <1>3, <1>8 DEF Piece

LEMMA PieceWhole ==
  ASSUME NEW S, NEW s \in Seq(S)
  PROVE  Piece(S, s, s)
<1>. DEFINE e == <<>>
<1>1. e \in Seq(S) /\ s = e \o (s \o e)
  OBVIOUS
<1>. HIDE DEF e
<1>. QED BY <1>1 DEF Piece

LEMMA ConcatNarrows ==
  ASSUME NEW S, NEW a \in Seq(S), NEW b \in Seq(S), NEW T, a \o b \in Seq(T)
  PROVE  a \in Seq(T) /\ b \in Seq(T)
<1>. DEFINE t == a \o b
<1>1. Len(t) = Len(a) + Len(b) /\ Len(a) \in Nat /\ Len(b) \in Nat
  <2>1. Len(a \o b) = Len(a) + Len(b)
    BY ConcatFacts
  <2>. QED BY <2>1
<1>2. \A k \in 1 .. Len(a) : t[k] = a[k]
  BY SeamFacts
<1>3. \A k \in 1 .. Len(b) : t[Len(a) + k] = b[k]
  BY SeamFacts
<1>4. t \in Seq(T)
  OBVIOUS
<1>. HIDE DEF t
<1>5. \A k \in 1 .. Len(t) : t[k] \in T
  BY <1>4
<1>6. \A k \in 1 .. Len(a) : a[k] \in T
  <2>. TAKE k \in 1 .. Len(a)
  <2>1. k \in 1 .. Len(t)
    BY <1>1
  <2>. QED BY <1>2, <1>5, <2>1
<1>7. \A k \in 1 .. Len(b) : b[k] \in T
  <2>. TAKE k \in 1 .. Len(b)
  <2>. DEFINE j == Len(a) + k
  <2>1. j \in 1 .. Len(t)
    BY <1>1
  <2>2. t[j] = b[k]
    BY <1>3
  <2>. HIDE DEF j
  <2>. QED BY <1>5, <2>1, <2>2
<1>8. DOMAIN a = 1 .. Len(a) /\ DOMAIN b = 1 .. Len(b) /\ a = [k \in 1 .. Len(a) |-> a[k]]
      /\ b = [k \in 1 .. Len(b) |-> b[k]]
  OBVIOUS
<1>. QED BY <1>1, <1>6, <1>7, <1>8

LEMMA PieceNarrows ==
  ASSUME NEW S, NEW v \in Seq(S), NEW T, NEW s \in Seq(T), Piece(S, v, s)
  PROVE  v \in Seq(T) /\ Piece(T, v, s)
<1>1. PICK l \in Seq(S), r \in Seq(S) : s = l \o (v \o r)
  BY DEF Piece
<1>. DEFINE vr == v \o r
<1>2. vr \in Seq(S)
  BY ConcatFacts
<1>3. l \o vr \in Seq(T)
  BY <1>1
<1>. HIDE DEF vr
<1>4. l \in Seq(T)
  BY <1>2, <1>3, ConcatNarrows
<1>5. vr \in Seq(T)
  BY <1>2, <1>3, ConcatNarrows
<1>6. v \in Seq(T)
  BY <1>5, ConcatNarrows DEF vr
<1>7. r \in Seq(T)
  BY <1>5, ConcatNarrows DEF vr
<1>. QED BY <1>1, <1>4, <1>6, <1>7 DEF Piece

LEMMA SeqWidens ==
  ASSUME NEW S, NEW T, S \subseteq T, NEW s \in Seq(S)
  PROVE  s \in Seq(T)
<1>1. \A k \in 1 .. Len(s) : s[k] \in T
  OBVIOUS
<1>. QED BY <1>1

-----------------------------------------------------------------------------
(* The table of symbols, and what the merges make of the texts.            *)

(* The first id a merge is given, and the ids that words may hold: the     *)
(* bytes and the merged symbols.                                           *)
Base == Cardinality(Bytes) + Len(Specials)

Used(n) == Bytes \cup (Base .. n - 1)

(* A table with the bytes first and the special tokens next, and merges    *)
(* that join what they spell.                                              *)
Table(table) ==
  /\ table \in Seq(Seq(Nat)) /\ Base <= Len(table)
  /\ \A b \in Bytes : BytesOf(table, b) = <<b>>
  /\ \A k \in DOMAIN Specials : BytesOf(table, Cardinality(Bytes) + k - 1) = Specials[k]

Joins(table) ==
  {m \in MergeOver(Used(Len(table))) :
     BytesOf(table, m.id) = BytesOf(table, m.pair[1]) \o BytesOf(table, m.pair[2])}

LEMMA UsedFacts ==
  /\ Base \in Nat /\ Cardinality(Bytes) \in Nat /\ Cardinality(Bytes) <= Base
  /\ Bytes = 0 .. Cardinality(Bytes) - 1
  /\ \A n \in Nat : Bytes \subseteq Used(n) /\ (Base <= n => Used(n) \subseteq Ids(n))
<1>1. Cardinality(Bytes) \in Nat /\ Bytes = 0 .. Cardinality(Bytes) - 1
  BY TrainerAssumption, FS_CardinalityType DEF TrainerAssumption
<1>2. Len(Specials) \in Nat
  BY TrainerAssumption DEF TrainerAssumption
<1>3. Base \in Nat /\ Cardinality(Bytes) <= Base
  BY <1>1, <1>2 DEF Base
<1>4. ASSUME NEW n \in Nat PROVE Bytes \subseteq Used(n) /\ (Base <= n => Used(n) \subseteq Ids(n))
  <2>. DEFINE B == Cardinality(Bytes)
  <2>1. B \in Nat /\ B <= Base /\ Bytes = 0 .. B - 1
    BY <1>1, <1>3
  <2>. HIDE DEF B
  <2>2. Base <= n => 0 .. B - 1 \subseteq 0 .. n - 1 /\ Base .. n - 1 \subseteq 0 .. n - 1
    BY <1>3, <2>1
  <2>. QED BY <2>1, <2>2 DEF Used, Ids
<1>. QED BY <1>1, <1>3, <1>4

LEMMA TextOfBytes ==
  ASSUME NEW table, Table(table), NEW e \in Seq(Bytes)
  PROVE  Text(table, e) = e
<1>. DEFINE G == {f \in Seq(Bytes) : Text(table, f) = f}
<1>1. table \in Seq(Seq(Nat)) /\ Len(table) \in Nat /\ Bytes \subseteq Ids(Len(table))
  <2>1. table \in Seq(Seq(Nat)) /\ Len(table) \in Nat /\ Base <= Len(table)
    BY DEF Table
  <2>2. Bytes \subseteq Used(Len(table)) /\ Used(Len(table)) \subseteq Ids(Len(table))
    BY <2>1, UsedFacts
  <2>. QED BY <2>1, <2>2
<1>2. <<>> \in G
  <2>1. <<>> \in Seq(Bytes)
    OBVIOUS
  <2>2. Text(table, <<>>) = <<>>
    BY <1>1, TextEmpty
  <2>. QED BY <2>1, <2>2
<1>3. ASSUME NEW f \in G, NEW x \in Bytes PROVE Append(f, x) \in G
  <2>1. f \in Seq(Bytes) /\ Text(table, f) = f
    OBVIOUS
  <2>2. f \in Seq(Ids(Len(table))) /\ x \in Ids(Len(table))
    BY <1>1, <2>1, SeqWidens
  <2>3. Text(table, Append(f, x)) = Text(table, f) \o BytesOf(table, x)
    BY <1>1, <2>2, TextAppend
  <2>4. BytesOf(table, x) = <<x>>
    BY DEF Table
  <2>5. Append(f, x) = f \o <<x>>
    BY <2>1, AppendIsConcat
  <2>6. Append(f, x) \in Seq(Bytes)
    BY <2>1
  <2>. QED BY <2>1, <2>3, <2>4, <2>5, <2>6
<1>4. G \in SUBSET Seq(Bytes)
  OBVIOUS
<1>. HIDE DEF G
<1>5. \A f \in Seq(Bytes) : f \in G
  BY <1>2, <1>3, <1>4, AllByAppending
<1>. QED BY <1>5 DEF G

LEMMA JoinsTyped ==
  ASSUME NEW table, NEW ms \in Seq(Joins(table))
  PROVE  ms \in Seq(MergeOver(Used(Len(table))))
<1>1. Joins(table) \subseteq MergeOver(Used(Len(table)))
  BY DEF Joins
<1>. QED BY <1>1, SeqWidens

(* Merges that join what they spell leave the bytes of a word as they are. *)
LEMMA ReplayedText ==
  ASSUME NEW table, Table(table), NEW ms \in Seq(Joins(table)), NEW s \in Seq(Used(Len(table)))
  PROVE  Text(table, Replayed(s, ms)) = Text(table, s)
<1>. DEFINE M == Joins(table)
            U == Used(Len(table))
            I == Ids(Len(table))
            G == {f \in Seq(M) : Text(table, Replayed(s, f)) = Text(table, s)}
<1>1. table \in Seq(Seq(Nat)) /\ U \subseteq I
  <2>1. table \in Seq(Seq(Nat)) /\ Len(table) \in Nat /\ Base <= Len(table)
    BY DEF Table
  <2>. QED BY <2>1, UsedFacts
<1>2. <<>> \in G
  <2>1. <<>> \in Seq(M)
    OBVIOUS
  <2>2. Replayed(s, <<>>) = s
    BY ReplayedUnfoldsNone
  <2>. QED BY <2>1, <2>2
<1>3. ASSUME NEW f \in G, NEW x \in M PROVE Append(f, x) \in G
  <2>1. f \in Seq(M) /\ Text(table, Replayed(s, f)) = Text(table, s)
    OBVIOUS
  <2>2. x \in MergeOver(U) /\ BytesOf(table, x.id) = BytesOf(table, x.pair[1]) \o BytesOf(table, x.pair[2])
    BY DEF Joins
  <2>. DEFINE r == Replayed(s, f)
              p == x.pair
              id == x.id
  <2>3. p \in U \X U /\ id \in U
    BY <2>2 DEF MergeOver
  <2>4. r \in Seq(U)
    <3>1. f \in Seq(MergeOver(U))
      BY <2>1, JoinsTyped
    <3>2. s \in Seq(U)
      OBVIOUS
    <3>. HIDE DEF U
    <3>3. Replayed(s, f) \in Seq(U)
      BY ONLY <3>1, <3>2, ReplayedType
    <3>. QED BY <3>3
  <2>5. Replayed(s, Append(f, x)) = Replaced(r, p, id)
    BY <2>1, ReplayedUnfolds
  <2>6. Append(f, x) \in Seq(M)
    BY <2>1
  <2>. HIDE DEF r, p, id, U, I, M
  <2>7. r \in Seq(I) /\ p \in I \X I /\ id \in I
    BY <1>1, <2>3, <2>4, SeqWidens
  <2>8. BytesOf(table, id) = BytesOf(table, p[1]) \o BytesOf(table, p[2])
    BY <2>2 DEF p, id
  <2>9. Text(table, Replaced(r, p, id)) = Text(table, r)
    BY <1>1, <2>7, <2>8, TextReplaced DEF I
  <2>. QED BY <2>1, <2>5, <2>6, <2>9 DEF r
<1>4. G \in SUBSET Seq(M)
  OBVIOUS
<1>. HIDE DEF G, M
<1>5. \A f \in Seq(M) : f \in G
  BY <1>2, <1>3, <1>4, AllByAppending
<1>. QED BY <1>5 DEF G, M

(* The words that are trained on, before any merge.                        *)
Texts ==
  UNION {{c.words[k].symbols : k \in DOMAIN c.words} \cup {c.units[k].symbols : k \in DOMAIN c.units} :
           c \in Corpora}

InText(y) == y \in Seq(Bytes) /\ \E e \in Texts : Piece(Bytes, y, e)

(* The symbols u are what the merges make of their bytes, and these occur. *)
Made(ms, table, u) == InText(Text(table, u)) /\ Replayed(Text(table, u), ms) = u

LEMMA TextsTyped == Texts \subseteq Seq(Bytes)
<1>1. ASSUME NEW ws \in Seq(Word), NEW k \in DOMAIN ws PROVE ws[k].symbols \in Seq(Bytes)
  <2>1. ws[k] \in Word
    OBVIOUS
  <2>. QED BY <2>1 DEF Word
<1>. QED BY <1>1, TrainerAssumption DEF TrainerAssumption, Texts

LEMMA TableFacts ==
  ASSUME NEW table, Table(table)
  PROVE  /\ table \in Seq(Seq(Nat)) /\ Len(table) \in Nat /\ Base <= Len(table)
         /\ Bytes \subseteq Used(Len(table)) /\ Used(Len(table)) \subseteq Ids(Len(table))
<1>1. table \in Seq(Seq(Nat)) /\ Len(table) \in Nat /\ Base <= Len(table)
  BY DEF Table
<1>. QED BY <1>1, UsedFacts

LEMMA MadePieces ==
  ASSUME NEW table, Table(table), NEW ms \in Seq(Joins(table)), NEW y, InText(y),
         NEW u \in Seq(Used(Len(table))), Piece(Used(Len(table)), u, Replayed(y, ms))
  PROVE  Made(ms, table, u)
<1>. DEFINE U == Used(Len(table))
<1>1. Bytes \subseteq U /\ ms \in Seq(MergeOver(U)) /\ y \in Seq(Bytes) /\ u \in Seq(U)
  BY TableFacts, JoinsTyped DEF InText
<1>2. Piece(U, u, Replayed(y, ms))
  OBVIOUS
<1>3. \A v \in Seq(U) : Text(table, Replayed(v, ms)) = Text(table, v)
  BY ReplayedText
<1>. HIDE DEF U
<1>4. y \in Seq(U)
  BY <1>1, SeqWidens
<1>5. PICK v \in Seq(U) : Piece(U, v, y) /\ Replayed(v, ms) = u
  BY <1>1, <1>2, <1>4, ReplayedPiece
<1>6. v \in Seq(Bytes) /\ Piece(Bytes, v, y)
  BY <1>1, <1>5, PieceNarrows
<1>7. Text(table, u) = v
  <2>1. Text(table, v) = v
    BY <1>6, TextOfBytes
  <2>. QED BY <1>3, <1>5, <2>1
<1>8. PICK e \in Texts : Piece(Bytes, y, e)
  BY DEF InText
<1>9. Piece(Bytes, v, e)
  <2>1. e \in Seq(Bytes)
    BY TextsTyped
  <2>. QED BY <1>1, <1>6, <1>8, <2>1, PieceOfPiece
<1>. QED BY <1>5, <1>6, <1>7, <1>9 DEF Made, InText

(* One more merge makes of u what it makes of it.                          *)
LEMMA MadeGrows ==
  ASSUME NEW table, Table(table), NEW ms \in Seq(Joins(table)), NEW m \in Joins(table),
         NEW u \in Seq(Used(Len(table))), Made(ms, table, u)
  PROVE  Made(Append(ms, m), table, Replaced(u, m.pair, m.id))
<1>. DEFINE U == Used(Len(table))
            I == Ids(Len(table))
            p == m.pair
            id == m.id
            y == Text(table, u)
<1>1. table \in Seq(Seq(Nat)) /\ U \subseteq I /\ u \in Seq(U)
  BY TableFacts
<1>2. p \in U \X U /\ id \in U /\ BytesOf(table, id) = BytesOf(table, p[1]) \o BytesOf(table, p[2])
  BY DEF Joins, MergeOver
<1>3. InText(y) /\ Replayed(y, ms) = u
  BY DEF Made
<1>4. Replayed(y, Append(ms, m)) = Replaced(u, p, id)
  BY <1>3, ReplayedUnfolds
<1>. HIDE DEF U, I, p, id
<1>5. u \in Seq(I) /\ p \in I \X I /\ id \in I
  BY <1>1, <1>2, SeqWidens
<1>6. Text(table, Replaced(u, p, id)) = y
  BY <1>1, <1>2, <1>5, TextReplaced DEF I
<1>. QED BY <1>3, <1>4, <1>6 DEF Made, p, id

LEMMA TableGrows ==
  ASSUME NEW table, Table(table), NEW z \in Seq(Nat), NEW new, new = Append(table, z)
  PROVE  /\ Table(new) /\ Len(new) = Len(table) + 1 /\ BytesOf(new, Len(table)) = z
         /\ Joins(table) \subseteq Joins(new) /\ Used(Len(table)) \subseteq Used(Len(new))
         /\ \A x \in Used(Len(table)) : BytesOf(new, x) = BytesOf(table, x)
         /\ \A u \in Seq(Used(Len(table))) : Text(new, u) = Text(table, u)
<1>. DEFINE n == Len(table)
            U == Used(n)
            I == Ids(n)
<1>1. table \in Seq(Seq(Nat)) /\ n \in Nat /\ Base <= n /\ Bytes \subseteq U /\ U \subseteq I
  BY TableFacts
<1>2. new \in Seq(Seq(Nat)) /\ Len(new) = n + 1 /\ new[n + 1] = z
  BY <1>1
<1>3. BytesOf(new, n) = z
  BY <1>2 DEF BytesOf
<1>4. \A x \in I : BytesOf(new, x) = BytesOf(table, x)
  <2>1. <<>> \in Seq(I)
    OBVIOUS
  <2>2. \A x \in I : BytesOf(Append(table, z), x) = BytesOf(table, x)
    BY <1>1, <2>1, TextGrows
  <2>. QED BY <2>2
<1>5. Base \in Nat /\ Cardinality(Bytes) \in Nat /\ Base = Cardinality(Bytes) + Len(Specials)
      /\ Len(Specials) \in Nat
  <2>1. Base \in Nat /\ Cardinality(Bytes) \in Nat
    BY UsedFacts
  <2>2. Base = Cardinality(Bytes) + Len(Specials)
    BY DEF Base
  <2>3. Len(Specials) \in Nat
    BY TrainerAssumption DEF TrainerAssumption
  <2>. QED BY <2>1, <2>2, <2>3
<1>6. Used(n) \subseteq Used(Len(new))
  <2>1. Base .. n - 1 \subseteq Base .. (n + 1) - 1
    BY <1>1, <1>5
  <2>. HIDE DEF n
  <2>. QED BY <1>2, <2>1 DEF Used
<1>7. Table(new)
  <2>1. \A b \in Bytes : BytesOf(new, b) = <<b>>
    BY <1>1, <1>4 DEF Table
  <2>2. ASSUME NEW k \in DOMAIN Specials
        PROVE  BytesOf(new, Cardinality(Bytes) + k - 1) = Specials[k]
    <3>. DEFINE x == Cardinality(Bytes) + k - 1
    <3>1. k \in 1 .. Len(Specials)
      BY TrainerAssumption DEF TrainerAssumption
    <3>2. x \in 0 .. n - 1
      BY <1>1, <1>5, <3>1, SMTT(60)
    <3>3. BytesOf(table, x) = Specials[k]
      BY DEF Table
    <3>. HIDE DEF x
    <3>4. BytesOf(new, x) = Specials[k]
      BY <1>4, <3>2, <3>3 DEF Ids
    <3>. QED BY <3>4 DEF x
  <2>3. Base <= Len(new)
    BY <1>1, <1>2, <1>5
  <2>. QED BY <1>2, <2>1, <2>2, <2>3 DEF Table
<1>8. \A x \in U : BytesOf(new, x) = BytesOf(table, x)
  BY <1>1, <1>4
<1>9. Joins(table) \subseteq Joins(new)
  <2>. SUFFICES ASSUME NEW m \in Joins(table) PROVE m \in Joins(new)
    OBVIOUS
  <2>1. m \in MergeOver(U) /\ BytesOf(table, m.id) = BytesOf(table, m.pair[1]) \o BytesOf(table, m.pair[2])
    BY DEF Joins
  <2>2. m.id \in U /\ m.pair \in U \X U
    BY <2>1 DEF MergeOver
  <2>3. m \in MergeOver(Used(Len(new)))
    BY <1>6, <2>1 DEF MergeOver
  <2>4. /\ BytesOf(new, m.id) = BytesOf(table, m.id)
        /\ BytesOf(new, m.pair[1]) = BytesOf(table, m.pair[1])
        /\ BytesOf(new, m.pair[2]) = BytesOf(table, m.pair[2])
    BY <1>8, <2>2
  <2>. QED BY <2>1, <2>3, <2>4 DEF Joins
<1>10. ASSUME NEW u \in Seq(Used(Len(table))) PROVE Text(new, u) = Text(table, u)
  <2>1. u \in Seq(I)
    <3>1. U \subseteq I /\ u \in Seq(U)
      BY <1>1
    <3>. QED BY ONLY <3>1, SeqWidens
  <2>. QED BY <1>1, <2>1, TextGrows
<1>. QED BY <1>2, <1>3, <1>6, <1>7, <1>8, <1>9, <1>10

(* What is known of a pair in the queue: it occurs in a text, and unless   *)
(* it has been merged it is what the merges make of its bytes.             *)
Queued(ms, table, q) ==
  /\ q \in Used(Len(table)) \X Used(Len(table))
  /\ InText(Text(table, q))
  /\ Made(ms, table, <<q[1]>>) /\ Made(ms, table, <<q[2]>>)
  /\ Made(ms, table, q) \/ \E k \in DOMAIN ms : ms[k].pair = q

LEMMA PairIsSeq ==
  ASSUME NEW U, NEW q \in U \X U
  PROVE  /\ q \in Seq(U) /\ Len(q) = 2 /\ q = <<q[1], q[2]>> /\ q[1] \in U /\ q[2] \in U
         /\ <<q[1]>> \in Seq(U) /\ <<q[2]>> \in Seq(U)
         /\ AdjacentPairs(q) = {q}
         /\ Piece(U, <<q[1]>>, q) /\ Piece(U, <<q[2]>>, q)
<1>1. q = <<q[1], q[2]>> /\ q[1] \in U /\ q[2] \in U
  OBVIOUS
<1>. DEFINE x == q[1]
            y == q[2]
            v == <<x>>
            w == <<y>>
            t == <<x, y>>
            e == <<>>
<1>. HIDE DEF x, y
<1>2. x \in U /\ y \in U
  BY <1>1 DEF x, y
<1>3. t \in Seq(U) /\ Len(t) = 2 /\ t[1] = x /\ t[2] = y /\ v \in Seq(U) /\ w \in Seq(U)
      /\ e \in Seq(U)
  BY <1>2
<1>4. AdjacentPairs(t) = {t}
  <2>1. 1 .. Len(t) - 1 = {1}
    BY <1>3
  <2>. QED BY <1>3, <2>1 DEF AdjacentPairs
<1>5. v \o w = t
  BY <1>2, TwoOnes
<1>6. e \o t = t /\ w \o e = w
  BY <1>3
<1>. HIDE DEF v, w, t, e
<1>7. t = e \o (v \o w) /\ t = v \o (w \o e)
  BY <1>5, <1>6
<1>8. Piece(U, v, t) /\ Piece(U, w, t)
  BY <1>3, <1>7 DEF Piece
<1>9. q = t
  BY <1>1 DEF t, x, y
<1>. QED BY <1>1, <1>3, <1>4, <1>8, <1>9 DEF v, w, x, y

LEMMA MadeQueued ==
  ASSUME NEW table, Table(table), NEW ms \in Seq(Joins(table)),
         NEW q \in Used(Len(table)) \X Used(Len(table)), Made(ms, table, q)
  PROVE  Queued(ms, table, q)
<1>. DEFINE U == Used(Len(table))
            y == Text(table, q)
            v == <<q[1]>>
            w == <<q[2]>>
<1>1. InText(y) /\ Replayed(y, ms) = q
  BY DEF Made
<1>2. q \in U \X U
  OBVIOUS
<1>3. v \in Seq(U) /\ w \in Seq(U)
  <2>. HIDE DEF U
  <2>. QED BY <1>2, PairIsSeq
<1>4. Piece(U, v, q) /\ Piece(U, w, q)
  <2>. HIDE DEF U
  <2>1. Piece(U, <<q[1]>>, q)
    BY <1>2, PairIsSeq
  <2>2. Piece(U, <<q[2]>>, q)
    BY <1>2, PairIsSeq
  <2>. QED BY <2>1, <2>2
<1>. HIDE DEF v, w, y
<1>5. Made(ms, table, v)
  BY <1>1, <1>3, <1>4, MadePieces
<1>6. Made(ms, table, w)
  BY <1>1, <1>3, <1>4, MadePieces
<1>. QED BY <1>1, <1>5, <1>6 DEF Queued, v, w, y

LEMMA QueuedGrows ==
  ASSUME NEW table, Table(table), NEW ms \in Seq(Joins(table)), NEW m \in Joins(table),
         NEW q, Queued(ms, table, q)
  PROVE  Queued(Append(ms, m), table, q)
<1>. DEFINE U == Used(Len(table))
            xs == Append(ms, m)
            v == <<q[1]>>
            w == <<q[2]>>
<1>1. /\ q \in U \X U /\ InText(Text(table, q))
      /\ Made(ms, table, v) /\ Made(ms, table, w)
      /\ Made(ms, table, q) \/ \E k \in DOMAIN ms : ms[k].pair = q
  BY DEF Queued
<1>2. q \in Seq(U) /\ Len(q) = 2 /\ AdjacentPairs(q) = {q}
  <2>. HIDE DEF U
  <2>1. q \in Seq(U) /\ Len(q) = 2
    BY <1>1, PairIsSeq
  <2>2. AdjacentPairs(q) = {q}
    BY <1>1, PairIsSeq
  <2>. QED BY <2>1, <2>2
<1>3. v \in Seq(U) /\ w \in Seq(U) /\ Len(v) = 1 /\ Len(w) = 1
  <2>1. q[1] \in U /\ q[2] \in U
    BY <1>1
  <2>. HIDE DEF U
  <2>. QED BY <2>1
<1>. HIDE DEF v, w
<1>4. Replaced(v, m.pair, m.id) = v /\ Replaced(w, m.pair, m.id) = w
  <2>1. v \in Seq(U) /\ w \in Seq(U) /\ Len(v) <= 1 /\ Len(w) <= 1
    BY <1>3
  <2>2. Replaced(v, m.pair, m.id) = v
    BY ONLY <2>1, ReplacedShort
  <2>3. Replaced(w, m.pair, m.id) = w
    BY ONLY <2>1, ReplacedShort
  <2>. QED BY <2>2, <2>3
<1>5. Made(xs, table, v)
  <2>1. Made(xs, table, Replaced(v, m.pair, m.id))
    BY <1>1, <1>3, MadeGrows
  <2>. QED BY <1>4, <2>1
<1>6. Made(xs, table, w)
  <2>1. Made(xs, table, Replaced(w, m.pair, m.id))
    BY <1>1, <1>3, MadeGrows
  <2>. QED BY <1>4, <2>1
<1>7. xs[Len(ms) + 1] = m /\ Len(ms) + 1 \in DOMAIN xs /\ DOMAIN ms \subseteq DOMAIN xs
      /\ \A k \in DOMAIN ms : xs[k] = ms[k]
  OBVIOUS
<1>8. Made(xs, table, q) \/ \E k \in DOMAIN xs : xs[k].pair = q
  <2>1. CASE \E k \in DOMAIN ms : ms[k].pair = q
    <3>. HIDE DEF xs
    <3>. QED BY <1>7, <2>1
  <2>2. CASE m.pair = q
    <3>. HIDE DEF xs
    <3>. QED BY <1>7, <2>2
  <2>3. CASE Made(ms, table, q) /\ m.pair # q
    <3>1. Made(xs, table, Replaced(q, m.pair, m.id))
      BY <1>2, <2>3, MadeGrows
    <3>2. m.pair \notin AdjacentPairs(q)
      BY <1>2, <2>3
    <3>3. Replaced(q, m.pair, m.id) = q
      BY <1>2, <3>2, ReplacedNothing
    <3>. QED BY <3>1, <3>3
  <2>. QED BY <1>1, <2>1, <2>2, <2>3
<1>. HIDE DEF xs
<1>9. Queued(xs, table, q)
  BY <1>1, <1>5, <1>6, <1>8 DEF Queued, v, w
<1>. QED BY <1>9 DEF xs

(* A longer table spells the same.                                         *)
LEMMA MadeElsewhere ==
  ASSUME NEW table, Table(table), NEW z \in Seq(Nat), NEW new, new = Append(table, z), NEW ms
  PROVE  /\ \A u \in Seq(Used(Len(table))) : Made(ms, table, u) => Made(ms, new, u)
         /\ \A q : Queued(ms, table, q) => Queued(ms, new, q)
<1>. DEFINE U == Used(Len(table))
            V == Used(Len(new))
<1>1. \A u \in Seq(U) : Text(new, u) = Text(table, u)
  BY TableGrows
<1>2. U \subseteq V
  BY TableGrows
<1>. HIDE DEF U, V
<1>3. \A u \in Seq(U) : Made(ms, table, u) => Made(ms, new, u)
  BY <1>1 DEF Made
<1>4. ASSUME NEW q, Queued(ms, table, q) PROVE Queued(ms, new, q)
  <2>. DEFINE v == <<q[1]>>
              w == <<q[2]>>
  <2>1. /\ q \in U \X U /\ InText(Text(table, q))
        /\ Made(ms, table, v) /\ Made(ms, table, w)
        /\ Made(ms, table, q) \/ \E k \in DOMAIN ms : ms[k].pair = q
    BY <1>4 DEF Queued, U
  <2>2. q \in Seq(U) /\ v \in Seq(U) /\ w \in Seq(U)
    <3>1. q \in Seq(U)
      BY <2>1, PairIsSeq
    <3>2. <<q[1]>> \in Seq(U) /\ <<q[2]>> \in Seq(U)
      BY <2>1, PairIsSeq
    <3>. QED BY <3>1, <3>2
  <2>3. q \in V \X V
    BY <1>2, <2>1
  <2>. HIDE DEF v, w
  <2>4. InText(Text(new, q)) /\ Made(ms, new, v) /\ Made(ms, new, w)
        /\ (Made(ms, table, q) => Made(ms, new, q))
    BY <1>1, <1>3, <2>1, <2>2
  <2>. QED BY <2>1, <2>3, <2>4 DEF Queued, V, v, w
<1>. QED BY <1>3, <1>4 DEF U

-----------------------------------------------------------------------------
(* What was learned, merge by merge.                                       *)

(* Merge j is the first of its pair.                                       *)
First(ms, j) == \A i \in DOMAIN ms : ms[i].pair = ms[j].pair => j <= i

(* The bytes of merge k become the symbol of the first merge of its pair.  *)
Settles(ms, table, k) ==
  \E j \in DOMAIN ms :
    /\ First(ms, j) /\ ms[j].pair = ms[k].pair
    /\ Replayed(Text(table, ms[k].pair), ms) = <<ms[j].id>>

Learning(ms, table) ==
  /\ Table(table) /\ ms \in Seq(Joins(table)) /\ Len(table) = Base + Len(ms)
  /\ \A k \in DOMAIN ms :
       /\ ms[k].id = Base + k - 1
       /\ ms[k].pair \in Ids(ms[k].id) \X Ids(ms[k].id)
       /\ Queued(ms, table, ms[k].pair)
       /\ Settles(ms, table, k)

(* The merge of p, and the table with its symbol.                          *)
Extends(table, p, new, m) ==
  /\ new = Append(table, BytesOf(table, p[1]) \o BytesOf(table, p[2]))
  /\ m = [pair |-> p, id |-> Len(table)]

(* What holds of the merges holds with one more, of a queued pair.         *)
LEMMA LearnsNext ==
  ASSUME NEW table, NEW ms, Learning(ms, table), NEW p, Queued(ms, table, p),
         NEW new, NEW m, Extends(table, p, new, m)
  PROVE  /\ Learning(Append(ms, m), new) /\ ms \in Seq(Joins(new)) /\ m \in Joins(new)
         /\ \A q : Queued(ms, table, q) => Queued(ms, new, q) /\ Queued(Append(ms, m), new, q)
<1>. DEFINE n == Len(ms)
            U == Used(Len(table))
            z == BytesOf(table, p[1]) \o BytesOf(table, p[2])
            xs == Append(ms, m)
            id == Len(table)
<1>1. /\ Table(table) /\ ms \in Seq(Joins(table)) /\ id = Base + n /\ n \in Nat
      /\ id \in Nat /\ Base \in Nat /\ Base <= id /\ table \in Seq(Seq(Nat))
      /\ U \subseteq Ids(id) /\ p \in U \X U
  <2>1. Table(table) /\ ms \in Seq(Joins(table)) /\ id = Base + n
    BY DEF Learning
  <2>2. p \in U \X U
    BY DEF Queued
  <2>3. n \in Nat
    BY <2>1
  <2>. QED BY <2>1, <2>2, <2>3, TableFacts, UsedFacts
<1>2. \A k \in DOMAIN ms :
        /\ ms[k].id = Base + k - 1 /\ ms[k].pair \in Ids(ms[k].id) \X Ids(ms[k].id)
        /\ Queued(ms, table, ms[k].pair) /\ Settles(ms, table, k)
  BY DEF Learning
<1>3. m.pair = p /\ m.id = id
  BY DEF Extends
<1>4. z \in Seq(Nat)
  <2>1. p[1] \in Ids(id) /\ p[2] \in Ids(id)
    BY <1>1
  <2>2. BytesOf(table, p[1]) \in Seq(Nat) /\ BytesOf(table, p[2]) \in Seq(Nat)
    BY <1>1, <2>1, BytesType
  <2>. QED BY <2>2, ConcatFacts
<1>5. new = Append(table, z)
  BY DEF Extends
<1>. HIDE DEF z
<1>6. Table(new)
  BY <1>1, <1>4, <1>5, TableGrows
<1>7. Len(new) = id + 1 /\ BytesOf(new, id) = z
  <2>1. table \in Seq(Seq(Nat)) /\ z \in Seq(Nat) /\ new = Append(table, z) /\ id \in Nat
    BY <1>1, <1>4, <1>5
  <2>2. Len(new) = Len(table) + 1 /\ new[Len(table) + 1] = z
    BY ONLY <2>1
  <2>. QED BY <2>2 DEF BytesOf
<1>8. Joins(table) \subseteq Joins(new)
  BY <1>1, <1>4, <1>5, TableGrows
<1>9. U \subseteq Used(Len(new))
  BY <1>1, <1>4, <1>5, TableGrows
<1>10. \A x \in U : BytesOf(new, x) = BytesOf(table, x)
  <2>1. table \in Seq(Seq(Nat)) /\ z \in Seq(Nat) /\ <<>> \in Seq(Ids(Len(table)))
    BY <1>1, <1>4
  <2>2. \A x \in Ids(Len(table)) : BytesOf(Append(table, z), x) = BytesOf(table, x)
    BY <2>1, TextGrows
  <2>. QED BY <1>1, <1>5, <2>2
<1>11. \A u \in Seq(U) : Text(new, u) = Text(table, u)
  BY <1>1, <1>4, <1>5, TableGrows
<1>12. ms \in Seq(Joins(new))
  BY <1>1, <1>8, SeqWidens
<1>13. m \in Joins(new)
  <2>1. id \in Used(Len(new))
    BY <1>1, <1>7 DEF Used
  <2>2. p \in Used(Len(new)) \X Used(Len(new))
    BY <1>1, <1>9
  <2>3. m \in MergeOver(Used(Len(new)))
    BY <2>1, <2>2 DEF MergeOver, Extends
  <2>4. BytesOf(new, p[1]) = BytesOf(table, p[1]) /\ BytesOf(new, p[2]) = BytesOf(table, p[2])
    BY <1>1, <1>10
  <2>5. BytesOf(new, m.id) = BytesOf(new, m.pair[1]) \o BytesOf(new, m.pair[2])
    BY <1>3, <1>7, <2>4 DEF z
  <2>. QED BY <2>3, <2>5 DEF Joins
<1>14. ASSUME NEW q, Queued(ms, table, q) PROVE Queued(ms, new, q) /\ Queued(xs, new, q)
  <2>1. Queued(ms, new, q)
    BY <1>1, <1>4, <1>5, <1>14, MadeElsewhere
  <2>. QED BY <1>6, <1>12, <1>13, <2>1, QueuedGrows
<1>15. xs \in Seq(Joins(new)) /\ Len(xs) = n + 1 /\ xs[n + 1] = m
       /\ \A k \in DOMAIN ms : xs[k] = ms[k] /\ k \in 1 .. n
       /\ DOMAIN xs = 1 .. n + 1 /\ DOMAIN ms = 1 .. n
  BY <1>12, <1>13
<1>d. DOMAIN ms = 1 .. n /\ n \in Nat
  <2>1. ms \in Seq(Joins(table))
    BY <1>1
  <2>. QED BY ONLY <2>1 DEF n
<1>16. \A s : Replayed(s, xs) = Replaced(Replayed(s, ms), p, id)
  BY <1>1, <1>3, <1>12, <1>13, ReplayedUnfolds
<1>. HIDE DEF xs, n, id, U
<1>e. \A k \in 1 .. n :
        /\ xs[k] = ms[k] /\ k \in DOMAIN xs /\ k \in DOMAIN ms
        /\ ms[k].id = Base + k - 1 /\ ms[k].pair \in Ids(ms[k].id) \X Ids(ms[k].id)
        /\ Queued(ms, table, ms[k].pair) /\ Settles(ms, table, k)
  <2>. TAKE k \in 1 .. n
  <2>1. k \in DOMAIN ms /\ k \in 1 .. n + 1
    BY ONLY <1>d, k \in 1 .. n
  <2>2. xs[k] = ms[k] /\ k \in DOMAIN xs
    BY <1>15, <2>1
  <2>. QED BY <1>2, <2>1, <2>2
<1>17. \A k \in 1 .. n + 1 : k \in 1 .. n \/ k = n + 1
  BY <1>1
<1>18. ASSUME NEW j \in 1 .. n, First(ms, j)
       PROVE  First(xs, j)
  <2>. SUFFICES ASSUME NEW i \in 1 .. n + 1, xs[i].pair = xs[j].pair PROVE j <= i
    BY <1>15 DEF First
  <2>1. CASE i \in 1 .. n
    <3>1. ms[i].pair = ms[j].pair /\ i \in DOMAIN ms
      BY <1>e, <2>1
    <3>. QED BY <1>18, <3>1 DEF First
  <2>2. CASE i = n + 1
    BY <1>1, <2>2
  <2>. QED BY <1>17, <2>1, <2>2
<1>19. ASSUME NEW q, Queued(ms, table, q), NEW j \in 1 .. n, First(ms, j), ms[j].pair = q,
              Replayed(Text(table, q), ms) = <<ms[j].id>>,
              NEW k \in 1 .. n + 1, xs[k].pair = q
       PROVE  Settles(xs, new, k)
  <2>. DEFINE v == <<ms[j].id>>
  <2>1. v \in Seq(Nat) /\ Len(v) <= 1
    <3>1. ms[j].id = Base + j - 1
      BY <1>e
    <3>2. ms[j].id \in Nat
      BY <1>1, <3>1
    <3>. QED BY <3>2
  <2>2. Text(new, q) = Text(table, q)
    <3>1. q \in U \X U
      BY <1>19 DEF Queued, U, id
    <3>2. q \in Seq(U)
      BY <3>1, PairIsSeq
    <3>. QED BY <1>11, <3>2
  <2>. HIDE DEF v
  <2>3. Replaced(v, p, id) = v
    BY ONLY <2>1, ReplacedShort
  <2>4. Replayed(Text(new, q), xs) = v
    BY <1>16, <1>19, <2>2, <2>3 DEF v
  <2>5. j \in DOMAIN xs /\ xs[j] = ms[j]
    BY <1>e
  <2>6. First(xs, j)
    BY <1>18, <1>19
  <2>. QED BY <1>19, <2>4, <2>5, <2>6 DEF Settles, v
<1>20. \A k \in 1 .. n + 1 : Settles(xs, new, k)
  <2>. TAKE k \in 1 .. n + 1
  <2>1. CASE \E i \in 1 .. n : ms[i].pair = xs[k].pair
    <3>1. PICK i \in 1 .. n : ms[i].pair = xs[k].pair
      BY <2>1
    <3>. DEFINE q == ms[i].pair
    <3>2. Queued(ms, table, q) /\ Settles(ms, table, i)
      BY <1>e
    <3>3. PICK j \in 1 .. n : First(ms, j) /\ ms[j].pair = q
                              /\ Replayed(Text(table, q), ms) = <<ms[j].id>>
      BY <1>15, <3>2 DEF Settles
    <3>. HIDE DEF q
    <3>4. xs[k].pair = q
      BY <3>1 DEF q
    <3>. QED BY <1>19, <3>2, <3>3, <3>4
  <2>2. CASE ~ \E i \in 1 .. n : ms[i].pair = xs[k].pair
    <3>1. k = n + 1
      BY <1>e, <1>17, <2>2
    <3>2. xs[k] = m /\ k \in DOMAIN xs
      BY <1>1, <1>15, <3>1
    <3>3. Made(ms, table, p)
      BY <1>3, <1>15, <2>2, <3>2 DEF Queued
    <3>4. p \in Seq(U) /\ Len(p) = 2
      BY <1>1, PairIsSeq
    <3>5. Replayed(Text(new, p), xs) = <<id>>
      <4>1. Text(new, p) = Text(table, p)
        BY <1>11, <3>4
      <4>2. Replayed(Text(table, p), ms) = p
        BY <3>3 DEF Made
      <4>3. Replaced(p, p, id) = <<id>>
        BY <3>4, ReplacedShort
      <4>. QED BY <1>16, <4>1, <4>2, <4>3
    <3>6. First(xs, k)
      <4>. SUFFICES ASSUME NEW i \in 1 .. n + 1, xs[i].pair = xs[k].pair PROVE k <= i
        BY <1>15 DEF First
      <4>1. i \notin 1 .. n
        BY <1>e, <2>2
      <4>. QED BY <1>1, <1>17, <3>1, <4>1
    <3>. QED BY <1>3, <3>2, <3>5, <3>6 DEF Settles
  <2>. QED BY <2>1, <2>2
<1>21. ASSUME NEW k \in DOMAIN xs
       PROVE  /\ xs[k].id = Base + k - 1 /\ xs[k].pair \in Ids(xs[k].id) \X Ids(xs[k].id)
              /\ Queued(xs, new, xs[k].pair)
  <2>1. CASE k \in 1 .. n
    BY <1>e, <1>14, <2>1
  <2>2. CASE k = n + 1
    <3>1. xs[k] = m /\ Base + k - 1 = id
      BY <1>1, <1>15, <2>2
    <3>2. p \in Ids(id) \X Ids(id)
      BY <1>1
    <3>3. Queued(xs, new, p)
      BY <1>14
    <3>. QED BY <1>3, <3>1, <3>2, <3>3
  <2>. QED BY <1>15, <1>17, <2>1, <2>2
<1>22. Len(new) = Base + Len(xs)
  BY <1>1, <1>7, <1>15
<1>23. Learning(xs, new)
  BY <1>6, <1>15, <1>20, <1>21, <1>22 DEF Learning
<1>. QED BY <1>12, <1>13, <1>14, <1>23 DEF xs

-----------------------------------------------------------------------------
(* Merging by lowest id comes to what replaying the merges comes to.       *)

(* The map has the pairs of the merges, each with the id of the first of   *)
(* its merges, and later merges have higher ids.                           *)
Orders(S, map, ms) ==
  /\ ms \in Seq(MergeOver(S))
  /\ \A k \in DOMAIN ms :
       ms[k].pair \in Ids(ms[k].id) \X Ids(ms[k].id) /\ ms[k].pair \in DOMAIN map
  /\ \A j, k \in DOMAIN ms : j < k => ms[j].id < ms[k].id
  /\ \A q \in DOMAIN map : \E f \in DOMAIN ms :
       First(ms, f) /\ ms[f].pair = q /\ ms[f].id = map[q]

(* Merges of pairs that do not occur change nothing.                       *)
LEMMA ReplayIdle ==
  ASSUME NEW S, NEW t \in Seq(S), NEW ms, NEW n \in Nat, NEW g, IsReplay(g, t, ms, n),
         NEW m \in 0 .. n, \A k \in 1 .. m : ms[k].pair \notin AdjacentPairs(t)
  PROVE  g[m] = t
<1>. DEFINE Bad == {k \in Nat : k <= m /\ g[k] # t}
<1>1. SUFFICES ASSUME Bad # {} PROVE FALSE
  OBVIOUS
<1>2. Bad \in SUBSET Nat
  OBVIOUS
<1>3. PICK k \in Bad : \A j \in Bad : k <= j
  <2>. HIDE DEF Bad
  <2>. QED BY <1>1, <1>2, LeastNumber
<1>4. k \in Nat /\ k <= m /\ g[k] # t
  OBVIOUS
<1>5. g[0] = t
  BY ReplayFacts, ZenonT(60)
<1>6. k # 0
  BY <1>4, <1>5
<1>7. k \in 1 .. n /\ k \in 1 .. m
  BY <1>4, <1>6
<1>8. g[k] = Replaced(g[k - 1], ms[k].pair, ms[k].id)
  BY <1>7, ReplayFacts
<1>9. g[k - 1] = t
  <2>1. k - 1 \in Nat /\ k - 1 <= m /\ ~(k <= k - 1)
    BY <1>4, <1>6
  <2>2. k - 1 \notin Bad
    <3>. HIDE DEF Bad
    <3>. QED BY <1>3, <2>1
  <2>. QED BY <2>1, <2>2
<1>10. Replaced(t, ms[k].pair, ms[k].id) = t
  BY <1>7, ReplacedNothing
<1>. QED BY <1>4, <1>8, <1>9, <1>10

(* Replays that agree once agree from then on.                             *)
LEMMA ReplaysMeet ==
  ASSUME NEW s, NEW t, NEW ms, NEW n \in Nat, NEW g, IsReplay(g, s, ms, n),
         NEW h, IsReplay(h, t, ms, n), NEW f \in 0 .. n, g[f] = h[f]
  PROVE  g[n] = h[n]
<1>. DEFINE Bad == {k \in Nat : f <= k /\ k <= n /\ g[k] # h[k]}
<1>1. SUFFICES ASSUME Bad # {} PROVE FALSE
  OBVIOUS
<1>2. Bad \in SUBSET Nat
  OBVIOUS
<1>3. PICK k \in Bad : \A j \in Bad : k <= j
  <2>. HIDE DEF Bad
  <2>. QED BY <1>1, <1>2, LeastNumber
<1>4. k \in Nat /\ f <= k /\ k <= n /\ g[k] # h[k]
  OBVIOUS
<1>5. k # f
  BY <1>4
<1>6. k \in 1 .. n
  BY <1>4, <1>5
<1>7. g[k] = Replaced(g[k - 1], ms[k].pair, ms[k].id)
  BY <1>6, ReplayFacts
<1>8. h[k] = Replaced(h[k - 1], ms[k].pair, ms[k].id)
  BY <1>6, ReplayFacts
<1>9. g[k - 1] = h[k - 1]
  <2>1. k - 1 \in Nat /\ f <= k - 1 /\ k - 1 <= n /\ ~(k <= k - 1)
    BY <1>4, <1>5
  <2>2. k - 1 \notin Bad
    <3>. HIDE DEF Bad
    <3>. QED BY <1>3, <2>1
  <2>. QED BY <2>1, <2>2
<1>. QED BY <1>4, <1>7, <1>8, <1>9

LEMMA OrdersFacts ==
  ASSUME NEW S \in SUBSET Nat, NEW map, NEW ms, Orders(S, map, ms)
  PROVE  /\ Len(ms) \in Nat /\ ms \in Seq(MergeOver(S)) /\ DOMAIN ms = 1 .. Len(ms)
         /\ \A k \in DOMAIN ms :
              /\ ms[k].id \in S /\ ms[k].pair \in S \X S
              /\ ms[k].pair \in Ids(ms[k].id) \X Ids(ms[k].id) /\ ms[k].pair \in DOMAIN map
         /\ \A x \in DOMAIN map : map[x] \in S
<1>1. ms \in Seq(MergeOver(S))
  BY DEF Orders
<1>2. Len(ms) \in Nat /\ DOMAIN ms = 1 .. Len(ms)
  BY ONLY <1>1
<1>3. \A k \in DOMAIN ms : ms[k] \in MergeOver(S)
  BY ONLY <1>1
<1>4. \A k \in DOMAIN ms :
        /\ ms[k].id \in S /\ ms[k].pair \in S \X S
        /\ ms[k].pair \in Ids(ms[k].id) \X Ids(ms[k].id) /\ ms[k].pair \in DOMAIN map
  BY <1>3 DEF MergeOver, Orders
<1>5. \A x \in DOMAIN map : map[x] \in S
  <2>. TAKE x \in DOMAIN map
  <2>1. PICK f \in DOMAIN ms : ms[f].id = map[x]
    BY DEF Orders
  <2>. QED BY <1>4, <2>1
<1>. QED BY <1>1, <1>2, <1>4, <1>5

(* A merge of an earlier pair than the best of t does not touch t, nor     *)
(* what t is with the best pair merged at one place.                       *)
LEMMA EarlierIdle ==
  ASSUME NEW S \in SUBSET Nat, NEW map, NEW ms, Orders(S, map, ms), NEW t \in Seq(S),
         NEW i, BestPlace(map, t, i), NEW f \in DOMAIN ms, First(ms, f),
         ms[f].pair = PairAt(t, i), ms[f].id = map[PairAt(t, i)],
         NEW k \in DOMAIN ms, k < f
  PROVE  /\ ms[k].pair \notin AdjacentPairs(t)
         /\ ms[k].pair \notin AdjacentPairs(Merged(t, i, ms[f].id))
<1>. DEFINE id == ms[f].id
            q == ms[k].pair
<1>1. /\ id \in S /\ id \in Nat /\ ms[k].id \in Nat /\ ms[k].id < id
      /\ q \in Ids(ms[k].id) \X Ids(ms[k].id) /\ q \in DOMAIN map
      /\ f \in Nat /\ k \in Nat /\ k < f
  <2>1. id \in S /\ ms[k].id \in S
    BY OrdersFacts
  <2>2. ms[k].id < id
    BY DEF Orders
  <2>3. q \in Ids(ms[k].id) \X Ids(ms[k].id) /\ q \in DOMAIN map
    BY OrdersFacts
  <2>4. DOMAIN ms = 1 .. Len(ms) /\ Len(ms) \in Nat
    BY OrdersFacts
  <2>5. f \in Nat /\ k \in Nat
    BY <2>4
  <2>. QED BY <2>1, <2>2, <2>3, <2>5
<1>2. \A x : x \notin AdjacentPairs(t) \/ x # q
  <2>. SUFFICES ASSUME q \in AdjacentPairs(t) PROVE FALSE
    OBVIOUS
  <2>1. PICK j \in 1 .. Len(t) - 1 : q = PairAt(t, j)
    BY DEF AdjacentPairs, PairAt
  <2>2. PICK e \in DOMAIN ms : First(ms, e) /\ ms[e].pair = q /\ ms[e].id = map[q]
    BY <1>1 DEF Orders
  <2>3. e <= k
    BY <2>2 DEF First
  <2>4. e \in Nat /\ ms[e].id \in Nat
    <3>1. DOMAIN ms = 1 .. Len(ms) /\ Len(ms) \in Nat /\ ms[e].id \in S
      BY OrdersFacts
    <3>2. e \in Nat
      BY ONLY <3>1, e \in DOMAIN ms
    <3>. QED BY <3>1, <3>2
  <2>5. e < f
    BY <1>1, <2>3, <2>4
  <2>6. ms[e].id < id
    BY <2>5 DEF Orders
  <2>7. id < map[q] \/ id = map[q]
    BY <1>1, <2>1 DEF BestPlace
  <2>. QED BY <1>1, <2>2, <2>4, <2>6, <2>7
<1>3. q \notin AdjacentPairs(Merged(t, i, id))
  <2>. DEFINE u == Merged(t, i, id)
  <2>. SUFFICES ASSUME q \in AdjacentPairs(u) PROVE FALSE
    OBVIOUS
  <2>1. i \in 1 .. Len(t) - 1 /\ Len(t) \in Nat
    BY DEF BestPlace
  <2>2. /\ Len(u) = Len(t) - 1
        /\ \A m \in 1 .. Len(t) - 1 : u[m] = IF m < i THEN t[m] ELSE IF m = i THEN id ELSE t[m + 1]
    <3>1. t \in Seq(S) /\ id \in S /\ i \in 1 .. Len(t) - 1
      BY <1>1, <2>1
    <3>. HIDE DEF id
    <3>. QED BY ONLY <3>1, MergedFacts DEF u
  <2>. HIDE DEF u, id, q
  <2>3. PICK j \in 1 .. Len(u) - 1 : q = <<u[j], u[j + 1]>>
    BY DEF AdjacentPairs
  <2>4. q[1] # id /\ q[2] # id
    BY <1>1 DEF Ids
  <2>5. j \in 1 .. Len(t) - 1 /\ j + 1 \in 1 .. Len(t) - 1 /\ j # i /\ j + 1 # i
    BY <2>1, <2>2, <2>3, <2>4
  <2>6. q = PairAt(t, j) \/ q = PairAt(t, j + 1)
    <3>1. CASE j + 1 < i
      BY <2>1, <2>2, <2>3, <2>5, <3>1 DEF PairAt
    <3>2. CASE j > i
      BY <2>1, <2>2, <2>3, <2>5, <3>2, SMTT(60) DEF PairAt
    <3>. QED BY <2>1, <2>5, <3>1, <3>2
  <2>7. j + 1 \in 1 .. Len(t) - 1
    BY <2>5
  <2>8. q \in AdjacentPairs(t)
    BY <2>5, <2>6, <2>7 DEF AdjacentPairs, PairAt
  <2>. QED BY <1>2, <2>8
<1>. QED BY <1>2, <1>3

(* The merge of the best place is one of those that the replay makes.      *)
LEMMA OneMerge ==
  ASSUME NEW S \in SUBSET Nat, NEW map, NEW ms, Orders(S, map, ms), NEW t \in Seq(S),
         NEW i, BestPlace(map, t, i)
  PROVE  /\ Merged(t, i, map[PairAt(t, i)]) \in Seq(S)
         /\ Len(Merged(t, i, map[PairAt(t, i)])) = Len(t) - 1
         /\ Replayed(Merged(t, i, map[PairAt(t, i)]), ms) = Replayed(t, ms)
<1>. DEFINE q == PairAt(t, i)
            n == Len(ms)
<1>1. PICK f \in DOMAIN ms : First(ms, f) /\ ms[f].pair = q /\ ms[f].id = map[q]
  BY DEF Orders, BestPlace
<1>. DEFINE id == ms[f].id
            u == Merged(t, i, id)
<1>2. /\ n \in Nat /\ f \in 1 .. n /\ id \in S /\ id \in Nat
      /\ q \in S \X S /\ q \in Ids(id) \X Ids(id)
  <2>1. n \in Nat /\ DOMAIN ms = 1 .. n /\ id \in S
    BY OrdersFacts
  <2>2. ms[f].pair \in S \X S
    BY OrdersFacts
  <2>3. ms[f].pair \in Ids(id) \X Ids(id)
    BY OrdersFacts
  <2>. QED BY <1>1, <2>1, <2>2, <2>3
<1>3. i \in 1 .. Len(t) - 1 /\ q = <<t[i], t[i + 1]>> /\ Len(t) \in Nat
  BY DEF BestPlace, PairAt
<1>4. u \in Seq(S) /\ Len(u) = Len(t) - 1
  <2>1. t \in Seq(S) /\ id \in S /\ i \in 1 .. Len(t) - 1
    BY <1>2, <1>3
  <2>. HIDE DEF id
  <2>. QED BY ONLY <2>1, MergedFacts DEF u
<1>5. \A k \in 1 .. f - 1 : ms[k].pair \notin AdjacentPairs(t) /\ ms[k].pair \notin AdjacentPairs(u)
  <2>. TAKE k \in 1 .. f - 1
  <2>1. k < f /\ k \in DOMAIN ms
    <3>1. DOMAIN ms = 1 .. n
      BY OrdersFacts
    <3>. QED BY <1>2, <3>1
  <2>. QED BY <1>1, <2>1, EarlierIdle
<1>6. PICK g : IsReplay(g, t, ms, n) /\ Replayed(t, ms) = g[n]
  BY <1>2, ReplayedIs
<1>7. PICK h : IsReplay(h, u, ms, n) /\ Replayed(u, ms) = h[n]
  BY <1>2, ReplayedIs
<1>. HIDE DEF u, id
<1>8. f - 1 \in 0 .. n /\ f \in 0 .. n
  BY <1>2
<1>9. g[f - 1] = t
  BY <1>2, <1>5, <1>6, <1>8, ReplayIdle
<1>10. h[f - 1] = u
  <2>1. /\ u \in Seq(S) /\ n \in Nat /\ IsReplay(h, u, ms, n) /\ f - 1 \in 0 .. n
        /\ \A k \in 1 .. f - 1 : ms[k].pair \notin AdjacentPairs(u)
    BY <1>2, <1>4, <1>5, <1>7, <1>8
  <2>. HIDE DEF n
  <2>. QED BY ONLY <2>1, ReplayIdle
<1>11. g[f] = Replaced(t, q, id)
  BY <1>1, <1>2, <1>6, <1>9, ReplayFacts DEF id
<1>12. h[f] = Replaced(u, q, id)
  BY <1>1, <1>2, <1>7, <1>10, ReplayFacts DEF id
<1>13. Replaced(u, q, id) = Replaced(t, q, id)
  <2>. DEFINE a == t[i]
              b == t[i + 1]
  <2>1. a \in S /\ b \in S /\ id # a /\ id # b
    BY <1>2, <1>3 DEF Ids
  <2>2. i \in Places(t, <<a, b>>)
    BY <1>3 DEF Places
  <2>3. \A k \in Places(t, <<a, b>>) : i <= k
    <3>. TAKE k \in Places(t, <<a, b>>)
    <3>1. k \in 1 .. Len(t) - 1 /\ PairAt(t, k) = q
      BY <1>3 DEF Places, PairAt
    <3>2. map[q] \in Nat /\ q \in DOMAIN map
      BY <1>1, <1>2 DEF BestPlace, id
    <3>. HIDE DEF q
    <3>3. map[q] < map[q] \/ i <= k
      BY <3>1, <3>2 DEF BestPlace, q
    <3>. QED BY <3>2, <3>3
  <2>. HIDE DEF a, b
  <2>4. Replaced(Merged(t, i, id), <<a, b>>, id) = Replaced(t, <<a, b>>, id)
    BY <1>2, <2>1, <2>2, <2>3, ReplacedFirst
  <2>. QED BY <1>3, <2>4 DEF u, a, b
<1>. HIDE DEF n
<1>14. g[n] = h[n]
  <2>1. /\ n \in Nat /\ IsReplay(g, t, ms, n) /\ IsReplay(h, u, ms, n) /\ f \in 0 .. n
        /\ g[f] = h[f]
    BY <1>2, <1>6, <1>7, <1>8, <1>11, <1>12, <1>13
  <2>2. \A x, y : \A m \in Nat : \A a, b : \A e \in 0 .. m :
          IsReplay(a, x, ms, m) /\ IsReplay(b, y, ms, m) /\ a[e] = b[e] => a[m] = b[m]
    BY ONLY ReplaysMeet
  <2>3. \A b : \A e \in 0 .. n : IsReplay(b, u, ms, n) /\ g[e] = b[e] => g[n] = b[n]
    BY ONLY <2>1, <2>2
  <2>4. \A e \in 0 .. n : g[e] = h[e] => g[n] = h[n]
    BY ONLY <2>1, <2>3
  <2>. QED BY ONLY <2>1, <2>4
<1>. QED BY <1>1, <1>4, <1>6, <1>7, <1>14 DEF u, id

LEMMA ReplayedStuck ==
  ASSUME NEW S \in SUBSET Nat, NEW map, NEW ms, Orders(S, map, ms), NEW t \in Seq(S),
         Stuck(map, t)
  PROVE  Replayed(t, ms) = t
<1>. DEFINE n == Len(ms)
<1>1. n \in Nat /\ DOMAIN ms = 1 .. n
  BY OrdersFacts
<1>2. \A k \in 1 .. n : ms[k].pair \notin AdjacentPairs(t)
  <2>. TAKE k \in 1 .. n
  <2>1. ms[k].pair \in DOMAIN map
    BY <1>1, OrdersFacts
  <2>. QED BY <2>1 DEF Stuck, AdjacentPairs, PairAt
<1>3. PICK g : IsReplay(g, t, ms, n) /\ Replayed(t, ms) = g[n]
  BY <1>1, ReplayedIs
<1>. HIDE DEF n
<1>4. n \in 0 .. n
  BY <1>1
<1>5. g[n] = t
  BY <1>1, <1>2, <1>3, <1>4, ReplayIdle
<1>. QED BY <1>3, <1>5

(* Merging by lowest id ends where the replay of all merges ends.          *)
LEMMA SimpleIsReplayed ==
  ASSUME NEW S \in SUBSET Nat, NEW map, NEW ms, Orders(S, map, ms), NEW s \in Seq(S)
  PROVE  SimpleBpeMerge(map, s) = Replayed(s, ms)
<1>. DEFINE n == Len(s)
            c == CHOOSE g : IsMerges(g, map, s, n)
<1>1. n \in Nat
  OBVIOUS
<1>2. IsMerges(c, map, s, n)
  BY <1>1, MergesExist
<1>3. SimpleBpeMerge(map, s) = c[n]
  BY DEF SimpleBpeMerge, IsMerges
<1>. HIDE DEF c
<1>4. c[0] = s
  BY <1>1, <1>2 DEF IsMerges
<1>5. \A m \in Nat : m < n => c[m + 1] = MergeRound(map, c[m])
  <2>. HIDE DEF n
  <2>. TAKE m \in Nat
  <2>1. HAVE m < n
  <2>2. m + 1 \in 0 .. n /\ m + 1 # 0 /\ (m + 1) - 1 = m
    BY <1>1, <2>1
  <2>. QED BY <1>2, <2>2 DEF IsMerges
<1>6. \A x \in DOMAIN map : map[x] \in S
  BY OrdersFacts
<1>. DEFINE Good(m) == /\ c[m] \in Seq(S) /\ Replayed(c[m], ms) = Replayed(s, ms)
                       /\ Stuck(map, c[m]) \/ Len(c[m]) = n - m
            Bad == {m \in Nat : m <= n /\ ~Good(m)}
<1>7. Good(n)
  <2>1. SUFFICES ASSUME Bad # {} PROVE FALSE
    BY <1>1
  <2>2. Bad \in SUBSET Nat
    OBVIOUS
  <2>3. PICK m \in Bad : \A j \in Bad : m <= j
    <3>. HIDE DEF Bad
    <3>. QED BY <2>1, <2>2, LeastNumber
  <2>4. m \in Nat /\ m <= n /\ ~Good(m)
    OBVIOUS
  <2>5. m # 0
    <3>1. Good(0)
      BY <1>1, <1>4
    <3>. QED BY <2>4, <3>1
  <2>. DEFINE k == m - 1
              t == c[k]
  <2>6. k \in Nat /\ k < n /\ k + 1 = m /\ ~(m <= k) /\ k <= n
    BY <1>1, <2>4, <2>5
  <2>7. Good(k)
    <3>1. k \notin Bad
      <4>. HIDE DEF Bad, k
      <4>. QED BY <2>3, <2>6
    <3>. HIDE DEF Good, k
    <3>. QED BY <2>6, <3>1
  <2>8. t \in Seq(S) /\ Replayed(t, ms) = Replayed(s, ms) /\ (Stuck(map, t) \/ Len(t) = n - k)
    BY <2>7
  <2>9. c[m] = MergeRound(map, t)
    <3>. HIDE DEF k
    <3>. QED BY <1>5, <2>6
  <2>. HIDE DEF t, n
  <2>10. CASE Stuck(map, t) /\ MergeRound(map, t) = t
    <3>1. Good(m)
      BY <2>8, <2>9, <2>10
    <3>. QED BY <2>4, <3>1
  <2>11. CASE \E i : BestPlace(map, t, i) /\ MergeRound(map, t) = Merged(t, i, map[PairAt(t, i)])
    <3>1. PICK i : BestPlace(map, t, i) /\ MergeRound(map, t) = Merged(t, i, map[PairAt(t, i)])
      BY <2>11
    <3>. DEFINE u == Merged(t, i, map[PairAt(t, i)])
    <3>2. u \in Seq(S) /\ Len(u) = Len(t) - 1 /\ Replayed(u, ms) = Replayed(t, ms)
      BY <2>8, <3>1, OneMerge
    <3>3. ~Stuck(map, t)
      BY <3>1 DEF BestPlace, Stuck
    <3>4. c[m] = u
      BY <2>9, <3>1
    <3>. HIDE DEF u
    <3>5. Len(u) = n - m
      BY <1>1, <2>6, <2>8, <3>2, <3>3
    <3>6. Good(m)
      BY <2>8, <3>2, <3>4, <3>5
    <3>. QED BY <2>4, <3>6
  <2>. QED BY <1>6, <2>8, <2>10, <2>11, MergeRoundCases
<1>. DEFINE u == c[n]
<1>8. u \in Seq(S) /\ Replayed(u, ms) = Replayed(s, ms) /\ (Stuck(map, u) \/ Len(u) = n - n)
  BY <1>7
<1>. HIDE DEF u, n
<1>9. Stuck(map, u)
  <2>1. CASE Len(u) = n - n
    <3>1. 1 .. Len(u) - 1 = {}
      BY <1>1, <2>1
    <3>. QED BY <3>1 DEF Stuck
  <2>. QED BY <1>8, <2>1
<1>10. Replayed(u, ms) = u
  BY <1>8, <1>9, ReplayedStuck
<1>. QED BY <1>3, <1>8, <1>10 DEF u

-----------------------------------------------------------------------------
(* The merges by their bytes are the merges by their ids.                  *)

LEMMA PieceInside ==
  ASSUME NEW S, NEW u \in Seq(S), NEW s, Piece(S, u, s)
  PROVE  u \in SubSeqs(s)
<1>1. PICK l \in Seq(S), r \in Seq(S) : s = l \o (u \o r)
  BY DEF Piece
<1>. DEFINE a == Len(l)
            b == Len(l) + Len(u)
            v == SubSeq(s, a + 1, b)
<1>2. s \in Seq(S) /\ a \in Nat /\ b \in Nat /\ Len(s) = b + Len(r) /\ Len(r) \in Nat
      /\ a \in 0 .. Len(s) /\ b \in 0 .. Len(s)
  <2>1. u \o r \in Seq(S) /\ Len(u \o r) = Len(u) + Len(r)
    BY <1>1
  <2>2. s \in Seq(S) /\ Len(s) = Len(l) + Len(u \o r)
    BY <1>1, <2>1
  <2>. QED BY <2>1, <2>2
<1>3. v \in Seq(S) /\ Len(v) = Len(u) /\ \A k \in 1 .. Len(u) : v[k] = s[a + k]
  BY <1>2
<1>4. \A k \in 1 .. Len(u) : s[a + k] = u[k]
  <2>. TAKE k \in 1 .. Len(u)
  <2>1. u \o r \in Seq(S) /\ (u \o r)[k] = u[k] /\ k \in 1 .. Len(u \o r)
    OBVIOUS
  <2>2. s[a + k] = (u \o r)[k]
    BY <1>1, <2>1
  <2>. QED BY <2>1, <2>2
<1>5. v = u
  <2>. HIDE DEF v
  <2>. QED BY <1>3, <1>4, SeqEqual
<1>. HIDE DEF a, b
<1>6. \E i, j \in 0 .. Len(s) : u = SubSeq(s, i + 1, j)
  BY <1>2, <1>5
<1>. QED BY <1>6 DEF SubSeqs

LEMMA NotSpecial ==
  ASSUME SpecialsApart, NEW y, InText(y), Len(y) > 1, NEW k \in DOMAIN Specials
  PROVE  y # Specials[k]
<1>1. SUFFICES ASSUME y = Specials[k] PROVE FALSE
  OBVIOUS
<1>2. PICK e \in Texts : y \in Seq(Bytes) /\ Piece(Bytes, y, e)
  BY DEF InText
<1>3. y \in SubSeqs(e)
  BY <1>2, PieceInside
<1>4. PICK c \in Corpora : \E w \in ToSet(c.words) \cup ToSet(c.units) : e = w.symbols
  BY DEF Texts, ToSet
<1>. QED BY <1>1, <1>3, <1>4 DEF SpecialsApart

(* A symbol that the merges make of a text is the first with its bytes.    *)
LEMMA MadeIsFirst ==
  ASSUME SpecialsApart, NEW ms, Learning(ms, symbols),
         NEW x \in Used(Len(symbols)), Made(ms, symbols, <<x>>)
  PROVE  IdOf(BytesOf(symbols, x)) = x
<1>. DEFINE n == Len(symbols)
            y == BytesOf(symbols, x)
            z == IdOf(y)
            B == Cardinality(Bytes)
<1>1. /\ Table(symbols) /\ ms \in Seq(Joins(symbols)) /\ n = Base + Len(ms)
      /\ \A k \in DOMAIN ms : ms[k].id = Base + k - 1 /\ Settles(ms, symbols, k)
  BY DEF Learning
<1>2. /\ symbols \in Seq(Seq(Nat)) /\ n \in Nat /\ Base <= n /\ Base \in Nat
      /\ B \in Nat /\ B <= Base /\ Bytes = 0 .. B - 1 /\ Base = B + Len(Specials)
      /\ Len(ms) \in Nat /\ DOMAIN ms = 1 .. Len(ms) /\ Len(Specials) \in Nat
      /\ Bytes \subseteq Used(n) /\ Used(n) \subseteq Ids(n)
  <2>1. symbols \in Seq(Seq(Nat)) /\ n \in Nat /\ Base <= n
    BY <1>1, TableFacts
  <2>2. Bytes \subseteq Used(n) /\ Used(n) \subseteq Ids(n)
    BY <1>1, TableFacts
  <2>3. Base \in Nat /\ B \in Nat /\ B <= Base /\ Bytes = 0 .. B - 1
    BY UsedFacts
  <2>4. Base = B + Len(Specials) /\ Len(Specials) \in Nat
    BY TrainerAssumption DEF Base, TrainerAssumption
  <2>5. Len(ms) \in Nat /\ DOMAIN ms = 1 .. Len(ms)
    BY ONLY <1>1
  <2>. QED BY <2>1, <2>2, <2>3, <2>4, <2>5
<1>3. x \in Ids(n)
  BY <1>2
<1>4. Text(symbols, <<x>>) = y
  BY <1>2, <1>3, TextOne
<1>5. InText(y) /\ Replayed(y, ms) = <<x>>
  BY <1>4 DEF Made
<1>6. z \in Ids(n) /\ BytesOf(symbols, z) = y /\ z <= x
      /\ \A k \in Ids(n) : BytesOf(symbols, k) = y => z <= k
  <2>1. Spelled(y)
    BY <1>3 DEF Spelled
  <2>2. z \in Ids(n) /\ BytesOf(symbols, z) = y
    BY <1>2, <2>1, IdOfSpelled
  <2>3. \A k \in Ids(n) : BytesOf(symbols, k) = y => z <= k
    BY <1>2, <2>1, IdOfSpelled
  <2>. QED BY <1>3, <2>2, <2>3
<1>7. y \in Seq(Bytes) /\ Len(y) \in Nat
  BY <1>5 DEF InText
<1>. HIDE DEF z, y, n, B
<1>8. Len(y) <= 1 => Replayed(y, ms) = y
  <2>. SUFFICES ASSUME Len(y) <= 1 PROVE Replayed(y, ms) = y
    OBVIOUS
  <2>1. PICK g : IsReplay(g, y, ms, Len(ms)) /\ Replayed(y, ms) = g[Len(ms)]
    BY <1>2, ReplayedIs
  <2>2. AdjacentPairs(y) = {}
    <3>1. 1 .. Len(y) - 1 = {}
      BY <1>7
    <3>. QED BY <3>1 DEF AdjacentPairs
  <2>3. Len(ms) \in 0 .. Len(ms)
    BY <1>2
  <2>. DEFINE m == Len(ms)
  <2>4. m \in Nat /\ m \in 0 .. m /\ IsReplay(g, y, ms, m) /\ Replayed(y, ms) = g[m]
        /\ y \in Seq(Bytes) /\ \A k \in 1 .. m : ms[k].pair \notin AdjacentPairs(y)
    BY <1>2, <1>7, <2>1, <2>2, <2>3
  <2>. HIDE DEF m
  <2>. QED BY ONLY <2>4, ReplayIdle
<1>9. CASE z \in Bytes
  <2>1. y = <<z>>
    BY <1>1, <1>6, <1>9 DEF Table
  <2>2. Replayed(y, ms) = y
    BY <1>8, <2>1
  <2>3. <<x>> = <<z>>
    BY <1>5, <2>1, <2>2
  <2>4. x = z
    BY <2>3
  <2>. QED BY <2>4 DEF z, y
<1>10. CASE z \in Ids(n) /\ z \notin Bytes /\ z < Base
  <2>. DEFINE k == z - B + 1
  <2>1. k \in 1 .. Len(Specials) /\ z = B + k - 1 /\ z \in Nat
    BY <1>2, <1>10 DEF Ids
  <2>2. k \in DOMAIN Specials
    <3>1. Specials \in Seq(Seq(Nat)) /\ k \in 1 .. Len(Specials)
      BY <2>1, TrainerAssumption DEF TrainerAssumption
    <3>. HIDE DEF k
    <3>. QED BY ONLY <3>1
  <2>. HIDE DEF k
  <2>3. y = Specials[k]
    BY <1>1, <1>6, <2>1, <2>2 DEF Table, B
  <2>4. Len(y) <= 1
    BY <1>5, <1>7, <2>2, <2>3, NotSpecial
  <2>5. Replayed(y, ms) = y
    BY <1>8, <2>4
  <2>6. y = <<x>>
    BY <1>5, <2>5
  <2>7. x \in Bytes
    BY <1>7, <2>6
  <2>8. BytesOf(symbols, x) = <<x>>
    BY <1>1, <2>7 DEF Table
  <2>9. x = z
    <3>1. x < B /\ z >= B
      BY <1>2, <1>10, <2>1, <2>7
    <3>2. x \in Nat /\ z <= x
      BY <1>2, <1>6, <2>7
    <3>. QED BY <1>2, <2>1, <3>1, <3>2
  <2>. QED BY <2>9 DEF z, y
<1>11. CASE z \in Ids(n) /\ z >= Base
  <2>. DEFINE k == z - Base + 1
              q == ms[k].pair
  <2>1. k \in 1 .. Len(ms) /\ z = Base + k - 1 /\ z \in Nat
    BY <1>1, <1>2, <1>11 DEF Ids, n
  <2>2. k \in DOMAIN ms /\ ms[k].id = z /\ Settles(ms, symbols, k)
    BY <1>1, <1>2, <2>1
  <2>. HIDE DEF k
  <2>3. q \in Used(n) \X Used(n) /\ BytesOf(symbols, z) = BytesOf(symbols, q[1]) \o BytesOf(symbols, q[2])
    <3>1. ms[k] \in Joins(symbols)
      <4>1. ms \in Seq(Joins(symbols)) /\ k \in DOMAIN ms
        BY <1>1, <2>2
      <4>. QED BY ONLY <4>1
    <3>. QED BY <2>2, <3>1 DEF Joins, MergeOver, n
  <2>4. Text(symbols, q) = y
    <3>. HIDE DEF q
    <3>1. q = <<q[1], q[2]>> /\ q[1] \in Ids(n) /\ q[2] \in Ids(n)
      BY <1>2, <2>3
    <3>2. Text(symbols, <<q[1], q[2]>>) = BytesOf(symbols, q[1]) \o BytesOf(symbols, q[2])
      BY <1>2, <3>1, TextTwo DEF n
    <3>. QED BY <1>6, <2>3, <3>1, <3>2
  <2>5. PICK j \in DOMAIN ms : First(ms, j) /\ ms[j].pair = q /\ Replayed(Text(symbols, q), ms) = <<ms[j].id>>
    BY <2>2 DEF Settles
  <2>6. x = ms[j].id
    <3>1. <<x>> = <<ms[j].id>>
      BY <1>5, <2>4, <2>5
    <3>. QED BY <3>1
  <2>7. j <= k
    BY <2>2, <2>5 DEF First
  <2>8. j \in Nat /\ k \in Nat /\ ms[j].id = Base + j - 1
    BY <1>1, <1>2, <2>1, <2>5
  <2>9. x <= z
    BY <1>2, <2>1, <2>6, <2>7, <2>8
  <2>10. x = z
    <3>1. x \in Int /\ z \in Int /\ x <= z /\ z <= x
      BY <1>2, <1>6, <2>1, <2>6, <2>8, <2>9
    <3>. QED BY ONLY <3>1
  <2>. QED BY <2>10 DEF z, y
<1>12. z \in Nat
  BY <1>2, <1>6 DEF Ids
<1>. QED BY <1>2, <1>6, <1>9, <1>10, <1>11, <1>12

(* The list of merges in the bytes of what was merged.                     *)
Listed ==
  /\ DOMAIN merges = DOMAIN learned
  /\ \A k \in DOMAIN learned :
       merges[k] = <<BytesOf(symbols, learned[k].pair[1]), BytesOf(symbols, learned[k].pair[2])>>

LEMMA MergeIsFirst ==
  ASSUME SpecialsApart, Learning(learned, symbols), Listed, NEW k \in DOMAIN learned,
         NEW q, learned[k].pair = q
  PROVE  /\ q \in Used(Len(symbols)) \X Used(Len(symbols)) /\ q \in Seq(Used(Len(symbols)))
         /\ <<IdOf(merges[k][1]), IdOf(merges[k][2])>> = q
         /\ \E f \in DOMAIN learned :
              /\ First(learned, f) /\ learned[f].pair = q
              /\ IdOf(BytesOf(symbols, q[1]) \o BytesOf(symbols, q[2])) = learned[f].id
<1>. DEFINE U == Used(Len(symbols))
            z == BytesOf(symbols, q[1]) \o BytesOf(symbols, q[2])
<1>1. /\ Table(symbols) /\ learned \in Seq(Joins(symbols))
      /\ Queued(learned, symbols, q) /\ Settles(learned, symbols, k)
  BY DEF Learning
<1>2. q \in U \X U /\ Made(learned, symbols, <<q[1]>>) /\ Made(learned, symbols, <<q[2]>>)
      /\ InText(Text(symbols, q))
  BY <1>1 DEF Queued
<1>3. q = <<q[1], q[2]>> /\ q[1] \in U /\ q[2] \in U /\ q \in Seq(U)
  <2>1. q \in Seq(U)
    <3>. HIDE DEF U
    <3>. QED BY <1>2, PairIsSeq
  <2>. QED BY <1>2, <2>1
<1>4. IdOf(BytesOf(symbols, q[1])) = q[1]
  BY <1>1, <1>2, <1>3, MadeIsFirst
<1>5. IdOf(BytesOf(symbols, q[2])) = q[2]
  BY <1>1, <1>2, <1>3, MadeIsFirst
<1>6. merges[k][1] = BytesOf(symbols, q[1]) /\ merges[k][2] = BytesOf(symbols, q[2])
  BY DEF Listed
<1>7. Text(symbols, q) = z
  <2>1. symbols \in Seq(Seq(Nat)) /\ U \subseteq Ids(Len(symbols))
    BY <1>1, TableFacts
  <2>2. q[1] \in Ids(Len(symbols)) /\ q[2] \in Ids(Len(symbols))
    BY <1>3, <2>1
  <2>3. Text(symbols, <<q[1], q[2]>>) = z
    BY <2>1, <2>2, TextTwo
  <2>. QED BY <1>3, <2>3
<1>8. PICK f \in DOMAIN learned : First(learned, f) /\ learned[f].pair = q
                                  /\ Replayed(Text(symbols, q), learned) = <<learned[f].id>>
  BY <1>1 DEF Settles
<1>. DEFINE x == learned[f].id
<1>9. x \in U /\ BytesOf(symbols, x) = z
  <2>1. learned \in Seq(Joins(symbols)) /\ f \in DOMAIN learned
    BY <1>1
  <2>2. learned[f] \in Joins(symbols)
    BY ONLY <2>1
  <2>. QED BY <1>8, <2>2 DEF Joins, MergeOver
<1>. HIDE DEF z
<1>10. Text(symbols, <<x>>) = z
  <2>1. symbols \in Seq(Seq(Nat)) /\ U \subseteq Ids(Len(symbols))
    BY <1>1, TableFacts
  <2>2. x \in Ids(Len(symbols))
    BY <1>9, <2>1
  <2>. QED BY <1>9, <2>1, <2>2, TextOne
<1>11. Made(learned, symbols, <<x>>)
  BY <1>2, <1>7, <1>8, <1>10 DEF Made
<1>12. IdOf(z) = x
  <2>1. IdOf(BytesOf(symbols, x)) = x
    BY <1>1, <1>9, <1>11, MadeIsFirst
  <2>. QED BY <1>9, <2>1
<1>. QED BY <1>2, <1>3, <1>4, <1>5, <1>6, <1>8, <1>12 DEF z

LEMMA MergeMapOrders ==
  ASSUME SpecialsApart, Learning(learned, symbols), Listed
  PROVE  Orders(Used(Len(symbols)), MergeMap, learned)
<1>. DEFINE U == Used(Len(symbols))
            D == {<<IdOf(m[1]), IdOf(m[2])>> : m \in ToSet(merges)}
<1>1. /\ Table(symbols) /\ learned \in Seq(Joins(symbols))
      /\ \A k \in DOMAIN learned :
           learned[k].id = Base + k - 1 /\ learned[k].pair \in Ids(learned[k].id) \X Ids(learned[k].id)
  BY DEF Learning
<1>2. learned \in Seq(MergeOver(U))
  BY <1>1, JoinsTyped
<1>3. DOMAIN MergeMap = D
      /\ \A q \in D : MergeMap[q] = IdOf(BytesOf(symbols, q[1]) \o BytesOf(symbols, q[2]))
  BY DEF MergeMap
<1>4. D = {<<IdOf(merges[k][1]), IdOf(merges[k][2])>> : k \in DOMAIN learned}
  BY DEF ToSet, Listed
<1>. HIDE DEF D, U
<1>5. ASSUME NEW k \in DOMAIN learned PROVE learned[k].pair \in D
  <2>1. <<IdOf(merges[k][1]), IdOf(merges[k][2])>> = learned[k].pair
    BY MergeIsFirst
  <2>. QED BY <1>4, <2>1
<1>6. ASSUME NEW j \in DOMAIN learned, NEW k \in DOMAIN learned, j < k
      PROVE  learned[j].id < learned[k].id
  <2>1. DOMAIN learned \subseteq Nat /\ Base \in Nat
    <3>1. DOMAIN learned = 1 .. Len(learned) /\ Len(learned) \in Nat
      BY ONLY <1>2
    <3>. QED BY <3>1, UsedFacts
  <2>2. j \in Nat /\ k \in Nat
    BY <2>1
  <2>3. learned[j].id = Base + j - 1 /\ learned[k].id = Base + k - 1
    BY <1>1
  <2>. QED BY <1>6, <2>1, <2>2, <2>3
<1>7. ASSUME NEW q \in D
      PROVE  \E f \in DOMAIN learned :
               First(learned, f) /\ learned[f].pair = q /\ learned[f].id = MergeMap[q]
  <2>1. PICK k \in DOMAIN learned : q = <<IdOf(merges[k][1]), IdOf(merges[k][2])>>
    BY <1>4
  <2>2. <<IdOf(merges[k][1]), IdOf(merges[k][2])>> = learned[k].pair
    BY MergeIsFirst
  <2>3. learned[k].pair = q
    BY <2>1, <2>2
  <2>4. \E f \in DOMAIN learned :
          /\ First(learned, f) /\ learned[f].pair = q
          /\ IdOf(BytesOf(symbols, q[1]) \o BytesOf(symbols, q[2])) = learned[f].id
    BY <2>3, MergeIsFirst
  <2>. QED BY <1>3, <2>4
<1>. QED BY <1>1, <1>2, <1>3, <1>5, <1>6, <1>7 DEF Orders, U

(* Merging by the list of merges is replaying what was learned.            *)
LEMMA MergingReplays ==
  ASSUME SpecialsApart, Learning(learned, symbols), Listed, NEW e \in Seq(Bytes)
  PROVE  /\ SimpleBpeMerge(MergeMap, e) = Replayed(e, learned)
         /\ Text(symbols, Replayed(e, learned)) = e
         /\ Replayed(e, learned) \in Seq(Used(Len(symbols)))
<1>. DEFINE U == Used(Len(symbols))
<1>1. Table(symbols) /\ learned \in Seq(Joins(symbols))
  BY DEF Learning
<1>2. Bytes \subseteq U /\ U \subseteq Ids(Len(symbols)) /\ Len(symbols) \in Nat
  BY <1>1, TableFacts
<1>3. U \in SUBSET Nat
  BY <1>2 DEF Ids
<1>4. learned \in Seq(MergeOver(U))
  BY <1>1, JoinsTyped
<1>5. Orders(U, MergeMap, learned)
  BY MergeMapOrders
<1>6. Text(symbols, e) = e
  BY <1>1, TextOfBytes
<1>7. \A v \in Seq(U) : Text(symbols, Replayed(v, learned)) = Text(symbols, v)
  BY <1>1, ReplayedText
<1>. HIDE DEF U
<1>8. e \in Seq(U)
  BY <1>2, SeqWidens
<1>9. Replayed(e, learned) \in Seq(U)
  BY <1>4, <1>8, ReplayedType
<1>10. SimpleBpeMerge(MergeMap, e) = Replayed(e, learned)
  BY <1>3, <1>5, <1>8, SimpleIsReplayed
<1>. QED BY <1>6, <1>7, <1>8, <1>9, <1>10 DEF U

-----------------------------------------------------------------------------
(* The words throughout training.                                          *)

LEMMA PairPiece ==
  ASSUME NEW S, NEW s \in Seq(S), NEW q \in AdjacentPairs(s)
  PROVE  q \in S \X S /\ q \in Seq(S) /\ Piece(S, q, s)
<1>1. q \in S \X S
  BY AdjacentTyped
<1>2. q \in Seq(S) /\ Len(q) = 2
  BY <1>1, PairIsSeq
<1>3. PICK i \in 1 .. Len(s) - 1 : q = <<s[i], s[i + 1]>>
  BY DEF AdjacentPairs
<1>. DEFINE n == Len(s)
            l == [k \in 1 .. i - 1 |-> s[k]]
            r == [k \in 1 .. n - i - 1 |-> s[k + i + 1]]
            t == q \o r
            v == l \o t
<1>4. n \in Nat /\ i \in Nat /\ i >= 1 /\ i + 1 <= n /\ \A k \in 1 .. n : s[k] \in S
  OBVIOUS
<1>5. l \in Seq(S) /\ Len(l) = i - 1 /\ \A k \in 1 .. i - 1 : l[k] = s[k]
  BY <1>4
<1>6. r \in Seq(S) /\ Len(r) = n - i - 1 /\ \A k \in 1 .. n - i - 1 : r[k] = s[k + i + 1]
  BY <1>4
<1>7. q[1] = s[i] /\ q[2] = s[i + 1]
  BY <1>3
<1>. HIDE DEF n, l, r
<1>8. t \in Seq(S) /\ Len(t) = n - i + 1
      /\ \A k \in 1 .. n - i + 1 : t[k] = IF k <= 2 THEN q[k] ELSE r[k - 2]
  <2>1. q \in Seq(S) /\ r \in Seq(S) /\ Len(q) + Len(r) = n - i + 1 /\ Len(q) = 2
    BY <1>2, <1>4, <1>6
  <2>2. t \in Seq(S) /\ Len(t) = Len(q) + Len(r)
        /\ \A k \in 1 .. Len(q) + Len(r) : t[k] = IF k <= Len(q) THEN q[k] ELSE r[k - Len(q)]
    BY <2>1, ConcatFacts
  <2>. QED BY <2>1, <2>2
<1>. HIDE DEF t
<1>9. v \in Seq(S) /\ Len(v) = n
      /\ \A k \in 1 .. n : v[k] = IF k <= i - 1 THEN l[k] ELSE t[k - (i - 1)]
  <2>1. l \in Seq(S) /\ t \in Seq(S) /\ Len(l) + Len(t) = n /\ Len(l) = i - 1
    BY <1>4, <1>5, <1>8
  <2>2. v \in Seq(S) /\ Len(v) = Len(l) + Len(t)
        /\ \A k \in 1 .. Len(l) + Len(t) : v[k] = IF k <= Len(l) THEN l[k] ELSE t[k - Len(l)]
    BY <2>1, ConcatFacts
  <2>. QED BY <2>1, <2>2
<1>. HIDE DEF v
<1>10. \A k \in 1 .. n : v[k] = s[k]
  <2>. TAKE k \in 1 .. n
  <2>1. CASE k <= i - 1
    BY <1>4, <1>5, <1>9, <2>1
  <2>2. CASE k = i
    <3>1. k - (i - 1) = 1 /\ 1 \in 1 .. n - i + 1 /\ ~(k <= i - 1)
      BY <1>4, <2>2
    <3>2. v[k] = t[1]
      BY <1>9, <3>1
    <3>. QED BY <1>7, <1>8, <2>2, <3>1, <3>2
  <2>3. CASE k = i + 1
    <3>1. k - (i - 1) = 2 /\ 2 \in 1 .. n - i + 1 /\ ~(k <= i - 1)
      BY <1>4, <2>3
    <3>2. v[k] = t[2]
      BY <1>9, <3>1
    <3>. QED BY <1>7, <1>8, <2>3, <3>1, <3>2
  <2>4. CASE k > i + 1
    <3>. DEFINE j == k - i - 1
    <3>1. k - (i - 1) = j + 2 /\ j + 2 \in 1 .. n - i + 1 /\ ~(k <= i - 1) /\ ~(j + 2 <= 2)
          /\ j \in 1 .. n - i - 1 /\ (j + 2) - 2 = j /\ j + i + 1 = k
      BY <1>4, <2>4
    <3>. HIDE DEF j
    <3>2. v[k] = t[j + 2]
      BY <1>9, <3>1
    <3>3. t[j + 2] = r[j]
      BY <1>8, <3>1
    <3>4. r[j] = s[k]
      BY <1>6, <3>1
    <3>. QED BY <3>2, <3>3, <3>4
  <2>. QED BY <1>4, <2>1, <2>2, <2>3, <2>4
<1>11. v = s
  BY <1>4, <1>9, <1>10, SeqEqual DEF n
<1>. QED BY <1>1, <1>2, <1>5, <1>6, <1>11 DEF Piece, v, t

(* These words of ws are what the merges make of texts.                    *)
Replays(ws, W, ms) == \A w \in W : \E e \in Texts : ws[w].symbols = Replayed(e, ms)

Newest == [pair |-> pair, id |-> Len(symbols) - 1]

(* How the words came about, and the pairs that may be picked: what the    *)
(* merges make of texts, or merged before.                                 *)
Trained ==
  /\ Learning(learned, symbols)
  /\ Listed
  /\ \A u \in DOMAIN units : units[u].symbols \in Texts
  /\ Replays(words, DOMAIN words \ todo, learned)
  /\ pc = "update" =>
       \E before \in Seq(Joins(symbols)) :
         /\ Newest \in Joins(symbols) /\ learned = Append(before, Newest)
         /\ Replays(words, todo, before)
  /\ \A q \in DOMAIN queue \cup DOMAIN changes : Queued(learned, symbols, q)

(* What the merges make of a text, its parts are as well.                  *)
LEMMA ReplayedMade ==
  ASSUME NEW table, Table(table), NEW ms \in Seq(Joins(table)), NEW e \in Texts
  PROVE  /\ Replayed(e, ms) \in Seq(Used(Len(table)))
         /\ \A u \in Seq(Used(Len(table))) :
              Piece(Used(Len(table)), u, Replayed(e, ms)) => Made(ms, table, u)
         /\ \A q \in AdjacentPairs(Replayed(e, ms)) :
              q \in Used(Len(table)) \X Used(Len(table)) /\ Made(ms, table, q) /\ Queued(ms, table, q)
<1>. DEFINE U == Used(Len(table))
            s == Replayed(e, ms)
<1>1. ms \in Seq(MergeOver(U)) /\ Bytes \subseteq U /\ e \in Seq(Bytes)
  BY JoinsTyped, TableFacts, TextsTyped
<1>. HIDE DEF U
<1>2. e \in Seq(U)
  BY <1>1, SeqWidens
<1>3. s \in Seq(U)
  BY <1>1, <1>2, ReplayedType
<1>4. InText(e)
  BY <1>1, PieceWhole DEF InText
<1>5. ASSUME NEW u \in Seq(U), Piece(U, u, s) PROVE Made(ms, table, u)
  BY <1>4, <1>5, MadePieces DEF U
<1>. HIDE DEF s
<1>6. ASSUME NEW q \in AdjacentPairs(s) PROVE q \in U \X U /\ Made(ms, table, q) /\ Queued(ms, table, q)
  <2>1. q \in U \X U
    BY <1>3, PairPiece
  <2>2. q \in Seq(U) /\ Piece(U, q, s)
    BY <1>3, PairPiece
  <2>3. Made(ms, table, q)
    BY <1>5, <2>2
  <2>4. Queued(ms, table, q)
    BY <2>1, <2>3, MadeQueued DEF U
  <2>. QED BY <2>1, <2>3, <2>4
<1>. QED BY <1>3, <1>5, <1>6 DEF U, s

LEMMA WordsQueued ==
  ASSUME NEW table, Table(table), NEW ms \in Seq(Joins(table)),
         NEW ws, Replays(ws, DOMAIN ws, ms), NEW q \in PairsOf(ws)
  PROVE  Queued(ms, table, q)
<1>1. PICK w \in DOMAIN ws : q \in AdjacentPairs(ws[w].symbols)
  BY DEF PairsOf
<1>2. PICK e \in Texts : ws[w].symbols = Replayed(e, ms)
  BY DEF Replays
<1>. QED BY <1>1, <1>2, ReplayedMade

LEMMA StartTrained == Init => Trained
<1>. SUFFICES ASSUME Init PROVE Trained
  OBVIOUS
<1>. DEFINE B == Cardinality(Bytes)
            first == [b \in 1 .. B |-> <<b - 1>>]
<1>1. B \in Nat /\ Bytes = 0 .. B - 1 /\ Base = B + Len(Specials) /\ Base \in Nat
      /\ Specials \in Seq(Seq(Nat)) /\ Len(Specials) \in Nat
  BY TrainerAssumption, UsedFacts DEF TrainerAssumption, Base
<1>2. /\ symbols = first \o Specials /\ merges = <<>> /\ learned = <<>> /\ pc = "pick"
      /\ todo = {} /\ DOMAIN changes = {} /\ queue = CountPairs(words)
      /\ \E c \in Corpora : words = c.words /\ units = c.units
  BY DEF Init, Empty
<1>. HIDE DEF B
<1>3. first \in Seq(Seq(Nat)) /\ Len(first) = B /\ \A k \in 1 .. B : first[k] = <<k - 1>>
  <2>1. \A b \in 1 .. B : <<b - 1>> \in Seq(Nat)
    BY <1>1
  <2>. QED BY <1>1, <2>1
<1>. HIDE DEF first
<1>4. /\ symbols \in Seq(Seq(Nat)) /\ Len(symbols) = Base
      /\ \A k \in 1 .. Base : symbols[k] = IF k <= B THEN first[k] ELSE Specials[k - B]
  <2>1. /\ symbols \in Seq(Seq(Nat)) /\ Len(symbols) = Len(first) + Len(Specials)
        /\ \A k \in 1 .. Len(first) + Len(Specials) :
             symbols[k] = IF k <= Len(first) THEN first[k] ELSE Specials[k - Len(first)]
    BY <1>1, <1>2, <1>3, ConcatFacts
  <2>. QED BY <1>1, <1>3, <2>1
<1>5. Table(symbols)
  <2>1. ASSUME NEW b \in Bytes PROVE BytesOf(symbols, b) = <<b>>
    <3>. DEFINE k == b + 1
    <3>1. k \in 1 .. B /\ k \in 1 .. Base /\ k <= B /\ k - 1 = b
      BY <1>1
    <3>. HIDE DEF k
    <3>2. symbols[k] = <<b>>
      BY <1>3, <1>4, <3>1
    <3>. QED BY <3>2 DEF BytesOf, k
  <2>2. ASSUME NEW k \in DOMAIN Specials PROVE BytesOf(symbols, B + k - 1) = Specials[k]
    <3>. DEFINE j == (B + k - 1) + 1
    <3>1. k \in 1 .. Len(Specials)
      BY <1>1
    <3>2. j \in 1 .. Base /\ ~(j <= B) /\ j - B = k
      BY <1>1, <3>1
    <3>. HIDE DEF j
    <3>3. symbols[j] = Specials[k]
      BY <1>4, <3>2
    <3>. QED BY <3>3 DEF BytesOf, j
  <2>3. Base <= Len(symbols)
    BY <1>1, <1>4
  <2>. QED BY <1>4, <2>1, <2>2, <2>3 DEF Table, B
<1>6. learned \in Seq(Joins(symbols)) /\ Len(learned) = 0 /\ DOMAIN learned = {} /\ DOMAIN merges = {}
  BY <1>2
<1>7. Learning(learned, symbols)
  BY <1>1, <1>4, <1>5, <1>6 DEF Learning
<1>8. Listed
  BY <1>6 DEF Listed
<1>9. PICK c \in Corpora : words = c.words /\ units = c.units
  BY <1>2
<1>10. \A u \in DOMAIN units : units[u].symbols \in Texts
  BY <1>9 DEF Texts
<1>11. Replays(words, DOMAIN words, learned)
  <2>. SUFFICES ASSUME NEW w \in DOMAIN words
                PROVE  \E e \in Texts : words[w].symbols = Replayed(e, learned)
    BY DEF Replays
  <2>1. words[w].symbols \in Texts
    BY <1>9 DEF Texts
  <2>2. Replayed(words[w].symbols, learned) = words[w].symbols
    BY <1>2, ReplayedUnfoldsNone
  <2>. QED BY <2>1, <2>2
<1>12. ASSUME NEW q \in DOMAIN queue \cup DOMAIN changes PROVE Queued(learned, symbols, q)
  <2>1. q \in PairsOf(words)
    BY <1>2, <1>12 DEF CountPairs
  <2>. QED BY <1>5, <1>6, <1>11, <2>1, WordsQueued
<1>13. DOMAIN words \ todo = DOMAIN words
  BY <1>2
<1>. QED BY <1>2, <1>7, <1>8, <1>10, <1>11, <1>12, <1>13 DEF Trained

LEMMA TrainedFacts ==
  ASSUME Trained
  PROVE  /\ Table(symbols) /\ learned \in Seq(Joins(symbols)) /\ symbols \in Seq(Seq(Nat))
         /\ Len(symbols) = Base + Len(learned) /\ DOMAIN learned = 1 .. Len(learned)
         /\ Len(learned) \in Nat
<1>1. Table(symbols) /\ learned \in Seq(Joins(symbols)) /\ Len(symbols) = Base + Len(learned)
  BY DEF Trained, Learning
<1>2. DOMAIN learned = 1 .. Len(learned) /\ Len(learned) \in Nat
  BY ONLY <1>1
<1>. QED BY <1>1, <1>2, TableFacts

LEMMA BytesGrow ==
  ASSUME NEW table, Table(table), NEW z \in Seq(Nat), NEW x \in Used(Len(table))
  PROVE  BytesOf(Append(table, z), x) = BytesOf(table, x)
<1>1. table \in Seq(Seq(Nat)) /\ x \in Ids(Len(table)) /\ <<>> \in Seq(Ids(Len(table)))
  BY TableFacts
<1>. QED BY <1>1, TextGrows

(* A picked pair was queued, so it may be merged; the words that the index *)
(* has not for it are through with it already.                             *)
LEMMA PickTrained ==
  ASSUME IInv, Trained, NEW p \in DOMAIN queue, Pick(p)
  PROVE  Trained'
<1>. DEFINE z == BytesOf(symbols, p[1]) \o BytesOf(symbols, p[2])
            m == [pair |-> p, id |-> Len(symbols)]
            n == Len(learned)
<1>1. /\ pc = "pick" /\ pc' = "update" /\ words' = words /\ units' = units
      /\ changes' = changes /\ pair' = p /\ todo' = index[p]
      /\ DOMAIN queue' = DOMAIN queue \ {p}
      /\ symbols' = Append(symbols, z) /\ learned' = Append(learned, m)
      /\ merges' = Append(merges, <<BytesOf(symbols, p[1]), BytesOf(symbols, p[2])>>)
  BY DEF Pick
<1>2. todo = {} /\ DOMAIN changes = {} /\ gained = {} /\ DOMAIN queue \subseteq DOMAIN index
      /\ \A w \in DOMAIN words : \A q \in AdjacentPairs(words[w].symbols) :
           q \in DOMAIN index /\ w \in index[q]
  BY <1>1 DEF IInv, Updating, Indexed, Empty
<1>3. /\ Table(symbols) /\ learned \in Seq(Joins(symbols)) /\ symbols \in Seq(Seq(Nat))
      /\ DOMAIN learned = 1 .. n /\ n \in Nat
  BY TrainedFacts
<1>4. Learning(learned, symbols) /\ Listed
      /\ (\A u \in DOMAIN units : units[u].symbols \in Texts)
      /\ Replays(words, DOMAIN words, learned)
      /\ \A q \in DOMAIN queue : Queued(learned, symbols, q)
  <2>1. DOMAIN words \ todo = DOMAIN words
    BY <1>2
  <2>. QED BY <2>1 DEF Trained
<1>5. Queued(learned, symbols, p)
  BY <1>4
<1>. DEFINE new == Append(symbols, z)
<1>a. Extends(symbols, p, new, m) /\ symbols' = new
  BY <1>1 DEF Extends
<1>. HIDE DEF m, new
<1>6. /\ Learning(Append(learned, m), symbols')
      /\ learned \in Seq(Joins(symbols')) /\ m \in Joins(symbols')
      /\ \A q : Queued(learned, symbols, q) => Queued(Append(learned, m), symbols', q)
  <2>1. Learning(learned, symbols) /\ Queued(learned, symbols, p)
    BY <1>4, <1>5
  <2>2. Learning(Append(learned, m), new)
    BY ONLY <1>a, <2>1, LearnsNext
  <2>3. learned \in Seq(Joins(new)) /\ m \in Joins(new)
    BY ONLY <1>a, <2>1, LearnsNext
  <2>4. ASSUME NEW q, Queued(learned, symbols, q) PROVE Queued(Append(learned, m), new, q)
    BY ONLY <1>a, <2>1, <2>4, LearnsNext
  <2>. QED BY <1>a, <2>2, <2>3, <2>4
<1>7. Len(symbols') = Len(symbols) + 1 /\ Len(symbols) \in Nat
      /\ \A x \in Used(Len(symbols)) : BytesOf(symbols', x) = BytesOf(symbols, x)
  <2>1. Len(symbols) \in Nat /\ Used(Len(symbols)) \subseteq Ids(Len(symbols))
    BY <1>3, TableFacts
  <2>2. p[1] \in Ids(Len(symbols)) /\ p[2] \in Ids(Len(symbols))
    BY <1>5, <2>1 DEF Queued
  <2>3. BytesOf(symbols, p[1]) \in Seq(Nat) /\ BytesOf(symbols, p[2]) \in Seq(Nat)
    BY <1>3, <2>2, BytesType
  <2>4. z \in Seq(Nat)
    BY <2>3, ConcatFacts
  <2>. HIDE DEF z
  <2>5. Len(symbols') = Len(symbols) + 1
    BY <1>1, <1>3, <2>4, TableGrows
  <2>6. \A x \in Used(Len(symbols)) : BytesOf(symbols', x) = BytesOf(symbols, x)
    <3>1. \A x \in Used(Len(symbols)) : BytesOf(Append(symbols, z), x) = BytesOf(symbols, x)
      BY <1>3, <2>4, BytesGrow
    <3>. QED BY <1>1, <3>1
  <2>. QED BY <2>1, <2>5, <2>6
<1>8. Newest' = m
  BY <1>1, <1>7 DEF Newest, m
<1>9. Listed'
  <2>1. /\ DOMAIN learned' = 1 .. n + 1 /\ learned'[n + 1] = m
        /\ \A k \in 1 .. n : learned'[k] = learned[k]
    BY <1>1, <1>3
  <2>2. /\ merges \in Seq(Seq(Nat) \X Seq(Nat))
    BY DEF IInv, TrainerTypes
  <2>3. DOMAIN merges = 1 .. n
    BY <1>3, <1>4 DEF Listed
  <2>4. Len(merges) = n
    BY <1>3, <2>2, <2>3
  <2>5. /\ DOMAIN merges' = 1 .. n + 1
        /\ merges'[n + 1] = <<BytesOf(symbols, p[1]), BytesOf(symbols, p[2])>>
        /\ \A k \in 1 .. n : merges'[k] = merges[k]
    BY <1>1, <1>3, <2>2, <2>4
  <2>6. ASSUME NEW k \in 1 .. n + 1
        PROVE  merges'[k] = <<BytesOf(symbols', learned'[k].pair[1]), BytesOf(symbols', learned'[k].pair[2])>>
    <3>1. CASE k \in 1 .. n
      <4>. DEFINE q == learned[k].pair
      <4>1. k \in DOMAIN learned
        BY <1>3, <3>1
      <4>2. Queued(learned, symbols, q)
        BY <1>4, <4>1 DEF Learning
      <4>3. q[1] \in Used(Len(symbols)) /\ q[2] \in Used(Len(symbols))
        BY <4>2 DEF Queued
      <4>4. BytesOf(symbols', q[1]) = BytesOf(symbols, q[1]) /\ BytesOf(symbols', q[2]) = BytesOf(symbols, q[2])
        BY <1>7, <4>3
      <4>5. merges[k] = <<BytesOf(symbols, q[1]), BytesOf(symbols, q[2])>>
        BY <1>4, <4>1 DEF Listed
      <4>6. learned'[k].pair = q /\ merges'[k] = merges[k]
        BY <2>1, <2>5, <3>1
      <4>. HIDE DEF q
      <4>. QED BY <4>4, <4>5, <4>6
    <3>2. CASE k = n + 1
      <4>1. p[1] \in Used(Len(symbols)) /\ p[2] \in Used(Len(symbols))
        BY <1>5 DEF Queued
      <4>2. BytesOf(symbols', p[1]) = BytesOf(symbols, p[1]) /\ BytesOf(symbols', p[2]) = BytesOf(symbols, p[2])
        BY <1>7, <4>1
      <4>3. learned'[k].pair = p
        BY <2>1, <3>2 DEF m
      <4>. QED BY <2>5, <3>2, <4>2, <4>3
    <3>. QED BY <1>3, <3>1, <3>2
  <2>. QED BY <2>1, <2>5, <2>6 DEF Listed
<1>10. Replays(words, DOMAIN words \ todo', learned')
  <2>. SUFFICES ASSUME NEW w \in DOMAIN words, w \notin todo'
                PROVE  \E e \in Texts : words[w].symbols = Replayed(e, learned')
    BY DEF Replays
  <2>1. PICK e \in Texts : words[w].symbols = Replayed(e, learned)
    BY <1>4 DEF Replays
  <2>. DEFINE s == words[w].symbols
  <2>2. s \in Seq(Used(Len(symbols)))
    BY <1>3, <2>1, ReplayedMade
  <2>3. p \notin AdjacentPairs(s)
    BY <1>1, <1>2
  <2>. HIDE DEF s
  <2>4. Replaced(s, p, Len(symbols)) = s
    BY <2>2, <2>3, ReplacedNothing
  <2>5. Replayed(e, learned') = Replaced(Replayed(e, learned), p, Len(symbols))
    <3>1. Replayed(e, Append(learned, m)) = Replaced(Replayed(e, learned), m.pair, m.id)
      BY <1>6, ReplayedUnfolds
    <3>. QED BY <1>1, <3>1 DEF m
  <2>. QED BY <2>1, <2>4, <2>5 DEF s
<1>11. Replays(words, todo', learned)
  BY <1>1, <1>2, <1>4 DEF Replays, IInv, TrainerTypes
<1>12. \E before \in Seq(Joins(symbols')) :
         Newest' \in Joins(symbols') /\ learned' = Append(before, Newest') /\ Replays(words', todo', before)
  BY <1>1, <1>6, <1>8, <1>11
<1>13. \A q \in DOMAIN queue' \cup DOMAIN changes' : Queued(learned', symbols', q)
  BY <1>1, <1>2, <1>4, <1>6
<1>. QED BY <1>1, <1>4, <1>6, <1>9, <1>10, <1>12, <1>13 DEF Trained

(* Every pair that an update touches is what the merges make of its bytes, *)
(* the new merge among them unless the pair was there before.              *)
LEMMA TouchedQueued ==
  ASSUME NEW table, Table(table), NEW ms \in Seq(Joins(table)), NEW n \in Nat, Len(table) = n + 1,
         NEW p \in Ids(n) \X Ids(n), NEW m \in Joins(table), m.pair = p, m.id = n,
         NEW e \in Texts, NEW s \in Seq(Ids(n)), s = Replayed(e, ms),
         NEW u, u = UpdateWord(s, p, n), NEW r \in ToSet(u.record)
  PROVE  Queued(Append(ms, m), table, r[1])
<1>. DEFINE q == r[1]
            U == Used(Len(table))
            I == 0 .. n
<1>1. /\ u.record \in Seq(Pairs(n) \X {1, -1}) /\ Faithful(u, s, p, n)
  BY UpdateWordFacts
<1>2. r \in Pairs(n) \X {1, -1}
  BY <1>1 DEF ToSet
<1>3. q \in I \X I
  BY <1>2 DEF Pairs
<1>4. Known(s, u.record, q)
  BY <1>1 DEF Faithful
<1>5. CASE q \in AdjacentPairs(s)
  <2>1. q \in AdjacentPairs(Replayed(e, ms))
    BY <1>5
  <2>. HIDE DEF q
  <2>2. Queued(ms, table, q)
    BY <2>1, ReplayedMade
  <2>3. Queued(Append(ms, m), table, q)
    BY <2>2, QueuedGrows
  <2>. QED BY <2>3 DEF q
<1>6. CASE <<q, 1>> \in ToSet(u.record)
  <2>. DEFINE y == <<q, 1>>
  <2>1. y \in ToSet(u.record) /\ y[1] = q /\ y[2] = 1
    BY <1>6
  <2>. HIDE DEF y, q
  <2>2. Comes(I, s, p, n, q)
    BY <2>1, UpdateWordReplaces
  <2>3. PICK v \in Seq(I) : Piece(I, v, s) /\ Replaced(v, p, n) = q
    BY <2>2 DEF Comes
  <2>4. s \in Seq(U) /\ \A w \in Seq(U) : Piece(U, w, s) => Made(ms, table, w)
    <3>1. Replayed(e, ms) \in Seq(U)
      BY ReplayedMade
    <3>2. \A w \in Seq(U) : Piece(U, w, Replayed(e, ms)) => Made(ms, table, w)
      BY ReplayedMade
    <3>. QED BY <3>1, <3>2
  <2>. HIDE DEF U, I
  <2>5. v \in Seq(U) /\ Piece(U, v, s)
    BY <2>3, <2>4, PieceNarrows
  <2>6. Made(ms, table, v)
    BY <2>4, <2>5
  <2>7. Made(Append(ms, m), table, q)
    <3>1. Made(Append(ms, m), table, Replaced(v, m.pair, m.id))
      BY <2>5, <2>6, MadeGrows DEF U
    <3>. QED BY <2>3, <3>1
  <2>8. n \in U
    BY DEF Joins, MergeOver, U
  <2>9. q \in Seq(U)
    BY <2>3, <2>5, <2>8, ReplacedType
  <2>10. q \in U \X U
    <3>1. q = <<q[1], q[2]>>
      BY <1>3
    <3>2. <<q[1], q[2]>> \in Seq(U)
      BY <2>9, <3>1
    <3>3. q[1] \in U /\ q[2] \in U
      <4>1. <<q[1], q[2]>>[1] \in U /\ <<q[1], q[2]>>[2] \in U
        BY <3>2
      <4>. QED BY <4>1
    <3>. QED BY <3>1, <3>3
  <2>11. Append(ms, m) \in Seq(Joins(table))
    OBVIOUS
  <2>12. Queued(Append(ms, m), table, q)
    BY <2>7, <2>10, <2>11, MadeQueued DEF U
  <2>. QED BY <2>12 DEF q
<1>. QED BY <1>4, <1>5, <1>6 DEF Known

LEMMA UpdateOneTrained ==
  ASSUME IInv, Trained, NEW w \in todo, UpdateOne(w)
  PROVE  Trained'
<1>. DEFINE n == Len(symbols) - 1
            s == words[w].symbols
            u == UpdateWord(s, pair, n)
            m == Newest
<1>1. /\ pc = "update" /\ pc' = pc /\ symbols' = symbols /\ merges' = merges /\ queue' = queue
      /\ units' = units /\ pair' = pair /\ todo' = todo \ {w} /\ learned' = learned
      /\ words' = [words EXCEPT ![w].symbols = u.symbols]
      /\ DOMAIN changes' = DOMAIN changes \cup {u.record[k][1] : k \in DOMAIN u.record}
  BY DEF UpdateOne
<1>2. /\ Table(symbols) /\ learned \in Seq(Joins(symbols))
      /\ \A q \in DOMAIN queue \cup DOMAIN changes : Queued(learned, symbols, q)
      /\ Replays(words, DOMAIN words \ todo, learned)
  BY TrainedFacts DEF Trained
<1>3. PICK before \in Seq(Joins(symbols)) :
        m \in Joins(symbols) /\ learned = Append(before, m) /\ Replays(words, todo, before)
  BY <1>1 DEF Trained
<1>4. PICK e \in Texts : s = Replayed(e, before)
  BY <1>3 DEF Replays
<1>5. /\ pair \in Ids(n) \X Ids(n) /\ w \in DOMAIN words /\ s \in Seq(Ids(n))
      /\ n \in Nat /\ Len(symbols) = n + 1 /\ words \in Seq(WordOver(Ids(Len(symbols))))
  <2>1. /\ pair \in Ids(n) \X Ids(n) /\ todo \subseteq DOMAIN words
        /\ \A v \in todo : words[v].symbols \in Seq(Ids(n))
    BY <1>1 DEF IInv, Updating, Fresh
  <2>2. Len(symbols) \in Nat /\ words \in Seq(WordOver(Ids(Len(symbols))))
    BY DEF IInv, TrainerTypes
  <2>3. pair[1] \in 0 .. n - 1
    BY <2>1 DEF Ids
  <2>4. n \in Nat /\ Len(symbols) = n + 1
    BY <2>2, <2>3
  <2>. HIDE DEF n, s
  <2>. QED BY <2>1, <2>2, <2>4 DEF s
<1>6. m.pair = pair /\ m.id = n
  BY DEF Newest
<1>. HIDE DEF n, m
<1>7. u.symbols = Replayed(e, learned)
  <2>1. u.symbols = Replaced(s, pair, n)
    <3>. HIDE DEF s
    <3>. QED BY <1>5, UpdateWordReplaces
  <2>2. Replayed(e, Append(before, m)) = Replaced(Replayed(e, before), m.pair, m.id)
    BY <1>3, ReplayedUnfolds
  <2>. QED BY <1>3, <1>4, <1>6, <2>1, <2>2
<1>8. ASSUME NEW q \in DOMAIN changes' PROVE Queued(learned, symbols, q)
  <2>1. CASE q \in DOMAIN changes
    BY <1>2, <2>1
  <2>2. CASE q \in {u.record[k][1] : k \in DOMAIN u.record}
    <3>1. PICK r \in ToSet(u.record) : q = r[1]
      BY <2>2 DEF ToSet
    <3>. HIDE DEF s
    <3>2. u = UpdateWord(s, pair, n)
      OBVIOUS
    <3>. HIDE DEF u
    <3>3. Queued(Append(before, m), symbols, r[1])
      BY <1>2, <1>3, <1>4, <1>5, <1>6, <3>1, <3>2, TouchedQueued
    <3>. QED BY <1>3, <3>1, <3>3
  <2>. QED BY <1>1, <2>1, <2>2
<1>. HIDE DEF u
<1>9. DOMAIN words' = DOMAIN words /\ words'[w].symbols = u.symbols
      /\ \A v \in DOMAIN words : v # w => words'[v] = words[v]
  <2>1. words[w] \in WordOver(Ids(Len(symbols)))
    BY <1>5
  <2>2. [words[w] EXCEPT !.symbols = u.symbols].symbols = u.symbols
    BY <2>1 DEF WordOver
  <2>3. words' = [words EXCEPT ![w] = [words[w] EXCEPT !.symbols = u.symbols]]
    BY <1>1
  <2>. QED BY <1>5, <2>2, <2>3
<1>10. Replays(words', DOMAIN words \ todo', learned)
  <2>. SUFFICES ASSUME NEW v \in DOMAIN words, v \notin todo'
                PROVE  \E x \in Texts : words'[v].symbols = Replayed(x, learned)
    BY DEF Replays
  <2>1. CASE v = w
    BY <1>7, <1>9, <2>1
  <2>2. CASE v # w
    BY <1>1, <1>2, <1>9, <2>2 DEF Replays
  <2>. QED BY <2>1, <2>2
<1>11. Replays(words', todo', before)
  <2>1. todo \subseteq DOMAIN words
    BY <1>1 DEF IInv, Updating
  <2>. QED BY <1>1, <1>3, <1>9, <2>1 DEF Replays
<1>12. Newest' = m
  BY <1>1 DEF Newest, m
<1>13. Learning(learned, symbols) /\ Listed /\ \A x \in DOMAIN units : units[x].symbols \in Texts
  BY DEF Trained
<1>14. Listed'
  BY <1>1, <1>13 DEF Listed
<1>15. \A q \in DOMAIN queue' \cup DOMAIN changes' : Queued(learned', symbols', q)
  BY <1>1, <1>2, <1>8
<1>16. \E b \in Seq(Joins(symbols')) :
         Newest' \in Joins(symbols') /\ learned' = Append(b, Newest') /\ Replays(words', todo', b)
  BY <1>1, <1>3, <1>11, <1>12
<1>. QED BY <1>1, <1>9, <1>10, <1>13, <1>14, <1>15, <1>16 DEF Trained

LEMMA ApplyTrained ==
  ASSUME IInv, Trained, Apply
  PROVE  Trained'
<1>1. /\ todo = {} /\ todo' = todo /\ pc' = "pick" /\ words' = words /\ symbols' = symbols
      /\ merges' = merges /\ learned' = learned /\ units' = units /\ DOMAIN changes' = {}
      /\ DOMAIN queue' = DOMAIN queue \cup DOMAIN changes
  BY DEF Apply, Empty
<1>2. Listed'
  BY <1>1 DEF Trained, Listed
<1>. QED BY <1>1, <1>2 DEF Trained

(* The units start where replaying the merges on them leads.               *)
LEMMA ResumeTrained ==
  ASSUME SpecialsApart, IInv, Trained, Resume
  PROVE  Trained'
<1>1. /\ pc = "pick" /\ pc' = pc /\ symbols' = symbols /\ merges' = merges /\ learned' = learned
      /\ units' = units /\ todo' = todo /\ changes' = changes /\ queue' = CountPairs(words')
      /\ words' = [u \in DOMAIN units |->
            [symbols |-> SimpleBpeMerge(MergeMap, units[u].symbols), count |-> units[u].count]]
  BY DEF Resume, update
<1>2. todo = {} /\ DOMAIN changes = {}
  BY <1>1 DEF IInv, Updating, Empty
<1>3. Table(symbols) /\ learned \in Seq(Joins(symbols))
  BY TrainedFacts
<1>4. Learning(learned, symbols) /\ Listed /\ \A u \in DOMAIN units : units[u].symbols \in Texts
  BY DEF Trained
<1>5. Replays(words', DOMAIN words', learned)
  <2>. SUFFICES ASSUME NEW u \in DOMAIN units
                PROVE  \E e \in Texts : words'[u].symbols = Replayed(e, learned)
    BY <1>1 DEF Replays
  <2>. DEFINE e == units[u].symbols
  <2>1. e \in Texts /\ e \in Seq(Bytes)
    BY <1>4, TextsTyped
  <2>2. SimpleBpeMerge(MergeMap, e) = Replayed(e, learned)
    <3>. HIDE DEF e
    <3>. QED BY <1>4, <2>1, MergingReplays
  <2>3. words'[u].symbols = SimpleBpeMerge(MergeMap, e)
    BY <1>1
  <2>. QED BY <2>1, <2>2, <2>3
<1>6. ASSUME NEW q \in DOMAIN queue' PROVE Queued(learned, symbols, q)
  <2>1. q \in PairsOf(words')
    BY <1>1 DEF CountPairs
  <2>. QED BY <1>3, <1>5, <2>1, WordsQueued
<1>7. Listed'
  BY <1>1, <1>4 DEF Listed
<1>8. DOMAIN words' \ todo' = DOMAIN words'
  BY <1>1, <1>2
<1>. QED BY <1>1, <1>2, <1>4, <1>5, <1>6, <1>7, <1>8 DEF Trained

LEMMA SameTrained ==
  ASSUME Trained, symbols' = symbols, words' = words, units' = units, merges' = merges,
         queue' = queue, changes' = changes, pair' = pair, todo' = todo, learned' = learned,
         pc' = pc \/ (pc = "pick" /\ pc' = "done")
  PROVE  Trained'
<1>1. Newest' = Newest
  BY DEF Newest
<1>2. Listed'
  BY DEF Trained, Listed
<1>3. pc' = "update" => pc = "update"
  OBVIOUS
<1>. QED BY <1>1, <1>2, <1>3 DEF Trained

LEMMA TrainedNext ==
  ASSUME SpecialsApart, IInv, Trained, [Next]_vars
  PROVE  Trained'
<1>1. ASSUME NEW p \in DOMAIN queue, Pick(p) PROVE Trained'
  BY <1>1, PickTrained
<1>2. ASSUME NEW w \in todo, UpdateOne(w) PROVE Trained'
  BY <1>2, UpdateOneTrained
<1>3. CASE Apply
  BY <1>3, ApplyTrained
<1>4. CASE Resume
  BY <1>4, ResumeTrained
<1>5. CASE Finish
  BY <1>5, SameTrained DEF Finish, update
<1>6. CASE UNCHANGED vars
  BY <1>6, SameTrained DEF vars, update
<1>. QED BY <1>1, <1>2, <1>3, <1>4, <1>5, <1>6 DEF Next

LEMMA TrainedInv ==
  ASSUME SpecialsApart
  PROVE  Spec => []Trained
<1>1. Init => Trained
  BY StartTrained
<1>2. IInv /\ Trained /\ [Next]_vars => Trained'
  BY TrainedNext
<1>3. Spec => []IInv
  BY TrainerInv
<1>. QED BY <1>1, <1>2, <1>3, PTL DEF Spec

(* The words as trained are what the tokenizer that was learned makes of   *)
(* their bytes: the merges of all words by update_word, one pair at a      *)
(* time, come to what simple_bpe_merge comes to on each by lowest id.      *)
THEOREM TrainingIsEncoding ==
  ASSUME SpecialsApart
  PROVE  Spec => []TrainedAsEncoded
<1>1. IInv /\ Trained => TrainedAsEncoded
  <2>. SUFFICES ASSUME IInv, Trained, pc = "pick", NEW w \in DOMAIN words
                PROVE  words[w].symbols = SimpleBpeMerge(MergeMap, TextOf(words[w].symbols))
    BY DEF TrainedAsEncoded
  <2>1. w \in DOMAIN words \ todo
    BY DEF IInv, Updating
  <2>2. PICK e \in Texts : words[w].symbols = Replayed(e, learned)
    BY <2>1 DEF Trained, Replays
  <2>3. e \in Seq(Bytes)
    BY TextsTyped
  <2>4. Learning(learned, symbols) /\ Listed
    BY DEF Trained
  <2>5. Text(symbols, Replayed(e, learned)) = e
    BY <2>3, <2>4, MergingReplays
  <2>6. SimpleBpeMerge(MergeMap, e) = Replayed(e, learned)
    BY <2>3, <2>4, MergingReplays
  <2>7. TextOf(words[w].symbols) = Text(symbols, words[w].symbols)
    BY DEF TextOf, Text
  <2>. QED BY <2>2, <2>5, <2>6, <2>7
<1>2. Spec => []IInv
  BY TrainerInv
<1>3. Spec => []Trained
  BY TrainedInv
<1>. QED BY <1>1, <1>2, <1>3, PTL

-----------------------------------------------------------------------------
(* Training recounts.                                                      *)

LEMMA SumPositive ==
  ASSUME NEW f, Summable(f), \A x \in DOMAIN f : f[x] >= 0, NEW y \in DOMAIN f, f[y] >= 1
  PROVE  SumFunction(f) >= 1
<1>1. PICK g : IsTotal(g, f) /\ SumFunction(f) = g[DOMAIN f]
  BY TotalExists DEF Summable
<1>. DEFINE B == {t \in SUBSET DOMAIN f : ~(g[t] >= 0)}
<1>0. \A t \in SUBSET DOMAIN f : IsFiniteSet(t) /\ Cardinality(t) \in Nat
  BY FS_Subset, FS_CardinalityType DEF Summable
<1>2. B = {}
  <2>1. SUFFICES ASSUME B # {} PROVE FALSE
    OBVIOUS
  <2>2. PICK t \in B : \A u \in B : Cardinality(t) <= Cardinality(u)
    <3>1. \A u \in B : IsFiniteSet(u)
      BY <1>0
    <3>. HIDE DEF B
    <3>. QED BY <2>1, <3>1, SmallestSet
  <2>3. t \in SUBSET DOMAIN f /\ ~(g[t] >= 0)
    OBVIOUS
  <2>4. t # {}
    <3>1. t = {} => g[t] = 0
      BY <1>1, <2>3, TotalStep
    <3>. QED BY <2>3, <3>1
  <2>5. Some(t) \in t /\ g[t] = f[Some(t)] + g[t \ {Some(t)}]
    BY <1>1, <2>3, <2>4, TotalStep
  <2>. DEFINE u == t \ {Some(t)}
  <2>6. u \in SUBSET DOMAIN f /\ Cardinality(u) = Cardinality(t) - 1
    BY <1>0, <2>3, <2>5, FS_RemoveElement
  <2>7. u \notin B
    <3>. HIDE DEF u, B
    <3>. QED BY <1>0, <2>2, <2>3, <2>6
  <2>8. g[u] >= 0 /\ g[u] \in Int /\ f[Some(t)] >= 0 /\ f[Some(t)] \in Int
    <3>1. g[u] >= 0
      BY <2>6, <2>7
    <3>2. g[u] \in Int
      <4>. HIDE DEF u
      <4>. QED BY <1>1, <2>6, TotalType
    <3>. QED BY <2>3, <2>5, <3>1, <3>2 DEF Summable
  <2>. HIDE DEF u
  <2>9. g[t] = f[Some(t)] + g[u]
    BY <2>5 DEF u
  <2>. QED BY <2>3, <2>8, <2>9
<1>. DEFINE s == DOMAIN f
            v == s \ {y}
<1>3. g[s] = f[y] + g[v]
  BY <1>1, TotalAny
<1>4. g[v] \in Int /\ g[v] >= 0 /\ f[y] \in Int
  <2>1. v \in SUBSET DOMAIN f
    OBVIOUS
  <2>2. g[v] \in Int
    <3>. HIDE DEF v
    <3>. QED BY <1>1, <2>1, TotalType
  <2>. QED BY <1>2, <2>1, <2>2 DEF Summable
<1>. HIDE DEF s, v
<1>5. SumFunction(f) = g[s]
  BY <1>1 DEF s
<1>. QED BY <1>3, <1>4, <1>5

LEMMA PairCountPositive ==
  ASSUME NEW S, NEW ws \in Seq(WordOver(S)), NEW q \in PairsOf(ws)
  PROVE  PairCount(ws, q) >= 1
<1>. DEFINE f == Terms(ws, q)
<1>1. Summable(f) /\ DOMAIN f = DOMAIN ws /\ PairCount(ws, q) = SumFunction(f)
  BY TermsSummable
<1>2. PICK w \in DOMAIN ws : q \in AdjacentPairs(ws[w].symbols)
  BY DEF PairsOf
<1>3. ASSUME NEW x \in DOMAIN ws
      PROVE  /\ f[x] = ws[x].count * Cardinality(Places(ws[x].symbols, q))
             /\ ws[x].count \in Nat \ {0} /\ Cardinality(Places(ws[x].symbols, q)) \in Nat
             /\ IsFiniteSet(Places(ws[x].symbols, q))
  <2>1. ws[x] \in WordOver(S)
    OBVIOUS
  <2>2. ws[x].symbols \in Seq(S) /\ ws[x].count \in Nat \ {0}
    BY <2>1 DEF WordOver
  <2>3. IsFiniteSet(Places(ws[x].symbols, q)) /\ Cardinality(Places(ws[x].symbols, q)) \in Nat
    BY <2>2, PlacesFinite, FS_CardinalityType
  <2>. QED BY <2>2, <2>3 DEF Terms
<1>4. Cardinality(Places(ws[w].symbols, q)) # 0
  <2>1. Places(ws[w].symbols, q) # {}
    BY <1>2 DEF Places, AdjacentPairs
  <2>. QED BY <1>3, <2>1, FS_EmptySet
<1>. HIDE DEF f
<1>5. \A x \in DOMAIN f : f[x] >= 0
  <2>. TAKE x \in DOMAIN f
  <2>. DEFINE a == ws[x].count
              b == Cardinality(Places(ws[x].symbols, q))
  <2>1. a \in Nat /\ b \in Nat /\ f[x] = a * b
    BY <1>1, <1>3
  <2>. HIDE DEF a, b
  <2>2. a * b >= 0
    BY <2>1
  <2>. QED BY <2>1, <2>2
<1>6. w \in DOMAIN f /\ f[w] >= 1
  <2>. DEFINE a == ws[w].count
              b == Cardinality(Places(ws[w].symbols, q))
  <2>1. a \in Nat /\ a # 0 /\ b \in Nat /\ b # 0 /\ f[w] = a * b
    BY <1>3, <1>4
  <2>. HIDE DEF a, b
  <2>2. a * b >= 1
    BY <2>1
  <2>. QED BY <1>1, <2>1, <2>2
<1>. QED BY <1>1, <1>5, <1>6, SumPositive

(* Recount's own copies of the operators on pairs are these.               *)
LEMMA SameReplaced ==
  /\ \A s, p, id : Promise!Replaced(s, p, id) = Replaced(s, p, id)
  /\ \A s, ms : Promise!Replayed(s, ms) = Replayed(s, ms)
<1>1. \A s, p, id : Promise!Replaced(s, p, id) = Replaced(s, p, id)
  BY DEF Promise!Replaced, Replaced
<1>2. \A s, ms : Promise!Replayed(s, ms) = Replayed(s, ms)
  BY <1>1 DEF Promise!Replayed, Replayed
<1>. QED BY <1>1, <1>2

LEMMA SamePairCount ==
  ASSUME NEW ws, NEW p
  PROVE  Promise!PairCount(ws, p) = PairCount(ws, p)
<1>. DEFINE f == [w \in DOMAIN ws |-> ws[w].count * Cardinality(Places(ws[w].symbols, p))]
<1>1. Promise!PairCount(ws, p) = Promise!SumFunction(f)
  BY DEF Promise!PairCount, Promise!Places, Places, Promise!Cardinality, Cardinality
<1>2. PairCount(ws, p) = SumFunction(f)
  BY DEF PairCount
<1>3. \A h : Promise!SumFunction(h) = SumFunction(h)
  BY DEF Promise!SumFunction, SumFunction, Promise!SumFunctionOnSet, SumFunctionOnSet,
         Promise!FoldFunctionOnSet, FoldFunctionOnSet, Promise!MapThenFoldSet, MapThenFoldSet
<1>. HIDE DEF f
<1>. QED BY <1>1, <1>2, <1>3

LEMMA SamePairs ==
  /\ \A ws : Promise!PairsOf(ws) = PairsOf(ws)
  /\ \A r, t, p, q : Promise!Wins(r, t, p, q) = Wins(r, t, p, q)
  /\ \A t, x : Promise!BytesOf(t, x) = BytesOf(t, x)
<1>1. \A ws : Promise!PairsOf(ws) = PairsOf(ws)
  BY DEF Promise!PairsOf, PairsOf, Promise!AdjacentPairs, AdjacentPairs
<1>2. \A r, t, p, q : Promise!Wins(r, t, p, q) = Wins(r, t, p, q)
  BY DEF Promise!Wins, Wins, Promise!BytesOf, BytesOf, Promise!Below, Below,
         Promise!StringBelow, StringBelow, Promise!Remap, Remap,
         Promise!IsStrictPrefix, IsStrictPrefix, Promise!IsPrefix, IsPrefix
<1>3. \A t, x : Promise!BytesOf(t, x) = BytesOf(t, x)
  BY DEF Promise!BytesOf, BytesOf
<1>. QED BY <1>1, <1>2, <1>3

LEMMA SettledBetween ==
  ASSUME words \in Seq(WordOver(Ids(Len(symbols)))), todo = {}
  PROVE  Settled = words
<1>1. words = [w \in DOMAIN words |-> words[w]]
  OBVIOUS
<1>. QED BY <1>1 DEF Settled

LEMMA SettledStart == Init => Promise!Init
<1>. SUFFICES ASSUME Init PROVE Promise!Init
  OBVIOUS
<1>1. IInv
  BY InitInv
<1>2. words \in Seq(WordOver(Ids(Len(symbols)))) /\ todo = {}
  BY <1>1 DEF IInv, TrainerTypes, Init
<1>3. Settled = words
  BY <1>2, SettledBetween
<1>4. Promise!Cardinality(Bytes) = Cardinality(Bytes)
  BY DEF Promise!Cardinality, Cardinality
<1>. QED BY <1>3, <1>4 DEF Init, Promise!Init

(* A pick merges the most frequent pair in all words at once; when the     *)
(* most that the queue has is no positive count, no pair occurs any more.  *)
LEMMA PickLearns ==
  ASSUME IInv, NEW p \in DOMAIN queue, Pick(p), CountsExact
  PROVE  Promise!Next
<1>. DEFINE id == Len(symbols)
            z == BytesOf(symbols, p[1]) \o BytesOf(symbols, p[2])
<1>1. /\ pc = "pick" /\ words' = words /\ units' = units /\ rule' = rule /\ pair' = p
      /\ todo' = index[p] /\ symbols' = Append(symbols, z) /\ IsMost(p)
      /\ learned' = Append(learned, [pair |-> p, id |-> id])
  BY DEF Pick
<1>2. /\ words \in Seq(WordOver(Ids(id))) /\ todo = {} /\ id \in Nat
      /\ p \in Ids(id) \X Ids(id) /\ symbols \in Seq(Seq(Nat))
      /\ \A q \in DOMAIN queue : queue[q] \in Int
  BY <1>1 DEF IInv, TrainerTypes, Updating, Fresh
<1>3. Settled = words
  BY <1>2, SettledBetween
<1>4. Len(symbols') - 1 = id
  <2>. HIDE DEF z
  <2>. QED BY <1>1, <1>2
<1>5. Settled' = [w \in DOMAIN words |->
                    [words[w] EXCEPT !.symbols = Replaced(words[w].symbols, p, id)]]
  <2>1. ASSUME NEW w \in DOMAIN words, w \notin index[p]
        PROVE  words[w] = [words[w] EXCEPT !.symbols = Replaced(words[w].symbols, p, id)]
    <3>1. words[w] \in WordOver(Ids(id)) /\ words[w].symbols \in Seq(Ids(id))
      BY <1>2, WordType
    <3>2. p \notin AdjacentPairs(words[w].symbols)
      BY <1>1, <2>1 DEF CountsExact
    <3>3. Replaced(words[w].symbols, p, id) = words[w].symbols
      BY <3>1, <3>2, ReplacedNothing
    <3>. QED BY <3>1, <3>3 DEF WordOver
  <2>2. Settled' = [w \in DOMAIN words |->
                     IF w \in index[p]
                     THEN [words[w] EXCEPT !.symbols = Replaced(words[w].symbols, p, id)]
                     ELSE words[w]]
    <3>. HIDE DEF id
    <3>. QED BY <1>1, <1>4 DEF Settled
  <2>. QED BY <2>1, <2>2
<1>6. Promise!Learn(p)
  <2>. HIDE DEF id
  <2>. QED BY <1>1, <1>3, <1>5, SameReplaced, SamePairs DEF Promise!Learn, id
<1>7. Promise!Occurring = PairsOf(words) /\ \A q : Promise!Count(q) = PairCount(words, q)
  BY <1>3, SamePairs, SamePairCount DEF Promise!Occurring, Promise!Count
<1>8. /\ PairsOf(words) \subseteq DOMAIN queue
      /\ \A q \in PairsOf(words) : queue[q] = PairCount(words, q)
      /\ p \notin PairsOf(words) => queue[p] <= 0
  BY <1>1 DEF CountsExact
<1>9. ASSUME NEW q \in PairsOf(words)
      PROVE  queue[q] < queue[p] \/ (queue[q] = queue[p] /\ ~Wins(rule, symbols, q, p))
  BY <1>1, <1>8 DEF IsMost
<1>10. CASE p \in PairsOf(words)
  <2>1. ASSUME NEW q \in PairsOf(words)
        PROVE  \/ Promise!Count(p) > Promise!Count(q)
               \/ Promise!Count(p) = Promise!Count(q) /\ ~Promise!Wins(rule, symbols, q, p)
    <3>1. Promise!Count(p) = queue[p] /\ Promise!Count(q) = queue[q]
          /\ queue[p] \in Int /\ queue[q] \in Int
      BY <1>2, <1>7, <1>8, <1>10
    <3>2. Promise!Wins(rule, symbols, q, p) = Wins(rule, symbols, q, p)
      BY SamePairs
    <3>. QED BY <1>9, <3>1, <3>2
  <2>2. Promise!LearnBest(p)
    BY <1>6, <1>7, <1>10, <2>1 DEF Promise!LearnBest
  <2>. QED BY <1>7, <1>10, <2>2 DEF Promise!Next
<1>11. CASE p \notin PairsOf(words)
  <2>1. ASSUME NEW q \in PairsOf(words) PROVE FALSE
    <3>1. PairCount(words, q) >= 1
      BY <1>2, PairCountPositive
    <3>2. queue[q] = PairCount(words, q) /\ queue[q] \in Int /\ queue[p] \in Int /\ queue[p] <= 0
      BY <1>2, <1>8, <1>11
    <3>. QED BY <1>9, <3>1, <3>2
  <2>2. Promise!LearnNothing(p)
    BY <1>6, <1>7, <2>1 DEF Promise!LearnNothing
  <2>3. p \in (0 .. Len(symbols) - 1) \X (0 .. Len(symbols) - 1)
    BY <1>2 DEF Ids
  <2>. QED BY <2>2, <2>3 DEF Promise!Next
<1>. QED BY <1>10, <1>11

Seen == <<units, rule, Settled, symbols, learned>>

(* An update brings its word to where it was expected.                     *)
LEMMA UpdateOneSettled ==
  ASSUME IInv, NEW w \in todo, UpdateOne(w)
  PROVE  UNCHANGED Seen
<1>. DEFINE n == Len(symbols) - 1
            s == words[w].symbols
            u == UpdateWord(s, pair, n)
<1>1. /\ pc = "update" /\ symbols' = symbols /\ units' = units /\ rule' = rule
      /\ pair' = pair /\ todo' = todo \ {w} /\ learned' = learned
      /\ words' = [words EXCEPT ![w] = [words[w] EXCEPT !.symbols = u.symbols]]
  BY DEF UpdateOne
<1>2. /\ pair \in Ids(n) \X Ids(n) /\ todo \subseteq DOMAIN words /\ s \in Seq(Ids(n))
      /\ Len(symbols) \in Nat /\ words \in Seq(WordOver(Ids(Len(symbols))))
  BY <1>1 DEF IInv, TrainerTypes, Updating, Fresh
<1>3. n \in Nat
  <2>1. pair[1] \in 0 .. n - 1
    BY <1>2 DEF Ids
  <2>. QED BY <1>2, <2>1
<1>4. u.symbols = Replaced(s, pair, n)
  <2>. HIDE DEF n, s
  <2>. QED BY <1>2, <1>3, UpdateWordReplaces
<1>. HIDE DEF u
<1>5. Settled' = Settled
  <2>1. DOMAIN words' = DOMAIN words /\ w \in DOMAIN words
    BY <1>1, <1>2
  <2>2. ASSUME NEW v \in DOMAIN words
        PROVE  (IF v \in todo'
                THEN [words'[v] EXCEPT !.symbols = Replaced(words'[v].symbols, pair, n)]
                ELSE words'[v])
                 = (IF v \in todo
                    THEN [words[v] EXCEPT !.symbols = Replaced(words[v].symbols, pair, n)]
                    ELSE words[v])
    <3>1. CASE v = w
      <4>1. words'[v] = [words[w] EXCEPT !.symbols = Replaced(s, pair, n)] /\ v \notin todo'
        BY <1>1, <1>4, <2>1, <3>1
      <4>. QED BY <3>1, <4>1
    <3>2. CASE v # w
      <4>1. words'[v] = words[v] /\ (v \in todo' <=> v \in todo)
        BY <1>1, <2>1, <3>2
      <4>. QED BY <4>1
    <3>. QED BY <3>1, <3>2
  <2>. QED BY <1>1, <2>1, <2>2 DEF Settled
<1>. QED BY <1>1, <1>5 DEF Seen

(* Units resume where replaying all merges on them would bring them.       *)
LEMMA ResumeResumes ==
  ASSUME SpecialsApart, IInv, Trained, Resume
  PROVE  Promise!Resume
<1>1. /\ pc = "pick" /\ symbols' = symbols /\ learned' = learned /\ units' = units /\ rule' = rule
      /\ todo' = todo
      /\ words' = [u \in DOMAIN units |->
            [symbols |-> SimpleBpeMerge(MergeMap, units[u].symbols), count |-> units[u].count]]
  BY DEF Resume, update
<1>2. IInv' /\ todo' = {}
  BY <1>1, ResumeInv DEF IInv, Updating
<1>3. Settled' = words'
  <2>1. words' = [w \in DOMAIN words' |-> words'[w]]
    BY <1>1
  <2>. QED BY <1>2, <2>1 DEF Settled
<1>4. ASSUME NEW u \in DOMAIN units
      PROVE  SimpleBpeMerge(MergeMap, units[u].symbols) = Promise!Replayed(units[u].symbols, learned)
  <2>. DEFINE e == units[u].symbols
  <2>1. e \in Texts /\ Learning(learned, symbols) /\ Listed
    BY DEF Trained
  <2>2. e \in Seq(Bytes)
    BY <2>1, TextsTyped
  <2>. HIDE DEF e
  <2>3. SimpleBpeMerge(MergeMap, e) = Replayed(e, learned)
    BY <2>1, <2>2, MergingReplays
  <2>. QED BY <2>3, SameReplaced DEF e
<1>. QED BY <1>1, <1>3, <1>4 DEF Promise!Resume

LEMMA StepsLearn ==
  ASSUME SpecialsApart, IInv, CountsExact, Trained, [Next]_vars
  PROVE  [Promise!Next]_Seen
<1>1. ASSUME NEW p \in DOMAIN queue, Pick(p) PROVE Promise!Next
  BY <1>1, PickLearns
<1>2. ASSUME NEW w \in todo, UpdateOne(w) PROVE UNCHANGED Seen
  BY <1>2, UpdateOneSettled
<1>3. CASE Apply
  <2>1. todo = {} /\ todo' = {} /\ words' = words /\ symbols' = symbols /\ units' = units
        /\ rule' = rule /\ learned' = learned
    BY <1>3 DEF Apply
  <2>. QED BY <2>1 DEF Seen, Settled
<1>4. CASE Resume
  BY <1>4, ResumeResumes DEF Promise!Next
<1>5. CASE Finish
  BY <1>5 DEF Finish, update, Seen, Settled
<1>6. CASE UNCHANGED vars
  BY <1>6 DEF vars, update, Seen, Settled
<1>. QED BY <1>1, <1>2, <1>3, <1>4, <1>5, <1>6 DEF Next

(* Training with a queue and an index, both only ever changed by what a    *)
(* merge changes, with the words of a merge updated one by one and with    *)
(* units resumed by the list of merges, is training that counts all words  *)
(* afresh, merges in all at once, and replays its merges on the units.     *)
THEOREM TrainingRecounts ==
  ASSUME SpecialsApart
  PROVE  Spec => RecountSpec
<1>1. Init => Promise!Init
  BY SettledStart
<1>2. IInv /\ CountsExact /\ Trained /\ [Next]_vars => [Promise!Next]_Seen
  BY StepsLearn
<1>3. Spec => []IInv
  BY TrainerInv
<1>4. Spec => []CountsExact
  BY CountsStayExact
<1>5. Spec => []Trained
  BY TrainedInv
<1>. QED BY <1>1, <1>2, <1>3, <1>4, <1>5, PTL DEF Spec, RecountSpec, Promise!Spec, Seen
=============================================================================
