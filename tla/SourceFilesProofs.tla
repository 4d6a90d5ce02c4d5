-------------------------- MODULE SourceFilesProofs --------------------------
(***************************************************************************)
(* Proofs about the readers of SourceFiles, for every file, every way to   *)
(* cut it into regions, and every interleaving of the iterators.           *)
(*                                                                         *)
(* The iterators are compared with sets that no iterator is needed to      *)
(* define: the pieces of a text and the lines of a JSONL file.  An         *)
(* iterator has yielded, in order, exactly those it has passed.            *)
(***************************************************************************)
EXTENDS SourceFiles, SequencesExt, SequenceTheorems, WellFoundedInduction, TLAPS

(* Sets of numbers have a least element; induction below is by the least   *)
(* counterexample.                                                         *)
LEMMA LeastNumber ==
  ASSUME NEW S \in SUBSET Nat, S # {}
  PROVE  \E m \in S : \A k \in S : m <= k
<1>. DEFINE R == OpToRel(<, Nat)
<1>1. IsWellFoundedOn(R, Nat)
  BY NatLessThanWellFounded
<1>2. \A k, m \in Nat : k < m => <<k, m>> \in R
  BY DEF OpToRel
<1>. HIDE DEF R
<1>3. PICK m \in S : \A k \in S : ~(<<k, m>> \in R)
  BY <1>1, WFMin
<1>4. \A k \in S : ~(k < m)
  BY <1>2, <1>3
<1>5. \A k \in S : k \in Nat /\ m \in Nat
  OBVIOUS
<1>. QED
  BY <1>4, <1>5

------------------------------------------------------------------------------
(* Sequences of ranges.                                                    *)

Spans == Nat \X Nat

Has(q, d) == \E i \in 1 .. Len(q) : q[i] = d

(* The ranges of q are not empty, and each begins after those before it.   *)
Spread(q) ==
  /\ \A i \in 1 .. Len(q) : q[i][1] < q[i][2]
  /\ \A i, j \in 1 .. Len(q) : i < j => q[i][2] <= q[j][1]

(* The ranges of q begin in rising order. *)
LEMMA SpreadRises ==
  ASSUME NEW q \in Seq(Spans), Spread(q),
         NEW i \in 1 .. Len(q), NEW j \in 1 .. Len(q)
  PROVE  /\ i < j => q[i][1] < q[j][1]
         /\ q[i][1] < q[j][1] => i < j
<1>1. /\ Len(q) \in Nat
      /\ q[i] \in Spans /\ q[j] \in Spans
  BY ElementOfSeq, LenProperties
<1>2. /\ q[i][1] \in Nat /\ q[i][2] \in Nat /\ q[j][1] \in Nat /\ q[j][2] \in Nat
  BY <1>1 DEF Spans
<1>3. /\ q[i][1] < q[i][2] /\ q[j][1] < q[j][2]
      /\ i < j => q[i][2] <= q[j][1]
      /\ j < i => q[j][2] <= q[i][1]
  BY DEF Spread
<1>. QED
  BY <1>1, <1>2, <1>3

(* Appending a range that begins after all others keeps the order.         *)
LEMMA SpreadAppend ==
  ASSUME NEW q \in Seq(Spans), Spread(q), NEW d \in Spans, d[1] < d[2],
         \A e \in Spans : Has(q, e) => e[2] <= d[1]
  PROVE  /\ Append(q, d) \in Seq(Spans)
         /\ Spread(Append(q, d))
         /\ \A e : Has(Append(q, d), e) <=> Has(q, e) \/ e = d
<1>. DEFINE r == Append(q, d)
<1>1. /\ r \in Seq(Spans)
      /\ Len(q) \in Nat
      /\ Len(r) = Len(q) + 1
      /\ \A i \in 1 .. Len(q) : r[i] = q[i]
      /\ r[Len(q) + 1] = d
  BY AppendProperties, LenProperties
<1>2. \A i \in 1 .. Len(q) : q[i] \in Spans
  BY ElementOfSeq
<1>. HIDE DEF r
<1>3. \A i \in 1 .. Len(q) : q[i][2] <= d[1]
  BY <1>2 DEF Has
<1>4. \A i \in 1 .. Len(r) : i \in 1 .. Len(q) \/ i = Len(q) + 1
  BY <1>1
<1>5. \A i \in 1 .. Len(r) : r[i][1] < r[i][2]
  BY <1>1, <1>4 DEF Spread
<1>6. ASSUME NEW i \in 1 .. Len(r), NEW j \in 1 .. Len(r), i < j
      PROVE  r[i][2] <= r[j][1]
  <2>1. i \in 1 .. Len(q)
    BY <1>1, <1>6
  <2>2. CASE j \in 1 .. Len(q)
    BY <1>1, <1>6, <2>1, <2>2 DEF Spread
  <2>3. CASE j = Len(q) + 1
    BY <1>1, <1>3, <2>1, <2>3
  <2>. QED
    BY <1>4, <2>2, <2>3
<1>7. ASSUME NEW e
      PROVE  Has(r, e) <=> Has(q, e) \/ e = d
  <2>1. Has(r, e) => Has(q, e) \/ e = d
    BY <1>1, <1>4 DEF Has
  <2>2. Has(q, e) => Has(r, e)
    BY <1>1 DEF Has
  <2>3. e = d => Has(r, e)
    BY <1>1 DEF Has
  <2>. QED
    BY <2>1, <2>2, <2>3
<1>. QED
  BY <1>1, <1>5, <1>6, <1>7 DEF Spread, r

(* A sequence in order whose ranges are the first ones of another is its   *)
(* prefix.                                                                 *)
LEMMA SpreadPrefix ==
  ASSUME NEW s \in Seq(Spans), Spread(s), NEW t \in Seq(Spans), Spread(t),
         \A d \in Spans : Has(s, d) => Has(t, d),
         \A d, e \in Spans : Has(t, d) /\ Has(s, e) /\ d[1] <= e[1] => Has(s, d)
  PROVE  /\ Len(s) <= Len(t)
         /\ \A i \in 1 .. Len(s) : s[i] = t[i]
<1>. DEFINE Good(i) == i <= Len(t) /\ s[i] = t[i]
            Bad == {i \in 1 .. Len(s) : ~Good(i)}
<1>1. /\ Len(s) \in Nat /\ Len(t) \in Nat
      /\ \A i \in 1 .. Len(s) : s[i] \in Spans
      /\ \A i \in 1 .. Len(t) : t[i] \in Spans
  BY ElementOfSeq, LenProperties
<1>2. ASSUME NEW i \in 1 .. Len(s), \A j \in 1 .. Len(s) : j < i => Good(j)
      PROVE  Good(i)
  <2>1. Has(s, s[i]) /\ s[i] \in Spans
    BY <1>1 DEF Has
  <2>2. PICK m \in 1 .. Len(t) : t[m] = s[i]
    BY <2>1 DEF Has
  <2>3. ASSUME m < i PROVE FALSE
    <3>1. m \in 1 .. Len(s) /\ s[m] = t[m]
      BY <1>1, <1>2, <2>3
    <3>2. s[m][1] < s[i][1]
      BY <2>3, <3>1, SpreadRises
    <3>3. s[m] = s[i] /\ s[i][1] \in Nat
      BY <2>1, <2>2, <3>1 DEF Spans
    <3>. QED
      BY <3>2, <3>3
  <2>4. i \in 1 .. Len(t)
    BY <1>1, <2>3
  <2>5. ASSUME i < m PROVE FALSE
    <3>1. t[i][1] < t[m][1]
      BY <2>4, <2>5, SpreadRises
    <3>2. Has(t, t[i]) /\ t[i] \in Spans /\ t[i][1] \in Nat /\ s[i][1] \in Nat
      BY <1>1, <2>4 DEF Has, Spans
    <3>3. t[i][1] < s[i][1]
      BY <2>2, <3>1
    <3>4. Has(s, t[i])
      BY <2>1, <3>2, <3>3
    <3>5. PICK j \in 1 .. Len(s) : s[j] = t[i]
      BY <3>4 DEF Has
    <3>6. s[j][1] < s[i][1]
      BY <3>3, <3>5
    <3>7. j < i
      BY <3>6, SpreadRises
    <3>8. j \in 1 .. Len(t) /\ s[j] = t[j]
      BY <1>1, <1>2, <3>7
    <3>9. t[j][1] < t[i][1]
      BY <2>4, <3>7, <3>8, SpreadRises
    <3>. QED
      BY <3>2, <3>5, <3>8, <3>9
  <2>6. m = i
    BY <1>1, <2>3, <2>5
  <2>. QED
    BY <1>1, <2>2, <2>4, <2>6
<1>. HIDE DEF Good
<1>3. Bad = {}
  <2>. SUFFICES ASSUME Bad # {} PROVE FALSE
    OBVIOUS
  <2>1. Bad \in SUBSET Nat
    BY <1>1
  <2>2. PICK i \in Bad : \A k \in Bad : i <= k
    <3>. HIDE DEF Bad
    <3>. QED BY <2>1, LeastNumber
  <2>3. \A j \in 1 .. Len(s) : j < i => Good(j)
    BY <1>1, <2>2
  <2>. QED
    BY <1>2, <2>2, <2>3
<1>4. \A i \in 1 .. Len(s) : Good(i)
  BY <1>3
<1>5. \A i \in 1 .. Len(s) : i <= Len(t) /\ s[i] = t[i]
  BY <1>4 DEF Good
<1>6. Len(s) <= Len(t)
  <2>1. CASE Len(s) = 0
    BY <1>1, <2>1
  <2>2. CASE Len(s) # 0
    BY <1>1, <1>5, <2>2
  <2>. QED BY <2>1, <2>2
<1>. QED
  BY <1>5, <1>6

(* Two sequences in order with the same ranges are the same.               *)
LEMMA SpreadEqual ==
  ASSUME NEW s \in Seq(Spans), Spread(s), NEW t \in Seq(Spans), Spread(t),
         \A d \in Spans : Has(s, d) <=> Has(t, d)
  PROVE  s = t
<1>1. Len(s) <= Len(t) /\ \A i \in 1 .. Len(s) : s[i] = t[i]
  BY SpreadPrefix
<1>2. Len(t) <= Len(s)
  BY SpreadPrefix
<1>3. Len(s) \in Nat /\ Len(t) \in Nat
  BY LenProperties
<1>4. Len(s) = Len(t)
  BY <1>1, <1>2, <1>3
<1>. QED
  BY <1>1, <1>4, SeqEqual

(* The concatenation of sequences: the partial concatenations of           *)
(* FlattenSeq, as the function it is defined by.                           *)
IsConcat(g, qs, n) ==
  g = [i \in 1 .. n |-> IF i = 1 THEN qs[i] ELSE g[i - 1] \o qs[i]]

LEMMA ConcatExists ==
  ASSUME NEW qs, NEW n \in Nat
  PROVE  \E g : IsConcat(g, qs, n)
<1>. DEFINE Bad == {m \in Nat : ~ \E g : IsConcat(g, qs, m)}
<1>1. SUFFICES ASSUME n \in Bad PROVE FALSE
  OBVIOUS
<1>. HIDE DEF Bad
<1>2. PICK m \in Bad : \A k \in Bad : m <= k
  <2>1. Bad \in SUBSET Nat
    BY DEF Bad
  <2>. QED BY <1>1, <2>1, LeastNumber
<1>3. m \in Nat /\ ~ \E g : IsConcat(g, qs, m)
  BY <1>2 DEF Bad
<1>4. CASE m = 0
  <2>1. IsConcat([i \in 1 .. 0 |-> IF i = 1 THEN qs[i] ELSE <<>>], qs, 0)
    BY DEF IsConcat
  <2>. QED BY <2>1, <1>3, <1>4
<1>5. CASE m > 0
  <2>1. m - 1 \in Nat /\ m - 1 \notin Bad
    BY <1>2, <1>3, <1>5
  <2>2. PICK g : IsConcat(g, qs, m - 1)
    BY <2>1 DEF Bad
  <2>. DEFINE h == [i \in 1 .. m |-> IF i = 1 THEN qs[i] ELSE g[i - 1] \o qs[i]]
  <2>3. ASSUME NEW i \in 1 .. m - 1 PROVE h[i] = g[i]
    <3>1. i \in 1 .. m  BY <1>3
    <3>2. g[i] = IF i = 1 THEN qs[i] ELSE g[i - 1] \o qs[i]
      BY <2>2 DEF IsConcat
    <3>. QED BY <3>1, <3>2
  <2>4. \A i \in 1 .. m : i # 1 => i - 1 \in 1 .. m - 1
    BY <1>3
  <2>5. h = [i \in 1 .. m |-> IF i = 1 THEN qs[i] ELSE h[i - 1] \o qs[i]]
    <3>. HIDE DEF h
    <3>1. \A i \in 1 .. m : i # 1 => h[i - 1] = g[i - 1]
      BY <2>3, <2>4
    <3>2. h = [i \in 1 .. m |-> IF i = 1 THEN qs[i] ELSE g[i - 1] \o qs[i]]
      BY DEF h
    <3>. QED BY <3>1, <3>2
  <2>. QED BY <2>5, <1>3 DEF IsConcat
<1>. QED BY <1>3, <1>4, <1>5

LEMMA FlattenIsConcat ==
  ASSUME NEW qs, Len(qs) \in Nat, Len(qs) # 0
  PROVE  \E g : IsConcat(g, qs, Len(qs)) /\ FlattenSeq(qs) = g[Len(qs)]
<1>. DEFINE c == CHOOSE g : IsConcat(g, qs, Len(qs))
<1>1. IsConcat(c, qs, Len(qs))
  BY ConcatExists
<1>2. FlattenSeq(qs) = c[Len(qs)]
  BY DEF FlattenSeq, IsConcat
<1>. QED BY <1>1, <1>2

(* Joining two sequences in order, the second of which begins after the    *)
(* first has ended.                                                        *)
LEMMA SpreadConcat ==
  ASSUME NEW s \in Seq(Spans), Spread(s), NEW t \in Seq(Spans), Spread(t),
         \A d, e \in Spans : Has(s, d) /\ Has(t, e) => d[2] <= e[1]
  PROVE  /\ s \o t \in Seq(Spans)
         /\ Spread(s \o t)
         /\ \A d : Has(s \o t, d) <=> Has(s, d) \/ Has(t, d)
<1>. DEFINE r == s \o t
            n == Len(s)
            m == Len(t)
<1>1. /\ r \in Seq(Spans) /\ n \in Nat /\ m \in Nat
      /\ Len(r) = n + m
      /\ \A i \in 1 .. n + m : r[i] = IF i <= n THEN s[i] ELSE t[i - n]
  BY ConcatProperties, LenProperties
<1>2. /\ \A i \in 1 .. n : s[i] \in Spans /\ Has(s, s[i])
      /\ \A i \in 1 .. m : t[i] \in Spans /\ Has(t, t[i])
  BY ElementOfSeq DEF Has
<1>3. /\ \A i \in 1 .. n : s[i][1] < s[i][2]
      /\ \A i \in 1 .. m : t[i][1] < t[i][2]
      /\ \A i, j \in 1 .. n : i < j => s[i][2] <= s[j][1]
      /\ \A i, j \in 1 .. m : i < j => t[i][2] <= t[j][1]
  BY DEF Spread
<1>4. \A d : Has(s, d) <=> \E i \in 1 .. n : s[i] = d
  BY DEF Has
<1>5. \A d : Has(t, d) <=> \E i \in 1 .. m : t[i] = d
  BY DEF Has
<1>. HIDE DEF r, n, m
<1>6. \A i \in 1 .. n + m : \/ i \in 1 .. n /\ r[i] = s[i]
                            \/ i - n \in 1 .. m /\ i > n /\ r[i] = t[i - n]
  BY <1>1
<1>7. \A i \in 1 .. n + m : r[i][1] < r[i][2]
  BY <1>3, <1>6
<1>8. ASSUME NEW i \in 1 .. n + m, NEW j \in 1 .. n + m, i < j
      PROVE  r[i][2] <= r[j][1]
  <2>1. CASE i <= n /\ j <= n
    BY <1>1, <1>3, <1>8, <2>1
  <2>2. CASE i <= n /\ j > n
    <3>1. i \in 1 .. n /\ j - n \in 1 .. m /\ r[i] = s[i] /\ r[j] = t[j - n]
      BY <1>1, <2>2
    <3>. QED BY <1>2, <3>1
  <2>3. CASE i > n
    <3>1. i - n \in 1 .. m /\ j - n \in 1 .. m /\ r[i] = t[i - n] /\ r[j] = t[j - n]
      BY <1>1, <1>8, <2>3
    <3>2. i - n < j - n
      BY <1>1, <1>8
    <3>. QED BY <1>3, <3>1, <3>2
  <2>. QED BY <1>1, <2>1, <2>2, <2>3
<1>9. ASSUME NEW d
      PROVE  Has(r, d) <=> Has(s, d) \/ Has(t, d)
  <2>1. Has(r, d) <=> \E i \in 1 .. n + m : r[i] = d
    BY <1>1 DEF Has
  <2>2. ASSUME NEW i \in 1 .. n, s[i] = d PROVE \E l \in 1 .. n + m : r[l] = d
    <3>1. i \in 1 .. n + m /\ i <= n
      BY <1>1
    <3>. QED BY <1>1, <2>2, <3>1
  <2>3. ASSUME NEW i \in 1 .. m, t[i] = d PROVE \E l \in 1 .. n + m : r[l] = d
    <3>1. i + n \in 1 .. n + m /\ ~(i + n <= n) /\ (i + n) - n = i
      BY <1>1
    <3>2. r[i + n] = t[(i + n) - n]
      BY <1>1, <3>1
    <3>. QED BY <2>3, <3>1, <3>2
  <2>4. (\E i \in 1 .. n + m : r[i] = d) => Has(s, d) \/ Has(t, d)
    BY <1>4, <1>5, <1>6
  <2>. QED BY <1>4, <1>5, <2>1, <2>2, <2>3, <2>4
<1>10. Spread(r)
  BY <1>1, <1>7, <1>8 DEF Spread
<1>. QED
  BY <1>1, <1>9, <1>10 DEF r

(* A list of sequences, each in order and begun after those before it have *)
(* ended, is in order when it is flattened, and loses no range.            *)
InTurn(qs) ==
  /\ \A i \in 1 .. Len(qs) : qs[i] \in Seq(Spans) /\ Spread(qs[i])
  /\ \A i, j \in 1 .. Len(qs) : i < j =>
       \A d, e \in Spans : Has(qs[i], d) /\ Has(qs[j], e) => d[2] <= e[1]

LEMMA FlattenSpread ==
  ASSUME NEW qs, Len(qs) \in Nat, Len(qs) # 0, InTurn(qs)
  PROVE  /\ FlattenSeq(qs) \in Seq(Spans)
         /\ Spread(FlattenSeq(qs))
         /\ \A d \in Spans :
              Has(FlattenSeq(qs), d) <=> \E i \in 1 .. Len(qs) : Has(qs[i], d)
<1>. DEFINE n == Len(qs)
<1>1. PICK g : IsConcat(g, qs, n) /\ FlattenSeq(qs) = g[n]
  BY FlattenIsConcat
<1>2. n \in Nat /\ n # 0
  OBVIOUS
<1>3. /\ \A i \in 1 .. n : qs[i] \in Seq(Spans) /\ Spread(qs[i])
      /\ \A i, j \in 1 .. n : i < j =>
           \A d, e \in Spans : Has(qs[i], d) /\ Has(qs[j], e) => d[2] <= e[1]
  BY DEF InTurn
<1>. HIDE DEF n
<1>4. /\ g[1] = qs[1]
      /\ \A i \in 1 .. n : i # 1 => g[i] = g[i - 1] \o qs[i]
  <2>1. \A i \in 1 .. n : g[i] = IF i = 1 THEN qs[i] ELSE g[i - 1] \o qs[i]
    BY <1>1 DEF IsConcat
  <2>2. 1 \in 1 .. n
    BY <1>2
  <2>3. g[1] = qs[1]
    BY <2>1, <2>2
  <2>4. ASSUME NEW i \in 1 .. n, i # 1 PROVE g[i] = g[i - 1] \o qs[i]
    BY <2>1, <2>4
  <2>. QED BY <2>3, <2>4
<1>. DEFINE Good(m) == /\ g[m] \in Seq(Spans)
                       /\ Spread(g[m])
                       /\ \A d \in Spans : Has(g[m], d) <=> \E i \in 1 .. m : Has(qs[i], d)
            Bad == {m \in 1 .. n : ~Good(m)}
<1>5. Good(1)
  <2>1. 1 \in 1 .. n
    BY <1>2
  <2>2. \A i \in 1 .. 1 : i = 1
    OBVIOUS
  <2>3. 1 \in 1 .. 1
    OBVIOUS
  <2>4. \A d \in Spans : Has(g[1], d) <=> \E i \in 1 .. 1 : Has(qs[i], d)
    BY <1>4, <2>2, <2>3
  <2>. QED BY <1>3, <1>4, <2>1, <2>4
<1>6. ASSUME NEW m \in 1 .. n, m # 1, Good(m - 1)
      PROVE  Good(m)
  <2>1. /\ g[m] = g[m - 1] \o qs[m]
        /\ qs[m] \in Seq(Spans) /\ Spread(qs[m])
        /\ g[m - 1] \in Seq(Spans) /\ Spread(g[m - 1])
    BY <1>3, <1>4, <1>6
  <2>2. \A i \in 1 .. m - 1 : i \in 1 .. n /\ i < m
    BY <1>2
  <2>3. \A d \in Spans : Has(g[m - 1], d) <=> \E i \in 1 .. m - 1 : Has(qs[i], d)
    BY <1>6
  <2>4. \A d, e \in Spans : Has(g[m - 1], d) /\ Has(qs[m], e) => d[2] <= e[1]
    BY <1>3, <2>2, <2>3
  <2>5. /\ g[m] \in Seq(Spans)
        /\ Spread(g[m])
        /\ \A d : Has(g[m], d) <=> Has(g[m - 1], d) \/ Has(qs[m], d)
    BY <2>1, <2>4, SpreadConcat
  <2>6. ASSUME NEW d \in Spans
        PROVE  Has(g[m], d) <=> \E i \in 1 .. m : Has(qs[i], d)
    <3>1. \A i \in 1 .. m : i \in 1 .. m - 1 \/ i = m
      BY <1>2
    <3>2. \A i \in 1 .. m - 1 : i \in 1 .. m
      BY <1>2
    <3>3. m \in 1 .. m
      BY <1>2
    <3>. QED BY <2>3, <2>5, <3>1, <3>2, <3>3
  <2>. QED BY <2>5, <2>6
<1>. HIDE DEF Good
<1>7. Bad = {}
  <2>. SUFFICES ASSUME Bad # {} PROVE FALSE
    OBVIOUS
  <2>1. Bad \in SUBSET Nat
    BY <1>2
  <2>2. PICK m \in Bad : \A k \in Bad : m <= k
    <3>. HIDE DEF Bad
    <3>. QED BY <2>1, LeastNumber
  <2>3. m \in 1 .. n /\ ~Good(m) /\ m # 1
    BY <1>5, <2>2
  <2>4. m - 1 \in 1 .. n /\ m - 1 \notin Bad
    BY <1>2, <2>2, <2>3
  <2>. QED BY <1>6, <2>3, <2>4
<1>8. Good(n)
  BY <1>2, <1>7
<1>. QED BY <1>1, <1>8 DEF Good, n

------------------------------------------------------------------------------
(* Occurrences of a separator, and the pieces of a text between them.      *)

(* The separator s occurs in the text f at offset p; an empty one never.   *)
Occurs(f, s, p) ==
  /\ Len(s) > 0 /\ p \in Nat /\ p + Len(s) <= Len(f)
  /\ SubSeq(f, p + 1, p + Len(s)) = s

(* No occurrence lies between the offsets a and b. *)
Clear(f, s, a, b) == \A p \in Nat : Occurs(f, s, p) => ~(a <= p /\ p + Len(s) <= b)

(* A piece of the text may begin at offset p, or end there. *)
Begins(f, s, p) == p = 0 \/ (p >= Len(s) /\ Occurs(f, s, p - Len(s)))
Ends(f, s, p) == p = Len(f) \/ Occurs(f, s, p)

Piece(f, s, d) ==
  /\ d[1] < d[2] /\ d[2] <= Len(f)
  /\ Clear(f, s, d[1], d[2])
  /\ Begins(f, s, d[1])
  /\ Ends(f, s, d[2])

Strings(f, s) ==
  /\ f \in Seq(TextBytes) /\ s \in Seq(TextBytes)
  /\ Len(f) \in Nat /\ Len(s) \in Nat

(* No two occurrences of s in f share a byte. *)
Apart(f, s) ==
  \A p, q : Occurs(f, s, p) /\ Occurs(f, s, q) /\ p < q => p + Len(s) <= q

LEMMA OccurrencesApart ==
  ASSUME NEW f, NEW s, Apart(f, s),
         NEW p, NEW q, Occurs(f, s, p), Occurs(f, s, q), p < q
  PROVE  p + Len(s) <= q
BY DEF Apart

(* A piece lies on one side of every occurrence. *)
LEMMA PieceAvoids ==
  ASSUME NEW f, NEW s, Strings(f, s), Apart(f, s),
         NEW d \in Spans, Piece(f, s, d), NEW m, Occurs(f, s, m)
  PROVE  d[2] <= m \/ m + Len(s) <= d[1]
<1>. DEFINE L == Len(s)
<1>1. /\ L \in Nat /\ L > 0 /\ m \in Nat /\ d[1] \in Nat /\ d[2] \in Nat
      /\ Len(f) \in Nat /\ m + L <= Len(f)
  BY DEF Strings, Spans, Occurs
<1>2. SUFFICES ASSUME m < d[2], d[1] < m + L PROVE FALSE
  BY <1>1
<1>3. CASE d[1] <= m
  <2>1. d[2] < m + L
    BY <1>1, <1>3 DEF Piece, Clear
  <2>2. Occurs(f, s, d[2])
    BY <1>1, <2>1 DEF Piece, Ends
  <2>3. m + L <= d[2]
    BY <1>2, <2>2, OccurrencesApart
  <2>. QED BY <1>1, <2>1, <2>3
<1>4. CASE m < d[1]
  <2>1. d[1] >= L /\ Occurs(f, s, d[1] - L)
    BY <1>1, <1>4 DEF Piece, Begins
  <2>2. d[1] - L < m
    BY <1>1, <1>2
  <2>3. (d[1] - L) + L <= m
    BY <2>1, <2>2, OccurrencesApart
  <2>. QED BY <1>1, <1>4, <2>3
<1>. QED BY <1>1, <1>3, <1>4

(* What DocumentIter finds from an offset where a piece may begin.         *)
LEMMA PieceTo ==
  ASSUME NEW f, NEW s, Strings(f, s),
         NEW a \in Nat, NEW m, a < m, Begins(f, s, a), Occurs(f, s, m),
         Clear(f, s, a, m + Len(s) - 1)
  PROVE  Piece(f, s, <<a, m>>)
<1>1. /\ Len(s) \in Nat /\ Len(s) > 0 /\ m \in Nat /\ Len(f) \in Nat
      /\ m + Len(s) <= Len(f)
  BY DEF Strings, Occurs
<1>2. Clear(f, s, a, m)
  BY <1>1 DEF Clear
<1>. QED BY <1>1, <1>2 DEF Piece, Ends

(* Of separators that are apart: the pieces that end before the separator  *)
(* after the one at hand.                                                  *)
LEMMA PiecesUpTo ==
  ASSUME NEW f, NEW s, Strings(f, s), Apart(f, s),
         NEW a \in Nat, NEW m, a <= m, Begins(f, s, a), Occurs(f, s, m),
         Clear(f, s, a, m + Len(s) - 1)
  PROVE  /\ a < m => Piece(f, s, <<a, m>>)
         /\ \A d \in Spans : Piece(f, s, d) /\ a < d[2] /\ d[2] <= m + Len(s)
              => a < m /\ d = <<a, m>>
<1>. DEFINE L == Len(s)
<1>1. /\ L \in Nat /\ L > 0 /\ m \in Nat /\ Len(f) \in Nat /\ m + L <= Len(f)
  BY DEF Strings, Occurs
<1>2. ASSUME a < m PROVE Piece(f, s, <<a, m>>)
  BY <1>2, PieceTo
<1>3. ASSUME NEW d \in Spans, Piece(f, s, d), a < d[2], d[2] <= m + L
      PROVE  a < m /\ d = <<a, m>>
  <2>1. d[1] \in Nat /\ d[2] \in Nat /\ d[1] < d[2]
    BY <1>3 DEF Spans, Piece
  <2>2. d[2] <= m
    BY <1>1, <1>3, <2>1, PieceAvoids
  <2>3. a <= d[1]
    <3>1. CASE a = 0
      BY <2>1, <3>1
    <3>2. CASE a # 0
      <4>1. a >= L /\ Occurs(f, s, a - L)
        BY <3>2 DEF Begins
      <4>2. d[2] <= a - L \/ (a - L) + L <= d[1]
        BY <1>3, <4>1, PieceAvoids
      <4>. QED BY <1>1, <1>3, <2>1, <4>1, <4>2
    <3>. QED BY <3>1, <3>2
  <2>4. d[1] = a
    <3>. SUFFICES ASSUME a < d[1] PROVE FALSE
      BY <2>1, <2>3
    <3>1. d[1] >= L /\ Occurs(f, s, d[1] - L) /\ d[1] - L \in Nat
      BY <1>1, <1>3, <2>1 DEF Piece, Begins
    <3>2. a <= d[1] - L
      <4>1. CASE a = 0
        BY <3>1, <4>1
      <4>2. CASE a # 0
        <5>1. a >= L /\ Occurs(f, s, a - L)
          BY <4>2 DEF Begins
        <5>2. a - L < d[1] - L
          BY <1>1, <2>1
        <5>3. (a - L) + L <= d[1] - L
          BY <3>1, <5>1, <5>2, OccurrencesApart
        <5>. QED BY <1>1, <2>1, <5>3
      <4>. QED BY <4>1, <4>2
    <3>3. (d[1] - L) + L <= m + L - 1
      BY <1>1, <2>1, <2>2
    <3>. QED BY <3>1, <3>2, <3>3 DEF Clear
  <2>5. d[2] = m
    <3>. SUFFICES ASSUME d[2] < m PROVE FALSE
      BY <1>1, <2>1, <2>2
    <3>1. Occurs(f, s, d[2])
      BY <1>1, <1>3, <2>1 DEF Piece, Ends
    <3>2. a <= d[2] /\ d[2] + L <= m + L - 1
      BY <1>1, <1>3, <2>1
    <3>. QED BY <2>1, <3>1, <3>2 DEF Clear
  <2>6. d = <<d[1], d[2]>>
    BY <1>3 DEF Spans
  <2>. QED BY <1>3, <2>4, <2>5, <2>6
<1>. QED BY <1>2, <1>3

(* A region may end at offset e: the text ends there, or a separator       *)
(* begins or ends there.                                                   *)
Closes(f, s, e) ==
  \/ e = Len(f)
  \/ Occurs(f, s, e)
  \/ e >= Len(s) /\ Occurs(f, s, e - Len(s))

(* What DocumentIter makes of the rest of a region without a separator.    *)
LEMMA PiecesToEnd ==
  ASSUME NEW f, NEW s, Strings(f, s), Apart(f, s),
         NEW a \in Nat, NEW e \in Nat, a < e, e <= Len(f),
         Begins(f, s, a), Closes(f, s, e), Clear(f, s, a, e)
  PROVE  /\ Piece(f, s, <<a, e>>)
         /\ \A d \in Spans : Piece(f, s, d) /\ a < d[2] /\ d[2] <= e => d = <<a, e>>
<1>. DEFINE L == Len(s)
<1>1. L \in Nat /\ Len(f) \in Nat
  BY DEF Strings
<1>2. Ends(f, s, e)
  <2>. SUFFICES ASSUME e >= L, Occurs(f, s, e - L) PROVE FALSE
    BY DEF Ends, Closes
  <2>1. e - L < a
    <3>1. e - L \in Nat /\ (e - L) + L <= e
      BY <1>1 DEF Closes
    <3>. QED BY <1>1, <3>1 DEF Clear
  <2>2. CASE a = 0
    BY <1>1, <2>1, <2>2
  <2>3. CASE a # 0
    <3>1. a >= L /\ Occurs(f, s, a - L) /\ a - L < e - L
      BY <1>1, <2>3 DEF Begins
    <3>2. (a - L) + L <= e - L
      BY <3>1, OccurrencesApart
    <3>. QED BY <1>1, <2>1, <3>2
  <2>. QED BY <2>2, <2>3
<1>3. Piece(f, s, <<a, e>>)
  BY <1>1, <1>2 DEF Piece
<1>4. ASSUME NEW d \in Spans, Piece(f, s, d), a < d[2], d[2] <= e
      PROVE  d = <<a, e>>
  <2>1. d[1] \in Nat /\ d[2] \in Nat /\ d[1] < d[2]
    BY <1>4 DEF Spans, Piece
  <2>2. d[2] = e
    <3>. SUFFICES ASSUME d[2] < e PROVE FALSE
      BY <1>4, <2>1
    <3>1. Occurs(f, s, d[2])
      BY <1>1, <1>4, <2>1 DEF Piece, Ends
    <3>2. <<a, e>> \in Spans /\ <<a, e>>[1] = a /\ <<a, e>>[2] = e
      BY DEF Spans
    <3>3. e <= d[2] \/ d[2] + L <= a
      BY <1>3, <3>1, <3>2, PieceAvoids
    <3>. QED BY <1>1, <1>4, <2>1, <3>3
  <2>3. a <= d[1]
    <3>1. CASE a = 0
      BY <2>1, <3>1
    <3>2. CASE a # 0
      <4>1. a >= L /\ Occurs(f, s, a - L)
        BY <3>2 DEF Begins
      <4>2. d[2] <= a - L \/ (a - L) + L <= d[1]
        BY <1>4, <4>1, PieceAvoids
      <4>. QED BY <1>1, <1>4, <2>1, <4>1, <4>2
    <3>. QED BY <3>1, <3>2
  <2>4. d[1] = a
    <3>. SUFFICES ASSUME a < d[1] PROVE FALSE
      BY <2>1, <2>3
    <3>1. d[1] >= L /\ Occurs(f, s, d[1] - L)
      BY <1>1, <1>4, <2>1 DEF Piece, Begins
    <3>2. <<a, e>> \in Spans /\ <<a, e>>[1] = a /\ <<a, e>>[2] = e
      BY DEF Spans
    <3>3. e <= d[1] - L \/ (d[1] - L) + L <= a
      BY <1>3, <3>1, <3>2, PieceAvoids
    <3>. QED BY <1>1, <1>4, <2>1, <2>2, <3>1, <3>3
  <2>5. d = <<d[1], d[2]>>
    BY <1>4 DEF Spans
  <2>. QED BY <2>2, <2>4, <2>5
<1>. QED BY <1>3, <1>4

------------------------------------------------------------------------------
(* Text in memory: the invariant of DocumentChunks.                        *)

(* A region that ends at e is followed by one that begins at b. *)
Joins(f, s, e, b) ==
  \/ Occurs(f, s, e) /\ b = e + Len(s)
  \/ b = e /\ e >= Len(s) /\ Occurs(f, s, e - Len(s))

Tiled(f, s, rs) ==
  /\ rs \in Seq(Spans)
  /\ \A i \in 1 .. Len(rs) : rs[i][1] <= rs[i][2] /\ rs[i][2] <= Len(f)
  /\ \A i \in 1 .. Len(rs) : Closes(f, s, rs[i][2])
  /\ Len(rs) > 0 => rs[1][1] = 0
  /\ \A i \in 2 .. Len(rs) : Joins(f, s, rs[i - 1][2], rs[i][1])

(* Where the last region ends, and where the next may begin; the probes of *)
(* par_document_chunks only move forward, so their boundaries do as well.  *)
LastTo(rs) == IF rs = <<>> THEN 0 ELSE rs[Len(rs)][2]

CutByTarget(f, s, rs, from) ==
  IF rs = <<>> THEN from = 0
  ELSE Occurs(f, s, LastTo(rs)) /\ from = LastTo(rs) + Len(s)

CutByCount(f, s, rs, n, turn) ==
  /\ turn >= 1
  /\ rs # <<>> => LastTo(rs) >= Len(s) /\ Occurs(f, s, LastTo(rs) - Len(s))
  /\ \A p \in Nat : Occurs(f, s, p) /\ (turn - 1) * (Len(f) \div n) <= p
       => LastTo(rs) <= p + Len(s)

Cutting ==
  /\ rule = "target" => CutByTarget(file, sep, ranges, start)
  /\ rule = "count" => CutByCount(file, sep, ranges, size, start)
  /\ Len(file) = 0 => ranges = <<>>

(* Nothing but a separator follows the last region. *)
Covers(f, s, rs) ==
  /\ rs # <<>>
  /\ LastTo(rs) # Len(f) =>
       Occurs(f, s, LastTo(rs)) /\ LastTo(rs) + Len(s) = Len(f)

FromOf(rs, k) == IF k = 0 THEN 0 ELSE rs[k][1]
ToOf(f, rs, k) == IF k = 0 THEN Len(f) ELSE rs[k][2]

(* An iterator that is at offset p of a region that begins at a has        *)
(* yielded, in order, the pieces in between.                               *)
Yielded(f, s, q, a, p) ==
  /\ Spread(q)
  /\ \A d \in Spans : Has(q, d) <=> Piece(f, s, d) /\ a <= d[1] /\ d[2] <= p

(* Documents of separators that overlap are whole pieces nonetheless, if   *)
(* each region ends where a document may (as those of chunk_ranges do).    *)
AllPieces(f, s, q) == \A d \in Spans : Has(q, d) => Piece(f, s, d)
EndWhole(f, s, rs) == \A i \in 1 .. Len(rs) : Ends(f, s, rs[i][2])

Iterating ==
  /\ iter \in [0 .. Len(ranges) -> Nat]
  /\ docs \in [0 .. Len(ranges) -> Seq(Spans)]
  /\ open \subseteq 0 .. Len(ranges)
  /\ \A k \in 0 .. Len(ranges) :
       /\ FromOf(ranges, k) <= iter[k] /\ iter[k] <= ToOf(file, ranges, k)
       /\ Begins(file, sep, iter[k])
       /\ Apart(file, sep) =>
            Yielded(file, sep, docs[k], FromOf(ranges, k),
                    IF k \in open THEN iter[k] ELSE ToOf(file, ranges, k))
       /\ rule = "target" => AllPieces(file, sep, docs[k])

TextType ==
  /\ file \in Texts /\ sep \in Separators
  /\ rule \in {"target", "count"} /\ size \in Nat \ {0} /\ start \in Nat
  /\ pc \in {"cut", "run"}

TextInv ==
  /\ TextType
  /\ Tiled(file, sep, ranges)
  /\ rule = "target" => EndWhole(file, sep, ranges)
  /\ pc = "cut" => Cutting /\ open = {} /\ iter = <<>> /\ docs = <<>>
  /\ pc = "run" => Covers(file, sep, ranges) /\ Iterating

LEMMA TextStrings ==
  ASSUME file \in Texts, sep \in Separators
  PROVE  Strings(file, sep)
<1>1. file \in Seq(TextBytes) /\ sep \in Seq(TextBytes)
  BY SourcesAssumption DEF Chunks!InputAssumption
<1>2. Len(file) \in Nat /\ Len(sep) \in Nat
  BY <1>1, LenProperties
<1>. QED BY <1>1, <1>2 DEF Strings

(* What memmem looks for and finds, in DocumentChunks. *)
LEMMA HitsAre ==
  ASSUME Strings(file, sep), NEW a \in Nat, NEW b \in Nat, b <= Len(file)
  PROVE  /\ \A p : p \in Chunks!Hits(a, b) <=>
                     a <= p /\ Occurs(file, sep, p) /\ p + Len(sep) <= b
         /\ Chunks!Hits(a, b) = {} <=> Clear(file, sep, a, b)
<1>1. /\ Len(sep) \in Nat /\ Len(file) \in Nat
      /\ sep # <<>> <=> Len(sep) > 0
  BY EmptySeq DEF Strings
<1>2. ASSUME NEW p
      PROVE  p \in Chunks!Hits(a, b) <=>
               a <= p /\ Occurs(file, sep, p) /\ p + Len(sep) <= b
  <2>1. p \in Chunks!Hits(a, b) <=>
          /\ p \in a .. b - Len(sep)
          /\ Len(sep) > 0 /\ SubSeq(file, p + 1, p + Len(sep)) = sep
    BY <1>1 DEF Chunks!Hits, Chunks!MatchAt
  <2>2. p \in a .. b - Len(sep) => /\ p \in Nat /\ a <= p /\ p + Len(sep) <= b
                                   /\ p + Len(sep) <= Len(file)
    BY <1>1
  <2>3. p \in Nat /\ a <= p /\ p + Len(sep) <= b => p \in a .. b - Len(sep)
    BY <1>1
  <2>. QED BY <2>1, <2>2, <2>3 DEF Occurs
<1>3. Chunks!Hits(a, b) = {} <=> Clear(file, sep, a, b)
  <2>1. \A p : Occurs(file, sep, p) => p \in Nat
    BY DEF Occurs
  <2>. QED BY <1>2, <2>1 DEF Clear
<1>. QED BY <1>2, <1>3

LEMMA FirstIs ==
  ASSUME Strings(file, sep), NEW a \in Nat, NEW b \in Nat, b <= Len(file),
         Chunks!Hits(a, b) # {}
  PROVE  /\ Chunks!First(a, b) \in Nat
         /\ a <= Chunks!First(a, b)
         /\ Chunks!First(a, b) + Len(sep) <= b
         /\ Occurs(file, sep, Chunks!First(a, b))
         /\ Clear(file, sep, a, Chunks!First(a, b) + Len(sep) - 1)
         /\ \A p \in Nat : Occurs(file, sep, p) /\ a <= p /\ p + Len(sep) <= b
              => Chunks!First(a, b) <= p
<1>. DEFINE H == Chunks!Hits(a, b)
            m == Chunks!First(a, b)
<1>1. \A p : p \in H <=> a <= p /\ Occurs(file, sep, p) /\ p + Len(sep) <= b
  BY HitsAre
<1>2. H \in SUBSET Nat
  BY <1>1 DEF Occurs
<1>3. m = CHOOSE p \in H : \A q \in H : p <= q
  BY DEF Chunks!First
<1>. HIDE DEF H, m
<1>4. \E p \in H : \A q \in H : p <= q
  BY <1>2, LeastNumber DEF H
<1>5. m \in H /\ \A q \in H : m <= q
  BY <1>3, <1>4
<1>6. Len(sep) \in Nat /\ m \in Nat
  BY <1>2, <1>5 DEF Strings
<1>7. \A p \in Nat : Occurs(file, sep, p) /\ a <= p /\ p + Len(sep) <= b => m <= p
  BY <1>1, <1>5
<1>8. m + Len(sep) <= b /\ a <= m /\ Occurs(file, sep, m)
  BY <1>1, <1>5
<1>9. Clear(file, sep, a, m + Len(sep) - 1)
  <2>. SUFFICES ASSUME NEW p \in Nat, Occurs(file, sep, p), a <= p,
                       p + Len(sep) <= m + Len(sep) - 1
                PROVE  FALSE
    BY DEF Clear
  <2>1. p + Len(sep) <= b /\ p < m
    BY <1>6, <1>8
  <2>. QED BY <1>6, <1>7, <2>1
<1>. QED BY <1>6, <1>7, <1>8, <1>9 DEF m

LEMMA ApartIs ==
  ASSUME Strings(file, sep), Chunks!SeparatorsApart
  PROVE  Apart(file, sep)
<1>. SUFFICES ASSUME NEW p, NEW q, Occurs(file, sep, p), Occurs(file, sep, q), p < q
              PROVE  p + Len(sep) <= q
  BY DEF Apart
<1>1. /\ p \in Nat /\ p + Len(sep) <= Len(file)
      /\ q \in Nat /\ q + Len(sep) <= Len(file)
      /\ Len(file) \in Nat /\ 0 \in Nat /\ Len(file) <= Len(file)
  BY DEF Occurs, Strings
<1>2. \A x : x \in Chunks!Hits(0, Len(file)) <=>
             0 <= x /\ Occurs(file, sep, x) /\ x + Len(sep) <= Len(file)
  BY <1>1, HitsAre
<1>3. p \in Chunks!Hits(0, Len(file)) /\ q \in Chunks!Hits(0, Len(file))
  BY <1>1, <1>2
<1>. QED BY <1>3 DEF Chunks!SeparatorsApart

(* One more region, after those there are. *)
Follows(f, s, rs, b, e) ==
  /\ b \in Nat /\ e \in Nat /\ b <= e /\ e <= Len(f) /\ Closes(f, s, e)
  /\ rs = <<>> => b = 0
  /\ rs # <<>> => Joins(f, s, LastTo(rs), b)

LEMMA TiledAppend ==
  ASSUME NEW f, NEW s, Len(f) \in Nat, NEW rs, Tiled(f, s, rs),
         NEW b, NEW e, Follows(f, s, rs, b, e)
  PROVE  /\ Tiled(f, s, Append(rs, <<b, e>>))
         /\ Append(rs, <<b, e>>) # <<>>
         /\ LastTo(Append(rs, <<b, e>>)) = e
<1>. DEFINE n == Len(rs)
            d == <<b, e>>
            q == Append(rs, d)
<1>0. /\ b \in Nat /\ e \in Nat /\ b <= e /\ e <= Len(f) /\ Closes(f, s, e)
      /\ rs = <<>> => b = 0
      /\ rs # <<>> => Joins(f, s, LastTo(rs), b)
  BY DEF Follows
<1>1. d \in Spans /\ d[1] = b /\ d[2] = e
  BY <1>0 DEF Spans
<1>2. rs \in Seq(Spans)
  BY DEF Tiled
<1>. HIDE DEF d
<1>3. /\ q \in Seq(Spans) /\ q # <<>> /\ n \in Nat /\ Len(q) = n + 1
      /\ \A i \in 1 .. n : q[i] = rs[i]
      /\ q[n + 1] = d
  BY <1>1, <1>2, AppendProperties, LenProperties
<1>4. n = 0 <=> rs = <<>>
  BY <1>2, EmptySeq
<1>5. /\ \A i \in 1 .. n : rs[i][1] <= rs[i][2] /\ rs[i][2] <= Len(f)
      /\ \A i \in 1 .. n : Closes(f, s, rs[i][2])
      /\ n > 0 => rs[1][1] = 0
      /\ \A i \in 2 .. n : Joins(f, s, rs[i - 1][2], rs[i][1])
  BY DEF Tiled
<1>6. LastTo(q) = e
  BY <1>1, <1>3 DEF LastTo
<1>7. rs # <<>> => Joins(f, s, rs[n][2], b)
  BY <1>0 DEF LastTo
<1>. HIDE DEF q, n
<1>8. \A i \in 1 .. n + 1 : q[i][1] <= q[i][2] /\ q[i][2] <= Len(f) /\ Closes(f, s, q[i][2])
  <2>. SUFFICES ASSUME NEW i \in 1 .. n + 1
                PROVE  q[i][1] <= q[i][2] /\ q[i][2] <= Len(f) /\ Closes(f, s, q[i][2])
    OBVIOUS
  <2>1. CASE i = n + 1
    BY <1>0, <1>1, <1>3, <2>1
  <2>2. CASE i \in 1 .. n
    BY <1>3, <1>5, <2>2
  <2>. QED BY <1>3, <2>1, <2>2
<1>9. q[1][1] = 0
  <2>1. CASE n = 0
    BY <1>0, <1>1, <1>3, <1>4, <2>1
  <2>2. CASE n > 0
    <3>1. 1 \in 1 .. n
      BY <1>3, <2>2
    <3>. QED BY <1>3, <1>5, <2>2, <3>1
  <2>. QED BY <1>3, <2>1, <2>2
<1>10. \A i \in 2 .. n + 1 : Joins(f, s, q[i - 1][2], q[i][1])
  <2>. SUFFICES ASSUME NEW i \in 2 .. n + 1
                PROVE  Joins(f, s, q[i - 1][2], q[i][1])
    OBVIOUS
  <2>1. CASE i = n + 1
    <3>1. i - 1 = n /\ n \in 1 .. n /\ n # 0
      BY <1>3, <2>1
    <3>2. q[i - 1] = rs[n] /\ q[i][1] = b
      BY <1>1, <1>3, <2>1, <3>1
    <3>. QED BY <1>4, <1>7, <3>1, <3>2
  <2>2. CASE i \in 2 .. n
    <3>1. i - 1 \in 1 .. n /\ i \in 1 .. n
      BY <1>3, <2>2
    <3>. QED BY <1>3, <1>5, <2>2, <3>1
  <2>. QED BY <1>3, <2>1, <2>2
<1>11. Tiled(f, s, q)
  BY <1>3, <1>8, <1>9, <1>10 DEF Tiled
<1>. QED BY <1>3, <1>6, <1>11 DEF q, d

LEMMA EndAppend ==
  ASSUME NEW f, NEW s, NEW rs \in Seq(Spans), EndWhole(f, s, rs),
         NEW b \in Nat, NEW e \in Nat, Ends(f, s, e)
  PROVE  EndWhole(f, s, Append(rs, <<b, e>>))
<1>. DEFINE d == <<b, e>>
            q == Append(rs, d)
<1>1. d \in Spans /\ d[2] = e
  BY DEF Spans
<1>. HIDE DEF d
<1>2. /\ Len(rs) \in Nat /\ Len(q) = Len(rs) + 1
      /\ \A i \in 1 .. Len(rs) : q[i] = rs[i]
      /\ q[Len(rs) + 1] = d
  BY <1>1, AppendProperties, LenProperties
<1>. HIDE DEF q
<1>3. ASSUME NEW i \in 1 .. Len(q) PROVE Ends(f, s, q[i][2])
  <2>1. CASE i = Len(rs) + 1
    BY <1>1, <1>2, <2>1
  <2>2. CASE i \in 1 .. Len(rs)
    BY <1>2, <2>2 DEF EndWhole
  <2>. QED BY <1>2, <2>1, <2>2
<1>. QED BY <1>3 DEF EndWhole, q, d

LEMMA LastIs ==
  ASSUME NEW f, NEW s, Len(f) \in Nat, NEW rs, Tiled(f, s, rs)
  PROVE  /\ Len(rs) \in Nat
         /\ rs = <<>> <=> Len(rs) = 0
         /\ LastTo(rs) \in Nat
         /\ rs # <<>> => LastTo(rs) <= Len(f) /\ LastTo(rs) = rs[Len(rs)][2]
                           /\ Len(rs) \in 1 .. Len(rs)
<1>1. Len(rs) \in Nat /\ (rs = <<>> <=> Len(rs) = 0)
  BY EmptySeq, LenProperties DEF Tiled
<1>2. CASE rs = <<>>
  BY <1>1, <1>2 DEF LastTo
<1>3. CASE rs # <<>>
  <2>1. Len(rs) \in 1 .. Len(rs)
    BY <1>1, <1>3
  <2>2. rs[Len(rs)] \in Spans
    BY <2>1, ElementOfSeq DEF Tiled
  <2>. QED BY <1>1, <1>3, <2>1, <2>2 DEF LastTo, Tiled, Spans
<1>. QED BY <1>2, <1>3

LEMMA CutRegionStep ==
  ASSUME TextInv, Chunks!CutRegion
  PROVE  TextInv'
<1>1. /\ pc = "cut" /\ rule = "target" /\ start < Len(file)
      /\ start + size < Len(file) /\ Chunks!Hits(start + size, Len(file)) # {}
      /\ ranges' = Append(ranges, <<start, Chunks!First(start + size, Len(file))>>)
      /\ start' = Chunks!First(start + size, Len(file)) + Len(sep)
      /\ file' = file /\ sep' = sep /\ rule' = rule /\ size' = size
      /\ iter' = iter /\ open' = open /\ docs' = docs /\ pc' = pc
  BY DEF Chunks!CutRegion, Chunks!input
<1>2. /\ TextType /\ Tiled(file, sep, ranges)
      /\ CutByTarget(file, sep, ranges, start)
      /\ open = {} /\ iter = <<>> /\ docs = <<>>
  BY <1>1 DEF TextInv, Cutting
<1>3. /\ Strings(file, sep) /\ start \in Nat /\ size \in Nat
      /\ Len(file) \in Nat /\ Len(sep) \in Nat
  BY <1>2, TextStrings DEF TextType, Strings
<1>. DEFINE m == Chunks!First(start + size, Len(file))
<1>4. /\ m \in Nat /\ start + size <= m /\ m + Len(sep) <= Len(file)
      /\ Occurs(file, sep, m)
  BY <1>1, <1>3, FirstIs
<1>5. /\ ranges' = Append(ranges, <<start, m>>)
      /\ start' = m + Len(sep)
  BY <1>1
<1>. HIDE DEF m
<1>6. /\ start <= m /\ m <= Len(file) /\ Closes(file, sep, m)
  BY <1>3, <1>4 DEF Closes
<1>7. /\ ranges = <<>> => start = 0
      /\ ranges # <<>> => Joins(file, sep, LastTo(ranges), start)
  BY <1>2 DEF CutByTarget, Joins
<1>8. Tiled(file, sep, ranges') /\ ranges' # <<>> /\ LastTo(ranges') = m
  <2>1. /\ Len(file) \in Nat /\ Tiled(file, sep, ranges)
        /\ start \in Nat /\ m \in Nat
    BY <1>2, <1>3, <1>4
  <2>2. Follows(file, sep, ranges, start, m)
    BY <1>6, <1>7, <2>1 DEF Follows
  <2>3. /\ Tiled(file, sep, Append(ranges, <<start, m>>))
        /\ Append(ranges, <<start, m>>) # <<>>
        /\ LastTo(Append(ranges, <<start, m>>)) = m
    BY <2>1, <2>2, TiledAppend
  <2>. QED BY <1>5, <2>3
<1>9. CutByTarget(file, sep, ranges', start')
  BY <1>4, <1>5, <1>8 DEF CutByTarget
<1>10. TextType'
  BY <1>1, <1>2, <1>3, <1>4, <1>5 DEF TextType
<1>11. Len(file) # 0 /\ rule' # "count"
  BY <1>1, <1>3
<1>12. Cutting'
  BY <1>1, <1>9, <1>11 DEF Cutting
<1>13. EndWhole(file, sep, ranges')
  <2>1. EndWhole(file, sep, ranges) /\ ranges \in Seq(Spans) /\ Ends(file, sep, m)
    BY <1>1, <1>2, <1>4 DEF TextInv, Tiled, Ends
  <2>. QED BY <1>3, <1>4, <1>5, <2>1, EndAppend
<1>. QED BY <1>1, <1>2, <1>8, <1>10, <1>12, <1>13 DEF TextInv

LEMMA CutCountedStep ==
  ASSUME TextInv, Chunks!CutCounted
  PROVE  TextInv'
<1>. DEFINE part == Len(file) \div size
            probe == start * part
            m == Chunks!First(probe, Len(file))
            e == m + Len(sep)
<1>1. /\ pc = "cut" /\ rule = "count" /\ Len(file) > 0 /\ start < size
      /\ Chunks!Hits(probe, Len(file)) # {}
      /\ ranges' = Chunks!Closed(e)
      /\ start' = start + 1
      /\ file' = file /\ sep' = sep /\ rule' = rule /\ size' = size
      /\ iter' = iter /\ open' = open /\ docs' = docs /\ pc' = pc
  BY DEF Chunks!CutCounted, Chunks!input
<1>2. /\ TextType /\ Tiled(file, sep, ranges)
      /\ CutByCount(file, sep, ranges, size, start)
      /\ open = {} /\ iter = <<>> /\ docs = <<>>
  BY <1>1 DEF TextInv, Cutting
<1>3. /\ Strings(file, sep) /\ start \in Nat /\ size \in Nat /\ size # 0
      /\ Len(file) \in Nat /\ Len(sep) \in Nat
  BY <1>2, TextStrings DEF TextType, Strings
<1>4. part \in Nat
  BY <1>3
<1>. HIDE DEF part
<1>5. probe \in Nat /\ start >= 1 /\ (start - 1) * part <= probe
  <2>1. start >= 1
    BY <1>2 DEF CutByCount
  <2>2. (start - 1) * part = start * part - part /\ start * part \in Nat
    BY <1>3, <1>4, <2>1
  <2>. QED BY <1>4, <2>1, <2>2
<1>. HIDE DEF probe
<1>6. /\ m \in Nat /\ probe <= m /\ m + Len(sep) <= Len(file)
      /\ Occurs(file, sep, m) /\ Len(sep) > 0
      /\ \A p \in Nat : Occurs(file, sep, p) /\ probe <= p /\ p + Len(sep) <= Len(file)
           => m <= p
  <2>1. Occurs(file, sep, m)
    BY <1>1, <1>3, <1>5, FirstIs
  <2>2. Len(sep) > 0
    BY <2>1 DEF Occurs
  <2>. QED BY <1>1, <1>3, <1>5, <2>2, FirstIs
<1>. HIDE DEF m
<1>7. e \in Nat /\ e <= Len(file) /\ e - Len(sep) = m /\ e >= Len(sep) /\ e > 0
  BY <1>3, <1>6 DEF Strings
<1>8. Closes(file, sep, e)
  BY <1>6, <1>7 DEF Closes
<1>9. /\ LastTo(ranges) \in Nat
      /\ Chunks!LastEnd = LastTo(ranges)
  BY <1>2, <1>3, LastIs DEF LastTo, Chunks!LastEnd
<1>10. LastTo(ranges) <= e
  <2>1. (start - 1) * part <= m
    <3>1. (start - 1) * part \in Int /\ probe \in Int /\ m \in Int
      BY <1>3, <1>4, <1>5, <1>6
    <3>. QED BY <1>5, <1>6, <3>1
  <2>. QED BY <1>2, <1>6, <2>1 DEF CutByCount, part
<1>11. Tiled(file, sep, ranges') /\ ranges' # <<>> /\ LastTo(ranges') = e
  <2>1. CASE e = LastTo(ranges)
    <3>1. ranges' = ranges
      BY <1>1, <1>9, <2>1 DEF Chunks!Closed
    <3>2. ranges # <<>>
      BY <1>7, <2>1 DEF LastTo
    <3>. QED BY <1>2, <2>1, <3>1, <3>2
  <2>2. CASE e # LastTo(ranges)
    <3>1. ranges' = Append(ranges, <<LastTo(ranges), e>>)
      BY <1>1, <1>9, <2>2 DEF Chunks!Closed
    <3>2. /\ ranges = <<>> => LastTo(ranges) = 0
          /\ ranges # <<>> => Joins(file, sep, LastTo(ranges), LastTo(ranges))
      BY <1>2 DEF LastTo, CutByCount, Joins
    <3>. DEFINE b == LastTo(ranges)
    <3>3. b \in Nat /\ b <= e /\ e \in Nat
      BY <1>7, <1>9, <1>10
    <3>. HIDE DEF e, b
    <3>4. /\ Tiled(file, sep, Append(ranges, <<b, e>>))
          /\ Append(ranges, <<b, e>>) # <<>>
          /\ LastTo(Append(ranges, <<b, e>>)) = e
      <4>1. ranges = <<>> => b = 0
        BY <3>2 DEF b
      <4>2. ranges # <<>> => Joins(file, sep, LastTo(ranges), b)
        BY <3>2 DEF b
      <4>3. /\ Len(file) \in Nat /\ Tiled(file, sep, ranges)
            /\ e <= Len(file) /\ Closes(file, sep, e)
        BY <1>2, <1>3, <1>7, <1>8
      <4>4. Follows(file, sep, ranges, b, e)
        BY <3>3, <4>1, <4>2, <4>3 DEF Follows
      <4>. QED BY <4>3, <4>4, TiledAppend
    <3>. QED BY <3>1, <3>4 DEF b
  <2>. QED BY <2>1, <2>2
<1>12. CutByCount(file, sep, ranges', size, start')
  <2>1. start' - 1 = start /\ start' >= 1
    BY <1>1, <1>3, <1>5
  <2>2. \A p \in Nat : Occurs(file, sep, p) /\ probe <= p => e <= p + Len(sep)
    <3>. SUFFICES ASSUME NEW p \in Nat, Occurs(file, sep, p), probe <= p
                  PROVE  e <= p + Len(sep)
      OBVIOUS
    <3>1. p + Len(sep) <= Len(file)
      BY DEF Occurs
    <3>2. m <= p
      BY <1>6, <3>1
    <3>. QED BY <1>3, <1>6, <3>2
  <2>3. e >= Len(sep) /\ Occurs(file, sep, e - Len(sep))
    BY <1>6, <1>7
  <2>. QED BY <1>11, <2>1, <2>2, <2>3 DEF CutByCount, probe, part
<1>13. TextType'
  BY <1>1, <1>2, <1>3 DEF TextType
<1>14. Cutting'
  BY <1>1, <1>3, <1>12 DEF Cutting
<1>. QED BY <1>1, <1>2, <1>11, <1>13, <1>14 DEF TextInv

(* The last region covers what is left, whichever rule made the others.    *)
LEMMA LastRangeCovers ==
  ASSUME TextInv, pc = "cut"
  PROVE  /\ Tiled(file, sep, Chunks!LastRange)
         /\ Covers(file, sep, Chunks!LastRange)
<1>. DEFINE n == Len(file)
            b == LastTo(ranges)
<1>1. /\ TextType /\ Tiled(file, sep, ranges) /\ Cutting
  BY DEF TextInv
<1>2. /\ Strings(file, sep) /\ start \in Nat
      /\ n \in Nat /\ Len(sep) \in Nat
  BY <1>1, TextStrings DEF TextType, Strings
<1>3. /\ b \in Nat /\ b <= n
      /\ ranges = <<>> => b = 0
      /\ Chunks!LastEnd = b
  BY <1>1, <1>2, LastIs DEF LastTo, Chunks!LastEnd
<1>4. Closes(file, sep, n)
  BY DEF Closes
<1>5. ASSUME NEW c \in Nat, c <= n,
             ranges = <<>> => c = 0,
             ranges # <<>> => Joins(file, sep, LastTo(ranges), c)
      PROVE  /\ Tiled(file, sep, Append(ranges, <<c, n>>))
             /\ Covers(file, sep, Append(ranges, <<c, n>>))
  <2>1. /\ Tiled(file, sep, Append(ranges, <<c, n>>))
        /\ Append(ranges, <<c, n>>) # <<>>
        /\ LastTo(Append(ranges, <<c, n>>)) = n
    <3>1. /\ Len(file) \in Nat /\ Tiled(file, sep, ranges)
          /\ n \in Nat /\ n <= Len(file) /\ Closes(file, sep, n)
      BY <1>1, <1>2, <1>4
    <3>. HIDE DEF b, n
    <3>2. Follows(file, sep, ranges, c, n)
      BY <1>5, <3>1 DEF Follows
    <3>. QED BY <3>1, <3>2, TiledAppend
  <2>. QED BY <2>1 DEF Covers
<1>6. CASE n = 0
  <2>1. ranges = <<>>
    BY <1>1, <1>6 DEF Cutting
  <2>2. Chunks!LastRange = Append(ranges, <<0, n>>)
    BY <1>6, <2>1 DEF Chunks!LastRange
  <2>. QED BY <1>2, <1>5, <2>1, <2>2
<1>7. CASE n # 0 /\ rule = "count"
  <2>1. Chunks!LastRange = IF n = b THEN ranges ELSE Append(ranges, <<b, n>>)
    BY <1>3, <1>7 DEF Chunks!LastRange, Chunks!Closed
  <2>2. CASE n = b
    BY <1>1, <1>3, <1>7, <2>1, <2>2 DEF Covers
  <2>3. CASE n # b
    <3>1. ranges # <<>> => Joins(file, sep, LastTo(ranges), b)
      BY <1>1, <1>7 DEF Cutting, CutByCount, Joins
    <3>2. Chunks!LastRange = Append(ranges, <<b, n>>)
      BY <2>1, <2>3
    <3>. QED BY <1>3, <1>5, <3>1, <3>2
  <2>. QED BY <2>2, <2>3
<1>8. CASE n # 0 /\ rule = "target"
  <2>1. CutByTarget(file, sep, ranges, start)
    BY <1>1, <1>8 DEF Cutting
  <2>2. CASE start < n
    <3>1. Chunks!LastRange = Append(ranges, <<start, n>>)
      BY <1>8, <2>2 DEF Chunks!LastRange
    <3>2. /\ ranges = <<>> => start = 0
          /\ ranges # <<>> => Joins(file, sep, LastTo(ranges), start)
      BY <2>1 DEF CutByTarget, Joins
    <3>. QED BY <1>2, <1>5, <2>2, <3>1, <3>2
  <2>3. CASE ~(start < n)
    <3>1. Chunks!LastRange = ranges
      BY <1>8, <2>3 DEF Chunks!LastRange
    <3>2. ranges # <<>>
      BY <1>2, <1>8, <2>1, <2>3 DEF CutByTarget
    <3>3. Occurs(file, sep, b) /\ start = b + Len(sep)
      BY <2>1, <3>2 DEF CutByTarget
    <3>4. b + Len(sep) = n
      BY <1>2, <2>3, <3>3 DEF Occurs
    <3>. QED BY <1>1, <3>1, <3>2, <3>3, <3>4 DEF Covers
  <2>. QED BY <2>2, <2>3
<1>. QED BY <1>1, <1>6, <1>7, <1>8 DEF TextType

LEMMA LastRangeEnds ==
  ASSUME TextInv, pc = "cut", rule = "target"
  PROVE  EndWhole(file, sep, Chunks!LastRange)
<1>. DEFINE n == Len(file)
<1>1. /\ TextType /\ Cutting
      /\ EndWhole(file, sep, ranges) /\ ranges \in Seq(Spans)
  BY DEF TextInv, Tiled
<1>2. n \in Nat /\ start \in Nat /\ Ends(file, sep, n)
  BY <1>1, TextStrings DEF TextType, Strings, Ends
<1>3. ASSUME NEW c \in Nat PROVE EndWhole(file, sep, Append(ranges, <<c, n>>))
  <2>. HIDE DEF n
  <2>. QED BY <1>1, <1>2, EndAppend
<1>4. CASE n = 0
  <2>1. Chunks!LastRange = Append(ranges, <<0, n>>)
    BY <1>1, <1>4 DEF Cutting, Chunks!LastRange
  <2>. QED BY <1>3, <2>1
<1>5. CASE n # 0 /\ start < n
  <2>1. Chunks!LastRange = Append(ranges, <<start, n>>)
    BY <1>5 DEF Chunks!LastRange
  <2>. QED BY <1>2, <1>3, <2>1
<1>6. CASE n # 0 /\ ~(start < n)
  <2>1. Chunks!LastRange = ranges
    BY <1>6 DEF Chunks!LastRange
  <2>. QED BY <1>1, <2>1
<1>. QED BY <1>4, <1>5, <1>6

(* Where the regions are, and that an iterator may start at each.          *)
LEMMA RegionBounds ==
  ASSUME NEW f, NEW s, Strings(f, s), NEW rs, Tiled(f, s, rs), NEW k \in 0 .. Len(rs)
  PROVE  /\ FromOf(rs, k) \in Nat /\ ToOf(f, rs, k) \in Nat
         /\ FromOf(rs, k) <= ToOf(f, rs, k) /\ ToOf(f, rs, k) <= Len(f)
         /\ Begins(f, s, FromOf(rs, k))
         /\ Closes(f, s, ToOf(f, rs, k))
<1>1. /\ Len(f) \in Nat /\ Len(s) \in Nat /\ Len(rs) \in Nat
      /\ rs \in Seq(Spans)
  BY LenProperties DEF Strings, Tiled
<1>2. CASE k = 0
  BY <1>1, <1>2 DEF FromOf, ToOf, Begins, Closes
<1>3. CASE k # 0
  <2>1. k \in 1 .. Len(rs)
    BY <1>1, <1>3
  <2>2. /\ FromOf(rs, k) = rs[k][1] /\ ToOf(f, rs, k) = rs[k][2]
        /\ rs[k][1] \in Nat /\ rs[k][2] \in Nat
    BY <1>1, <1>3, <2>1, ElementOfSeq DEF FromOf, ToOf, Spans
  <2>3. /\ rs[k][1] <= rs[k][2] /\ rs[k][2] <= Len(f)
        /\ Closes(f, s, rs[k][2])
    BY <2>1 DEF Tiled
  <2>4. Begins(f, s, rs[k][1])
    <3>1. CASE k = 1
      BY <1>1, <2>1, <3>1 DEF Tiled, Begins
    <3>2. CASE k # 1
      <4>1. k \in 2 .. Len(rs)
        BY <1>1, <2>1, <3>2
      <4>. DEFINE e == rs[k - 1][2]
                  b == rs[k][1]
      <4>2. Joins(f, s, e, b)
        BY <4>1 DEF Tiled
      <4>. HIDE DEF e, b
      <4>3. CASE Occurs(f, s, e) /\ b = e + Len(s)
        <5>1. e \in Nat
          BY <4>3 DEF Occurs
        <5>2. b >= Len(s) /\ b - Len(s) = e
          BY <1>1, <4>3, <5>1
        <5>. QED BY <4>3, <5>2 DEF Begins, b
      <4>4. CASE b = e /\ e >= Len(s) /\ Occurs(f, s, e - Len(s))
        BY <4>4 DEF Begins, b
      <4>. QED BY <4>2, <4>3, <4>4 DEF Joins
    <3>. QED BY <3>1, <3>2
  <2>. QED BY <2>2, <2>3, <2>4
<1>. QED BY <1>2, <1>3

LEMMA CutLastStep ==
  ASSUME TextInv, Chunks!CutLast
  PROVE  TextInv'
<1>1. /\ pc = "cut" /\ pc' = "run"
      /\ ranges' = Chunks!LastRange
      /\ iter' = [k \in 0 .. Len(ranges') |-> IF k = 0 THEN 0 ELSE ranges'[k][1]]
      /\ docs' = [k \in 0 .. Len(ranges') |-> <<>>]
      /\ open' = 0 .. Len(ranges')
      /\ file' = file /\ sep' = sep /\ rule' = rule /\ size' = size /\ start' = start
  BY DEF Chunks!CutLast, Chunks!input
<1>2. Tiled(file, sep, ranges') /\ Covers(file, sep, ranges')
  BY <1>1, LastRangeCovers
<1>3. TextType /\ Strings(file, sep)
  BY TextStrings DEF TextInv, TextType
<1>4. TextType'
  BY <1>1, <1>3 DEF TextType
<1>5. \A k \in 0 .. Len(ranges') :
        /\ FromOf(ranges', k) \in Nat /\ ToOf(file, ranges', k) \in Nat
        /\ FromOf(ranges', k) <= ToOf(file, ranges', k)
        /\ Begins(file, sep, FromOf(ranges', k))
  BY <1>2, <1>3, RegionBounds
<1>6. \A k \in 0 .. Len(ranges') : iter'[k] = FromOf(ranges', k)
  BY <1>1 DEF FromOf
<1>7. iter' \in [0 .. Len(ranges') -> Nat]
  <2>1. \A k \in 0 .. Len(ranges') : (IF k = 0 THEN 0 ELSE ranges'[k][1]) \in Nat
    BY <1>5 DEF FromOf
  <2>. QED BY <1>1, <2>1
<1>8. docs' \in [0 .. Len(ranges') -> Seq(Spans)]
  <2>1. <<>> \in Seq(Spans)
    OBVIOUS
  <2>. QED BY <1>1, <2>1
<1>9. ASSUME NEW p \in Nat PROVE Yielded(file, sep, <<>>, p, p)
  <2>1. Spread(<<>>) /\ \A d : ~Has(<<>>, d)
    BY DEF Spread, Has
  <2>2. ASSUME NEW d \in Spans, Piece(file, sep, d), p <= d[1], d[2] <= p PROVE FALSE
    <3>1. d[1] \in Nat /\ d[2] \in Nat /\ d[1] < d[2]
      BY <2>2 DEF Spans, Piece
    <3>. QED BY <2>2, <3>1
  <2>. QED BY <2>1, <2>2 DEF Yielded
<1>10. ASSUME NEW k \in 0 .. Len(ranges')
       PROVE  /\ FromOf(ranges', k) <= iter'[k] /\ iter'[k] <= ToOf(file, ranges', k)
              /\ Begins(file, sep, iter'[k])
              /\ Yielded(file, sep, docs'[k], FromOf(ranges', k), iter'[k])
              /\ AllPieces(file, sep, docs'[k])
              /\ k \in open'
  <2>1. docs'[k] = <<>> /\ k \in open'
    BY <1>1
  <2>2. Yielded(file, sep, docs'[k], FromOf(ranges', k), iter'[k])
    BY <1>5, <1>6, <1>9, <2>1
  <2>3. FromOf(ranges', k) <= iter'[k]
    BY <1>5, <1>6
  <2>4. AllPieces(file, sep, docs'[k])
    BY <2>1 DEF AllPieces, Has
  <2>. QED BY <1>5, <1>6, <2>1, <2>2, <2>3, <2>4
<1>11. Iterating'
  BY <1>1, <1>7, <1>8, <1>10 DEF Iterating
<1>12. rule = "target" => EndWhole(file, sep, ranges')
  BY <1>1, LastRangeEnds
<1>. QED BY <1>1, <1>2, <1>4, <1>11, <1>12 DEF TextInv

(* One turn of DocumentIter's loop, on what an iterator has yielded.       *)
LEMMA YieldedNext ==
  ASSUME NEW f, NEW s, Strings(f, s), Apart(f, s),
         NEW q \in Seq(Spans), NEW a \in Nat, NEW p \in Nat, NEW m, a <= p, p <= m,
         Yielded(f, s, q, a, p), Begins(f, s, p), Occurs(f, s, m),
         Clear(f, s, p, m + Len(s) - 1)
  PROVE  /\ p = m => Yielded(f, s, q, a, m + Len(s))
         /\ p # m => /\ Append(q, <<p, m>>) \in Seq(Spans)
                     /\ Yielded(f, s, Append(q, <<p, m>>), a, m + Len(s))
<1>. DEFINE L == Len(s)
            u == <<p, m>>
<1>1. L \in Nat /\ m \in Nat
  BY DEF Strings, Occurs
<1>2. u \in Spans /\ u[1] = p /\ u[2] = m
  BY <1>1 DEF Spans
<1>3. /\ p < m => Piece(f, s, u)
      /\ \A d \in Spans : Piece(f, s, d) /\ p < d[2] /\ d[2] <= m + L => p < m /\ d = u
  BY PiecesUpTo
<1>4. /\ Spread(q)
      /\ \A d \in Spans : Has(q, d) <=> Piece(f, s, d) /\ a <= d[1] /\ d[2] <= p
  BY DEF Yielded
<1>. HIDE DEF u, L
<1>5. \A d \in Spans : d[1] \in Nat /\ d[2] \in Nat
  BY DEF Spans
<1>6. CASE p = m
  <2>1. ASSUME NEW d \in Spans
        PROVE  Has(q, d) <=> Piece(f, s, d) /\ a <= d[1] /\ d[2] <= m + L
    <3>1. Piece(f, s, d) /\ d[2] <= m + L => d[2] <= p
      BY <1>1, <1>3, <1>5, <1>6
    <3>2. d[2] <= p => d[2] <= m + L
      BY <1>1, <1>5, <1>6
    <3>. QED BY <1>4, <3>1, <3>2
  <2>. QED BY <1>4, <1>6, <2>1 DEF Yielded, L
<1>7. CASE p # m
  <2>1. p < m
    BY <1>1, <1>7
  <2>2. /\ Append(q, u) \in Seq(Spans)
        /\ Spread(Append(q, u))
        /\ \A e : Has(Append(q, u), e) <=> Has(q, e) \/ e = u
    BY <1>2, <1>4, <2>1, SpreadAppend
  <2>3. ASSUME NEW d \in Spans
        PROVE  Has(Append(q, u), d) <=> Piece(f, s, d) /\ a <= d[1] /\ d[2] <= m + L
    <3>1. d[2] <= p => d[2] <= m + L
      BY <1>1, <1>5
    <3>2. Piece(f, s, u) /\ a <= u[1] /\ u[2] <= m + L
      BY <1>1, <1>2, <1>3, <2>1
    <3>3. Piece(f, s, d) /\ d[2] <= m + L => d[2] <= p \/ d = u
      BY <1>3, <1>5
    <3>. QED BY <1>4, <2>2, <3>1, <3>2, <3>3
  <2>. QED BY <1>7, <2>2, <2>3 DEF Yielded, L, u
<1>. QED BY <1>6, <1>7

(* The remainder, on what an iterator has yielded. *)
LEMMA YieldedRest ==
  ASSUME NEW f, NEW s, Strings(f, s), Apart(f, s),
         NEW q \in Seq(Spans), NEW a \in Nat, NEW p \in Nat, NEW e \in Nat,
         a <= p, p < e, e <= Len(f),
         Yielded(f, s, q, a, p), Begins(f, s, p), Closes(f, s, e), Clear(f, s, p, e)
  PROVE  /\ Append(q, <<p, e>>) \in Seq(Spans)
         /\ Yielded(f, s, Append(q, <<p, e>>), a, e)
<1>. DEFINE u == <<p, e>>
<1>1. u \in Spans /\ u[1] = p /\ u[2] = e
  BY DEF Spans
<1>2. /\ Piece(f, s, u)
      /\ \A d \in Spans : Piece(f, s, d) /\ p < d[2] /\ d[2] <= e => d = u
  BY PiecesToEnd
<1>3. /\ Spread(q)
      /\ \A d \in Spans : Has(q, d) <=> Piece(f, s, d) /\ a <= d[1] /\ d[2] <= p
  BY DEF Yielded
<1>. HIDE DEF u
<1>4. \A d \in Spans : d[1] \in Nat /\ d[2] \in Nat
  BY DEF Spans
<1>5. /\ Append(q, u) \in Seq(Spans)
      /\ Spread(Append(q, u))
      /\ \A d : Has(Append(q, u), d) <=> Has(q, d) \/ d = u
  BY <1>1, <1>3, SpreadAppend
<1>6. ASSUME NEW d \in Spans
      PROVE  Has(Append(q, u), d) <=> Piece(f, s, d) /\ a <= d[1] /\ d[2] <= e
  <2>1. d[2] <= p => d[2] <= e
    BY <1>4
  <2>2. Piece(f, s, u) /\ a <= u[1] /\ u[2] <= e
    BY <1>1, <1>2
  <2>3. Piece(f, s, d) /\ d[2] <= e => d[2] <= p \/ d = u
    BY <1>2, <1>4
  <2>. QED BY <1>3, <1>5, <2>1, <2>2, <2>3
<1>. QED BY <1>5, <1>6 DEF Yielded, u

LEMMA AllPiecesAppend ==
  ASSUME NEW f, NEW s, NEW q \in Seq(Spans), AllPieces(f, s, q),
         NEW d \in Spans
  PROVE  Piece(f, s, d) => AllPieces(f, s, Append(q, d))
<1>1. /\ Len(q) \in Nat /\ Len(Append(q, d)) = Len(q) + 1
      /\ \A i \in 1 .. Len(q) : Append(q, d)[i] = q[i]
      /\ Append(q, d)[Len(q) + 1] = d
  BY AppendProperties, LenProperties
<1>2. ASSUME NEW e \in Spans, Has(Append(q, d), e) PROVE Has(q, e) \/ e = d
  <2>1. PICK i \in 1 .. Len(q) + 1 : Append(q, d)[i] = e
    BY <1>1, <1>2 DEF Has
  <2>2. i \in 1 .. Len(q) \/ i = Len(q) + 1
    BY <1>1
  <2>. QED BY <1>1, <2>1, <2>2 DEF Has
<1>. QED BY <1>2 DEF AllPieces

LEMMA NextPieceStep ==
  ASSUME TextInv, pc = "run", NEW k \in open, Chunks!NextPiece(k)
  PROVE  TextInv'
<1>. DEFINE p == iter[k]
            e == ToOf(file, ranges, k)
            m == Chunks!First(p, e)
            a == FromOf(ranges, k)
            L == Len(sep)
<1>1. /\ TextType /\ Tiled(file, sep, ranges) /\ Covers(file, sep, ranges) /\ Iterating
  BY DEF TextInv
<1>2. /\ Strings(file, sep) /\ Len(file) \in Nat /\ L \in Nat
  BY <1>1, TextStrings DEF TextType, Strings
<1>3. /\ k \in 0 .. Len(ranges) /\ p \in Nat /\ a <= p /\ p <= e
      /\ Begins(file, sep, p)
      /\ docs[k] \in Seq(Spans)
      /\ Apart(file, sep) => Yielded(file, sep, docs[k], a, p)
      /\ rule = "target" => AllPieces(file, sep, docs[k])
  BY <1>1 DEF Iterating
<1>4. a \in Nat /\ e \in Nat /\ e <= Len(file)
  BY <1>1, <1>2, <1>3, RegionBounds
<1>5. Chunks!EndOf(k) = e
  BY DEF Chunks!EndOf, ToOf
<1>6. /\ Chunks!Hits(p, e) # {}
      /\ docs' = [docs EXCEPT ![k] = IF m = p THEN @ ELSE Append(@, <<p, m>>)]
      /\ iter' = [iter EXCEPT ![k] = m + L]
      /\ file' = file /\ sep' = sep /\ rule' = rule /\ size' = size
      /\ start' = start /\ ranges' = ranges /\ open' = open /\ pc' = pc
  BY <1>5 DEF Chunks!NextPiece, Chunks!Piece, Chunks!input
<1>7. /\ m \in Nat /\ p <= m /\ m + L <= e /\ Occurs(file, sep, m)
      /\ Clear(file, sep, p, m + L - 1)
  BY <1>2, <1>3, <1>4, <1>6, FirstIs
<1>. DEFINE q == IF m = p THEN docs[k] ELSE Append(docs[k], <<p, m>>)
<1>. HIDE DEF p, m, a, e
<1>8. /\ q \in Seq(Spans)
      /\ Apart(file, sep) => Yielded(file, sep, q, a, m + L)
      /\ rule = "target" => AllPieces(file, sep, q)
  <2>1. <<p, m>> \in Spans
    BY <1>3, <1>7 DEF Spans
  <2>2. q \in Seq(Spans)
    BY <1>3, <2>1, AppendProperties
  <2>3. ASSUME Apart(file, sep) PROVE Yielded(file, sep, q, a, m + L)
    BY <1>2, <1>3, <1>4, <1>7, <2>3, YieldedNext
  <2>4. ASSUME m # p PROVE Piece(file, sep, <<p, m>>)
    <3>1. p < m
      BY <1>3, <1>7, <2>4
    <3>. QED BY <1>2, <1>3, <1>7, <3>1, PieceTo
  <2>5. ASSUME AllPieces(file, sep, docs[k]) PROVE AllPieces(file, sep, q)
    BY <1>3, <2>1, <2>4, <2>5, AllPiecesAppend
  <2>. QED BY <1>3, <2>2, <2>3, <2>5
<1>9. Begins(file, sep, m + L)
  BY <1>2, <1>7 DEF Begins
<1>10. /\ docs' = [docs EXCEPT ![k] = q]
       /\ docs \in [0 .. Len(ranges) -> Seq(Spans)]
       /\ iter \in [0 .. Len(ranges) -> Nat]
       /\ m + L \in Nat
  BY <1>1, <1>2, <1>6, <1>7 DEF Iterating
<1>. HIDE DEF q
<1>11. /\ docs' \in [0 .. Len(ranges) -> Seq(Spans)]
       /\ iter' \in [0 .. Len(ranges) -> Nat]
       /\ docs'[k] = q /\ iter'[k] = m + L
       /\ \A j \in 0 .. Len(ranges) : j # k => docs'[j] = docs[j] /\ iter'[j] = iter[j]
  BY <1>3, <1>6, <1>8, <1>10
<1>12. a <= m + L
  BY <1>2, <1>3, <1>4, <1>7
<1>13. ASSUME NEW j \in 0 .. Len(ranges)
       PROVE  /\ FromOf(ranges, j) <= iter'[j] /\ iter'[j] <= ToOf(file, ranges, j)
              /\ Begins(file, sep, iter'[j])
              /\ Apart(file, sep) =>
                   Yielded(file, sep, docs'[j], FromOf(ranges, j),
                           IF j \in open THEN iter'[j] ELSE ToOf(file, ranges, j))
              /\ rule = "target" => AllPieces(file, sep, docs'[j])
  <2>1. CASE j = k
    BY <1>7, <1>8, <1>9, <1>11, <1>12, <2>1 DEF a, e
  <2>2. CASE j # k
    BY <1>1, <1>11, <2>2 DEF Iterating
  <2>. QED BY <2>1, <2>2
<1>14. Iterating'
  BY <1>1, <1>6, <1>11, <1>13 DEF Iterating
<1>. QED BY <1>1, <1>6, <1>14 DEF TextInv, TextType

LEMMA YieldRestStep ==
  ASSUME TextInv, pc = "run", NEW k \in open, Chunks!YieldRest(k)
  PROVE  TextInv'
<1>. DEFINE p == iter[k]
            e == ToOf(file, ranges, k)
            a == FromOf(ranges, k)
            q == Append(docs[k], <<p, e>>)
<1>1. /\ TextType /\ Tiled(file, sep, ranges) /\ Covers(file, sep, ranges) /\ Iterating
  BY DEF TextInv
<1>2. Strings(file, sep)
  BY <1>1, TextStrings DEF TextType
<1>3. /\ k \in 0 .. Len(ranges) /\ p \in Nat /\ a <= p /\ p <= e
      /\ Begins(file, sep, p)
      /\ docs[k] \in Seq(Spans)
      /\ Apart(file, sep) => Yielded(file, sep, docs[k], a, p)
      /\ rule = "target" => AllPieces(file, sep, docs[k])
  BY <1>1 DEF Iterating
<1>4. a \in Nat /\ e \in Nat /\ e <= Len(file) /\ Closes(file, sep, e)
  BY <1>1, <1>2, <1>3, RegionBounds
<1>5. Chunks!EndOf(k) = e
  BY DEF Chunks!EndOf, ToOf
<1>6. /\ p < e /\ Chunks!Hits(p, e) = {}
      /\ docs' = [docs EXCEPT ![k] = q]
      /\ open' = open \ {k}
      /\ file' = file /\ sep' = sep /\ rule' = rule /\ size' = size
      /\ start' = start /\ ranges' = ranges /\ iter' = iter /\ pc' = pc
  BY <1>5 DEF Chunks!YieldRest, Chunks!input
<1>7. Clear(file, sep, p, e)
  BY <1>2, <1>3, <1>4, <1>6, HitsAre
<1>8. /\ q \in Seq(Spans)
      /\ Apart(file, sep) => Yielded(file, sep, q, a, e)
      /\ rule = "target" => AllPieces(file, sep, q)
  <2>1. <<p, e>> \in Spans
    BY <1>3, <1>4 DEF Spans
  <2>2. q \in Seq(Spans)
    BY <1>3, <2>1, AppendProperties
  <2>3. ASSUME Apart(file, sep) PROVE Yielded(file, sep, q, a, e)
    BY <1>2, <1>3, <1>4, <1>6, <1>7, <2>3, YieldedRest
  <2>4. ASSUME rule = "target" PROVE AllPieces(file, sep, q)
    <3>1. Ends(file, sep, e)
      <4>1. EndWhole(file, sep, ranges) /\ Len(ranges) \in Nat
        BY <1>1, <2>4, LenProperties DEF TextInv, Tiled
      <4>2. CASE k = 0
        BY <4>2 DEF ToOf, Ends
      <4>3. CASE k # 0
        <5>1. k \in 1 .. Len(ranges) /\ e = ranges[k][2]
          BY <1>3, <4>1, <4>3 DEF ToOf
        <5>. QED BY <4>1, <5>1 DEF EndWhole
      <4>. QED BY <4>2, <4>3
    <3>2. <<p, e>>[1] = p /\ <<p, e>>[2] = e
      OBVIOUS
    <3>3. Piece(file, sep, <<p, e>>)
      BY <1>3, <1>4, <1>6, <1>7, <3>1, <3>2 DEF Piece
    <3>. QED BY <1>3, <2>1, <2>4, <3>3, AllPiecesAppend
  <2>. QED BY <2>2, <2>3, <2>4
<1>. HIDE DEF p, a, e, q
<1>9. /\ docs' \in [0 .. Len(ranges) -> Seq(Spans)]
      /\ docs'[k] = q
      /\ \A j \in 0 .. Len(ranges) : j # k => docs'[j] = docs[j]
  BY <1>1, <1>3, <1>6, <1>8 DEF Iterating
<1>10. ASSUME NEW j \in 0 .. Len(ranges)
       PROVE  /\ FromOf(ranges, j) <= iter[j] /\ iter[j] <= ToOf(file, ranges, j)
              /\ Begins(file, sep, iter[j])
              /\ Apart(file, sep) =>
                   Yielded(file, sep, docs'[j], FromOf(ranges, j),
                           IF j \in open' THEN iter[j] ELSE ToOf(file, ranges, j))
              /\ rule = "target" => AllPieces(file, sep, docs'[j])
  <2>1. CASE j = k
    <3>1. j \notin open'
      BY <1>6, <2>1
    <3>2. /\ Apart(file, sep) =>
               Yielded(file, sep, docs'[j], FromOf(ranges, j), ToOf(file, ranges, j))
          /\ rule = "target" => AllPieces(file, sep, docs'[j])
      BY <1>8, <1>9, <2>1 DEF a, e
    <3>. QED BY <1>1, <3>1, <3>2 DEF Iterating
  <2>2. CASE j # k
    <3>1. j \in open' <=> j \in open
      BY <1>6, <2>2
    <3>. QED BY <1>1, <1>9, <2>2, <3>1 DEF Iterating
  <2>. QED BY <2>1, <2>2
<1>11. Iterating'
  BY <1>1, <1>6, <1>9, <1>10 DEF Iterating
<1>. QED BY <1>1, <1>6, <1>11 DEF TextInv, TextType

LEMMA StopStep ==
  ASSUME TextInv, pc = "run", NEW k \in open, Chunks!Stop(k)
  PROVE  TextInv'
<1>1. /\ TextType /\ Tiled(file, sep, ranges) /\ Covers(file, sep, ranges) /\ Iterating
  BY DEF TextInv
<1>2. Strings(file, sep)
  BY <1>1, TextStrings DEF TextType
<1>3. /\ iter[k] >= ToOf(file, ranges, k)
      /\ open' = open \ {k}
      /\ file' = file /\ sep' = sep /\ rule' = rule /\ size' = size
      /\ start' = start /\ ranges' = ranges /\ iter' = iter /\ docs' = docs /\ pc' = pc
  BY DEF Chunks!Stop, Chunks!input, Chunks!EndOf, ToOf
<1>4. /\ k \in 0 .. Len(ranges) /\ iter[k] \in Nat
      /\ iter[k] <= ToOf(file, ranges, k)
      /\ Apart(file, sep) => Yielded(file, sep, docs[k], FromOf(ranges, k), iter[k])
  BY <1>1 DEF Iterating
<1>5. ToOf(file, ranges, k) \in Nat
  BY <1>1, <1>2, <1>4, RegionBounds
<1>6. iter[k] = ToOf(file, ranges, k)
  BY <1>3, <1>4, <1>5
<1>7. ASSUME NEW j \in 0 .. Len(ranges)
      PROVE  /\ FromOf(ranges, j) <= iter[j] /\ iter[j] <= ToOf(file, ranges, j)
             /\ Begins(file, sep, iter[j])
             /\ Apart(file, sep) =>
                  Yielded(file, sep, docs[j], FromOf(ranges, j),
                          IF j \in open' THEN iter[j] ELSE ToOf(file, ranges, j))
             /\ rule = "target" => AllPieces(file, sep, docs[j])
  <2>1. CASE j = k
    BY <1>1, <1>4, <1>6, <2>1 DEF Iterating
  <2>2. CASE j # k
    <3>1. j \in open' <=> j \in open
      BY <1>3, <2>2
    <3>. QED BY <1>1, <3>1 DEF Iterating
  <2>. QED BY <2>1, <2>2
<1>8. Iterating'
  BY <1>1, <1>3, <1>7 DEF Iterating
<1>. QED BY <1>1, <1>3, <1>8 DEF TextInv, TextType

LEMMA TextInit ==
  ASSUME Chunks!Init
  PROVE  TextInv
<1>1. /\ file \in Texts /\ sep \in Separators
      /\ \/ rule = "target" /\ size \in Targets /\ start = 0
         \/ rule = "count" /\ size \in Counts /\ start = 1
      /\ ranges = <<>> /\ iter = <<>> /\ open = {} /\ docs = <<>> /\ pc = "cut"
  BY DEF Chunks!Init
<1>2. Strings(file, sep)
  BY <1>1, TextStrings
<1>3. TextType
  <2>1. Targets \subseteq Nat \ {0} /\ Counts \subseteq Nat \ {0}
    BY SourcesAssumption DEF Chunks!InputAssumption
  <2>2. size \in Targets \/ size \in Counts
    BY <1>1
  <2>3. size \in Nat \ {0}
    BY <2>1, <2>2
  <2>4. start = 0 \/ start = 1
    BY <1>1
  <2>5. start \in Nat
    BY <2>4
  <2>. QED BY <1>1, <2>3, <2>5 DEF TextType
<1>4. Tiled(file, sep, ranges)
  <2>1. ranges \in Seq(Spans) /\ Len(ranges) = 0
    BY <1>1
  <2>. QED BY <2>1 DEF Tiled
<1>5. rule = "target" => CutByTarget(file, sep, ranges, start)
  BY <1>1 DEF CutByTarget
<1>6. rule = "count" => CutByCount(file, sep, ranges, size, start)
  BY <1>1, <1>2 DEF CutByCount, LastTo, Strings
<1>7. Len(ranges) = 0
  BY <1>1
<1>8. EndWhole(file, sep, ranges)
  BY <1>7 DEF EndWhole
<1>. QED BY <1>1, <1>3, <1>4, <1>5, <1>6, <1>8 DEF TextInv, Cutting

LEMMA TextNext ==
  ASSUME TextInv, Chunks!Next
  PROVE  TextInv'
<1>2. ASSUME NEW k \in open PROVE pc = "run"
  BY <1>2 DEF TextInv, TextType
<1>3. CASE Chunks!Done /\ UNCHANGED Chunks!vars
  BY <1>3 DEF Chunks!vars, TextInv, TextType, Cutting, Iterating
<1>. QED
  BY <1>2, <1>3, CutRegionStep, CutCountedStep, CutLastStep,
     NextPieceStep, YieldRestStep, StopStep DEF Chunks!Next

(* Regions are in order: by the least region that begins before the end of *)
(* an earlier one.                                                         *)
LEMMA TiledRises ==
  ASSUME NEW f, NEW s, Strings(f, s), NEW rs, Tiled(f, s, rs),
         NEW i \in 1 .. Len(rs), NEW j \in 1 .. Len(rs), i < j
  PROVE  rs[i][2] <= rs[j][1]
<1>. DEFINE n == Len(rs)
            Bad == {l \in 1 .. n : i < l /\ ~(rs[i][2] <= rs[l][1])}
<1>1. n \in Nat /\ \A l \in 1 .. n : rs[l] \in Spans
  BY ElementOfSeq, LenProperties DEF Tiled
<1>2. \A l \in 1 .. n : rs[l][1] \in Nat /\ rs[l][2] \in Nat /\ rs[l][1] <= rs[l][2]
  BY <1>1 DEF Tiled, Spans
<1>3. \A l \in 2 .. n : rs[l - 1][2] <= rs[l][1]
  <2>. SUFFICES ASSUME NEW l \in 2 .. n PROVE rs[l - 1][2] <= rs[l][1]
    OBVIOUS
  <2>1. l - 1 \in 1 .. n
    BY <1>1
  <2>. DEFINE e == rs[l - 1][2]
              b == rs[l][1]
  <2>2. e \in Nat /\ Joins(f, s, e, b)
    BY <1>2, <2>1 DEF Tiled
  <2>. HIDE DEF e, b
  <2>3. e <= b
    BY <2>2 DEF Joins, Strings
  <2>. QED BY <2>3 DEF e, b
<1>. SUFFICES ASSUME Bad # {} PROVE FALSE
  OBVIOUS
<1>4. Bad \in SUBSET Nat
  BY <1>1
<1>5. PICK l \in Bad : \A k \in Bad : l <= k
  <2>. HIDE DEF Bad
  <2>. QED BY <1>4, LeastNumber
<1>6. l \in 2 .. n /\ l - 1 \in 1 .. n /\ l - 1 \notin Bad /\ i <= l - 1
  BY <1>1, <1>5
<1>7. rs[i][2] <= rs[l - 1][2]
  <2>1. CASE l - 1 = i
    BY <1>2, <1>6, <2>1
  <2>2. CASE l - 1 # i
    <3>1. rs[i][2] <= rs[l - 1][1]
      BY <1>1, <1>6, <2>2
    <3>. QED BY <1>2, <1>6, <3>1
  <2>. QED BY <2>1, <2>2
<1>8. rs[l - 1][2] <= rs[l][1]
  BY <1>3, <1>6
<1>9. rs[i][2] <= rs[l][1]
  <2>1. rs[i][2] \in Nat /\ rs[l - 1][2] \in Nat /\ rs[l][1] \in Nat
    BY <1>2, <1>5, <1>6
  <2>. QED BY <1>7, <1>8, <2>1
<1>. QED BY <1>5, <1>9

(* No piece straddles two regions, and none lies outside them all.         *)
LEMMA PieceInRegion ==
  ASSUME NEW f, NEW s, Strings(f, s), Apart(f, s), NEW rs, Tiled(f, s, rs),
         Covers(f, s, rs), NEW d \in Spans, Piece(f, s, d)
  PROVE  \E k \in 1 .. Len(rs) : rs[k][1] <= d[1] /\ d[2] <= rs[k][2]
<1>. DEFINE n == Len(rs)
            L == Len(s)
            S == {k \in 1 .. n : d[2] <= rs[k][2]}
<1>1. /\ n \in Nat /\ n \in 1 .. n /\ LastTo(rs) = rs[n][2] /\ LastTo(rs) \in Nat
      /\ L \in Nat /\ Len(f) \in Nat
  BY LastIs DEF Covers, Strings
<1>2. \A l \in 1 .. n : rs[l][1] \in Nat /\ rs[l][2] \in Nat
  <2>1. \A l \in 1 .. n : rs[l] \in Spans
    BY ElementOfSeq DEF Tiled
  <2>. QED BY <2>1 DEF Spans
<1>3. d[1] \in Nat /\ d[2] \in Nat /\ d[1] < d[2] /\ d[2] <= Len(f)
  BY DEF Spans, Piece
<1>4. d[2] <= LastTo(rs)
  <2>1. CASE LastTo(rs) = Len(f)
    BY <1>3, <2>1
  <2>2. CASE LastTo(rs) # Len(f)
    <3>1. Occurs(f, s, LastTo(rs)) /\ LastTo(rs) + L = Len(f) /\ L > 0
      BY <2>2 DEF Covers, Occurs
    <3>2. d[2] <= LastTo(rs) \/ LastTo(rs) + L <= d[1]
      BY <3>1, PieceAvoids
    <3>. QED BY <1>1, <1>3, <3>1, <3>2
  <2>. QED BY <2>1, <2>2
<1>5. n \in S
  BY <1>1, <1>4
<1>6. PICK k \in S : \A l \in S : k <= l
  <2>1. S \in SUBSET Nat
    BY <1>1
  <2>. HIDE DEF S
  <2>. QED BY <1>5, <2>1, LeastNumber
<1>7. k \in 1 .. n /\ d[2] <= rs[k][2]
  BY <1>6
<1>8. rs[k][1] <= d[1]
  <2>1. CASE k = 1
    <3>1. rs[1][1] = 0
      BY <1>1 DEF Tiled
    <3>. QED BY <1>3, <2>1, <3>1
  <2>2. CASE k # 1
    <3>1. k \in 2 .. n /\ k - 1 \in 1 .. n /\ k - 1 \notin S
      BY <1>1, <1>6, <1>7, <2>2
    <3>. DEFINE e == rs[k - 1][2]
                b == rs[k][1]
    <3>2. e \in Nat /\ b \in Nat /\ e < d[2]
      BY <1>2, <1>3, <1>7, <3>1
    <3>3. Joins(f, s, e, b)
      BY <3>1 DEF Tiled
    <3>. HIDE DEF e, b, S
    <3>4. CASE Occurs(f, s, e) /\ b = e + L
      <4>1. d[2] <= e \/ e + L <= d[1]
        BY <3>4, PieceAvoids
      <4>. QED BY <1>1, <1>3, <3>2, <3>4, <4>1 DEF b
    <3>5. CASE b = e /\ e >= L /\ Occurs(f, s, e - L)
      <4>1. d[2] <= e - L \/ (e - L) + L <= d[1]
        BY <3>5, PieceAvoids
      <4>. QED BY <1>1, <1>3, <3>2, <3>5, <4>1 DEF b
    <3>. QED BY <3>3, <3>4, <3>5 DEF Joins
  <2>. QED BY <2>1, <2>2
<1>. QED BY <1>7, <1>8

LEMMA OccursMatch ==
  ASSUME Strings(file, sep), NEW p, Occurs(file, sep, p)
  PROVE  Chunks!MatchAt(p)
<1>1. sep # <<>>
  BY EmptySeq DEF Occurs, Strings
<1>. QED BY <1>1 DEF Occurs, Chunks!MatchAt

(* What the invariant says of regions and documents. *)
LEMMA TextRegionsTile ==
  ASSUME TextInv
  PROVE  Chunks!RegionsTile
<1>1. Tiled(file, sep, ranges) /\ TextType /\ (pc = "run" => Covers(file, sep, ranges))
  BY DEF TextInv
<1>2. Strings(file, sep) /\ Len(sep) \in Nat
  BY <1>1, TextStrings DEF TextType, Strings
<1>3. \A i \in 1 .. Len(ranges) : ranges[i][1] <= ranges[i][2] /\ ranges[i][2] <= Len(file)
  BY <1>1 DEF Tiled
<1>4. ASSUME NEW i \in 1 .. Len(ranges), i > 1
      PROVE  \/ ranges[i][1] = ranges[i - 1][2]
             \/ /\ Chunks!MatchAt(ranges[i - 1][2])
                /\ ranges[i][1] = ranges[i - 1][2] + Len(sep)
  <2>1. i \in 2 .. Len(ranges)
    BY <1>4
  <2>2. Joins(file, sep, ranges[i - 1][2], ranges[i][1])
    BY <1>1, <2>1 DEF Tiled
  <2>3. Occurs(file, sep, ranges[i - 1][2]) => Chunks!MatchAt(ranges[i - 1][2])
    BY <1>2, OccursMatch
  <2>. QED BY <2>2, <2>3 DEF Joins
<1>5. pc = "run" => \/ ranges[Len(ranges)][2] = Len(file)
                    \/ ranges[Len(ranges)][2] + Len(sep) = Len(file)
  BY <1>1 DEF Covers, LastTo
<1>. QED BY <1>3, <1>4, <1>5 DEF Chunks!RegionsTile

LEMMA TextWholePieces ==
  ASSUME TextInv, rule = "target" \/ Chunks!SeparatorsApart
  PROVE  Chunks!WholePieces
<1>1. TextType /\ Strings(file, sep)
  BY TextStrings DEF TextInv, TextType
<1>a. rule = "target" \/ Apart(file, sep)
  BY <1>1, ApartIs
<1>2. ASSUME NEW k \in DOMAIN docs, NEW j \in DOMAIN docs[k]
      PROVE  Chunks!IsPiece(docs[k][j])
  <2>1. pc = "run"
    <3>. SUFFICES ASSUME docs = <<>> PROVE FALSE
      BY DEF TextInv, TextType
    <3>1. DOMAIN docs = {}
      OBVIOUS
    <3>. QED BY <3>1, <1>2
  <2>2. Iterating
    BY <2>1 DEF TextInv
  <2>3. k \in 0 .. Len(ranges) /\ docs[k] \in Seq(Spans)
    BY <2>2 DEF Iterating
  <2>4. j \in 1 .. Len(docs[k]) /\ docs[k][j] \in Spans
    BY <2>3, LenProperties, ElementOfSeq
  <2>. DEFINE d == docs[k][j]
  <2>5. Has(docs[k], d) /\ d \in Spans
    BY <2>4 DEF Has
  <2>6. Piece(file, sep, d)
    BY <1>a, <2>2, <2>3, <2>5 DEF Iterating, Yielded, AllPieces
  <2>. HIDE DEF d
  <2>7. d[1] \in Nat /\ d[2] \in Nat /\ d[1] < d[2] /\ d[2] <= Len(file)
    BY <2>5, <2>6 DEF Spans, Piece
  <2>8. Chunks!Hits(d[1], d[2]) = {}
    BY <1>1, <2>6, <2>7, HitsAre DEF Piece
  <2>9. d[1] = 0 \/ (d[1] >= Len(sep) /\ Chunks!MatchAt(d[1] - Len(sep)))
    BY <1>1, <2>6, OccursMatch DEF Piece, Begins
  <2>10. d[2] = Len(file) \/ Chunks!MatchAt(d[2])
    BY <1>1, <2>6, OccursMatch DEF Piece, Ends
  <2>. QED BY <2>7, <2>8, <2>9, <2>10 DEF Chunks!IsPiece, d
<1>. QED BY <1>2 DEF Chunks!WholePieces

LEMMA TextSameDocuments ==
  ASSUME TextInv
  PROVE  Chunks!SameDocuments
<1>. SUFFICES ASSUME pc = "run", open = {}, Chunks!SeparatorsApart
              PROVE  Chunks!Chunked = docs[0]
  BY DEF Chunks!SameDocuments, Chunks!Done
<1>. DEFINE n == Len(ranges)
            qs == [k \in 1 .. n |-> docs[k]]
<1>1. /\ TextType /\ Tiled(file, sep, ranges) /\ Covers(file, sep, ranges) /\ Iterating
  BY DEF TextInv
<1>2. Apart(file, sep) /\ Strings(file, sep)
  BY <1>1, TextStrings, ApartIs DEF TextType
<1>3. n \in Nat /\ n # 0
  BY <1>1, <1>2, LastIs DEF Covers, Strings
<1>4. \A k \in 0 .. n : /\ docs[k] \in Seq(Spans) /\ Spread(docs[k])
                        /\ \A d \in Spans : Has(docs[k], d) <=>
                             /\ Piece(file, sep, d)
                             /\ FromOf(ranges, k) <= d[1] /\ d[2] <= ToOf(file, ranges, k)
  BY <1>1, <1>2 DEF Iterating, Yielded
<1>5. Len(qs) = n /\ \A k \in 1 .. n : qs[k] = docs[k] /\ k \in 0 .. n
  <2>1. qs \in Seq(Seq(Spans))
    BY <1>3, <1>4
  <2>2. DOMAIN qs = 1 .. n
    OBVIOUS
  <2>. QED BY <1>3, <2>1, <2>2, LenProperties
<1>6. Chunks!Chunked = FlattenSeq(qs)
  BY DEF Chunks!Chunked, Chunks!FlattenSeq, FlattenSeq
<1>. HIDE DEF qs, n
<1>7. \A k \in 1 .. n : /\ FromOf(ranges, k) = ranges[k][1]
                        /\ ToOf(file, ranges, k) = ranges[k][2]
                        /\ ranges[k][1] \in Nat /\ ranges[k][2] \in Nat
  <2>1. \A k \in 1 .. n : ranges[k] \in Spans
    BY <1>1, ElementOfSeq DEF Tiled, n
  <2>. QED BY <1>3, <2>1 DEF FromOf, ToOf, Spans
<1>8. InTurn(qs)
  <2>1. \A k \in 1 .. n : qs[k] \in Seq(Spans) /\ Spread(qs[k])
    BY <1>4, <1>5
  <2>2. ASSUME NEW i \in 1 .. n, NEW j \in 1 .. n, i < j, NEW d \in Spans, NEW e \in Spans,
               Has(qs[i], d), Has(qs[j], e)
        PROVE  d[2] <= e[1]
    <3>1. d[2] <= ranges[i][2]
      BY <1>4, <1>5, <1>7, <2>2
    <3>2. ranges[j][1] <= e[1]
      BY <1>4, <1>5, <1>7, <2>2
    <3>3. ranges[i][2] <= ranges[j][1]
      BY <1>1, <1>2, <2>2, TiledRises DEF n
    <3>4. d[2] \in Nat /\ e[1] \in Nat /\ ranges[i][2] \in Nat /\ ranges[j][1] \in Nat
      BY <1>7 DEF Spans
    <3>. QED BY <3>1, <3>2, <3>3, <3>4
  <2>. QED BY <1>5, <2>1, <2>2 DEF InTurn
<1>9. /\ FlattenSeq(qs) \in Seq(Spans)
      /\ Spread(FlattenSeq(qs))
      /\ \A d \in Spans : Has(FlattenSeq(qs), d) <=> \E k \in 1 .. n : Has(qs[k], d)
  BY <1>3, <1>5, <1>8, FlattenSpread
<1>10. /\ 0 \in 0 .. n
       /\ FromOf(ranges, 0) = 0 /\ ToOf(file, ranges, 0) = Len(file)
  BY <1>3 DEF FromOf, ToOf
<1>11. ASSUME NEW d \in Spans
       PROVE  Has(FlattenSeq(qs), d) <=> Has(docs[0], d)
  <2>1. Has(docs[0], d) <=> Piece(file, sep, d)
    BY <1>4, <1>10 DEF Piece, Spans
  <2>2. \A k \in 1 .. n : Has(qs[k], d) <=>
          Piece(file, sep, d) /\ ranges[k][1] <= d[1] /\ d[2] <= ranges[k][2]
    BY <1>4, <1>5, <1>7
  <2>3. Piece(file, sep, d) =>
          \E k \in 1 .. n : ranges[k][1] <= d[1] /\ d[2] <= ranges[k][2]
    BY <1>1, <1>2, PieceInRegion DEF n
  <2>. QED BY <1>9, <2>1, <2>2, <2>3
<1>12. docs[0] \in Seq(Spans) /\ Spread(docs[0])
  BY <1>4, <1>10
<1>13. FlattenSeq(qs) = docs[0]
  BY <1>9, <1>11, <1>12, SpreadEqual
<1>. QED BY <1>6, <1>13

------------------------------------------------------------------------------
(* Compressed text: the invariant of SeparatorReader.  Documents end       *)
(* before the buffer begins, and the buffer holds no separator until an    *)
(* empty document has been passed over in this call.                       *)
StreamInv ==
  /\ file \in Texts /\ sep \in Separators
  /\ start \in Nat /\ iter \in Nat /\ start <= iter /\ iter <= Len(file)
  /\ docs \in Seq(Spans) /\ Spread(docs)
  /\ \A d \in Spans : Has(docs, d) => d[2] <= start
  /\ skipped \in BOOLEAN
  /\ pc = "scan" /\ skipped = FALSE => Clear(file, sep, start, iter)

LEMMA StreamStrings ==
  ASSUME file \in Texts, sep \in Separators
  PROVE  Strings(file, sep)
<1>1. file \in Seq(TextBytes) /\ sep \in Seq(TextBytes)
  BY SourcesAssumption DEF Stream!InputAssumption
<1>2. Len(file) \in Nat /\ Len(sep) \in Nat
  BY <1>1, LenProperties
<1>. QED BY <1>1, <1>2 DEF Strings

(* What memmem looks for and finds, in SeparatorReader. *)
LEMMA StreamHitsAre ==
  ASSUME Strings(file, sep), NEW a \in Nat, NEW b \in Nat, b <= Len(file)
  PROVE  /\ \A p : p \in Stream!Hits(a, b) <=>
                     a <= p /\ Occurs(file, sep, p) /\ p + Len(sep) <= b
         /\ Stream!Hits(a, b) = {} <=> Clear(file, sep, a, b)
<1>1. Stream!Hits(a, b) = Chunks!Hits(a, b)
  BY DEF Stream!Hits, Stream!MatchAt, Chunks!Hits, Chunks!MatchAt
<1>. QED BY <1>1, HitsAre

LEMMA StreamFirstIs ==
  ASSUME Strings(file, sep), NEW a \in Nat, NEW b \in Nat, b <= Len(file),
         Stream!Hits(a, b) # {}
  PROVE  /\ Stream!First(a, b) \in Nat
         /\ a <= Stream!First(a, b)
         /\ Stream!First(a, b) + Len(sep) <= b
<1>1. Stream!Hits(a, b) = Chunks!Hits(a, b)
  BY DEF Stream!Hits, Stream!MatchAt, Chunks!Hits, Chunks!MatchAt
<1>2. Stream!First(a, b) = Chunks!First(a, b)
  BY <1>1 DEF Stream!First, Chunks!First
<1>. QED BY <1>1, <1>2, FirstIs

(* A document after all others. *)
LEMMA StreamAppend ==
  ASSUME NEW q \in Seq(Spans), Spread(q), NEW b \in Nat,
         \A d \in Spans : Has(q, d) => d[2] <= b,
         NEW e \in Nat, b < e, NEW t \in Nat, e <= t
  PROVE  /\ Append(q, <<b, e>>) \in Seq(Spans)
         /\ Spread(Append(q, <<b, e>>))
         /\ \A d \in Spans : Has(Append(q, <<b, e>>), d) => d[2] <= t
<1>. DEFINE u == <<b, e>>
<1>1. u \in Spans /\ u[1] = b /\ u[2] = e
  BY DEF Spans
<1>. HIDE DEF u
<1>2. /\ Append(q, u) \in Seq(Spans)
      /\ Spread(Append(q, u))
      /\ \A d : Has(Append(q, u), d) <=> Has(q, d) \/ d = u
  BY <1>1, SpreadAppend
<1>3. ASSUME NEW d \in Spans, Has(Append(q, u), d) PROVE d[2] <= t
  <2>1. d[2] \in Nat
    BY DEF Spans
  <2>2. d[2] <= b \/ d[2] = e
    BY <1>1, <1>2, <1>3
  <2>. QED BY <2>1, <2>2
<1>. QED BY <1>2, <1>3 DEF u

LEMMA FillStep ==
  ASSUME StreamInv, Stream!Fill
  PROVE  StreamInv'
<1>. DEFINE L == Len(sep)
            from == Stream!SearchStart
<1>1. /\ file \in Texts /\ sep \in Separators
      /\ start \in Nat /\ iter \in Nat /\ start <= iter /\ iter <= Len(file)
      /\ docs \in Seq(Spans) /\ Spread(docs)
      /\ \A d \in Spans : Has(docs, d) => d[2] <= start
      /\ skipped \in BOOLEAN
  BY DEF StreamInv
<1>2. /\ Strings(file, sep) /\ Len(file) \in Nat /\ L \in Nat
  BY <1>1, StreamStrings DEF Strings
<1>3. ASSUME L > 0
      PROVE  /\ from \in Nat /\ start <= from /\ from <= iter
             /\ from = start \/ from = iter - (L - 1)
  <2>1. from = iter - (IF L - 1 < iter - start THEN L - 1 ELSE iter - start)
    BY DEF Stream!SearchStart, Stream!Smaller
  <2>2. CASE L - 1 < iter - start
    <3>1. from = iter - (L - 1)
      BY <2>1, <2>2
    <3>. QED BY <1>1, <1>2, <1>3, <2>2, <3>1
  <2>3. CASE ~(L - 1 < iter - start)
    <3>1. from = start
      BY <1>1, <2>1, <2>3
    <3>. QED BY <1>1, <3>1
  <2>. QED BY <2>2, <2>3
<1>. HIDE DEF from
<1>4. PICK upto \in iter + 1 .. Len(file) :
        /\ iter' = upto
        /\ IF Stream!Hits(from, upto) # {}
           THEN Stream!Found(upto)
           ELSE UNCHANGED <<start, docs, pc, skipped>>
  BY DEF Stream!Fill, from
<1>5. /\ pc = "scan" /\ file' = file /\ sep' = sep
  BY DEF Stream!Fill
<1>6. upto \in Nat /\ iter < upto /\ upto <= Len(file)
  BY <1>1, <1>2, <1>4
<1>7. CASE Stream!Hits(from, upto) = {}
  <2>1. start' = start /\ docs' = docs /\ pc' = pc /\ skipped' = skipped
    BY <1>4, <1>7
  <2>2. ASSUME L > 0 PROVE Clear(file, sep, from, upto)
    BY <1>2, <1>3, <1>6, <1>7, <2>2, StreamHitsAre
  <2>3. ASSUME skipped = FALSE PROVE Clear(file, sep, start, upto)
    <3>1. Clear(file, sep, start, iter)
      BY <1>5, <2>3 DEF StreamInv
    <3>. SUFFICES ASSUME NEW p \in Nat, Occurs(file, sep, p), start <= p, p + L <= upto
                  PROVE  FALSE
      BY DEF Clear
    <3>2. L > 0
      BY DEF Occurs
    <3>3. ~(p + L <= iter)
      BY <3>1 DEF Clear
    <3>4. from <= p
      BY <1>1, <1>2, <1>3, <3>2, <3>3
    <3>. QED BY <2>2, <3>2, <3>4 DEF Clear
  <2>4. skipped \in BOOLEAN /\ skipped' \in BOOLEAN
    BY <2>1 DEF StreamInv
  <2>5. pc' = "scan" /\ skipped' = FALSE => Clear(file', sep', start', iter')
    BY <1>4, <1>5, <2>1, <2>3
  <2>. QED BY <1>1, <1>4, <1>5, <1>6, <2>1, <2>4, <2>5 DEF StreamInv
<1>8. CASE Stream!Hits(from, upto) # {}
  <2>. DEFINE at == Stream!First(from, upto)
  <2>0. L > 0
    <3>1. sep # <<>>
      BY <1>8 DEF Stream!Hits, Stream!MatchAt
    <3>. QED BY <1>2, <3>1, EmptySeq DEF Strings
  <2>1. at \in Nat /\ from <= at /\ at + L <= upto
    BY <1>2, <1>3, <1>6, <1>8, <2>0, StreamFirstIs
  <2>2. /\ start' = at + L
        /\ IF at = start
           THEN docs' = docs /\ pc' = pc /\ skipped' = TRUE
           ELSE docs' = Append(docs, <<start, at>>) /\ pc' = "idle" /\ skipped' = skipped
    BY <1>4, <1>8 DEF Stream!Found, from
  <2>. HIDE DEF at
  <2>3. start' \in Nat /\ start' <= upto /\ start <= at /\ at <= start' /\ start <= start'
    BY <1>1, <1>2, <1>3, <2>0, <2>1, <2>2
  <2>4. CASE at = start
    <3>1. \A d \in Spans : Has(docs', d) => d[2] <= start'
      BY <1>1, <2>2, <2>3, <2>4 DEF Spans
    <3>2. docs' = docs /\ skipped' = TRUE
      BY <2>2, <2>4
    <3>. QED BY <1>1, <1>4, <1>5, <1>6, <2>3, <3>1, <3>2 DEF StreamInv
  <2>5. CASE at # start
    <3>1. docs' = Append(docs, <<start, at>>) /\ pc' = "idle"
      BY <2>2, <2>5
    <3>2. /\ docs' \in Seq(Spans) /\ Spread(docs')
          /\ \A d \in Spans : Has(docs', d) => d[2] <= start'
      <4>1. start < at
        BY <1>1, <2>1, <2>3, <2>5
      <4>2. \A d \in Spans : Has(docs, d) => d[2] <= start
        BY <1>1
      <4>3. docs \in Seq(Spans) /\ Spread(docs) /\ start \in Nat
        BY <1>1
      <4>. QED BY <2>1, <2>3, <3>1, <4>1, <4>2, <4>3, StreamAppend
    <3>3. skipped' \in BOOLEAN
      BY <1>1, <2>2, <2>5
    <3>. QED BY <1>1, <1>4, <1>5, <1>6, <2>3, <3>1, <3>2, <3>3 DEF StreamInv
  <2>. QED BY <2>4, <2>5
<1>. QED BY <1>7, <1>8

LEMMA EofStep ==
  ASSUME StreamInv, Stream!Eof
  PROVE  StreamInv'
<1>1. /\ file \in Texts /\ sep \in Separators
      /\ start \in Nat /\ iter \in Nat /\ start <= iter /\ iter <= Len(file)
      /\ docs \in Seq(Spans) /\ Spread(docs)
      /\ \A d \in Spans : Has(docs, d) => d[2] <= start
      /\ skipped \in BOOLEAN
  BY DEF StreamInv
<1>2. /\ file' = file /\ sep' = sep /\ iter' = iter /\ pc' # "scan"
      /\ IF start = iter
         THEN start' = start /\ docs' = docs
         ELSE docs' = Append(docs, <<start, iter>>) /\ start' = iter
      /\ skipped' = skipped
  BY DEF Stream!Eof
<1>3. CASE start = iter
  BY <1>1, <1>2, <1>3 DEF StreamInv
<1>4. CASE start # iter
  <2>1. start < iter /\ docs' = Append(docs, <<start, iter>>) /\ start' = iter
    BY <1>1, <1>2, <1>4
  <2>2. /\ docs' \in Seq(Spans) /\ Spread(docs')
        /\ \A d \in Spans : Has(docs', d) => d[2] <= start'
    <3>1. iter <= iter
      BY <1>1
    <3>. QED BY <1>1, <2>1, <3>1, StreamAppend
  <2>3. /\ file' \in Texts /\ sep' \in Separators
        /\ start' \in Nat /\ iter' \in Nat /\ start' <= iter' /\ iter' <= Len(file')
        /\ skipped' \in BOOLEAN
    BY <1>1, <1>2, <2>1
  <2>. QED BY <1>2, <2>2, <2>3 DEF StreamInv
<1>. QED BY <1>3, <1>4

LEMMA CallStep ==
  ASSUME StreamInv, Stream!Call
  PROVE  StreamInv'
<1>1. /\ file \in Texts /\ sep \in Separators
      /\ start \in Nat /\ iter \in Nat /\ start <= iter /\ iter <= Len(file)
      /\ docs \in Seq(Spans) /\ Spread(docs)
      /\ \A d \in Spans : Has(docs, d) => d[2] <= start
      /\ skipped \in BOOLEAN
  BY DEF StreamInv
<1>2. Len(sep) \in Nat
  BY <1>1, StreamStrings DEF Strings
<1>3. /\ file' = file /\ sep' = sep /\ iter' = iter /\ docs' = docs
      /\ \/ pc' = "none" /\ start' = start
         \/ pc' = "scan" /\ start' = iter
      /\ skipped' \in BOOLEAN
  BY <1>1 DEF Stream!Call
<1>4. \A d \in Spans : Has(docs, d) => d[2] <= iter
  BY <1>1 DEF Spans
<1>5. Clear(file, sep, iter, iter)
  BY <1>1, <1>2 DEF Clear, Occurs
<1>6. CASE pc' = "none" /\ start' = start
  BY <1>1, <1>3, <1>6 DEF StreamInv
<1>7. CASE pc' = "scan" /\ start' = iter
  BY <1>1, <1>3, <1>4, <1>5, <1>7 DEF StreamInv
<1>. QED BY <1>3, <1>6, <1>7

LEMMA StreamNext ==
  ASSUME StreamInv, Stream!Step \/ Stream!ReadError
  PROVE  StreamInv'
<1>1. CASE Stream!ReadError
  BY <1>1 DEF Stream!ReadError, StreamInv
<1>2. CASE Stream!Done /\ UNCHANGED Stream!vars
  BY <1>2 DEF Stream!vars, StreamInv
<1>. QED
  BY <1>1, <1>2, CallStep, FillStep, EofStep DEF Stream!Step

LEMMA StreamInit ==
  ASSUME Stream!Init
  PROVE  StreamInv
<1>1. /\ file \in Texts /\ sep \in Separators /\ start = 0 /\ iter = 0
      /\ pc = "idle" /\ docs = <<>> /\ skipped \in BOOLEAN
  BY DEF Stream!Init
<1>2. Len(file) \in Nat
  BY <1>1, StreamStrings DEF Strings
<1>3. docs \in Seq(Spans) /\ Len(docs) = 0
  BY <1>1
<1>. QED BY <1>1, <1>2, <1>3 DEF StreamInv, Spread, Has

LEMMA StreamSafe ==
  ASSUME StreamInv
  PROVE  Stream!NoSeparatorMissed /\ Stream!InOrder
<1>1. /\ Strings(file, sep)
      /\ start \in Nat /\ iter \in Nat /\ iter <= Len(file)
      /\ docs \in Seq(Spans) /\ Spread(docs)
  BY StreamStrings DEF StreamInv
<1>2. ASSUME pc = "scan", ~skipped PROVE Stream!Hits(start, iter) = {}
  <2>1. skipped = FALSE
    BY <1>2 DEF StreamInv
  <2>2. Clear(file, sep, start, iter)
    BY <1>2, <2>1 DEF StreamInv
  <2>. QED BY <1>1, <2>2, StreamHitsAre
<1>3. ASSUME NEW i \in 1 .. Len(docs), i > 1 PROVE docs[i - 1][2] <= docs[i][1]
  <2>1. i - 1 \in 1 .. Len(docs) /\ i - 1 < i
    BY <1>1, <1>3, LenProperties
  <2>. QED BY <1>1, <2>1 DEF Spread
<1>4. \A i \in 1 .. Len(docs) : docs[i][1] < docs[i][2]
  BY <1>1 DEF Spread
<1>. QED BY <1>2, <1>3, <1>4 DEF Stream!NoSeparatorMissed, Stream!InOrder

------------------------------------------------------------------------------
(* JSONL: lines, and the invariant of JsonLines.                           *)

NewlineAt(f, p) == p \in Nat /\ p < Len(f) /\ f[p + 1] = newline
LineStart(f, p) == p = 0 \/ NewlineAt(f, p - 1)

(* The first newline at or after p is at e, or there is none and e is the  *)
(* end of the file.                                                        *)
LineTo(f, p, e) ==
  /\ p <= e /\ e <= Len(f)
  /\ e = Len(f) \/ NewlineAt(f, e)
  /\ \A q \in Nat : NewlineAt(f, q) => ~(p <= q /\ q < e)

(* A whole line of the file, and one with a document on it. *)
WholeLine(f, d) == LineStart(f, d[1]) /\ LineTo(f, d[1], d[2])
BytesOf(f, d) == {f[p + 1] : p \in d[1] .. d[2] - 1}
Usable(f, d) == object \in BytesOf(f, d) /\ junk \notin BytesOf(f, d)

(* Boundaries of chunks: each begins a line or ends the file.              *)
Marks(f, cs) ==
  /\ cs \in Seq(Nat) /\ Len(cs) > 0 /\ cs[1] = 0
  /\ \A i, j \in 1 .. Len(cs) : i < j => cs[i] < cs[j]
  /\ \A i \in 1 .. Len(cs) : cs[i] <= Len(f) /\ (LineStart(f, cs[i]) \/ cs[i] = Len(f))

(* The probes of jsonl_chunk_boundaries only move forward. *)
CutsForward(f, cs, n, turn) ==
  /\ turn >= 1
  /\ \A p \in Nat : NewlineAt(f, p) /\ (turn - 1) * (Len(f) \div n) <= p
       => cs[Len(cs)] <= p + 1

FirstOf(cs, k) == IF k < 1 THEN 0 ELSE cs[k]
PastOf(f, cs, k) == IF k < 1 THEN Len(f) ELSE cs[k + 1]

(* An iterator that is at offset p of a chunk that begins at a has         *)
(* yielded, in order, the usable lines that begin in between.              *)
LinesYielded(f, q, a, p) ==
  /\ Spread(q)
  /\ \A d \in Spans : Has(q, d) <=>
       WholeLine(f, d) /\ Usable(f, d) /\ a <= d[1] /\ d[1] < p

(* An iterator at offset p has met a line that ends its iteration.         *)
Stuck(f, p) ==
  \E e \in Nat : /\ p < e /\ WholeLine(f, <<p, e>>) /\ ~Usable(f, <<p, e>>)

Readers(cs) == -1 .. Len(cs) - 1

(* An iterator that has ended has come to the end of its chunk or to such  *)
(* a line; the streaming one may also have failed to read.                 *)
Ended(f, cs, k, p, err) ==
  p >= PastOf(f, cs, k) \/ Stuck(f, p) \/ (k = -1 /\ err = TRUE)

Reading ==
  /\ ranges[Len(ranges)] = Len(file)
  /\ iter \in [Readers(ranges) -> Nat]
  /\ docs \in [Readers(ranges) -> Seq(Spans)]
  /\ open \subseteq Readers(ranges)
  /\ \A k \in Readers(ranges) :
       /\ FirstOf(ranges, k) <= iter[k]
       /\ \/ iter[k] <= PastOf(file, ranges, k)
          \/ PastOf(file, ranges, k) = Len(file) /\ iter[k] = Len(file) + 1
       /\ iter[k] < PastOf(file, ranges, k) => LineStart(file, iter[k])
       /\ LinesYielded(file, docs[k], FirstOf(ranges, k), iter[k])
       /\ k \in open \/ Ended(file, ranges, k, iter[k], failed)
  /\ \A d \in Spans :
       WholeLine(file, d) /\ d[1] < d[2] /\ d[1] < iter[0] => Usable(file, d)

LinesType ==
  /\ file \in Lines
  /\ rule \in {"target", "count"} /\ size \in Nat \ {0} /\ start \in Nat
  /\ pc \in {"cut", "run"}

LinesInv ==
  /\ LinesType
  /\ Marks(file, ranges)
  /\ pc = "cut" => /\ rule = "count" => CutsForward(file, ranges, size, start)
                   /\ open = {} /\ iter = <<>> /\ docs = <<>>
  /\ pc = "run" => Reading

LEMMA LinesLength ==
  ASSUME file \in Lines
  PROVE  Len(file) \in Nat
<1>1. file \in Seq(Jsonl!Bytes)
  BY SourcesAssumption DEF Jsonl!InputAssumption
<1>. QED BY <1>1, LenProperties

(* What memchr finds. *)
LEMMA LineEndIs ==
  ASSUME Len(file) \in Nat, NEW a \in Nat, NEW b \in Nat, a <= b, b <= Len(file)
  PROVE  /\ Jsonl!LineEnd(a, b) \in Nat
         /\ a <= Jsonl!LineEnd(a, b) /\ Jsonl!LineEnd(a, b) <= b
         /\ \/ Jsonl!LineEnd(a, b) = b /\ Jsonl!Newlines(a, b) = {}
            \/ Jsonl!LineEnd(a, b) < b /\ NewlineAt(file, Jsonl!LineEnd(a, b))
         /\ \A q \in Nat : NewlineAt(file, q) => ~(a <= q /\ q < Jsonl!LineEnd(a, b))
<1>. DEFINE N == Jsonl!Newlines(a, b)
            m == Jsonl!LineEnd(a, b)
<1>1. m = IF N = {} THEN b ELSE CHOOSE p \in N : \A q \in N : p <= q
  BY DEF Jsonl!LineEnd
<1>2. N = {p \in a .. b - 1 : file[p + 1] = newline}
  BY DEF Jsonl!Newlines
<1>. HIDE DEF N, m
<1>3. \A q \in Nat : NewlineAt(file, q) /\ a <= q /\ q < b => q \in N
  BY <1>2 DEF NewlineAt
<1>4. \A q \in N : q \in Nat /\ a <= q /\ q < b /\ NewlineAt(file, q)
  BY <1>2 DEF NewlineAt
<1>5. CASE N = {}
  BY <1>1, <1>3, <1>5 DEF N, m
<1>6. CASE N # {}
  <2>1. N \in SUBSET Nat
    BY <1>4
  <2>2. \E p \in N : \A q \in N : p <= q
    BY <1>6, <2>1, LeastNumber
  <2>3. m \in N /\ \A q \in N : m <= q
    BY <1>1, <1>6, <2>2
  <2>4. m \in Nat /\ a <= m /\ m < b /\ NewlineAt(file, m)
    BY <1>4, <2>3
  <2>5. \A q \in Nat : NewlineAt(file, q) => ~(a <= q /\ q < m)
    BY <1>3, <2>3, <2>4
  <2>. QED BY <2>4, <2>5 DEF m
<1>. QED BY <1>5, <1>6

LEMMA LineUnique ==
  ASSUME NEW f, Len(f) \in Nat, NEW p \in Nat, NEW e \in Nat, NEW g \in Nat,
         LineTo(f, p, e), LineTo(f, p, g)
  PROVE  e = g
<1>1. ASSUME NEW u \in Nat, NEW v \in Nat, LineTo(f, p, u), LineTo(f, p, v), u < v
      PROVE  FALSE
  <2>1. u # Len(f) /\ p <= u
    BY <1>1 DEF LineTo
  <2>2. NewlineAt(f, u)
    BY <1>1, <2>1 DEF LineTo
  <2>. QED BY <1>1, <2>1, <2>2 DEF LineTo
<1>. QED BY <1>1

(* A line ends before the next one starts. *)
LEMMA LinesApart ==
  ASSUME NEW f, Len(f) \in Nat, NEW d \in Spans, WholeLine(f, d),
         NEW b \in Nat, LineStart(f, b), d[1] < b
  PROVE  d[2] < b
<1>1. d[1] \in Nat /\ d[2] \in Nat
  BY DEF Spans
<1>2. NewlineAt(f, b - 1) /\ b - 1 \in Nat /\ d[1] <= b - 1
  BY <1>1 DEF LineStart, NewlineAt
<1>3. ~(b - 1 < d[2])
  BY <1>2 DEF WholeLine, LineTo
<1>. QED BY <1>1, <1>3

LEMMA UsableLine ==
  ASSUME NEW f, NEW d \in Spans, Usable(f, d)
  PROVE  d[1] < d[2]
<1>1. d[1] \in Nat /\ d[2] \in Nat
  BY DEF Spans
<1>2. PICK p \in d[1] .. d[2] - 1 : f[p + 1] = object
  BY DEF Usable, BytesOf
<1>. QED BY <1>1, <1>2

(* The line at an offset is the only one that begins before its end.       *)
LEMMA OnlyLine ==
  ASSUME NEW f, Len(f) \in Nat, NEW p \in Nat, NEW m \in Nat,
         LineStart(f, p), LineTo(f, p, m),
         NEW d \in Spans, WholeLine(f, d), p <= d[1], d[1] < m + 1
  PROVE  d = <<p, m>>
<1>1. d[1] \in Nat /\ d[2] \in Nat /\ d = <<d[1], d[2]>>
  BY DEF Spans
<1>2. d[1] = p
  <2>. SUFFICES ASSUME p < d[1] PROVE FALSE
    BY <1>1
  <2>1. <<p, m>> \in Spans /\ <<p, m>>[1] = p /\ <<p, m>>[2] = m
    BY DEF Spans
  <2>2. WholeLine(f, <<p, m>>) /\ LineStart(f, d[1])
    BY <2>1 DEF WholeLine
  <2>3. m < d[1]
    BY <1>1, <2>1, <2>2, LinesApart
  <2>. QED BY <1>1, <2>3
<1>3. LineTo(f, p, d[2])
  BY <1>2 DEF WholeLine
<1>4. d[2] = m
  BY <1>1, <1>3, LineUnique
<1>. QED BY <1>1, <1>2, <1>4

(* One turn of the loop of next(), on what an iterator has yielded.        *)
LEMMA LinesYieldedNext ==
  ASSUME NEW f, Len(f) \in Nat, NEW q \in Seq(Spans),
         NEW a \in Nat, NEW p \in Nat, NEW m \in Nat, a <= p,
         LineStart(f, p), LineTo(f, p, m), LinesYielded(f, q, a, p)
  PROVE  /\ ~Usable(f, <<p, m>>) => LinesYielded(f, q, a, m + 1)
         /\ Usable(f, <<p, m>>) => /\ Append(q, <<p, m>>) \in Seq(Spans)
                                   /\ LinesYielded(f, Append(q, <<p, m>>), a, m + 1)
<1>. DEFINE u == <<p, m>>
<1>1. u \in Spans /\ u[1] = p /\ u[2] = m
  BY DEF Spans
<1>2. p <= m /\ WholeLine(f, u)
  BY <1>1 DEF WholeLine, LineTo
<1>3. \A d \in Spans : WholeLine(f, d) /\ p <= d[1] /\ d[1] < m + 1 => d = u
  BY OnlyLine
<1>. HIDE DEF u
<1>4. \A d \in Spans : d[1] \in Nat /\ d[2] \in Nat
  BY DEF Spans
<1>5. /\ Spread(q)
      /\ \A d \in Spans : Has(q, d) <=>
           WholeLine(f, d) /\ Usable(f, d) /\ a <= d[1] /\ d[1] < p
  BY DEF LinesYielded
<1>6. ASSUME NEW d \in Spans, WholeLine(f, d)
      PROVE  d[1] < m + 1 <=> d[1] < p \/ d = u
  BY <1>1, <1>2, <1>3, <1>4, <1>6
<1>7. CASE ~Usable(f, u)
  <2>1. ASSUME NEW d \in Spans
        PROVE  Has(q, d) <=> WholeLine(f, d) /\ Usable(f, d) /\ a <= d[1] /\ d[1] < m + 1
    BY <1>5, <1>6, <1>7
  <2>. QED BY <1>5, <1>7, <2>1 DEF LinesYielded, u
<1>8. CASE Usable(f, u)
  <2>1. p < m
    BY <1>1, <1>8, UsableLine
  <2>2. ASSUME NEW d \in Spans, Has(q, d) PROVE d[2] <= p
    <3>1. WholeLine(f, d) /\ d[1] < p
      BY <1>5, <2>2
    <3>2. d[2] < p
      BY <3>1, LinesApart
    <3>. QED BY <1>4, <3>2
  <2>3. /\ Append(q, u) \in Seq(Spans)
        /\ Spread(Append(q, u))
        /\ \A d : Has(Append(q, u), d) <=> Has(q, d) \/ d = u
    BY <1>1, <1>5, <2>1, <2>2, SpreadAppend
  <2>4. ASSUME NEW d \in Spans
        PROVE  Has(Append(q, u), d) <=>
                 WholeLine(f, d) /\ Usable(f, d) /\ a <= d[1] /\ d[1] < m + 1
    <3>1. WholeLine(f, u) /\ Usable(f, u) /\ a <= u[1] /\ u[1] < m + 1
      BY <1>1, <1>2, <1>8
    <3>. QED BY <1>5, <1>6, <2>3, <3>1
  <2>. QED BY <1>8, <2>3, <2>4 DEF LinesYielded, u
<1>. QED BY <1>7, <1>8 DEF u

(* One more boundary. *)
LEMMA MarksAppend ==
  ASSUME NEW f, Len(f) \in Nat, NEW cs, Marks(f, cs), NEW b \in Nat,
         cs[Len(cs)] < b, b <= Len(f), LineStart(f, b) \/ b = Len(f)
  PROVE  /\ Marks(f, Append(cs, b))
         /\ Append(cs, b)[Len(Append(cs, b))] = b
<1>. DEFINE n == Len(cs)
            r == Append(cs, b)
<1>1. /\ cs \in Seq(Nat) /\ n > 0 /\ cs[1] = 0
      /\ \A i, j \in 1 .. n : i < j => cs[i] < cs[j]
      /\ \A i \in 1 .. n : cs[i] <= Len(f) /\ (LineStart(f, cs[i]) \/ cs[i] = Len(f))
  BY DEF Marks
<1>2. /\ r \in Seq(Nat) /\ n \in Nat /\ Len(r) = n + 1
      /\ \A i \in 1 .. n : r[i] = cs[i]
      /\ r[n + 1] = b
  BY <1>1, AppendProperties, LenProperties
<1>3. \A i \in 1 .. n : cs[i] \in Nat
  BY <1>1, ElementOfSeq
<1>. HIDE DEF r, n
<1>4. \A i \in 1 .. n + 1 : i \in 1 .. n \/ i = n + 1
  BY <1>2
<1>5. \A i \in 1 .. n : cs[i] < b
  <2>. SUFFICES ASSUME NEW i \in 1 .. n PROVE cs[i] < b
    OBVIOUS
  <2>1. n \in 1 .. n /\ (i < n \/ i = n)
    BY <1>1, <1>2
  <2>2. cs[n] \in Nat /\ cs[i] \in Nat /\ cs[n] < b /\ (i < n => cs[i] < cs[n])
    BY <1>1, <1>3, <2>1 DEF n
  <2>. QED BY <2>1, <2>2
<1>6. ASSUME NEW i \in 1 .. n + 1, NEW j \in 1 .. n + 1, i < j
      PROVE  r[i] < r[j]
  <2>1. i \in 1 .. n
    BY <1>2, <1>6
  <2>2. CASE j \in 1 .. n
    BY <1>1, <1>2, <1>6, <2>1, <2>2
  <2>3. CASE j = n + 1
    BY <1>2, <1>5, <2>1, <2>3
  <2>. QED BY <1>4, <2>2, <2>3
<1>7. \A i \in 1 .. n + 1 : r[i] <= Len(f) /\ (LineStart(f, r[i]) \/ r[i] = Len(f))
  BY <1>1, <1>2, <1>4
<1>8. r[1] = 0
  BY <1>1, <1>2
<1>9. Marks(f, r)
  BY <1>1, <1>2, <1>6, <1>7, <1>8 DEF Marks
<1>. QED BY <1>2, <1>9 DEF r

(* Where the chunks are, and that an iterator may start at each.           *)
LEMMA MarkBounds ==
  ASSUME NEW f, Len(f) \in Nat, NEW cs, Marks(f, cs), NEW k \in Readers(cs)
  PROVE  /\ FirstOf(cs, k) \in Nat /\ PastOf(f, cs, k) \in Nat
         /\ FirstOf(cs, k) <= PastOf(f, cs, k) /\ PastOf(f, cs, k) <= Len(f)
         /\ FirstOf(cs, k) < PastOf(f, cs, k) => LineStart(f, FirstOf(cs, k))
         /\ PastOf(f, cs, k) = Len(f) \/ LineStart(f, PastOf(f, cs, k))
<1>1. /\ cs \in Seq(Nat) /\ Len(cs) \in Nat
      /\ \A i \in 1 .. Len(cs) : cs[i] \in Nat
  BY ElementOfSeq, LenProperties DEF Marks
<1>2. CASE k < 1
  BY <1>1, <1>2 DEF FirstOf, PastOf, LineStart
<1>3. CASE ~(k < 1)
  <2>1. k \in 1 .. Len(cs) /\ k + 1 \in 1 .. Len(cs) /\ k < k + 1
    BY <1>1, <1>3 DEF Readers
  <2>2. FirstOf(cs, k) = cs[k] /\ PastOf(f, cs, k) = cs[k + 1]
    BY <1>3 DEF FirstOf, PastOf
  <2>3. /\ cs[k] < cs[k + 1] /\ cs[k] \in Nat /\ cs[k + 1] \in Nat
        /\ cs[k] <= Len(f) /\ (LineStart(f, cs[k]) \/ cs[k] = Len(f))
        /\ cs[k + 1] <= Len(f) /\ (LineStart(f, cs[k + 1]) \/ cs[k + 1] = Len(f))
    BY <1>1, <2>1 DEF Marks
  <2>. QED BY <2>2, <2>3
<1>. QED BY <1>2, <1>3

LEMMA LinesInit ==
  ASSUME Jsonl!Init
  PROVE  LinesInv
<1>1. /\ file \in Lines
      /\ \/ rule = "target" /\ size \in Targets
         \/ rule = "count" /\ size \in Counts
      /\ start = 1 /\ ranges = <<0>>
      /\ iter = <<>> /\ open = {} /\ docs = <<>> /\ pc = "cut"
  BY DEF Jsonl!Init
<1>2. Len(file) \in Nat
  BY <1>1, LinesLength
<1>3. LinesType
  <2>1. Targets \subseteq Nat \ {0} /\ Counts \subseteq Nat \ {0}
    BY SourcesAssumption DEF Jsonl!InputAssumption
  <2>2. size \in Targets \/ size \in Counts
    BY <1>1
  <2>3. size \in Nat \ {0}
    BY <2>1, <2>2
  <2>4. start \in Nat
    BY <1>1
  <2>. QED BY <1>1, <2>3, <2>4 DEF LinesType
<1>4. /\ ranges \in Seq(Nat) /\ Len(ranges) = 1 /\ ranges[1] = 0
      /\ ranges[Len(ranges)] = 0
  BY <1>1
<1>5. Marks(file, ranges)
  BY <1>2, <1>4 DEF Marks, LineStart
<1>6. CutsForward(file, ranges, size, start)
  BY <1>1, <1>4 DEF CutsForward
<1>. QED BY <1>1, <1>3, <1>5, <1>6 DEF LinesInv

LEMMA AddCutStep ==
  ASSUME LinesInv, Jsonl!AddCut
  PROVE  LinesInv'
<1>. DEFINE n == Len(file)
            part == n \div size
            probe == Jsonl!Probe
            m == Jsonl!LineEnd(probe, n)
            last == ranges[Len(ranges)]
<1>1. /\ pc = "cut" /\ probe < n
      /\ Jsonl!Newlines(probe, n) # {}
      /\ ranges' = Jsonl!CutAt(m + 1)
      /\ start' = start + 1
      /\ file' = file /\ rule' = rule /\ size' = size
      /\ iter' = iter /\ open' = open /\ docs' = docs /\ pc' = pc
  BY DEF Jsonl!AddCut, Jsonl!MoreCuts, Jsonl!input
<1>2. /\ LinesType /\ Marks(file, ranges)
      /\ rule = "count" => CutsForward(file, ranges, size, start)
      /\ open = {} /\ iter = <<>> /\ docs = <<>>
  BY <1>1 DEF LinesInv
<1>3. n \in Nat /\ start \in Nat /\ size \in Nat /\ size # 0
  BY <1>2, LinesLength DEF LinesType
<1>4. part \in Nat
  BY <1>3
<1>5. last \in Nat /\ last <= n
  <2>1. Len(ranges) \in 1 .. Len(ranges) /\ ranges \in Seq(Nat)
    BY <1>2, LenProperties DEF Marks
  <2>. QED BY <1>2, <2>1, ElementOfSeq DEF Marks
<1>6. probe = IF rule = "target" THEN last + size ELSE start * part
  BY DEF Jsonl!Probe, Jsonl!Last
<1>7. ranges' = IF m + 1 = last THEN ranges ELSE Append(ranges, m + 1)
  BY <1>1 DEF Jsonl!CutAt, Jsonl!Last
<1>. HIDE DEF part, probe, last
<1>8. probe \in Nat
  BY <1>3, <1>4, <1>5, <1>6
<1>9. /\ m \in Nat /\ probe <= m /\ m < n /\ NewlineAt(file, m)
      /\ \A q \in Nat : NewlineAt(file, q) => ~(probe <= q /\ q < m)
  <2>1. Len(file) \in Nat /\ probe <= n /\ n \in Nat /\ n <= Len(file)
    BY <1>1, <1>3, <1>8
  <2>2. m = Jsonl!LineEnd(probe, n)
    OBVIOUS
  <2>3. Jsonl!Newlines(probe, n) # {}
    BY <1>1
  <2>. HIDE DEF m, n
  <2>. QED BY <1>8, <2>1, <2>2, <2>3, LineEndIs
<1>. HIDE DEF m
<1>10. rule = "count" => start >= 1 /\ (start - 1) * part <= probe /\ probe = start * part
  <2>. SUFFICES ASSUME rule = "count"
                PROVE  start >= 1 /\ (start - 1) * part <= probe /\ probe = start * part
    OBVIOUS
  <2>1. start >= 1
    BY <1>2 DEF CutsForward
  <2>2. (start - 1) * part = start * part - part /\ start * part \in Nat
    BY <1>3, <1>4, <2>1
  <2>3. probe = start * part
    BY <1>6
  <2>. QED BY <1>4, <2>1, <2>2, <2>3
<1>11. last <= m + 1
  <2>1. CASE rule = "target"
    BY <1>3, <1>5, <1>6, <1>9, <2>1
  <2>2. CASE rule = "count"
    <3>1. (start - 1) * part <= m
      <4>1. (start - 1) * part \in Int
        BY <1>3, <1>4
      <4>. QED BY <1>8, <1>9, <1>10, <2>2, <4>1
    <3>. QED BY <1>2, <1>9, <2>2, <3>1 DEF CutsForward, part, last
  <2>. QED BY <1>2, <2>1, <2>2 DEF LinesType
<1>12. LineStart(file, m + 1)
  BY <1>9 DEF LineStart
<1>13. Marks(file, ranges') /\ ranges'[Len(ranges')] = m + 1
  <2>1. CASE m + 1 = last
    BY <1>2, <1>7, <2>1 DEF last
  <2>2. CASE m + 1 # last
    <3>. DEFINE b == m + 1
    <3>1. b \in Nat /\ ranges[Len(ranges)] < b /\ b <= Len(file) /\ LineStart(file, b)
      BY <1>3, <1>5, <1>9, <1>11, <1>12, <2>2 DEF last
    <3>2. ranges' = Append(ranges, b)
      BY <1>7, <2>2
    <3>. HIDE DEF b
    <3>3. Marks(file, ranges') /\ ranges'[Len(ranges')] = b
      BY <1>2, <1>3, <3>1, <3>2, MarksAppend
    <3>. QED BY <3>3 DEF b
  <2>. QED BY <2>1, <2>2
<1>14. rule = "count" => CutsForward(file, ranges', size, start')
  <2>. SUFFICES ASSUME rule = "count" PROVE CutsForward(file, ranges', size, start')
    OBVIOUS
  <2>1. start' - 1 = start /\ start' >= 1
    BY <1>1, <1>3, <1>10
  <2>2. \A p \in Nat : NewlineAt(file, p) /\ probe <= p => m + 1 <= p + 1
    BY <1>9
  <2>3. probe = start * (Len(file) \div size)
    BY <1>10 DEF part
  <2>. QED BY <1>13, <2>1, <2>2, <2>3 DEF CutsForward
<1>15. LinesType'
  BY <1>1, <1>2, <1>3 DEF LinesType
<1>. QED BY <1>1, <1>2, <1>13, <1>14, <1>15 DEF LinesInv

LEMMA LastCutStep ==
  ASSUME LinesInv, Jsonl!LastCut
  PROVE  LinesInv'
<1>. DEFINE n == Len(file)
            last == ranges[Len(ranges)]
<1>1. /\ pc = "cut" /\ pc' = "run"
      /\ ranges' = IF n = last THEN ranges ELSE Append(ranges, n)
      /\ iter' = [k \in Readers(ranges') |-> FirstOf(ranges', k)]
      /\ open' = Readers(ranges')
      /\ docs' = [k \in Readers(ranges') |-> <<>>]
      /\ file' = file /\ rule' = rule /\ size' = size /\ start' = start
  BY DEF Jsonl!LastCut, Jsonl!CutAt, Jsonl!Last, Jsonl!Iterators, Jsonl!Chunks,
         Jsonl!StartOf, Jsonl!input, Readers, FirstOf
<1>2. LinesType /\ Marks(file, ranges)
  BY DEF LinesInv
<1>3. n \in Nat
  BY <1>2, LinesLength DEF LinesType
<1>4. last \in Nat /\ last <= n
  <2>1. Len(ranges) \in 1 .. Len(ranges) /\ ranges \in Seq(Nat)
    BY <1>2, LenProperties DEF Marks
  <2>. QED BY <1>2, <2>1, ElementOfSeq DEF Marks
<1>5. Marks(file, ranges') /\ ranges'[Len(ranges')] = n
  <2>1. CASE n = last
    BY <1>1, <1>2, <2>1
  <2>2. CASE n # last
    <3>1. ranges' = Append(ranges, n)
      BY <1>1, <2>2
    <3>2. ranges[Len(ranges)] < n /\ n \in Nat /\ n <= Len(file)
      BY <1>3, <1>4, <2>2
    <3>3. n = Len(file)
      OBVIOUS
    <3>. HIDE DEF n
    <3>. QED BY <1>2, <3>1, <3>2, <3>3, MarksAppend
  <2>. QED BY <2>1, <2>2
<1>6. \A k \in Readers(ranges') :
        /\ FirstOf(ranges', k) \in Nat
        /\ FirstOf(ranges', k) <= PastOf(file, ranges', k)
        /\ FirstOf(ranges', k) < PastOf(file, ranges', k)
             => LineStart(file, FirstOf(ranges', k))
  BY <1>3, <1>5, MarkBounds
<1>7. iter' \in [Readers(ranges') -> Nat]
  BY <1>1, <1>6
<1>8. docs' \in [Readers(ranges') -> Seq(Spans)]
  <2>1. <<>> \in Seq(Spans)
    OBVIOUS
  <2>. QED BY <1>1, <2>1
<1>9. ASSUME NEW p \in Nat PROVE LinesYielded(file, <<>>, p, p)
  <2>1. Spread(<<>>) /\ \A d : ~Has(<<>>, d)
    BY DEF Spread, Has
  <2>2. \A d \in Spans : ~(p <= d[1] /\ d[1] < p)
    BY DEF Spans
  <2>. QED BY <2>1, <2>2 DEF LinesYielded
<1>10. ASSUME NEW k \in Readers(ranges')
       PROVE  /\ FirstOf(ranges', k) <= iter'[k]
              /\ iter'[k] <= PastOf(file, ranges', k)
              /\ iter'[k] < PastOf(file, ranges', k) => LineStart(file, iter'[k])
              /\ LinesYielded(file, docs'[k], FirstOf(ranges', k), iter'[k])
              /\ k \in open'
  <2>1. iter'[k] = FirstOf(ranges', k) /\ docs'[k] = <<>> /\ k \in open'
    BY <1>1
  <2>2. LinesYielded(file, docs'[k], FirstOf(ranges', k), iter'[k])
    BY <1>6, <1>9, <2>1
  <2>3. FirstOf(ranges', k) <= iter'[k]
    BY <1>6, <2>1
  <2>. QED BY <1>6, <2>1, <2>2, <2>3
<1>11. 0 \in Readers(ranges') /\ iter'[0] = 0
  <2>1. Len(ranges') \in Nat /\ Len(ranges') > 0
    BY <1>5, LenProperties DEF Marks
  <2>2. 0 \in Readers(ranges')
    BY <2>1 DEF Readers
  <2>. QED BY <1>1, <2>2 DEF FirstOf
<1>12. \A d \in Spans : ~(d[1] < iter'[0])
  BY <1>11 DEF Spans
<1>13. Reading'
  BY <1>1, <1>5, <1>7, <1>8, <1>10, <1>12 DEF Reading
<1>14. LinesType'
  BY <1>1, <1>2 DEF LinesType
<1>. QED BY <1>1, <1>5, <1>13, <1>14 DEF LinesInv

(* The line an iterator is at, before the end of its chunk. *)
LEMMA ReaderLine ==
  ASSUME LinesInv, pc = "run", NEW k \in Readers(ranges),
         iter[k] < PastOf(file, ranges, k)
  PROVE  /\ Len(file) \in Nat
         /\ iter[k] \in Nat /\ FirstOf(ranges, k) \in Nat /\ FirstOf(ranges, k) <= iter[k]
         /\ Jsonl!LineEndOf(k) \in Nat
         /\ LineStart(file, iter[k])
         /\ LineTo(file, iter[k], Jsonl!LineEndOf(k))
         /\ \/ Jsonl!LineEndOf(k) + 1 <= PastOf(file, ranges, k)
            \/ /\ PastOf(file, ranges, k) = Len(file)
               /\ Jsonl!LineEndOf(k) = Len(file)
         /\ Jsonl!LineEndOf(k) + 1 < PastOf(file, ranges, k) =>
              LineStart(file, Jsonl!LineEndOf(k) + 1)
<1>. DEFINE n == Len(file)
            p == iter[k]
            e == PastOf(file, ranges, k)
            m == Jsonl!LineEndOf(k)
<1>1. LinesType /\ Marks(file, ranges) /\ Reading
  BY DEF LinesInv
<1>2. n \in Nat
  BY <1>1, LinesLength DEF LinesType
<1>3. p \in Nat /\ FirstOf(ranges, k) <= p /\ LineStart(file, p)
  BY <1>1 DEF Reading
<1>4. /\ e \in Nat /\ e <= n /\ (e = n \/ LineStart(file, e))
      /\ FirstOf(ranges, k) \in Nat
  BY <1>1, <1>2, MarkBounds
<1>5. m = Jsonl!LineEnd(p, e)
  BY DEF Jsonl!LineEndOf, Jsonl!EndOf, PastOf
<1>. HIDE DEF m
<1>6. /\ m \in Nat /\ p <= m /\ m <= e
      /\ m = e \/ (m < e /\ NewlineAt(file, m))
      /\ \A q \in Nat : NewlineAt(file, q) => ~(p <= q /\ q < m)
  <2>1. /\ Len(file) \in Nat /\ p \in Nat /\ e \in Nat
        /\ p <= e /\ e <= Len(file)
    BY <1>2, <1>3, <1>4
  <2>. HIDE DEF e, p
  <2>. QED BY <1>5, <2>1, LineEndIs
<1>. HIDE DEF e, p
<1>7. p < e
  BY DEF p, e
<1>8. m = e => e = n
  <2>. SUFFICES ASSUME m = e, LineStart(file, e) PROVE FALSE
    BY <1>4
  <2>1. NewlineAt(file, e - 1) /\ e - 1 \in Nat
    BY <1>3, <1>4, <1>7 DEF LineStart, NewlineAt
  <2>. QED BY <1>3, <1>4, <1>6, <1>7, <2>1
<1>9. LineTo(file, p, m)
  BY <1>2, <1>4, <1>6, <1>8 DEF LineTo
<1>10. m < e => LineStart(file, m + 1)
  BY <1>6 DEF LineStart
<1>. QED BY <1>2, <1>3, <1>4, <1>6, <1>8, <1>9, <1>10 DEF m, e, p

(* The bytes of that line, and whether it is passed over. *)
LEMMA LineIs ==
  ASSUME NEW p \in Nat, NEW m \in Nat
  PROVE  /\ Jsonl!Line(p, m) = BytesOf(file, <<p, m>>)
         /\ Jsonl!Usable(p, m) <=> Usable(file, <<p, m>>)
         /\ <<p, m>> \in Spans /\ <<p, m>>[1] = p /\ <<p, m>>[2] = m
<1>1. <<p, m>> \in Spans /\ <<p, m>>[1] = p /\ <<p, m>>[2] = m
  BY DEF Spans
<1>2. Jsonl!Line(p, m) = BytesOf(file, <<p, m>>)
  BY <1>1 DEF Jsonl!Line, BytesOf
<1>. QED BY <1>1, <1>2 DEF Jsonl!Usable, Usable

LEMMA PassedOver ==
  ASSUME NEW k, iter[k] \in Nat, NEW m \in Nat, iter[k] <= m
  PROVE  /\ Jsonl!Skipped(k, m) => ~Usable(file, <<iter[k], m>>)
         /\ Jsonl!Skipped(k, m) /\ k = 0 => iter[k] = m
         /\ ~Jsonl!Skipped(k, m) => iter[k] < m
<1>. DEFINE p == iter[k]
<1>1. Jsonl!Line(p, m) = BytesOf(file, <<p, m>>)
  BY LineIs
<1>2. Jsonl!Skipped(k, m) <=> IF k = -1 THEN Jsonl!Line(p, m) \subseteq {cr} ELSE p = m
  BY DEF Jsonl!Skipped, Jsonl!Streaming
<1>3. p = m => Jsonl!Line(p, m) = {}
  BY DEF Jsonl!Line
<1>4. object # cr
  BY SourcesAssumption DEF Jsonl!InputAssumption
<1>5. Jsonl!Skipped(k, m) => ~Usable(file, <<p, m>>)
  BY <1>1, <1>2, <1>3, <1>4 DEF Usable
<1>6. Jsonl!Skipped(k, m) /\ k = 0 => p = m
  BY <1>2
<1>7. ~Jsonl!Skipped(k, m) => p # m
  BY <1>2, <1>3
<1>. QED BY <1>5, <1>6, <1>7

(* An iterator passes a line: skipped, or yielded. *)
LEMMA PassStep ==
  ASSUME LinesInv, pc = "run", NEW k \in open, iter[k] < PastOf(file, ranges, k),
         NEW m, m = Jsonl!LineEndOf(k), NEW q \in Seq(Spans),
         LinesYielded(file, q, FirstOf(ranges, k), m + 1),
         k = 0 => iter[k] = m \/ Usable(file, <<iter[k], m>>),
         iter' = [iter EXCEPT ![k] = m + 1],
         docs' = [docs EXCEPT ![k] = q],
         UNCHANGED <<file, rule, size, start, ranges, open, pc, failed>>
  PROVE  LinesInv'
<1>1. /\ LinesType /\ Marks(file, ranges) /\ Reading
  BY DEF LinesInv
<1>2. k \in Readers(ranges)
  BY <1>1 DEF Reading
<1>3. /\ Len(file) \in Nat
      /\ iter[k] \in Nat /\ FirstOf(ranges, k) \in Nat /\ FirstOf(ranges, k) <= iter[k]
      /\ m \in Nat
      /\ LineStart(file, iter[k])
      /\ LineTo(file, iter[k], m)
      /\ \/ m + 1 <= PastOf(file, ranges, k)
         \/ PastOf(file, ranges, k) = Len(file) /\ m = Len(file)
      /\ m + 1 < PastOf(file, ranges, k) => LineStart(file, m + 1)
  BY <1>2, ReaderLine
<1>4. iter[k] <= m
  BY <1>3 DEF LineTo
<1>5. /\ docs' \in [Readers(ranges) -> Seq(Spans)]
      /\ iter' \in [Readers(ranges) -> Nat]
      /\ docs'[k] = q /\ iter'[k] = m + 1
      /\ \A j \in Readers(ranges) : j # k => docs'[j] = docs[j] /\ iter'[j] = iter[j]
  <2>1. docs \in [Readers(ranges) -> Seq(Spans)] /\ iter \in [Readers(ranges) -> Nat]
    BY <1>1 DEF Reading
  <2>2. m + 1 \in Nat
    BY <1>3
  <2>. QED BY <1>2, <2>1, <2>2
<1>6. FirstOf(ranges, k) <= m + 1
  BY <1>3, <1>4
<1>7. ASSUME NEW j \in Readers(ranges)
      PROVE  /\ FirstOf(ranges, j) <= iter'[j]
             /\ \/ iter'[j] <= PastOf(file, ranges, j)
                \/ PastOf(file, ranges, j) = Len(file) /\ iter'[j] = Len(file) + 1
             /\ iter'[j] < PastOf(file, ranges, j) => LineStart(file, iter'[j])
             /\ LinesYielded(file, docs'[j], FirstOf(ranges, j), iter'[j])
             /\ j \in open \/ Ended(file, ranges, j, iter'[j], failed)
  <2>1. CASE j = k
    BY <1>3, <1>5, <1>6, <2>1
  <2>2. CASE j # k
    BY <1>1, <1>5, <2>2 DEF Reading
  <2>. QED BY <2>1, <2>2
<1>8. ASSUME NEW d \in Spans, WholeLine(file, d), d[1] < d[2], d[1] < iter'[0]
      PROVE  Usable(file, d)
  <2>1. 0 \in Readers(ranges)
    <3>1. Len(ranges) \in Nat /\ Len(ranges) > 0
      BY <1>1, LenProperties DEF Marks
    <3>. QED BY <3>1 DEF Readers
  <2>2. CASE d[1] < iter[0]
    BY <1>1, <1>8, <2>2 DEF Reading
  <2>3. CASE ~(d[1] < iter[0])
    <3>1. k = 0
      BY <1>5, <1>8, <2>1, <2>3
    <3>2. iter[k] <= d[1] /\ d[1] < m + 1
      BY <1>3, <1>5, <1>8, <2>3, <3>1 DEF Spans
    <3>3. d = <<iter[k], m>>
      BY <1>3, <1>8, <3>2, OnlyLine
    <3>4. iter[k] < m
      BY <1>8, <3>3
    <3>. QED BY <1>3, <3>1, <3>3, <3>4
  <2>. QED BY <2>2, <2>3
<1>9. Reading'
  BY <1>1, <1>5, <1>7, <1>8 DEF Reading
<1>. QED BY <1>1, <1>9 DEF LinesInv, LinesType

LEMMA SkipLineStep ==
  ASSUME LinesInv, pc = "run", NEW k \in open, Jsonl!SkipLine(k)
  PROVE  LinesInv'
<1>. DEFINE m == Jsonl!LineEndOf(k)
            q == docs[k]
<1>1. /\ iter[k] < PastOf(file, ranges, k)
      /\ Jsonl!Skipped(k, m)
      /\ iter' = [iter EXCEPT ![k] = m + 1]
      /\ docs' = docs
      /\ UNCHANGED <<file, rule, size, start, ranges, open, pc, failed>>
  BY DEF Jsonl!SkipLine, Jsonl!EndOf, PastOf, Jsonl!input
<1>2. Reading
  BY DEF LinesInv
<1>3. /\ k \in Readers(ranges) /\ q \in Seq(Spans)
      /\ LinesYielded(file, q, FirstOf(ranges, k), iter[k])
      /\ docs \in [Readers(ranges) -> Seq(Spans)]
  BY <1>2 DEF Reading
<1>4. /\ Len(file) \in Nat
      /\ iter[k] \in Nat /\ FirstOf(ranges, k) \in Nat /\ FirstOf(ranges, k) <= iter[k]
      /\ m \in Nat
      /\ LineStart(file, iter[k])
      /\ LineTo(file, iter[k], m)
  BY <1>1, <1>3, ReaderLine
<1>. HIDE DEF m
<1>5. iter[k] <= m
  BY <1>4 DEF LineTo
<1>6. ~Usable(file, <<iter[k], m>>) /\ (k = 0 => iter[k] = m)
  BY <1>1, <1>4, <1>5, PassedOver
<1>7. docs' = [docs EXCEPT ![k] = q]
  BY <1>1, <1>3
<1>. HIDE DEF q
<1>8. LinesYielded(file, q, FirstOf(ranges, k), m + 1)
  BY <1>3, <1>4, <1>6, LinesYieldedNext
<1>9. m = Jsonl!LineEndOf(k)
  BY DEF m
<1>. QED BY <1>1, <1>3, <1>6, <1>7, <1>8, <1>9, PassStep

LEMMA YieldLineStep ==
  ASSUME LinesInv, pc = "run", NEW k \in open, Jsonl!YieldLine(k)
  PROVE  LinesInv'
<1>. DEFINE m == Jsonl!LineEndOf(k)
            q == Append(docs[k], <<iter[k], m>>)
<1>1. /\ iter[k] < PastOf(file, ranges, k)
      /\ Jsonl!Usable(iter[k], m)
      /\ iter' = [iter EXCEPT ![k] = m + 1]
      /\ docs' = [docs EXCEPT ![k] = q]
      /\ UNCHANGED <<file, rule, size, start, ranges, open, pc, failed>>
  BY DEF Jsonl!YieldLine, Jsonl!EndOf, PastOf, Jsonl!input
<1>2. Reading
  BY DEF LinesInv
<1>3. /\ k \in Readers(ranges) /\ docs[k] \in Seq(Spans)
      /\ LinesYielded(file, docs[k], FirstOf(ranges, k), iter[k])
  BY <1>2 DEF Reading
<1>4. /\ Len(file) \in Nat
      /\ iter[k] \in Nat /\ FirstOf(ranges, k) \in Nat /\ FirstOf(ranges, k) <= iter[k]
      /\ m \in Nat
      /\ LineStart(file, iter[k])
      /\ LineTo(file, iter[k], m)
  BY <1>1, <1>3, ReaderLine
<1>. HIDE DEF m
<1>5. Usable(file, <<iter[k], m>>)
  BY <1>1, <1>4, LineIs
<1>6. q \in Seq(Spans) /\ LinesYielded(file, q, FirstOf(ranges, k), m + 1)
  BY <1>3, <1>4, <1>5, LinesYieldedNext
<1>. HIDE DEF q
<1>7. m = Jsonl!LineEndOf(k)
  BY DEF m
<1>. QED BY <1>1, <1>5, <1>6, <1>7, PassStep

LEMMA EndLinesStep ==
  ASSUME LinesInv, pc = "run", NEW k \in open, Jsonl!EndLines(k)
  PROVE  LinesInv'
<1>1. /\ LinesType /\ Marks(file, ranges) /\ Reading
  BY DEF LinesInv
<1>2. k \in Readers(ranges) /\ iter[k] \in Nat
  BY <1>1 DEF Reading
<1>3. /\ \/ iter[k] >= PastOf(file, ranges, k)
         \/ /\ ~Jsonl!Skipped(k, Jsonl!LineEndOf(k))
            /\ ~Jsonl!Usable(iter[k], Jsonl!LineEndOf(k))
      /\ open' = open \ {k}
      /\ UNCHANGED <<file, rule, size, start, ranges, iter, docs, pc, failed>>
  BY DEF Jsonl!EndLines, Jsonl!EndOf, PastOf, Jsonl!input
<1>4. PastOf(file, ranges, k) \in Nat
  BY <1>1, <1>2, MarkBounds, LinesLength DEF LinesType
<1>5. iter[k] >= PastOf(file, ranges, k) \/ Stuck(file, iter[k])
  <2>. SUFFICES ASSUME iter[k] < PastOf(file, ranges, k) PROVE Stuck(file, iter[k])
    BY <1>2, <1>4
  <2>. DEFINE m == Jsonl!LineEndOf(k)
  <2>1. /\ m \in Nat /\ LineStart(file, iter[k]) /\ LineTo(file, iter[k], m)
    BY <1>2, ReaderLine
  <2>2. ~Jsonl!Skipped(k, m) /\ ~Jsonl!Usable(iter[k], m)
    BY <1>2, <1>3, <1>4
  <2>. HIDE DEF m
  <2>3. iter[k] <= m
    BY <2>1 DEF LineTo
  <2>4. iter[k] < m
    BY <1>2, <2>1, <2>2, <2>3, PassedOver
  <2>5. ~Usable(file, <<iter[k], m>>)
    BY <1>2, <2>1, <2>2, LineIs
  <2>6. WholeLine(file, <<iter[k], m>>)
    BY <1>2, <2>1, LineIs DEF WholeLine
  <2>. QED BY <2>1, <2>4, <2>5, <2>6 DEF Stuck
<1>6. ASSUME NEW j \in Readers(ranges)
      PROVE  j \in open' \/ Ended(file, ranges, j, iter[j], failed)
  <2>1. CASE j = k
    BY <1>5, <2>1 DEF Ended
  <2>2. CASE j # k
    BY <1>1, <1>3, <2>2 DEF Reading
  <2>. QED BY <2>1, <2>2
<1>7. Reading'
  BY <1>1, <1>3, <1>6 DEF Reading
<1>. QED BY <1>1, <1>3, <1>7 DEF LinesInv, LinesType

LEMMA LinesErrorStep ==
  ASSUME LinesInv, pc = "run", Jsonl!ReadError
  PROVE  LinesInv'
<1>1. LinesType /\ Marks(file, ranges) /\ Reading
  BY DEF LinesInv
<1>2. /\ open' = open \ {-1} /\ failed' = TRUE
      /\ UNCHANGED <<file, rule, size, start, ranges, iter, docs, pc>>
  BY DEF Jsonl!ReadError, Jsonl!Streaming, Jsonl!input
<1>3. ASSUME NEW j \in Readers(ranges)
      PROVE  j \in open' \/ Ended(file, ranges, j, iter[j], failed')
  <2>1. CASE j = -1
    BY <1>2, <2>1 DEF Ended
  <2>2. CASE j # -1
    BY <1>1, <1>2, <2>2 DEF Reading, Ended
  <2>. QED BY <2>1, <2>2
<1>4. Reading'
  BY <1>1, <1>2, <1>3 DEF Reading
<1>. QED BY <1>1, <1>2, <1>4 DEF LinesInv, LinesType

LEMMA LinesNext ==
  ASSUME LinesInv, Jsonl!Next \/ Jsonl!ReadError
  PROVE  LinesInv'
<1>1. ASSUME NEW k \in open PROVE pc = "run"
  BY <1>1 DEF LinesInv, LinesType
<1>2. CASE Jsonl!Done /\ UNCHANGED Jsonl!vars
  BY <1>2 DEF Jsonl!vars, LinesInv, LinesType, Reading
<1>3. CASE Jsonl!ReadError
  <2>1. pc = "run"
    BY <1>1, <1>3 DEF Jsonl!ReadError
  <2>. QED BY <1>3, <2>1, LinesErrorStep
<1>. QED
  BY <1>1, <1>2, <1>3, AddCutStep, LastCutStep, SkipLineStep, YieldLineStep,
     EndLinesStep
  DEF Jsonl!Next

(* What the invariant says of the documents of a JSONL file. *)
LEMMA LinesWhole ==
  ASSUME LinesInv
  PROVE  Jsonl!WholeLines
<1>1. LinesType /\ Len(file) \in Nat
  BY LinesLength DEF LinesInv, LinesType
<1>2. ASSUME NEW k \in DOMAIN docs, NEW i \in DOMAIN docs[k]
      PROVE  Jsonl!IsLine(docs[k][i])
  <2>1. pc = "run"
    <3>. SUFFICES ASSUME docs = <<>> PROVE FALSE
      BY DEF LinesInv, LinesType
    <3>1. DOMAIN docs = {}
      OBVIOUS
    <3>. QED BY <3>1, <1>2
  <2>2. Reading
    BY <2>1 DEF LinesInv
  <2>3. k \in Readers(ranges) /\ docs[k] \in Seq(Spans)
    BY <2>2 DEF Reading
  <2>. DEFINE d == docs[k][i]
  <2>4. Has(docs[k], d) /\ d \in Spans
    BY <2>3, LenProperties, ElementOfSeq DEF Has
  <2>5. WholeLine(file, d) /\ Usable(file, d)
    BY <2>2, <2>3, <2>4 DEF Reading, LinesYielded
  <2>. HIDE DEF d
  <2>6. d[1] \in Nat /\ d[2] \in Nat /\ d = <<d[1], d[2]>>
    BY <2>4 DEF Spans
  <2>7. d[1] = 0 \/ file[d[1]] = newline
    <3>1. CASE d[1] = 0
      BY <3>1
    <3>2. CASE NewlineAt(file, d[1] - 1)
      <4>1. file[(d[1] - 1) + 1] = newline /\ (d[1] - 1) + 1 = d[1]
        BY <2>6, <3>2 DEF NewlineAt
      <4>. QED BY <4>1
    <3>. QED BY <2>5, <3>1, <3>2 DEF WholeLine, LineStart
  <2>8. d[2] = Jsonl!LineEnd(d[1], Len(file))
    <3>. DEFINE g == Jsonl!LineEnd(d[1], Len(file))
    <3>1. LineTo(file, d[1], d[2]) /\ d[1] <= Len(file)
      BY <1>1, <2>5, <2>6 DEF WholeLine, LineTo
    <3>2. /\ g \in Nat /\ d[1] <= g /\ g <= Len(file)
          /\ g = Len(file) \/ NewlineAt(file, g)
          /\ \A q \in Nat : NewlineAt(file, q) => ~(d[1] <= q /\ q < g)
      <4>1. Len(file) <= Len(file)
        BY <1>1
      <4>. QED BY <1>1, <2>6, <3>1, <4>1, LineEndIs
    <3>. HIDE DEF g
    <3>3. LineTo(file, d[1], g)
      BY <3>2 DEF LineTo
    <3>4. d[2] = g
      BY <1>1, <2>6, <3>1, <3>2, <3>3, LineUnique
    <3>. QED BY <3>4 DEF g
  <2>9. Jsonl!Usable(d[1], d[2])
    BY <2>5, <2>6, LineIs
  <2>. QED BY <2>7, <2>8, <2>9 DEF Jsonl!IsLine, d
<1>. QED BY <1>2 DEF Jsonl!WholeLines

(* Every line begins in one of the chunks. *)
LEMMA ChunkOf ==
  ASSUME NEW f, Len(f) \in Nat, NEW cs, Marks(f, cs), cs[Len(cs)] = Len(f),
         NEW p \in Nat, p < Len(f)
  PROVE  \E k \in 1 .. Len(cs) - 1 : cs[k] <= p /\ p < cs[k + 1]
<1>. DEFINE n == Len(cs)
            S == {k \in 1 .. n : p < cs[k]}
<1>1. /\ n \in Nat /\ n > 0 /\ cs[1] = 0 /\ cs[n] = Len(f)
      /\ \A i \in 1 .. n : cs[i] \in Nat
  BY ElementOfSeq, LenProperties DEF Marks
<1>2. n \in S /\ S \in SUBSET Nat
  BY <1>1
<1>3. PICK l \in S : \A i \in S : l <= i
  <2>. HIDE DEF S
  <2>. QED BY <1>2, LeastNumber
<1>4. l \in 1 .. n /\ p < cs[l] /\ l # 1
  BY <1>1, <1>3
<1>5. l - 1 \in 1 .. n - 1 /\ l - 1 \in 1 .. n /\ (l - 1) + 1 = l /\ l - 1 \notin S
  BY <1>1, <1>3, <1>4
<1>6. cs[l - 1] <= p
  BY <1>1, <1>5
<1>. QED BY <1>4, <1>5, <1>6

(* The documents of all chunks, joined. *)
LEMMA ChunkedLines ==
  ASSUME LinesInv, pc = "run"
  PROVE  /\ Jsonl!Chunked \in Seq(Spans)
         /\ Spread(Jsonl!Chunked)
         /\ \A d \in Spans : Has(Jsonl!Chunked, d) <=>
              \E k \in 1 .. Len(ranges) - 1 : Has(docs[k], d)
<1>. DEFINE n == Len(ranges) - 1
            qs == [k \in 1 .. n |-> docs[k]]
<1>1. LinesType /\ Marks(file, ranges) /\ Reading
  BY DEF LinesInv
<1>2. Len(file) \in Nat /\ n \in Nat
  BY <1>1, LinesLength, LenProperties DEF LinesType, Marks
<1>3. /\ Jsonl!Chunked = FlattenSeq(qs)
  BY DEF Jsonl!Chunked, Jsonl!Chunks, Jsonl!FlattenSeq, FlattenSeq
<1>4. \A k \in 1 .. n : k \in Readers(ranges) /\ k + 1 \in 1 .. Len(ranges)
  BY <1>2 DEF Readers
<1>5. \A k \in 1 .. n :
        /\ docs[k] \in Seq(Spans) /\ Spread(docs[k])
        /\ \A d \in Spans : Has(docs[k], d) =>
             WholeLine(file, d) /\ d[1] < d[2] /\ FirstOf(ranges, k) <= d[1] /\ d[1] < iter[k]
  BY <1>1, <1>4, UsableLine DEF Reading, LinesYielded
<1>6. Len(qs) = n /\ \A k \in 1 .. n : qs[k] = docs[k]
  <2>1. qs \in Seq(Seq(Spans))
    BY <1>2, <1>5
  <2>2. DOMAIN qs = 1 .. n
    OBVIOUS
  <2>. QED BY <1>2, <2>1, <2>2, LenProperties
<1>. HIDE DEF qs
<1>7. CASE n = 0
  <2>1. qs = <<>>
    <3>1. qs \in Seq(Seq(Spans))
      BY <1>2, <1>5 DEF qs
    <3>. QED BY <1>6, <1>7, <3>1, EmptySeq
  <2>2. FlattenSeq(qs) = <<>>
    BY <1>6, <1>7, <2>1 DEF FlattenSeq
  <2>3. <<>> \in Seq(Spans) /\ Spread(<<>>) /\ \A d : ~Has(<<>>, d)
    BY DEF Spread, Has
  <2>. QED BY <1>3, <1>7, <2>2, <2>3, SMTT(60)
<1>8. CASE n # 0
  <2>1. ASSUME NEW i \in 1 .. n, NEW j \in 1 .. n, i < j, NEW d \in Spans, NEW e \in Spans,
               Has(docs[i], d), Has(docs[j], e)
        PROVE  d[2] <= e[1]
    <3>1. d[1] \in Nat /\ d[2] \in Nat /\ e[1] \in Nat /\ e[2] \in Nat
      BY DEF Spans
    <3>2. /\ WholeLine(file, d) /\ d[1] < d[2] /\ d[1] < iter[i]
          /\ WholeLine(file, e) /\ FirstOf(ranges, j) <= e[1]
      BY <1>5, <2>1
    <3>3. d[2] <= Len(file)
      BY <3>2 DEF WholeLine, LineTo
    <3>4. /\ PastOf(file, ranges, i) = ranges[i + 1] /\ FirstOf(ranges, j) = ranges[j]
          /\ i + 1 \in 1 .. Len(ranges) /\ j \in 1 .. Len(ranges)
          /\ ranges[i + 1] \in Nat /\ ranges[j] \in Nat
          /\ i + 1 <= j
      <4>1. i + 1 \in 1 .. Len(ranges) /\ j \in 1 .. Len(ranges) /\ i + 1 <= j
        BY <1>2, <2>1
      <4>2. ranges[i + 1] \in Nat /\ ranges[j] \in Nat
        BY <1>1, <4>1, ElementOfSeq DEF Marks
      <4>. QED BY <4>1, <4>2 DEF PastOf, FirstOf
    <3>5. d[1] < ranges[i + 1]
      <4>1. \/ iter[i] <= PastOf(file, ranges, i)
            \/ PastOf(file, ranges, i) = Len(file)
        BY <1>1, <1>4 DEF Reading
      <4>2. iter[i] \in Nat
        BY <1>1, <1>4 DEF Reading
      <4>. QED BY <1>2, <3>1, <3>2, <3>3, <3>4, <4>1, <4>2, SMTT(60)
    <3>6. ranges[i + 1] <= ranges[j]
      <4>1. CASE i + 1 = j
        BY <3>4, <4>1
      <4>2. CASE i + 1 # j
        <5>1. i + 1 < j
          BY <3>4, <4>2
        <5>2. ranges[i + 1] < ranges[j]
          BY <1>1, <3>4, <5>1 DEF Marks
        <5>. QED BY <3>4, <5>2
      <4>. QED BY <4>1, <4>2
    <3>7. d[1] < e[1]
      BY <3>1, <3>2, <3>4, <3>5, <3>6
    <3>8. d[2] < e[1]
      BY <1>2, <3>1, <3>2, <3>7, LinesApart DEF WholeLine
    <3>. QED BY <3>1, <3>8
  <2>2. InTurn(qs)
    BY <1>5, <1>6, <2>1 DEF InTurn
  <2>3. /\ FlattenSeq(qs) \in Seq(Spans)
        /\ Spread(FlattenSeq(qs))
        /\ \A d \in Spans : Has(FlattenSeq(qs), d) <=> \E k \in 1 .. n : Has(qs[k], d)
    BY <1>2, <1>6, <1>8, <2>2, FlattenSpread
  <2>. QED BY <1>3, <1>6, <2>3
<1>. QED BY <1>7, <1>8

(* An iterator that has met no bad line has all of its chunk.              *)
LEMMA NotStuck ==
  ASSUME LinesInv, Jsonl!AllUsable, NEW p \in Nat
  PROVE  ~Stuck(file, p)
<1>. SUFFICES ASSUME Stuck(file, p) PROVE FALSE
  OBVIOUS
<1>1. Len(file) \in Nat
  BY LinesLength DEF LinesInv, LinesType
<1>2. PICK e \in Nat : p < e /\ WholeLine(file, <<p, e>>) /\ ~Usable(file, <<p, e>>)
  BY DEF Stuck
<1>3. LineStart(file, p) /\ LineTo(file, p, e)
  BY <1>2, LineIs DEF WholeLine
<1>4. p < Len(file) /\ p \in 0 .. Len(file) - 1
  BY <1>1, <1>2, <1>3 DEF LineTo
<1>5. p = 0 \/ file[p] = newline
  <2>1. CASE NewlineAt(file, p - 1)
    <3>1. file[(p - 1) + 1] = newline /\ (p - 1) + 1 = p
      BY <2>1 DEF NewlineAt
    <3>. QED BY <3>1
  <2>. QED BY <1>3, <2>1 DEF LineStart
<1>. DEFINE g == Jsonl!LineEnd(p, Len(file))
<1>6. g \in Nat /\ LineTo(file, p, g)
  <2>1. p <= Len(file) /\ Len(file) <= Len(file)
    BY <1>1, <1>4
  <2>2. /\ g \in Nat /\ p <= g /\ g <= Len(file)
        /\ g = Len(file) \/ NewlineAt(file, g)
        /\ \A q \in Nat : NewlineAt(file, q) => ~(p <= q /\ q < g)
    BY <1>1, <2>1, LineEndIs
  <2>. HIDE DEF g
  <2>. QED BY <2>2 DEF LineTo
<1>7. p = g \/ Jsonl!Usable(p, g)
  BY <1>4, <1>5 DEF Jsonl!AllUsable
<1>. HIDE DEF g
<1>8. g = e
  BY <1>1, <1>3, <1>6, LineUnique
<1>. QED BY <1>2, <1>7, <1>8, LineIs

LEMMA LinesSerialFirst ==
  ASSUME LinesInv
  PROVE  Jsonl!SerialFirst
<1>. SUFFICES ASSUME pc = "run", open = {}
              PROVE  /\ Jsonl!IsPrefix(docs[0], Jsonl!Chunked)
                     /\ Jsonl!AllUsable =>
                          /\ Jsonl!Chunked = docs[0]
                          /\ Jsonl!IsPrefix(docs[-1], docs[0])
                          /\ ~failed => docs[-1] = docs[0]
  BY DEF Jsonl!SerialFirst, Jsonl!Done, Jsonl!Serial, Jsonl!Streaming
<1>. DEFINE n == Len(ranges) - 1
            all == Jsonl!Chunked
<1>1. LinesType /\ Marks(file, ranges) /\ Reading
  BY DEF LinesInv
<1>2. Len(file) \in Nat /\ n \in Nat
  BY <1>1, LinesLength, LenProperties DEF LinesType, Marks
<1>3. /\ all \in Seq(Spans) /\ Spread(all)
      /\ \A d \in Spans : Has(all, d) <=> \E k \in 1 .. n : Has(docs[k], d)
  BY ChunkedLines
<1>. HIDE DEF all
<1>4. /\ \A k \in 1 .. n : k \in Readers(ranges)
      /\ 0 \in Readers(ranges) /\ -1 \in Readers(ranges)
  BY <1>2 DEF Readers
<1>5. \A k \in Readers(ranges) :
        /\ docs[k] \in Seq(Spans) /\ Spread(docs[k]) /\ iter[k] \in Nat
        /\ \A d \in Spans : Has(docs[k], d) <=>
             /\ WholeLine(file, d) /\ Usable(file, d)
             /\ FirstOf(ranges, k) <= d[1] /\ d[1] < iter[k]
        /\ Ended(file, ranges, k, iter[k], failed)
  BY <1>1 DEF Reading, LinesYielded
<1>6. \A d \in Spans : d[1] \in Nat /\ d[2] \in Nat
  BY DEF Spans
<1>7. \A d \in Spans : WholeLine(file, d) /\ Usable(file, d) => d[1] < Len(file)
  <2>. SUFFICES ASSUME NEW d \in Spans, WholeLine(file, d), Usable(file, d)
                PROVE  d[1] < Len(file)
    OBVIOUS
  <2>1. d[1] < d[2] /\ d[2] <= Len(file)
    BY UsableLine DEF WholeLine, LineTo
  <2>. QED BY <1>2, <1>6, <2>1
<1>8. ASSUME NEW d \in Spans, WholeLine(file, d), Usable(file, d)
      PROVE  \E k \in 1 .. n : FirstOf(ranges, k) <= d[1] /\ d[1] < PastOf(file, ranges, k)
  <2>1. d[1] \in Nat /\ d[1] < Len(file)
    BY <1>6, <1>7, <1>8
  <2>2. ranges[Len(ranges)] = Len(file)
    BY <1>1 DEF Reading
  <2>3. PICK k \in 1 .. Len(ranges) - 1 : ranges[k] <= d[1] /\ d[1] < ranges[k + 1]
    BY <1>1, <1>2, <2>1, <2>2, ChunkOf
  <2>. QED BY <1>2, <2>3 DEF FirstOf, PastOf
<1>9. ASSUME NEW d \in Spans, NEW k \in 1 .. n, Has(docs[k], d)
      PROVE  WholeLine(file, d) /\ Usable(file, d)
  BY <1>4, <1>5, <1>9
<1>10. ASSUME NEW d \in Spans, Has(docs[0], d) PROVE Has(all, d)
  <2>1. WholeLine(file, d) /\ Usable(file, d) /\ d[1] < iter[0]
    BY <1>4, <1>5, <1>10
  <2>2. PICK k \in 1 .. n : FirstOf(ranges, k) <= d[1] /\ d[1] < PastOf(file, ranges, k)
    BY <1>8, <2>1
  <2>3. k \in Readers(ranges) /\ PastOf(file, ranges, k) \in Nat
    BY <1>1, <1>2, <1>4, MarkBounds
  <2>4. d[1] < iter[k]
    <3>. SUFFICES ASSUME iter[k] <= d[1] PROVE FALSE
      BY <1>5, <1>6, <2>3
    <3>1. Stuck(file, iter[k])
      BY <1>5, <1>6, <2>2, <2>3 DEF Ended
    <3>. DEFINE p == iter[k]
    <3>2. PICK e \in Nat : p < e /\ WholeLine(file, <<p, e>>) /\ ~Usable(file, <<p, e>>)
      BY <3>1 DEF Stuck
    <3>3. p \in Nat /\ p < iter[0]
      BY <1>4, <1>5, <1>6, <2>1, <2>3
    <3>. HIDE DEF p
    <3>4. <<p, e>> \in Spans /\ <<p, e>>[1] = p /\ <<p, e>>[2] = e
      BY <3>3 DEF Spans
    <3>. QED BY <1>1, <3>2, <3>3, <3>4 DEF Reading
  <2>5. Has(docs[k], d)
    BY <1>5, <2>1, <2>2, <2>3, <2>4
  <2>. QED BY <1>3, <2>5
<1>11. ASSUME NEW d \in Spans, NEW e \in Spans, Has(all, d), Has(docs[0], e), d[1] <= e[1]
       PROVE  Has(docs[0], d)
  <2>1. WholeLine(file, d) /\ Usable(file, d)
    BY <1>3, <1>9, <1>11
  <2>2. e[1] < iter[0] /\ iter[0] \in Nat /\ FirstOf(ranges, 0) = 0
    BY <1>4, <1>5, <1>11 DEF FirstOf
  <2>3. 0 <= d[1] /\ d[1] < iter[0]
    BY <1>6, <1>11, <2>2
  <2>. QED BY <1>4, <1>5, <2>1, <2>2, <2>3
<1>12. docs[0] \in Seq(Spans) /\ Spread(docs[0])
  BY <1>4, <1>5
<1>13. Jsonl!IsPrefix(docs[0], all)
  <2>1. /\ Len(docs[0]) <= Len(all)
        /\ \A i \in 1 .. Len(docs[0]) : docs[0][i] = all[i]
    BY <1>3, <1>10, <1>11, <1>12, SpreadPrefix
  <2>2. SubSeq(docs[0], 1, Len(docs[0])) = SubSeq(all, 1, Len(docs[0]))
    BY <2>1
  <2>. QED BY <2>1, <2>2 DEF Jsonl!IsPrefix
<1>14. ASSUME Jsonl!AllUsable
       PROVE  /\ all = docs[0]
              /\ Jsonl!IsPrefix(docs[-1], docs[0])
              /\ ~failed => docs[-1] = docs[0]
  <2>1. \A k \in Readers(ranges) :
          k # -1 \/ ~failed => iter[k] >= PastOf(file, ranges, k)
    BY <1>5, <1>14, NotStuck DEF Ended
  <2>2. /\ iter[0] >= Len(file) /\ FirstOf(ranges, 0) = 0
        /\ ~failed => iter[-1] >= Len(file)
        /\ FirstOf(ranges, -1) = 0
    BY <1>4, <2>1 DEF PastOf, FirstOf
  <2>3. \A d \in Spans : Has(docs[0], d) <=> WholeLine(file, d) /\ Usable(file, d)
    BY <1>2, <1>4, <1>5, <1>6, <1>7, <2>2
  <2>4. \A d \in Spans : Has(docs[-1], d) <=>
          WholeLine(file, d) /\ Usable(file, d) /\ d[1] < iter[-1]
    BY <1>4, <1>5, <1>6, <2>2
  <2>5. \A d \in Spans : Has(all, d) <=> Has(docs[0], d)
    BY <1>3, <1>9, <1>10, <2>3
  <2>6. docs[-1] \in Seq(Spans) /\ Spread(docs[-1]) /\ iter[-1] \in Nat
    BY <1>4, <1>5
  <2>7. all = docs[0]
    BY <1>3, <1>12, <2>5, SpreadEqual
  <2>8. Jsonl!IsPrefix(docs[-1], docs[0])
    <3>1. ASSUME NEW d \in Spans, Has(docs[-1], d) PROVE Has(docs[0], d)
      BY <2>3, <2>4, <3>1
    <3>2. ASSUME NEW d \in Spans, NEW e \in Spans,
                 Has(docs[0], d), Has(docs[-1], e), d[1] <= e[1]
          PROVE  Has(docs[-1], d)
      <4>1. d[1] < iter[-1]
        BY <1>6, <2>4, <2>6, <3>2
      <4>. QED BY <2>3, <2>4, <3>2, <4>1
    <3>3. /\ Len(docs[-1]) <= Len(docs[0])
          /\ \A i \in 1 .. Len(docs[-1]) : docs[-1][i] = docs[0][i]
      BY <1>12, <2>6, <3>1, <3>2, SpreadPrefix
    <3>4. SubSeq(docs[-1], 1, Len(docs[-1])) = SubSeq(docs[0], 1, Len(docs[-1]))
      BY <3>3
    <3>. QED BY <3>3, <3>4 DEF Jsonl!IsPrefix
  <2>9. ASSUME ~failed PROVE docs[-1] = docs[0]
    <3>1. \A d \in Spans : Has(docs[-1], d) <=> Has(docs[0], d)
      BY <1>2, <1>6, <1>7, <2>2, <2>3, <2>4, <2>6, <2>9
    <3>. QED BY <1>12, <2>6, <3>1, SpreadEqual
  <2>. QED BY <2>7, <2>8, <2>9
<1>. QED BY <1>13, <1>14 DEF all

------------------------------------------------------------------------------
(* The file, whichever reader it has.                                      *)

ReadersInv ==
  /\ kind \in {"text", "jsonl", "compressed"}
  /\ kind = "text" => TextInv
  /\ kind = "jsonl" => LinesInv
  /\ kind = "compressed" => StreamInv

LEMMA InvInit ==
  ASSUME Init
  PROVE  ReadersInv
BY TextInit, LinesInit, StreamInit DEF Init, ReadersInv

LEMMA InvNext ==
  ASSUME ReadersInv, [Next]_vars
  PROVE  ReadersInv'
<1>1. CASE ReadText
  <2>1. kind = "text" /\ kind' = kind /\ Chunks!Next
    BY <1>1 DEF ReadText
  <2>. QED BY <2>1, TextNext DEF ReadersInv
<1>2. CASE ReadLines \/ FailLines
  <2>1. kind = "jsonl" /\ kind' = kind /\ (Jsonl!Next \/ Jsonl!ReadError)
    BY <1>2 DEF ReadLines, FailLines
  <2>. QED BY <2>1, LinesNext DEF ReadersInv
<1>3. CASE ReadStream \/ FailStream
  <2>1. kind = "compressed" /\ kind' = kind /\ (Stream!Step \/ Stream!ReadError)
    BY <1>3 DEF ReadStream, FailStream
  <2>. QED BY <2>1, StreamNext DEF ReadersInv
<1>4. CASE UNCHANGED vars
  BY <1>4 DEF vars, ReadersInv, TextInv, TextType, Cutting, Iterating,
              LinesInv, LinesType, Reading, StreamInv
<1>. QED BY <1>1, <1>2, <1>3, <1>4 DEF Next

(* NothingTorn, for every text, every separator, every JSONL file, and     *)
(* every way to cut them: regions tile the file (chunk_ranges,             *)
(* par_document_chunks); every document any thread's DocumentIter yields   *)
(* of the regions of chunk_ranges is a whole piece between separators, and *)
(* of those of par_document_chunks where no two separators overlap; every  *)
(* document any JSONL iterator yields is a whole usable line.              *)
THEOREM NoDocumentTorn == Spec => []NothingTorn
<1>1. ReadersInv => NothingTorn
  BY TextRegionsTile, TextWholePieces, LinesWhole DEF ReadersInv, NothingTorn
<1>. QED BY <1>1, InvInit, InvNext, PTL DEF Spec

(* SameDocuments: of every text in which no two separators overlap, the    *)
(* threads' documents, chunk after chunk, are those of                     *)
(* encode_files_docs_serial, in its order; of a JSONL file the serial ones *)
(* are the first of them, and all of them when no line is unusable, and    *)
(* then the streaming reader's are as well, as far as it can read.         *)
THEOREM SerialIsParallel == Spec => []SameDocuments
<1>1. ReadersInv => SameDocuments
  BY TextSameDocuments, LinesSerialFirst DEF ReadersInv, SameDocuments
<1>. QED BY <1>1, InvInit, InvNext, PTL DEF Spec

(* StreamCuts, for every separator: the bytes SeparatorReader searches     *)
(* again are enough for a separator that straddles any reads, and its      *)
(* documents are in order and share no byte.                               *)
THEOREM OverlapSuffices == Spec => []StreamCuts
<1>1. ReadersInv => StreamCuts
  BY StreamSafe DEF ReadersInv, StreamCuts
<1>. QED BY <1>1, InvInit, InvNext, PTL DEF Spec
==============================================================================
