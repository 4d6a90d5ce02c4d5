-------------------------- MODULE MergeCoresProofs --------------------------
(***************************************************************************)
(* Proofs about MergeCores, for any initial symbols, any merge tables and  *)
(* sequences of any length.                                                *)
(***************************************************************************)
EXTENDS MergeCores, FiniteSetTheorems, TLAPS

(* nx and pv link the positions of L in their order. *)
Nexts(L, nx) ==
  \A p \in L :
    \/ nx[p] = None /\ \A q \in L : q <= p
    \/ nx[p] \in L /\ p < nx[p] /\ \A q \in L : q <= p \/ nx[p] <= q

Prevs(L, pv) ==
  \A p \in L :
    \/ pv[p] = None /\ \A q \in L : p <= q
    \/ pv[p] \in L /\ pv[p] < p /\ \A q \in L : q <= pv[p] \/ p <= q

Linked ==
  /\ Nexts(live, next)
  /\ Prevs(live, prev)
  /\ n > 0 => 0 \in live
  /\ core = "heap" => \A p \in Positions \ live : next[p] = None

(* The pair that starts at p merges. *)
Mergeable(p) ==
  p \in live /\ next[p] # None /\ Rank(syms[p], syms[next[p]]) # NoMerge

(* Every pair that merges has its entry, or its rank. *)
Queued ==
  \A p \in live :
    Mergeable(p) => <<Rank(syms[p], syms[next[p]]).rank, p>> \in heap

Ranked ==
  \A p \in Positions :
    ranks[p] = IF p \in live /\ next[p] # None
               THEN Rank(syms[p], syms[next[p]]) ELSE NoMerge

LookedUp ==
  phase = "merge" => (core = "heap" => Queued) /\ (core = "scan" => Ranked)

Compacting ==
  /\ phase = "merge" => write = 0 /\ read = 0 /\ n >= 2
  /\ phase = "compact" => read \in live /\ write = Place(read)
  /\ phase = "done" => read = None /\ write = Cardinality(live)
  /\ phase # "merge" => Merging!Merged

IInv == TypeOK /\ Linked /\ LookedUp /\ Compacting

-----------------------------------------------------------------------------
(* Lists. *)

LEMMA NextIsAdjacent ==
  ASSUME NEW L \in SUBSET Nat, NEW nx, Nexts(L, nx), NEW p \in L, NEW q \in L
  PROVE  (p < q /\ \A r \in L : ~(p < r /\ r < q)) <=> nx[p] = q
<1>0. \A x \in L : x \in Nat
  OBVIOUS
<1>1. ASSUME nx[p] = q PROVE p < q /\ \A r \in L : ~(p < r /\ r < q)
  BY <1>1, LengthAssumption DEF Nexts
<1>2. ASSUME p < q, \A r \in L : ~(p < r /\ r < q) PROVE nx[p] = q
  <2>1. \/ nx[p] = None /\ \A r \in L : r <= p
        \/ nx[p] \in L /\ p < nx[p] /\ \A r \in L : r <= p \/ nx[p] <= r
    BY DEF Nexts
  <2>2. nx[p] \in L /\ p < nx[p] /\ nx[p] <= q
    BY <1>2, <2>1
  <2>3. nx[p] \in Nat /\ q \in Nat /\ ~(nx[p] < q)
    BY <1>0, <1>2, <2>2
  <2> QED BY <2>2, <2>3
<1> QED BY <1>1, <1>2

(* Taking the position after i out of the list leaves it linked. *)
LEMMA Unlinked ==
  ASSUME NEW L \in SUBSET Nat, NEW nx, NEW pv, Nexts(L, nx), Prevs(L, pv),
         NEW i \in L, NEW d, nx[i] = d, d # None, NEW e, nx[d] = e,
         NEW nx2, NEW pv2,
         \A p \in L \ {d} : nx2[p] = IF p = i THEN e ELSE nx[p],
         \A p \in L \ {d} : pv2[p] = IF p = e THEN i ELSE pv[p]
  PROVE  Nexts(L \ {d}, nx2) /\ Prevs(L \ {d}, pv2)
<1>0. \A x \in L : x \in Nat /\ x # None
  BY LengthAssumption
<1>1. /\ d \in L /\ i < d
      /\ \A q \in L : q <= i \/ d <= q
  BY DEF Nexts
<1>2. \/ e = None /\ \A q \in L : q <= d
      \/ e \in L /\ d < e /\ \A q \in L : q <= d \/ e <= q
  BY <1>1 DEF Nexts
<1>3. ASSUME NEW p \in L, p # d, NEW y, nx2[p] = y
      PROVE  \/ y = None /\ \A q \in L \ {d} : q <= p
             \/ y \in L \ {d} /\ p < y /\ \A q \in L \ {d} : q <= p \/ y <= q
  <2>1. CASE p = i
    <3>1. y = e
      BY <2>1, <1>3
    <3>2. ASSUME e = None, NEW q \in L, q # d PROVE q <= p
      <4>1. q <= d
        BY <3>2, <1>0, <1>2
      <4>2. q <= i \/ d <= q
        BY <1>1
      <4> QED BY <4>1, <4>2, <3>2, <2>1, <1>0, <1>1
    <3>3. ASSUME e \in L, NEW q \in L, q # d PROVE q <= p \/ e <= q
      BY <3>3, <2>1, <1>0, <1>1, <1>2
    <3>4. e \in L => p < e /\ e # d
      BY <2>1, <1>0, <1>1, <1>2
    <3> QED BY <3>1, <3>2, <3>3, <3>4, <1>2
  <2>2. CASE p # i
    <3>1. y = nx[p]
      BY <2>2, <1>3
    <3>2. \/ y = None /\ \A q \in L : q <= p
          \/ y \in L /\ p < y /\ \A q \in L : q <= p \/ y <= q
      BY <3>1 DEF Nexts
    <3>3. y # d
      <4> SUFFICES ASSUME y = d PROVE FALSE
        OBVIOUS
      <4>1. p < d /\ (i <= p \/ d <= i)
        BY <3>2, <1>0, <1>1
      <4>2. p <= i \/ d <= p
        BY <1>1
      <4> QED BY <4>1, <4>2, <2>2, <1>0, <1>1
    <3> QED BY <3>2, <3>3
  <2> QED BY <2>1, <2>2
<1>4. ASSUME NEW p \in L, p # d, NEW y, pv2[p] = y
      PROVE  \/ y = None /\ \A q \in L \ {d} : p <= q
             \/ y \in L \ {d} /\ y < p /\ \A q \in L \ {d} : q <= y \/ p <= q
  <2>1. CASE p = e
    <3>1. y = i /\ i # d
      BY <2>1, <1>0, <1>1, <1>4
    <3>2. d < p /\ \A q \in L : q <= d \/ p <= q
      BY <2>1, <1>0, <1>2
    <3>3. ASSUME NEW q \in L, q # d PROVE q <= i \/ p <= q
      BY <3>2, <3>3, <1>0, <1>1
    <3>4. i < p
      BY <3>2, <1>0, <1>1
    <3> QED BY <3>1, <3>3, <3>4
  <2>2. CASE p # e
    <3>1. y = pv[p]
      BY <2>2, <1>4
    <3>2. \/ y = None /\ \A q \in L : p <= q
          \/ y \in L /\ y < p /\ \A q \in L : q <= y \/ p <= q
      BY <3>1 DEF Prevs
    <3>3. y # d
      <4> SUFFICES ASSUME y = d PROVE FALSE
        OBVIOUS
      <4>1. d < p /\ \A q \in L : q <= d \/ p <= q
        BY <3>2, <1>0, <1>1
      <4>2. e \in L /\ d < e /\ e <= p
        BY <4>1, <1>0, <1>1, <1>2
      <4>3. p <= e
        BY <4>1, <4>2, <1>0, <1>1
      <4> QED BY <4>2, <4>3, <1>0, <2>2
    <3> QED BY <3>2, <3>3
  <2> QED BY <2>1, <2>2
<1> QED BY <1>3, <1>4 DEF Nexts, Prevs

-----------------------------------------------------------------------------
(* Survivors. *)

LEMMA Places ==
  ASSUME n \in Nat, NEW L \in SUBSET Positions, NEW p \in L
  PROVE  LET before(r) == Cardinality({q \in L : q < r})
         IN /\ before(p) \in 0 .. p
            /\ before(p) < Cardinality(L)
            /\ \A r \in L : r < p => before(r) < before(p)
<1> DEFINE Below(r) == {q \in L : q < r}
<1>1. IsFiniteSet(Positions) /\ p \in Nat
  BY FS_Interval DEF Positions
<1>2. IsFiniteSet(L) /\ Cardinality(L) \in Nat
  BY <1>1, FS_Subset, FS_CardinalityType
<1>3. \A r \in L : IsFiniteSet(Below(r)) /\ Cardinality(Below(r)) \in Nat
  BY <1>2, FS_Subset, FS_CardinalityType
<1>4. Cardinality(Below(p)) <= p
  <2>1. Below(p) \subseteq 0 .. p - 1
    <3>1. ASSUME NEW q \in L, q < p PROVE q \in 0 .. p - 1
      BY <1>1, <3>1 DEF Positions
    <3> QED BY <3>1
  <2>2. IsFiniteSet(0 .. p - 1) /\ Cardinality(0 .. p - 1) = p
    <3>1. 0 \in Int /\ p - 1 \in Int
      BY <1>1
    <3>2. /\ IsFiniteSet(0 .. p - 1)
          /\ Cardinality(0 .. p - 1) = IF 0 > p - 1 THEN 0 ELSE (p - 1) - 0 + 1
      BY <3>1, FS_Interval
    <3> QED BY <1>1, <3>2
  <2>3. Cardinality(Below(p)) <= Cardinality(0 .. p - 1)
    BY <2>1, <2>2, FS_Subset
  <2> QED BY <2>2, <2>3
<1>5. Cardinality(Below(p)) < Cardinality(L)
  <2>1. Below(p) \subseteq L /\ Below(p) # L
    <3>1. p \notin Below(p)
      BY <1>1
    <3> QED BY <3>1
  <2> QED BY <2>1, <1>2, <1>3, FS_Subset
<1>6. ASSUME NEW r \in L, r < p PROVE Cardinality(Below(r)) < Cardinality(Below(p))
  <2>0. r \in Nat
    BY DEF Positions
  <2>1. Below(r) \subseteq Below(p)
    <3>1. ASSUME NEW q \in L, q < r PROVE q < p
      BY <3>1, <1>6, <1>1, <2>0 DEF Positions
    <3> QED BY <3>1
  <2>2. r \in Below(p) /\ r \notin Below(r)
    BY <1>6, <2>0
  <2> QED BY <2>1, <2>2, <1>3, FS_Subset
<1> QED BY <1>1, <1>3, <1>4, <1>5, <1>6
-----------------------------------------------------------------------------
(* Pairs. *)

LEMMA RankFacts ==
  ASSUME table \in Tables, NEW a, NEW b, Rank(a, b) # NoMerge
  PROVE  /\ <<a, b>> \in DOMAIN table
         /\ Rank(a, b) = table[<<a, b>>]
         /\ Rank(a, b).rank \in Nat
BY TablesAssumption DEF Rank

LEMMA RankIffInTable ==
  ASSUME table \in Tables, NEW a, NEW b
  PROVE  Rank(a, b) # NoMerge <=> <<a, b>> \in DOMAIN table
BY TablesAssumption DEF Rank

LEMMA Sizes ==
  ASSUME TypeOK
  PROVE  n \in Nat /\ live \in SUBSET Nat /\ \A p \in live : p \in Nat /\ p # None
<1>1. n \in Nat
  BY LengthAssumption DEF TypeOK
<1>2. \A p \in Positions : p \in Nat
  BY <1>1 DEF Positions
<1> QED BY <1>1, <1>2, LengthAssumption DEF TypeOK

(* While merging, the pairs that can merge are those that start at a       *)
(* mergeable position.                                                     *)
LEMMA Tokens ==
  ASSUME TypeOK, Linked, phase = "merge"
  PROVE  /\ Token = [p \in live |-> syms[p]]
         /\ DOMAIN Token = live
         /\ \A p \in live : Token[p] = syms[p]
         /\ \A p, q \in live :
              Merging!CanMerge(p, q) <=> Mergeable(p) /\ next[p] = q
<1>1. Token = [p \in live |-> syms[p]]
  BY DEF Token, Copied
<1>2. DOMAIN Token = live /\ \A p \in live : Token[p] = syms[p]
  BY <1>1
<1>3. ASSUME NEW p \in live, NEW q \in live
      PROVE  Merging!CanMerge(p, q) <=> Mergeable(p) /\ next[p] = q
  <2>1. live \in SUBSET Nat /\ Nexts(live, next)
    BY DEF TypeOK, Linked, Positions
  <2>2. Merging!Adjacent(p, q) <=> next[p] = q
    <3>1. Merging!Adjacent(p, q)
            <=> p < q /\ \A r \in live : ~(p < r /\ r < q)
      BY <1>2 DEF Merging!Adjacent
    <3> QED BY <2>1, <3>1, NextIsAdjacent
  <2>3. Merging!Pair(p, q) = <<syms[p], syms[q]>>
    BY <1>2 DEF Merging!Pair
  <2>4. q # None
    BY <2>1, LengthAssumption
  <2> QED BY <2>2, <2>3, <2>4, RankIffInTable DEF Merging!CanMerge, Mergeable, TypeOK
<1> QED BY <1>1, <1>2, <1>3

(* What both loops do when they merge the pair at i and d. *)
MergesAt(i, d, e) ==
  /\ Mergeable(i) /\ next[i] = d /\ next[d] = e
  /\ syms' = [syms EXCEPT ![i] = Rank(syms[i], syms[d]).id]
  /\ live' = live \ {d}
  /\ \A p \in live \ {d} :
       /\ next'[p] = IF p = i THEN e ELSE next[p]
       /\ prev'[p] = IF p = e THEN i ELSE prev[p]

LEMMA MergeLinks ==
  ASSUME TypeOK, Linked, NEW i, NEW d, NEW e, MergesAt(i, d, e)
  PROVE  /\ Nexts(live', next') /\ Prevs(live', prev')
         /\ i \in live /\ d \in live /\ i < d
         /\ e = None \/ (e \in live' /\ d < e)
         /\ n > 0 => 0 \in live'
<1>1. live \in SUBSET Nat /\ i \in live /\ d # None
  BY DEF TypeOK, Positions, MergesAt, Mergeable
<1>2. Nexts(live', next') /\ Prevs(live', prev')
  <2>1. Nexts(live, next) /\ Prevs(live, prev) /\ i \in live /\ next[i] = d
    BY <1>1 DEF Linked, MergesAt
  <2>2. next[d] = e /\ live' = live \ {d}
    BY DEF MergesAt
  <2>3. \A p \in live \ {d} : next'[p] = IF p = i THEN e ELSE next[p]
    BY DEF MergesAt
  <2>4. \A p \in live \ {d} : prev'[p] = IF p = e THEN i ELSE prev[p]
    BY DEF MergesAt
  <2>5. Nexts(live \ {d}, next') /\ Prevs(live \ {d}, prev')
    BY <1>1, <2>1, <2>2, <2>3, <2>4, Unlinked, SMTT(60)
  <2> QED BY <2>2, <2>5
<1>0. next[i] = d /\ next[d] = e /\ live' = live \ {d}
  BY DEF MergesAt
<1>3. d \in live /\ i < d
  BY <1>0, <1>1 DEF Linked, Nexts
<1>4. e = None \/ (e \in live /\ d < e)
  <2>1. Nexts(live, next)
    BY DEF Linked
  <2> QED BY <1>0, <1>3, <2>1 DEF Nexts
<1>5. d \in Nat /\ i \in Nat /\ d # 0 /\ (e \in live => e \in Nat)
  <2>1. \A p \in live : p \in Nat
    BY Sizes
  <2>2. d \in Nat /\ i \in Nat
    BY <1>1, <1>3, <2>1
  <2>3. d # 0
    BY <1>3, <2>2
  <2> QED BY <2>1, <2>2, <2>3
<1>6. e = None \/ e \in live'
  BY <1>0, <1>4, <1>5
<1>7. n > 0 => 0 \in live'
  BY <1>5 DEF Linked, MergesAt
<1> QED BY <1>1, <1>2, <1>3, <1>4, <1>6, <1>7

(* It is the promised step if no pair that can merge goes before it. *)
LEMMA MergeIsPromised ==
  ASSUME TypeOK, Linked, phase = "merge", phase' = "merge", table' = table,
         NEW i, NEW d, NEW e, MergesAt(i, d, e),
         \A p \in live : Mergeable(p) =>
           LET mine == Rank(syms[i], syms[d]).rank
               other == Rank(syms[p], syms[next[p]]).rank
           IN mine < other \/ (mine = other /\ i <= p)
  PROVE  Merging!Merge(i, d)
<1>1. i \in live /\ d \in live /\ i # d
  <2>1. i \in Nat /\ d \in Nat /\ i < d /\ i \in live /\ d \in live
    BY MergeLinks, Sizes
  <2> QED BY <2>1
<1>2. Merging!CanMerge(i, d)
  BY <1>1, Tokens DEF MergesAt
<1>3. \A p \in live : Mergeable(p) =>
        Rank(syms[p], syms[next[p]]) = table[<<syms[p], syms[next[p]]>>]
  BY RankFacts DEF Mergeable, TypeOK
<1>4. Mergeable(i) /\ next[i] = d
  BY DEF MergesAt
<1>5. Rank(syms[i], syms[d]) = table[<<syms[i], syms[d]>>]
  BY <1>1, <1>3, <1>4
<1>6. Merging!Pair(i, d) = <<syms[i], syms[d]>>
  BY <1>1, Tokens DEF Merging!Pair
<1>7. ASSUME NEW r \in live, NEW s \in live, Merging!CanMerge(r, s)
      PROVE  Merging!Precedes(i, d, r, s)
  <2>1. Mergeable(r) /\ next[r] = s
    BY <1>7, Tokens
  <2>2. Merging!Pair(r, s) = <<syms[r], syms[s]>>
    BY Tokens DEF Merging!Pair
  <2>3. Rank(syms[r], syms[s]) = table[<<syms[r], syms[s]>>]
    BY <2>1, <1>3
  <2>4. \/ Rank(syms[i], syms[d]).rank < Rank(syms[r], syms[s]).rank
        \/ /\ Rank(syms[i], syms[d]).rank = Rank(syms[r], syms[s]).rank
           /\ i <= r
    BY <2>1
  <2> QED BY <2>2, <2>3, <2>4, <1>5, <1>6 DEF Merging!Precedes
<1>8. Token' = [r \in live' |-> syms'[r]]
  BY DEF Token, Copied
<1>9. \A r \in live' :
        syms'[r] = IF r = i THEN table[<<syms[i], syms[d]>>].id ELSE syms[r]
  BY <1>1, <1>5 DEF MergesAt, TypeOK
<1>10. Token' = [r \in DOMAIN Token \ {d} |->
                   IF r = i THEN table[Merging!Pair(i, d)].id ELSE Token[r]]
  BY <1>6, <1>8, <1>9, Tokens DEF MergesAt
<1> QED BY <1>2, <1>7, <1>10, Tokens DEF Merging!Merge
-----------------------------------------------------------------------------
(* The inductive invariant. *)

LEMMA InitIInv == CoreInit => IInv
<1> SUFFICES ASSUME CoreInit PROVE IInv
  OBVIOUS
<1>1. n \in Nat /\ n \in 0 .. MaxLength /\ table \in Tables /\ None \notin Nat
  BY LengthAssumption DEF CoreInit
<1>2. DOMAIN syms = Positions /\ DOMAIN ranks = Positions /\ live = Positions
  BY DEF CoreInit
<1>3. \A p \in Positions :
        /\ p \in Nat /\ p < n /\ p # None
        /\ next[p] = IF p + 1 < n THEN p + 1 ELSE None
        /\ prev[p] = IF p > 0 THEN p - 1 ELSE None
  BY <1>1 DEF CoreInit, Positions
<1>4. /\ next \in [Positions -> Positions \cup {None}]
      /\ prev \in [Positions -> Positions \cup {None}]
  <2>1. \A p \in Positions : next[p] \in Positions \cup {None}
    BY <1>1, <1>3 DEF Positions
  <2>2. \A p \in Positions : prev[p] \in Positions \cup {None}
    BY <1>1, <1>3 DEF Positions
  <2> QED BY <2>1, <2>2 DEF CoreInit
<1>5. Nexts(live, next) /\ Prevs(live, prev)
  <2>1. ASSUME NEW p \in Positions
        PROVE  \/ next[p] = None /\ \A q \in Positions : q <= p
               \/ /\ next[p] \in Positions /\ p < next[p]
                  /\ \A q \in Positions : q <= p \/ next[p] <= q
    BY <1>1, <1>3 DEF Positions
  <2>2. ASSUME NEW p \in Positions
        PROVE  \/ prev[p] = None /\ \A q \in Positions : p <= q
               \/ /\ prev[p] \in Positions /\ prev[p] < p
                  /\ \A q \in Positions : q <= prev[p] \/ p <= q
    BY <1>1, <1>3 DEF Positions
  <2> QED BY <1>2, <2>1, <2>2 DEF Nexts, Prevs
<1>6. Linked
  BY <1>1, <1>2, <1>5 DEF Linked, Positions
<1>7. heap \subseteq Nat \X Positions
  <2>1. ASSUME NEW i \in 0 .. n - 2
        PROVE  Entry(syms[i], syms[i + 1], i) \subseteq Nat \X Positions
    <3>1. i \in Positions
      BY <1>1 DEF Positions
    <3>2. ASSUME Rank(syms[i], syms[i + 1]) # NoMerge
          PROVE  <<Rank(syms[i], syms[i + 1]).rank, i>> \in Nat \X Positions
      BY <1>1, <3>1, <3>2, RankFacts
    <3> QED BY <3>2 DEF Entry
  <2> QED BY <2>1 DEF CoreInit
<1>8. TypeOK
  BY <1>1, <1>2, <1>4, <1>7 DEF CoreInit, TypeOK, Positions
<1>9. ASSUME core = "heap" PROVE Queued
  <2> SUFFICES ASSUME NEW p \in live, Mergeable(p)
               PROVE  <<Rank(syms[p], syms[next[p]]).rank, p>> \in heap
    BY DEF Queued
  <2>1. next[p] = p + 1 /\ p \in 0 .. n - 2
    BY <1>1, <1>2, <1>3 DEF Mergeable
  <2>2. <<Rank(syms[p], syms[p + 1]).rank, p>>
          \in Entry(syms[p], syms[p + 1], p)
    BY <2>1 DEF Entry, Mergeable
  <2> QED BY <1>9, <2>1, <2>2 DEF CoreInit
<1>10. ASSUME core = "scan" PROVE Ranked
  BY <1>1, <1>2, <1>3, <1>10 DEF CoreInit, Ranked
<1>11. LookedUp
  BY <1>9, <1>10 DEF LookedUp
<1>12. Compacting
  <2>1. CASE n < 2
    <3>1. phase = "done" /\ write = n /\ read = None
      BY <2>1 DEF CoreInit
    <3>2. Cardinality(live) = n
      <4>1. Cardinality(0 .. n - 1) = IF 0 > n - 1 THEN 0 ELSE (n - 1) - 0 + 1
        BY <1>1, FS_Interval
      <4> QED BY <1>1, <1>2, <4>1 DEF Positions
    <3>3. DOMAIN Token = live
      BY DEF Token
    <3>4. ASSUME NEW p \in live, NEW q \in live PROVE ~(p < q)
      BY <1>1, <1>2, <1>3, <2>1
    <3>5. Merging!Merged
      BY <3>3, <3>4 DEF Merging!Merged, Merging!CanMerge, Merging!Adjacent
    <3> QED BY <3>1, <3>2, <3>5 DEF Compacting
  <2>2. CASE n >= 2
    BY <1>1, <2>2 DEF CoreInit, Compacting
  <2> QED BY <1>1, <2>1, <2>2
<1> QED BY <1>6, <1>8, <1>11, <1>12 DEF IInv
(* A merge leaves an entry or a rank at the two pairs it makes, and the    *)
(* pairs it leaves alone keep theirs.                                      *)
LEMMA OtherPairs ==
  ASSUME TypeOK, Linked, NEW i, NEW d, NEW e, MergesAt(i, d, e),
         NEW p \in live, p # d, p # i, next[p] # i
  PROVE  /\ next'[p] = next[p]
         /\ syms'[p] = syms[p]
         /\ next[p] # None => syms'[next[p]] = syms[next[p]]
<1>1. next'[p] = next[p]
  BY DEF MergesAt
<1>2. \A q \in Positions : q # i => syms'[q] = syms[q]
  BY DEF MergesAt, TypeOK
<1>3. p \in Positions /\ (next[p] # None => next[p] \in Positions)
  BY DEF TypeOK
<1> QED BY <1>1, <1>2, <1>3

LEMMA LeftPair ==
  ASSUME TypeOK, Linked, NEW i, NEW d, NEW e, MergesAt(i, d, e),
         NEW p \in live, p # d, next[p] = i
  PROVE  /\ prev[i] = p /\ p # i
         /\ next'[p] = i
         /\ syms'[p] = syms[p]
         /\ syms'[i] = Rank(syms[i], syms[d]).id
<1>1. i \in live
  BY MergeLinks
<1>2. \A x \in live : x \in Nat /\ x # None
  BY Sizes
<1>3. p < i /\ \A q \in live : q <= p \/ i <= q
  <2>1. Nexts(live, next)
    BY DEF Linked
  <2> QED BY <1>1, <1>2, <2>1 DEF Nexts
<1>4. prev[i] = p
  <2>1. \/ prev[i] = None /\ \A q \in live : i <= q
        \/ prev[i] \in live /\ prev[i] < i /\ \A q \in live : q <= prev[i] \/ i <= q
    BY <1>1 DEF Linked, Prevs
  <2>2. prev[i] \in live /\ prev[i] < i /\ p <= prev[i]
    BY <1>1, <1>2, <1>3, <2>1
  <2>3. prev[i] <= p
    BY <1>1, <1>2, <1>3, <2>2
  <2> QED BY <1>2, <2>2, <2>3
<1>5. p # i
  BY <1>1, <1>2, <1>3
<1>6. next'[p] = i
  BY <1>5 DEF MergesAt
<1>7. p \in Positions /\ i \in Positions
  BY <1>1 DEF TypeOK
<1>8. /\ syms'[p] = syms[p]
      /\ syms'[i] = Rank(syms[i], syms[d]).id
  BY <1>5, <1>7 DEF MergesAt, TypeOK
<1> QED BY <1>4, <1>5, <1>6, <1>8

-----------------------------------------------------------------------------
(* The heap. *)

LEMMA PopMergesAt ==
  ASSUME IInv, NEW e \in heap, PopMerge(e)
  PROVE  LET i == e[2]
             d == next[i]
         IN /\ MergesAt(i, d, next[d])
            /\ \A p \in live : Mergeable(p) =>
                 LET mine == Rank(syms[i], syms[d]).rank
                     other == Rank(syms[p], syms[next[p]]).rank
                 IN mine < other \/ (mine = other /\ i <= p)
<1> DEFINE i == e[2]
           d == next[i]
           m == Rank(syms[i], syms[d])
<1>1. e \in Nat \X Positions /\ i \in Positions
  BY DEF IInv, TypeOK
<1>2. core = "heap" /\ phase = "merge" /\ d # None /\ m # NoMerge /\ m.rank = e[1]
  BY DEF PopMerge, IsCurrent
<1>3. i \in live
  BY <1>1, <1>2 DEF IInv, Linked
<1>4. Mergeable(i)
  BY <1>2, <1>3 DEF Mergeable
<1>5. Nexts(live, next) /\ \A x \in live : x \in Nat /\ x # None
  BY Sizes DEF IInv, Linked
<1>6. d \in live /\ i # d /\ (next[d] = None \/ next[d] \in live)
  <2>1. d \in live /\ i < d
    BY <1>2, <1>3, <1>5 DEF Nexts
  <2>2. next[d] = None \/ next[d] \in live
    BY <2>1, <1>5 DEF Nexts
  <2> QED BY <1>3, <1>5, <2>1, <2>2
<1>7. /\ syms' = [syms EXCEPT ![i] = m.id]
      /\ next' = [next EXCEPT ![i] = next[d], ![d] = None]
      /\ prev' = IF next[d] = None THEN prev ELSE [prev EXCEPT ![next[d]] = i]
      /\ live' = live \ {d}
  BY DEF PopMerge
<1>8. ASSUME NEW p \in live, p # d
      PROVE  /\ next'[p] = IF p = i THEN next[d] ELSE next[p]
             /\ prev'[p] = IF p = next[d] THEN i ELSE prev[p]
  <2>1. p \in Positions /\ p # None
    BY <1>5 DEF IInv, TypeOK
  <2>2. next'[p] = IF p = i THEN next[d] ELSE next[p]
    BY <1>1, <1>6, <1>7, <1>8, <2>1 DEF IInv, TypeOK
  <2>3. prev'[p] = IF p = next[d] THEN i ELSE prev[p]
    BY <1>6, <1>7, <2>1 DEF IInv, TypeOK
  <2> QED BY <2>2, <2>3
<1>9. MergesAt(i, d, next[d])
  BY <1>4, <1>7, <1>8 DEF MergesAt
<1>10. ASSUME NEW p \in live, Mergeable(p)
       PROVE  \/ m.rank < Rank(syms[p], syms[next[p]]).rank
              \/ m.rank = Rank(syms[p], syms[next[p]]).rank /\ i <= p
  <2> DEFINE f == <<Rank(syms[p], syms[next[p]]).rank, p>>
  <2>1. f \in heap
    BY <1>2, <1>10 DEF IInv, LookedUp, Queued
  <2>2. e[1] < f[1] \/ (e[1] = f[1] /\ e[2] <= f[2])
    BY <2>1 DEF PopMerge, IsLeast
  <2> QED BY <2>2, <1>2
<1> QED BY <1>9, <1>10

LEMMA PopQueued ==
  ASSUME IInv, NEW e \in heap, PopMerge(e)
  PROVE  Queued' /\ heap' \subseteq Nat \X Positions
<1> DEFINE i == e[2]
           d == next[i]
           b == next[d]
           m == Rank(syms[i], syms[d]).id
           left == prev[i]
<1>1. MergesAt(i, d, b)
  BY PopMergesAt
<1>2. TypeOK /\ Linked /\ table' = table /\ core = "heap" /\ phase = "merge"
  BY DEF IInv, PopMerge, input
<1>3. heap' = (heap \ {e})
         \cup (IF left = None THEN {} ELSE Entry(syms[left], m, left))
         \cup (IF b = None THEN {} ELSE Entry(m, syms[b], i))
  BY DEF PopMerge
<1>4. i \in live /\ d \in live /\ i # d /\ (b = None \/ b \in live)
  <2>1. i \in Nat /\ d \in Nat /\ i < d /\ i \in live /\ d \in live
    BY <1>1, <1>2, MergeLinks, Sizes
  <2>2. b = None \/ b \in live
    BY <2>1, <1>2 DEF Linked, Nexts
  <2> QED BY <2>1, <2>2
<1>5. \A a, c : Rank(a, c)' = Rank(a, c)
  BY <1>2 DEF Rank
<1>6. /\ \A q \in Positions \ {i} : syms'[q] = syms[q]
      /\ syms'[i] = m
      /\ next'[i] = b
      /\ live' = live \ {d}
  BY <1>1, <1>2, <1>4 DEF MergesAt, TypeOK
<1>7. Queued'
  <2> SUFFICES ASSUME NEW p \in live', Mergeable(p)'
               PROVE  <<Rank(syms'[p], syms'[next'[p]]).rank, p>> \in heap'
    BY <1>5 DEF Queued
  <2>1. p \in live /\ p # d /\ next'[p] # None
        /\ Rank(syms'[p], syms'[next'[p]]) # NoMerge
    BY <1>5, <1>6 DEF Mergeable
  <2>2. CASE p = i
    <3>1. b # None /\ b \in live /\ b # i
      <4>1. b # None /\ b \in live
        BY <1>4, <1>6, <2>1, <2>2
      <4>2. d < b /\ i < d /\ i \in Nat /\ d \in Nat /\ b \in Nat
        BY <4>1, <1>1, <1>2, <1>4, MergeLinks, Sizes
      <4> QED BY <4>1, <4>2
    <3>2. syms'[b] = syms[b]
      BY <1>2, <1>6, <3>1 DEF TypeOK
    <3>3. Rank(m, syms[b]) # NoMerge
      BY <2>1, <2>2, <1>6, <3>2
    <3>4. <<Rank(m, syms[b]).rank, i>> \in heap'
      BY <1>3, <3>1, <3>3 DEF Entry
    <3> QED BY <3>4, <3>2, <2>2, <1>6
  <2>3. CASE p # i /\ next[p] = i
    <3>1. /\ left = p
          /\ next'[p] = i
          /\ syms'[p] = syms[p]
      BY <1>1, <1>2, <2>1, <2>3, LeftPair
    <3>2. left # None
      BY <2>1, <3>1, <1>2, Sizes
    <3>3. Rank(syms[p], m) # NoMerge
      BY <2>1, <1>6, <3>1
    <3>4. <<Rank(syms[p], m).rank, p>> \in heap'
      BY <1>3, <3>1, <3>2, <3>3 DEF Entry
    <3> QED BY <3>4, <3>1, <1>6
  <2>4. CASE p # i /\ next[p] # i
    <3>1. /\ next'[p] = next[p]
          /\ syms'[p] = syms[p]
          /\ next[p] # None => syms'[next[p]] = syms[next[p]]
      BY <1>1, <1>2, <2>1, <2>4, OtherPairs
    <3>2. Mergeable(p)
      BY <2>1, <3>1 DEF Mergeable
    <3>3. <<Rank(syms[p], syms[next[p]]).rank, p>> \in heap
      BY <3>2, <2>1, <1>2 DEF IInv, LookedUp, Queued
    <3>4. <<Rank(syms[p], syms[next[p]]).rank, p>> # e
      BY <2>4
    <3> QED BY <3>1, <3>3, <3>4, <1>3, <2>1
  <2> QED BY <2>2, <2>3, <2>4
<1>8. heap' \subseteq Nat \X Positions
  <2>1. \A a, c : \A p \in Positions : Entry(a, c, p) \subseteq Nat \X Positions
    <3> SUFFICES ASSUME NEW a, NEW c, NEW p \in Positions, Rank(a, c) # NoMerge
                 PROVE  <<Rank(a, c).rank, p>> \in Nat \X Positions
      BY DEF Entry
    <3> QED BY <1>2, RankFacts DEF TypeOK
  <2>2. i \in Positions /\ (left # None => left \in Positions)
    BY <1>2, <1>4 DEF TypeOK
  <2>3. heap \subseteq Nat \X Positions
    BY <1>2 DEF TypeOK
  <2> QED BY <1>3, <2>1, <2>2, <2>3
<1> QED BY <1>7, <1>8
LEMMA PopStep ==
  ASSUME IInv, NEW e \in heap, PopMerge(e)
  PROVE  IInv' /\ \E p, q \in DOMAIN Token : Merging!Merge(p, q)
<1> DEFINE i == e[2]
           d == next[i]
           b == next[d]
<1>1. MergesAt(i, d, b)
  BY PopMergesAt
<1>2. /\ TypeOK /\ Linked /\ core = "heap" /\ phase = "merge"
      /\ UNCHANGED <<core, table, n, ranks, phase, write, read>>
  BY DEF IInv, PopMerge, input
<1>3. i \in live /\ d \in live /\ (b = None \/ b \in live')
      /\ i \in Positions /\ d \in Positions
  BY <1>1, <1>2, MergeLinks DEF TypeOK
<1>4. /\ syms' = [syms EXCEPT ![i] = Rank(syms[i], syms[d]).id]
      /\ next' = [next EXCEPT ![i] = b, ![d] = None]
      /\ prev' = IF b = None THEN prev ELSE [prev EXCEPT ![b] = i]
      /\ live' = live \ {d}
  BY DEF PopMerge
<1>5. b \in Positions \cup {None}
  BY <1>2, <1>3 DEF TypeOK
<1>6. next' \in [Positions -> Positions \cup {None}]
  BY <1>2, <1>4, <1>5 DEF TypeOK
<1>7. prev' \in [Positions -> Positions \cup {None}]
  BY <1>2, <1>3, <1>4 DEF TypeOK
<1>8. TypeOK'
  BY <1>2, <1>4, <1>6, <1>7, PopQueued DEF TypeOK, Positions
<1>9. Linked'
  <2>1. Nexts(live', next') /\ Prevs(live', prev') /\ (n' > 0 => 0 \in live')
    BY <1>1, <1>2, MergeLinks
  <2>2. ASSUME NEW p \in Positions \ live' PROVE next'[p] = None
    <3>1. CASE p = d
      BY <1>2, <1>3, <1>4, <3>1 DEF TypeOK
    <3>2. CASE p # d
      <4>1. p \notin live /\ p # i
        BY <1>3, <1>4, <3>2
      <4>2. next[p] = None
        BY <4>1, <1>2 DEF Linked
      <4> QED BY <4>1, <4>2, <3>2, <1>2, <1>4 DEF TypeOK
    <3> QED BY <3>1, <3>2
  <2>3. Positions' = Positions
    BY <1>2 DEF Positions
  <2> QED BY <2>1, <2>2, <2>3 DEF Linked
<1>10. LookedUp'
  BY <1>2, PopQueued DEF LookedUp
<1>11. Compacting'
  BY <1>2 DEF IInv, Compacting
<1>12. Merging!Merge(i, d)
  <2>1. \A p \in live : Mergeable(p) =>
          LET mine == Rank(syms[i], syms[d]).rank
              other == Rank(syms[p], syms[next[p]]).rank
          IN mine < other \/ (mine = other /\ i <= p)
    BY PopMergesAt
  <2> QED BY <1>1, <1>2, <2>1, MergeIsPromised
<1> QED BY <1>3, <1>8, <1>9, <1>10, <1>11, <1>12, <1>2, Tokens DEF IInv

LEMMA SkipStep ==
  ASSUME IInv, NEW e \in heap, SkipStale(e)
  PROVE  IInv' /\ UNCHANGED <<table, Token>>
<1>1. /\ UNCHANGED <<core, table, n, syms, next, prev, live, ranks, phase, write, read>>
      /\ heap' = heap \ {e} /\ core = "heap" /\ phase = "merge" /\ ~IsCurrent(e)
  BY DEF SkipStale, input
<1>2. \A a, c : Rank(a, c)' = Rank(a, c)
  BY <1>1 DEF Rank
<1>3. Positions' = Positions
  BY <1>1 DEF Positions
<1>4. Token' = Token
  BY <1>1 DEF Token, Copied, Place
<1>5. TypeOK'
  BY <1>1, <1>3 DEF IInv, TypeOK
<1>6. Linked'
  BY <1>1, <1>3 DEF IInv, Linked, Nexts, Prevs
<1>7. Queued'
  <2> SUFFICES ASSUME NEW p \in live, Mergeable(p)
               PROVE  <<Rank(syms[p], syms[next[p]]).rank, p>> \in heap'
    BY <1>1, <1>2 DEF Queued, Mergeable
  <2> DEFINE f == <<Rank(syms[p], syms[next[p]]).rank, p>>
  <2>1. f \in heap
    BY <1>1 DEF IInv, LookedUp, Queued
  <2>2. IsCurrent(f)
    BY DEF IsCurrent, Mergeable
  <2> QED BY <1>1, <2>1, <2>2
<1>8. LookedUp' /\ Compacting'
  BY <1>1, <1>7 DEF IInv, LookedUp, Compacting
<1> QED BY <1>1, <1>4, <1>5, <1>6, <1>8 DEF IInv

-----------------------------------------------------------------------------
(* The scan. *)

LEMMA ScanMergesAt ==
  ASSUME IInv, NEW i \in Positions, ScanMerge(i)
  PROVE  LET d == next[i]
         IN /\ MergesAt(i, d, next[d])
            /\ \A p \in live : Mergeable(p) =>
                 LET mine == Rank(syms[i], syms[d]).rank
                     other == Rank(syms[p], syms[next[p]]).rank
                 IN mine < other \/ (mine = other /\ i <= p)
<1> DEFINE d == next[i]
           m == Rank(syms[i], syms[d])
<1>1. core = "scan" /\ phase = "merge" /\ ranks[i] # NoMerge
  BY DEF ScanMerge, IsBest
<1>2. \A p \in Positions :
        ranks[p] = IF p \in live /\ next[p] # None
                   THEN Rank(syms[p], syms[next[p]]) ELSE NoMerge
  BY <1>1 DEF IInv, LookedUp, Ranked
<1>3. i \in live /\ d # None /\ ranks[i] = m /\ m # NoMerge
  BY <1>1, <1>2
<1>4. Mergeable(i)
  BY <1>3 DEF Mergeable
<1>5. Nexts(live, next) /\ \A x \in live : x \in Nat /\ x # None
  BY Sizes DEF IInv, Linked
<1>6. d \in live /\ i # d /\ (next[d] = None \/ next[d] \in live)
  <2>1. d \in live /\ i < d
    BY <1>3, <1>5 DEF Nexts
  <2>2. next[d] = None \/ next[d] \in live
    BY <2>1, <1>5 DEF Nexts
  <2> QED BY <1>3, <1>5, <2>1, <2>2
<1>7. /\ syms' = [syms EXCEPT ![i] = m.id]
      /\ next' = [next EXCEPT ![i] = next[d]]
      /\ prev' = IF next[d] = None THEN prev ELSE [prev EXCEPT ![next[d]] = i]
      /\ live' = live \ {d}
  BY <1>3 DEF ScanMerge
<1>8. ASSUME NEW p \in live, p # d
      PROVE  /\ next'[p] = IF p = i THEN next[d] ELSE next[p]
             /\ prev'[p] = IF p = next[d] THEN i ELSE prev[p]
  <2>1. p \in Positions /\ p # None
    BY <1>5 DEF IInv, TypeOK
  <2>2. next'[p] = IF p = i THEN next[d] ELSE next[p]
    BY <1>7, <2>1 DEF IInv, TypeOK
  <2>3. prev'[p] = IF p = next[d] THEN i ELSE prev[p]
    BY <1>6, <1>7, <2>1 DEF IInv, TypeOK
  <2> QED BY <2>2, <2>3
<1>9. MergesAt(i, d, next[d])
  BY <1>4, <1>7, <1>8 DEF MergesAt
<1>10. ASSUME NEW p \in live, Mergeable(p)
       PROVE  \/ m.rank < Rank(syms[p], syms[next[p]]).rank
              \/ m.rank = Rank(syms[p], syms[next[p]]).rank /\ i <= p
  <2>1. p \in Positions
    BY DEF IInv, TypeOK
  <2>2. ranks[p] = Rank(syms[p], syms[next[p]]) /\ ranks[p] # NoMerge
    BY <2>1, <1>2, <1>10 DEF Mergeable
  <2>3. \/ ranks[i].rank < ranks[p].rank
        \/ ranks[i].rank = ranks[p].rank /\ i <= p
    BY <2>1, <2>2 DEF ScanMerge, IsBest
  <2> QED BY <2>2, <2>3, <1>3
<1> QED BY <1>9, <1>10

LEMMA ScanRanked ==
  ASSUME IInv, NEW i \in Positions, ScanMerge(i)
  PROVE  Ranked'
<1> DEFINE d == next[i]
           b == next[d]
           left == prev[i]
<1>1. MergesAt(i, d, b)
  BY ScanMergesAt
<1>2. TypeOK /\ Linked /\ table' = table /\ n' = n /\ core = "scan" /\ phase = "merge"
  BY DEF IInv, ScanMerge, input
<1>3. \A a, c : Rank(a, c)' = Rank(a, c)
  BY <1>2 DEF Rank
<1>4. Positions' = Positions
  BY <1>2 DEF Positions
<1>5. /\ syms' = [syms EXCEPT ![i] = ranks[i].id]
      /\ live' = live \ {d}
      /\ ranks' = [j \in Positions |->
           CASE j = d -> NoMerge
             [] j = i -> IF b = None THEN NoMerge ELSE Rank(syms'[i], syms'[b])
             [] j = left -> Rank(syms'[left], syms'[i])
             [] OTHER -> ranks[j]]
  BY DEF ScanMerge
<1>6. \A p \in Positions :
        ranks[p] = IF p \in live /\ next[p] # None
                   THEN Rank(syms[p], syms[next[p]]) ELSE NoMerge
  BY <1>2 DEF IInv, LookedUp, Ranked
<1>7. i \in live /\ d \in live /\ i < d /\ i \in Nat /\ d \in Nat /\ i # d
  <2>1. i \in live /\ d \in live /\ i < d
    BY <1>1, <1>2, MergeLinks
  <2>2. i \in Nat /\ d \in Nat
    BY <1>2, <2>1, Sizes
  <2> QED BY <2>1, <2>2
<1>8. left # i /\ left # d
  <2>1. \A x \in live : x \in Nat /\ x # None
    BY <1>2, Sizes
  <2>2. left = None \/ (left \in live /\ left < i)
    BY <1>2, <1>7 DEF Linked, Prevs
  <2> QED BY <2>1, <2>2, <1>7
<1>9. ASSUME NEW p \in Positions
      PROVE  ranks'[p] = IF p \in live' /\ next'[p] # None
                         THEN Rank(syms'[p], syms'[next'[p]]) ELSE NoMerge
  <2>1. CASE p = d
    BY <2>1, <1>5, <1>7, <1>8
  <2>2. CASE p = i
    <3>1. next'[i] = b /\ i \in live'
      BY <1>1, <1>5, <1>7 DEF MergesAt
    <3>2. ranks'[i] = IF b = None THEN NoMerge ELSE Rank(syms'[i], syms'[b])
      BY <1>5, <1>7, <1>8
    <3> QED BY <2>2, <3>1, <3>2
  <2>3. CASE p # i /\ p \in live /\ p # d /\ next[p] = i
    <3>1. left = p /\ next'[p] = i
      BY <1>1, <1>2, <2>3, LeftPair
    <3>2. ranks'[p] = Rank(syms'[p], syms'[i])
      BY <1>5, <2>3, <3>1
    <3>3. i # None /\ p \in live'
      BY <1>2, <1>5, <1>7, <2>3, Sizes
    <3> QED BY <3>1, <3>2, <3>3
  <2>4. CASE p # i /\ p \in live /\ p # d /\ next[p] # i
    <3>1. /\ next'[p] = next[p]
          /\ syms'[p] = syms[p]
          /\ next[p] # None => syms'[next[p]] = syms[next[p]]
      BY <1>1, <1>2, <2>4, OtherPairs
    <3>2. left # p
      <4> SUFFICES ASSUME prev[i] = p PROVE FALSE
        OBVIOUS
      <4>1. \A x \in live : x \in Nat /\ x # None
        BY <1>2, Sizes
      <4>2. p < i /\ \A q \in live : q <= p \/ i <= q
        BY <1>2, <1>7, <2>4, <4>1 DEF Linked, Prevs
      <4>3. next[p] = i
        <5>1. Nexts(live, next) /\ live \in SUBSET Nat
          BY <1>2, Sizes DEF Linked
        <5>2. \A r \in live : ~(p < r /\ r < i)
          BY <4>1, <4>2, <1>7, <2>4
        <5> QED BY <5>1, <5>2, <4>2, <1>7, <2>4, NextIsAdjacent
      <4> QED BY <4>3, <2>4
    <3>3. ranks'[p] = ranks[p]
      BY <1>5, <2>4, <3>2
    <3>4. p \in live'
      BY <1>5, <2>4
    <3> QED BY <3>1, <3>3, <3>4, <1>6, <2>4
  <2>5. CASE p # i /\ p # d /\ p \notin live
    <3>1. left # p
      <4>1. \A x \in live : x \in Nat /\ x # None
        BY <1>2, Sizes
      <4>2. p # None
        BY <1>2, LengthAssumption DEF TypeOK, Positions
      <4>3. left = None \/ left \in live
        BY <1>2, <1>7 DEF Linked, Prevs
      <4> QED BY <4>2, <4>3, <2>5
    <3>2. ranks'[p] = ranks[p] /\ ranks[p] = NoMerge
      BY <1>5, <1>6, <2>5, <3>1
    <3> QED BY <1>5, <2>5, <3>2
  <2> QED BY <2>1, <2>2, <2>3, <2>4, <2>5
<1> QED BY <1>3, <1>4, <1>9 DEF Ranked
LEMMA ScanStep ==
  ASSUME IInv, NEW i \in Positions, ScanMerge(i)
  PROVE  IInv' /\ \E p, q \in DOMAIN Token : Merging!Merge(p, q)
<1> DEFINE d == next[i]
           b == next[d]
<1>1. MergesAt(i, d, b)
  BY ScanMergesAt
<1>2. /\ TypeOK /\ Linked /\ core = "scan" /\ phase = "merge"
      /\ UNCHANGED <<core, table, n, heap, phase, write, read>>
  BY DEF IInv, ScanMerge, input
<1>3. i \in live /\ d \in live /\ (b = None \/ b \in live')
      /\ i \in Positions /\ d \in Positions
  BY <1>1, <1>2, MergeLinks DEF TypeOK
<1>4. /\ DOMAIN syms' = DOMAIN syms
      /\ next' = [next EXCEPT ![i] = b]
      /\ prev' = IF b = None THEN prev ELSE [prev EXCEPT ![b] = i]
      /\ live' = live \ {d}
      /\ DOMAIN ranks' = Positions
  BY DEF ScanMerge
<1>5. b \in Positions \cup {None}
  BY <1>2, <1>3 DEF TypeOK
<1>6. next' \in [Positions -> Positions \cup {None}]
  BY <1>2, <1>4, <1>5 DEF TypeOK
<1>7. prev' \in [Positions -> Positions \cup {None}]
  BY <1>2, <1>3, <1>4 DEF TypeOK
<1>8. TypeOK'
  BY <1>2, <1>4, <1>6, <1>7 DEF TypeOK, Positions
<1>9. Linked'
  BY <1>1, <1>2, MergeLinks DEF Linked
<1>10. LookedUp'
  BY <1>2, ScanRanked DEF LookedUp
<1>11. Compacting'
  BY <1>2 DEF IInv, Compacting
<1>12. Merging!Merge(i, d)
  <2>1. \A p \in live : Mergeable(p) =>
          LET mine == Rank(syms[i], syms[d]).rank
              other == Rank(syms[p], syms[next[p]]).rank
          IN mine < other \/ (mine = other /\ i <= p)
    BY ScanMergesAt
  <2> QED BY <1>1, <1>2, <2>1, MergeIsPromised
<1> QED BY <1>3, <1>8, <1>9, <1>10, <1>11, <1>12, <1>2, Tokens DEF IInv

-----------------------------------------------------------------------------
(* The end. *)

LEMMA LoopEnds ==
  ASSUME IInv, Drained \/ NothingRanked
  PROVE  IInv' /\ UNCHANGED <<table, Token>>
<1>1. /\ UNCHANGED <<core, table, n, syms, next, prev, live, heap, ranks, write, read>>
      /\ phase = "merge" /\ phase' = "compact"
      /\ \/ core = "heap" /\ heap = {}
         \/ core = "scan" /\ \A i \in Positions : ranks[i] = NoMerge
  BY DEF Drained, NothingRanked, input
<1>2. \A p \in live : ~Mergeable(p)
  <2> SUFFICES ASSUME NEW p \in live, Mergeable(p) PROVE FALSE
    OBVIOUS
  <2>1. CASE core = "heap" /\ heap = {}
    BY <1>1, <2>1 DEF IInv, LookedUp, Queued
  <2>2. CASE core = "scan" /\ \A i \in Positions : ranks[i] = NoMerge
    <3>1. p \in Positions
      BY DEF IInv, TypeOK
    <3>2. ranks[p] = Rank(syms[p], syms[next[p]])
      BY <1>1, <2>2, <3>1 DEF IInv, LookedUp, Ranked, Mergeable
    <3> QED BY <2>2, <3>1, <3>2 DEF Mergeable
  <2> QED BY <1>1, <2>1, <2>2
<1>3. \A p, q \in DOMAIN Token : ~Merging!CanMerge(p, q)
  BY <1>1, <1>2, Tokens DEF IInv
<1>4. read = 0 /\ write = 0 /\ n \in Nat /\ n > 0 /\ 0 \in live
  BY <1>1, Sizes DEF IInv, Compacting, Linked
<1>5. \A p \in live : p \in Nat /\ ~(p < 0)
  <2>1. \A p \in live : p \in Nat
    BY Sizes DEF IInv
  <2> QED BY <2>1
<1>6. Token' = Token
  <2>1. \A p \in live : ~Copied(p)'
    BY <1>1, <1>4, <1>5, LengthAssumption DEF Copied
  <2>2. \A p \in live : ~Copied(p)
    BY <1>1 DEF Copied
  <2> QED BY <1>1, <2>1, <2>2 DEF Token
<1>7. TypeOK' /\ Linked' /\ LookedUp'
  BY <1>1 DEF IInv, TypeOK, Linked, LookedUp, Positions, Nexts, Prevs
<1>8. Merging!Merged'
  <2>1. \A p, q : Merging!CanMerge(p, q)' <=> Merging!CanMerge(p, q)
    BY <1>1, <1>6 DEF Merging!CanMerge, Merging!Adjacent, Merging!Pair
  <2> QED BY <1>3, <1>6, <2>1 DEF Merging!Merged
<1>9. Place(0)' = 0
  <2>1. {q \in live' : q < 0} = {}
    BY <1>1, <1>5
  <2> QED BY <2>1, FS_EmptySet DEF Place
<1>10. Compacting'
  <2>1. read' = 0 /\ write' = 0 /\ 0 \in live'
    BY <1>1, <1>4
  <2> QED BY <1>1, <1>8, <1>9, <2>1 DEF Compacting
<1> QED BY <1>1, <1>6, <1>7, <1>10 DEF IInv

LEMMA CompactStep ==
  ASSUME IInv, Compact
  PROVE  IInv' /\ UNCHANGED <<table, Token>>
<1>1. /\ UNCHANGED <<core, table, n, next, prev, live, heap, ranks>>
      /\ phase = "compact"
      /\ syms' = [syms EXCEPT ![write] = syms[read]]
      /\ write' = write + 1
      /\ read' = next[read]
      /\ phase' = IF next[read] = None THEN "done" ELSE "compact"
  BY DEF Compact, input
<1>2. read \in live /\ write = Place(read) /\ TypeOK /\ Linked
  BY <1>1 DEF IInv, Compacting
<1>3. n \in Nat /\ live \in SUBSET Positions /\ \A p \in live : p \in Nat /\ p # None
  BY <1>2, Sizes DEF TypeOK
<1>4. /\ write \in Nat /\ write <= read /\ write < Cardinality(live)
      /\ Place(read) \in Nat
  BY <1>2, <1>3, Places DEF Place
<1>5. /\ \A p \in live : p < read => Place(p) \in Nat /\ Place(p) < write
  <2> SUFFICES ASSUME NEW p \in live, p < read
               PROVE  Place(p) \in Nat /\ Place(p) < write
    OBVIOUS
  <2>1. Place(p) \in 0 .. p
    BY <1>3, Places DEF Place
  <2>2. Place(p) < Place(read)
    BY <1>2, <1>3, Places DEF Place
  <2> QED BY <1>2, <1>3, <2>1, <2>2
<1>6. \/ next[read] = None /\ \A q \in live : q <= read
      \/ /\ next[read] \in live /\ read < next[read]
         /\ \A q \in live : q <= read \/ next[read] <= q
  BY <1>2 DEF Linked, Nexts
<1>7. \A p \in live : Copied(p)' <=> p <= read
  <2> SUFFICES ASSUME NEW p \in live PROVE Copied(p)' <=> p <= read
    OBVIOUS
  <2>1. CASE next[read] = None
    <3>1. p <= read
      BY <2>1, <1>3, <1>6
    <3>2. Copied(p)'
      BY <2>1, <1>1 DEF Copied
    <3> QED BY <3>1, <3>2
  <2>2. CASE next[read] # None
    <3>1. Copied(p)' <=> p < next[read]
      BY <2>2, <1>1 DEF Copied
    <3>2. read < next[read] /\ (p <= read \/ next[read] <= p) /\ next[read] \in Nat
      BY <2>2, <1>3, <1>6
    <3>3. read \in Nat /\ p \in Nat
      BY <1>2, <1>3
    <3> QED BY <3>1, <3>2, <3>3
  <2> QED BY <2>1, <2>2
<1>8. \A p : Place(p)' = Place(p)
  BY <1>1 DEF Place
<1>9. DOMAIN syms = Positions /\ \A q \in live : q \in Positions
  BY <1>2 DEF TypeOK
<1>10. write \in Positions
  BY <1>2, <1>3, <1>4, <1>9 DEF Positions
<1>11. ASSUME NEW p \in live
       PROVE  syms'[IF Copied(p)' THEN Place(p) ELSE p]
                = syms[IF Copied(p) THEN Place(p) ELSE p]
  <2>1. Copied(p) <=> p < read
    BY <1>1, <1>2, <1>3 DEF Copied
  <2>2. p \in Nat /\ read \in Nat
    BY <1>2, <1>3
  <2>3. CASE p < read
    <3>1. Copied(p)' /\ Copied(p)
      BY <2>1, <2>2, <2>3, <1>7
    <3>2. Place(p) # write
      BY <1>4, <1>5, <2>3
    <3>3. syms'[Place(p)] = syms[Place(p)]
      <4>1. Place(p) \in Positions
        BY <1>3, <1>4, <1>5, <1>10, <2>3 DEF Positions
      <4> QED BY <4>1, <3>2, <1>1, <1>9
    <3> QED BY <3>1, <3>3
  <2>4. CASE p = read
    <3>1. Copied(p)' /\ ~Copied(p)
      BY <2>1, <2>2, <2>4, <1>7
    <3>2. syms'[write] = syms[read]
      BY <1>1, <1>9, <1>10
    <3> QED BY <3>1, <3>2, <2>4, <1>2
  <2>5. CASE p > read
    <3>1. ~Copied(p)' /\ ~Copied(p)
      BY <2>1, <2>2, <2>5, <1>7
    <3>2. p # write /\ p \in Positions
      BY <1>4, <1>9, <2>2, <2>5
    <3>3. syms'[p] = syms[p]
      BY <1>1, <1>9, <3>2
    <3> QED BY <3>1, <3>3
  <2> QED BY <2>2, <2>3, <2>4, <2>5
<1>12. Token' = Token
  BY <1>1, <1>8, <1>11 DEF Token
<1>13. Merging!Merged'
  <2>1. Merging!Merged
    BY <1>1 DEF IInv, Compacting
  <2>2. \A p, q : Merging!CanMerge(p, q)' <=> Merging!CanMerge(p, q)
    BY <1>1, <1>12 DEF Merging!CanMerge, Merging!Adjacent, Merging!Pair
  <2> QED BY <1>12, <2>1, <2>2 DEF Merging!Merged
<1>14. LET beyond == next[read]
       IN IF beyond = None THEN write + 1 = Cardinality(live)
          ELSE write + 1 = Place(beyond)
  <2>1. /\ IsFiniteSet({q \in live : q < read})
        /\ read \notin {q \in live : q < read}
    <3>1. IsFiniteSet(Positions)
      BY <1>3, FS_Interval DEF Positions
    <3>2. IsFiniteSet({q \in live : q < read})
      BY <3>1, <1>3, FS_Subset
    <3> QED BY <3>2, <1>2, <1>3
  <2>2. Cardinality({q \in live : q < read} \cup {read}) = write + 1
    BY <2>1, <1>2, FS_AddElement DEF Place
  <2>3. CASE next[read] = None
    <3>1. live = {q \in live : q < read} \cup {read}
      BY <2>3, <1>2, <1>3, <1>6
    <3> QED BY <2>2, <2>3, <3>1
  <2>4. CASE next[read] # None
    <3>1. \A q \in live : q < next[read] <=> (q < read \/ q = read)
      BY <2>4, <1>2, <1>3, <1>6
    <3>2. {q \in live : q < next[read]} = {q \in live : q < read} \cup {read}
      BY <3>1, <1>2
    <3> QED BY <2>2, <2>4, <3>2 DEF Place
  <2> QED BY <2>3, <2>4
<1>15. Compacting'
  <2>1. CASE next[read] = None
    BY <2>1, <1>1, <1>13, <1>14 DEF Compacting
  <2>2. CASE next[read] # None
    BY <2>2, <1>1, <1>6, <1>8, <1>13, <1>14 DEF Compacting
  <2> QED BY <2>1, <2>2
<1>16. TypeOK'
  <2>1. write' \in 0 .. n
    BY <1>1, <1>3, <1>4, <1>10 DEF Positions
  <2>2. read' \in Positions \cup {None}
    BY <1>1, <1>6, <1>9
  <2>3. DOMAIN syms' = Positions
    BY <1>1, <1>9
  <2> QED BY <1>1, <1>2, <2>1, <2>2, <2>3 DEF TypeOK, Positions
<1>17. Linked' /\ LookedUp'
  BY <1>1, <1>2 DEF Linked, LookedUp, Positions, Nexts, Prevs
<1> QED BY <1>1, <1>12, <1>15, <1>16, <1>17 DEF IInv
LEMMA StepIInv ==
  ASSUME IInv, CoreNext
  PROVE  IInv' /\ [Merging!Next]_<<table, Token>>
<1>1. ASSUME NEW e \in heap, SkipStale(e) PROVE IInv' /\ UNCHANGED <<table, Token>>
  BY <1>1, SkipStep
<1>2. ASSUME NEW e \in heap, PopMerge(e) PROVE IInv' /\ Merging!Next
  BY <1>2, PopStep DEF Merging!Next
<1>3. ASSUME NEW i \in Positions, ScanMerge(i) PROVE IInv' /\ Merging!Next
  BY <1>3, ScanStep DEF Merging!Next
<1>4. ASSUME Drained \/ NothingRanked PROVE IInv' /\ UNCHANGED <<table, Token>>
  BY <1>4, LoopEnds
<1>5. ASSUME Compact PROVE IInv' /\ UNCHANGED <<table, Token>>
  BY <1>5, CompactStep
<1> QED BY <1>1, <1>2, <1>3, <1>4, <1>5 DEF CoreNext

LEMMA StutterIInv ==
  ASSUME IInv, UNCHANGED coreVars
  PROVE  IInv' /\ UNCHANGED <<table, Token>>
<1>1. UNCHANGED <<core, table, n, syms, next, prev, live, heap, ranks, phase, write, read>>
  BY DEF coreVars, input
<1>2. \A p : Place(p)' = Place(p) /\ Copied(p)' = Copied(p)
  BY <1>1 DEF Place, Copied
<1>3. Token' = Token
  BY <1>1, <1>2 DEF Token
<1>4. TypeOK' /\ Linked'
  BY <1>1 DEF IInv, TypeOK, Linked, Positions, Nexts, Prevs
<1>5. \A a, c : Rank(a, c)' = Rank(a, c)
  BY <1>1 DEF Rank
<1>6. LookedUp'
  BY <1>1, <1>5 DEF IInv, LookedUp, Queued, Ranked, Mergeable, Positions
<1>7. Merging!Merged' <=> Merging!Merged
  <2>1. \A p, q : Merging!CanMerge(p, q)' <=> Merging!CanMerge(p, q)
    BY <1>1, <1>3 DEF Merging!CanMerge, Merging!Adjacent, Merging!Pair
  <2> QED BY <1>3, <2>1 DEF Merging!Merged
<1>8. Compacting'
  BY <1>1, <1>2, <1>7 DEF IInv, Compacting
<1> QED BY <1>1, <1>3, <1>4, <1>6, <1>8 DEF IInv

LEMMA Invariance == CoreSpec => []IInv
<1>1. IInv /\ [CoreNext]_coreVars => IInv'
  BY StepIInv, StutterIInv
<1> QED BY <1>1, InitIInv, PTL DEF CoreSpec

(* Both merge loops keep the types of their list, heap and ranks.          *)
THEOREM TypeCorrect == CoreSpec => []TypeOK
<1>1. IInv => TypeOK
  BY DEF IInv
<1> QED BY <1>1, Invariance, PTL

(* A merge loop that stops has merged every pair there was to merge, and   *)
(* its count is the number of survivors.                                   *)
THEOREM MergesFully == CoreSpec => []FullyMerged
<1>1. IInv => FullyMerged
  BY DEF IInv, Compacting, FullyMerged
<1> QED BY <1>1, Invariance, PTL

(* The heap with its stale entries and the scan with its refreshed ranks   *)
(* both make, one after the other, the merges that looking at every pair   *)
(* each time would choose.                                                 *)
THEOREM MergesInOrder == CoreSpec => MergeSpec
<1>1. CoreInit => Merging!Init
  <2> SUFFICES ASSUME CoreInit PROVE Merging!Init
    OBVIOUS
  <2>1. n \in 0 .. MaxLength /\ n \in Nat /\ live = Positions
    BY LengthAssumption DEF CoreInit
  <2>2. syms \in [Positions -> Initial]
    BY DEF CoreInit
  <2>3. ASSUME NEW p \in live PROVE (IF Copied(p) THEN Place(p) ELSE p) = p
    <3>1. CASE n >= 2
      <4>1. phase = "merge"
        BY <2>1, <3>1 DEF CoreInit
      <4> QED BY <4>1 DEF Copied
    <3>2. CASE n < 2
      <4>1. p = 0
        BY <2>1, <3>2 DEF Positions
      <4>2. {q \in live : q < p} = {}
        BY <4>1, <2>1 DEF Positions
      <4> QED BY <4>1, <4>2, FS_EmptySet DEF Place
    <3> QED BY <2>1, <3>1, <3>2
  <2>4. Token = [p \in Positions |-> syms[p]]
    BY <2>1, <2>3 DEF Token
  <2>5. Token \in [0 .. n - 1 -> Initial]
    BY <2>2, <2>4 DEF Positions
  <2>6. table \in Tables
    BY DEF CoreInit
  <2> QED BY <2>1, <2>5, <2>6 DEF Merging!Init
<1>2. IInv /\ [CoreNext]_coreVars => [Merging!Next]_<<table, Token>>
  BY StepIInv, StutterIInv
<1> QED BY <1>1, <1>2, Invariance, PTL DEF CoreSpec, MergeSpec, Merging!Spec
=============================================================================
