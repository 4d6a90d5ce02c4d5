------------------------- MODULE PretokenTableProofs -------------------------
(***************************************************************************)
(* Proofs about PretokenTable, for any sets of keys and values, any hash   *)
(* function and tables of any size.                                        *)
(***************************************************************************)
EXTENDS PretokenTable, Integers, FiniteSetTheorems, TLAPS

(* Key k has no slot. *)
Absent(p, ka, k) == \A s \in SlotsOf(p) : ka[s] # k

(* An entry is a key with a value. *)
Paired(p, ka, va) == \A s \in SlotsOf(p) : ka[s] = NoKey <=> va[s] = NoValue

TableType(p, ka) ==
  /\ p \in Nat \ {0}
  /\ ka \in [SlotsOf(p) -> Keys \cup {NoKey}]
  /\ hash \in [Keys -> Nat]

(* What the call in progress was promised by the miss it follows. *)
Calls ==
  /\ pc = "idle" => offer = NoSlot
  /\ pc # "idle" => opKey \in Keys
  /\ pc = "missed" => Absent(pairs, keyAt, opKey)

(* The old table is intact, and the new one holds what has been moved. *)
Moved(s, t) == keyAt[s] = oldKey[t] /\ valAt[s] = oldVal[t]

Growing ==
  pc = "rehash" =>
    /\ oldPairs \in Nat \ {0}
    /\ pairs = 2 * oldPairs
    /\ opVal \in Values
    /\ todo \subseteq Occupied(oldPairs, oldKey)
    /\ Reachable(oldPairs, oldKey)
    /\ Distinct(oldPairs, oldKey)
    /\ Absent(oldPairs, oldKey, opKey)
    /\ Paired(oldPairs, oldKey, oldVal)
    /\ \A s \in Occupied(pairs, keyAt) :
         \E t \in Occupied(oldPairs, oldKey) \ todo : Moved(s, t)
    /\ \A t \in Occupied(oldPairs, oldKey) \ todo :
         \E s \in Occupied(pairs, keyAt) : Moved(s, t)

IInv ==
  /\ TypeOK
  /\ NoHoles
  /\ OneSlotPerKey
  /\ OfferIsFirstEmpty
  /\ Calls
  /\ Growing

------------------------------------------------------------------------------
(* A table, its walks, and one more entry. *)

LEMMA InRange ==
  ASSUME NEW p \in Nat \ {0}, NEW h \in Nat
  PROVE  h % p \in 0 .. p - 1
OBVIOUS

LEMMA WalkInTable ==
  ASSUME NEW p, NEW ka, TableType(p, ka), NEW k \in Keys, NEW j \in Nat
  PROVE  /\ Walk(p, k, j) \in 0 .. p - 1
         /\ \A s \in {0, 1} : <<Walk(p, k, j), s>> \in SlotsOf(p)
<1>1. hash[k] + j \in Nat /\ p \in Nat \ {0}
  BY DEF TableType
<1>2. Walk(p, k, j) \in 0 .. p - 1
  BY <1>1, InRange DEF Walk
<1> QED BY <1>2 DEF SlotsOf

LEMMA OpenIsFree ==
  ASSUME NEW p, NEW ka, TableType(p, ka), NEW k \in Keys, NEW j \in Nat,
         HasOpen(p, ka, k, j)
  PROVE  /\ SlotOpen(p, ka, k, j) \in SlotsOf(p)
         /\ ka[SlotOpen(p, ka, k, j)] = NoKey
         /\ SlotOpen(p, ka, k, j)[1] = Walk(p, k, j)
         /\ SlotOpen(p, ka, k, j)
              = <<Walk(p, k, j), SlotOpen(p, ka, k, j)[2]>>
         /\ SlotOpen(p, ka, k, j)[2] \in {0, 1}
BY WalkInTable DEF HasOpen, SlotOpen

LEMMA HoldingHolds ==
  ASSUME NEW p, NEW ka, TableType(p, ka), NEW k \in Keys, NEW j \in Nat,
         Holds(p, ka, k, j)
  PROVE  /\ SlotHolding(p, ka, k, j) \in Occupied(p, ka)
         /\ ka[SlotHolding(p, ka, k, j)] = k
<1>1. SlotHolding(p, ka, k, j) \in SlotsOf(p) /\ ka[SlotHolding(p, ka, k, j)] = k
  BY WalkInTable DEF Holds, SlotHolding
<1> QED BY <1>1, TableAssumption DEF Occupied

(* The first empty slot of the walk of an absent key takes it without      *)
(* cutting any walk, its own included.                                     *)
LEMMA PutReachable ==
  ASSUME NEW p, NEW ka, TableType(p, ka), NEW k \in Keys, NEW j \in Steps(p),
         FirstOpen(p, ka, k, j), Absent(p, ka, k),
         Reachable(p, ka), Distinct(p, ka),
         NEW kb, kb = [ka EXCEPT ![SlotOpen(p, ka, k, j)] = k]
  PROVE  /\ TableType(p, kb)
         /\ Reachable(p, kb)
         /\ Distinct(p, kb)
         /\ Occupied(p, kb) = Occupied(p, ka) \cup {SlotOpen(p, ka, k, j)}
<1> DEFINE t == SlotOpen(p, ka, k, j)
<1>a. j \in Nat /\ HasOpen(p, ka, k, j)
  BY DEF Steps, FirstOpen
<1>b. t \in SlotsOf(p) /\ ka[t] = NoKey /\ t[1] = Walk(p, k, j)
      /\ t = <<Walk(p, k, j), t[2]>> /\ t[2] \in {0, 1}
  BY <1>a, OpenIsFree
<1>c. k # NoKey
  BY TableAssumption
<1>e. kb = [ka EXCEPT ![t] = k]
  OBVIOUS
<1> HIDE DEF t
<1>d. /\ DOMAIN ka = SlotsOf(p) /\ kb[t] = k
      /\ \A s \in SlotsOf(p) : s # t => kb[s] = ka[s]
  BY <1>b, <1>e DEF TableType
<1>1. TableType(p, kb)
  BY <1>b, <1>e DEF TableType
<1>2. Occupied(p, kb) = Occupied(p, ka) \cup {t}
  BY <1>b, <1>c, <1>d DEF Occupied
<1>3. Distinct(p, kb)
  BY <1>2, <1>b, <1>c, <1>d DEF Distinct, Absent, Occupied
<1>4. \A x \in Keys, e \in Nat : ~HasOpen(p, ka, x, e) => ~HasOpen(p, kb, x, e)
  BY <1>b, <1>c, <1>d, WalkInTable DEF HasOpen
<1>5. ASSUME NEW s \in Occupied(p, kb)
      PROVE  \E i \in Steps(p) :
               StopsAt(p, kb, kb[s], i) /\ Walk(p, kb[s], i) = s[1]
  <2>1. CASE s = t
    <3>1. \A e \in 0 .. j - 1 : ~HasOpen(p, ka, k, e) /\ e \in Nat
      BY DEF FirstOpen
    <3>2. \A e \in 0 .. j - 1 : ~HasOpen(p, kb, k, e)
      BY <3>1, <1>4
    <3>3. ASSUME NEW e \in 0 .. j - 1, NEW v \in {0, 1}
          PROVE  kb[<<Walk(p, k, e), v>>] # k
      <4>1. <<Walk(p, k, e), v>> \in SlotsOf(p)
        BY <3>1, WalkInTable
      <4>2. ka[<<Walk(p, k, e), v>>] # NoKey
        BY <3>1 DEF HasOpen
      <4>3. kb[<<Walk(p, k, e), v>>] = ka[<<Walk(p, k, e), v>>]
        BY <4>1, <4>2, <1>b, <1>d
      <4> QED BY <4>1, <4>3 DEF Absent
    <3>4. \A e \in 0 .. j - 1 : ~Holds(p, kb, k, e)
      BY <3>3 DEF Holds
    <3>5. Holds(p, kb, k, j)
      BY <1>b, <1>d DEF Holds
    <3>6. StopsAt(p, kb, k, j)
      BY <3>2, <3>4, <3>5 DEF StopsAt
    <3> QED BY <3>6, <2>1, <1>b, <1>d
  <2>2. CASE s # t
    <3>1. s \in Occupied(p, ka) /\ kb[s] = ka[s] /\ s \in SlotsOf(p)
      BY <2>2, <1>2, <1>d DEF Occupied
    <3>2. PICK i \in Steps(p) : StopsAt(p, ka, ka[s], i) /\ Walk(p, ka[s], i) = s[1]
      BY <3>1 DEF Reachable
    <3>3. ka[s] \in Keys /\ ka[s] # k
      BY <3>1 DEF TableType, Occupied, Absent
    <3>4. Holds(p, kb, ka[s], i)
      <4>1. s = <<s[1], s[2]>> /\ s[2] \in {0, 1}
        BY <3>1 DEF SlotsOf
      <4> QED BY <4>1, <3>1, <3>2 DEF Holds
    <3>5. \A e \in 0 .. i - 1 : e \in Nat /\ ~HasOpen(p, kb, ka[s], e)
      <4>1. \A e \in 0 .. i - 1 : e \in Nat
        BY DEF Steps
      <4>2. \A e \in 0 .. i - 1 : ~HasOpen(p, ka, ka[s], e)
        BY <3>2 DEF StopsAt
      <4> QED BY <4>1, <4>2, <3>3, <1>4
    <3>6. ASSUME NEW e \in 0 .. i - 1, NEW v \in {0, 1}
          PROVE  kb[<<Walk(p, ka[s], e), v>>] # ka[s]
      <4>1. <<Walk(p, ka[s], e), v>> \in SlotsOf(p)
        BY <3>3, <3>5, WalkInTable
      <4>2. ka[<<Walk(p, ka[s], e), v>>] # ka[s]
        BY <3>2 DEF StopsAt, Holds
      <4> QED BY <4>1, <4>2, <3>3, <1>d
    <3>7. \A e \in 0 .. i - 1 : ~Holds(p, kb, ka[s], e)
      BY <3>6 DEF Holds
    <3>8. StopsAt(p, kb, ka[s], i)
      BY <3>4, <3>5, <3>7 DEF StopsAt
    <3> QED BY <3>8, <3>1, <3>2
  <2> QED BY <2>1, <2>2
<1>6. Reachable(p, kb)
  BY <1>5 DEF Reachable
<1> QED BY <1>1, <1>2, <1>3, <1>6 DEF t

(* A miss ends at a free slot, and the key it was for has no slot at all.  *)
LEMMA MissIsAbsent ==
  ASSUME NEW p, NEW ka, TableType(p, ka), NEW k \in Keys, NEW j \in Steps(p),
         StopsAt(p, ka, k, j), ~Holds(p, ka, k, j), Reachable(p, ka)
  PROVE  FirstOpen(p, ka, k, j) /\ Absent(p, ka, k)
<1>1. FirstOpen(p, ka, k, j)
  BY DEF StopsAt, FirstOpen
<1>2. ASSUME NEW s \in SlotsOf(p), ka[s] = k
      PROVE  FALSE
  <2>1. s \in Occupied(p, ka)
    BY <1>2, TableAssumption DEF Occupied
  <2>2. PICK i \in Steps(p) : StopsAt(p, ka, k, i) /\ Walk(p, k, i) = s[1]
    BY <2>1, <1>2 DEF Reachable
  <2>3. Holds(p, ka, k, i)
    <3>1. s = <<s[1], s[2]>> /\ s[2] \in {0, 1}
      BY DEF SlotsOf
    <3> QED BY <3>1, <2>2, <1>2 DEF Holds
  <2>4. i = j
    <3>1. i \in Nat /\ j \in Nat
      BY DEF Steps
    <3>2. ~(i < j)
      BY <3>1, <2>2 DEF StopsAt
    <3>3. ~(j < i)
      BY <3>1, <2>2 DEF StopsAt
    <3> QED BY <3>1, <3>2, <3>3
  <2> QED BY <2>3, <2>4
<1> QED BY <1>1, <1>2 DEF Absent

------------------------------------------------------------------------------
(* The invariant. *)

LEMMA Typed ==
  ASSUME TypeOK
  PROVE  TableType(pairs, keyAt)
BY TableAssumption DEF TypeOK, TableType, Slots

LEMMA OldTyped ==
  ASSUME TypeOK, oldPairs # 0
  PROVE  TableType(oldPairs, oldKey)
BY TableAssumption DEF TypeOK, TableType

(* What is known of a table with next values holds in the next state.      *)
LEMMA Primed ==
  ASSUME hash' = hash
  PROVE  /\ Reachable(pairs', keyAt') => NoHoles'
         /\ Distinct(pairs', keyAt') => OneSlotPerKey'
<1>1. Reachable(pairs', keyAt') => NoHoles'
  BY DEF NoHoles, Reachable, StopsAt, Holds, HasOpen, Walk, Steps, Occupied, SlotsOf
<1>2. Distinct(pairs', keyAt') => OneSlotPerKey'
  BY DEF OneSlotPerKey, Distinct, Occupied, SlotsOf
<1> QED BY <1>1, <1>2

LEMMA WriteStep ==
  ASSUME TypeOK, NoHoles, OneSlotPerKey, NEW k \in Keys, NEW v \in Values,
         NEW j \in Steps(pairs), FirstOpen(pairs, keyAt, k, j),
         Absent(pairs, keyAt, k), Write(SlotOpen(pairs, keyAt, k, j), k, v)
  PROVE  IInv'
<1> DEFINE t == SlotOpen(pairs, keyAt, k, j)
<1>1. TableType(pairs, keyAt)
  BY Typed
<1>2. Reachable(pairs, keyAt') /\ Distinct(pairs, keyAt')
  BY <1>1, PutReachable DEF Write, NoHoles, OneSlotPerKey
<1>3. NoHoles' /\ OneSlotPerKey'
  BY <1>2, Primed DEF Write
<1>4. j \in Nat /\ HasOpen(pairs, keyAt, k, j)
  BY DEF Steps, FirstOpen
<1>5. t \in Slots
  BY <1>1, <1>4, OpenIsFree DEF Slots
<1> HIDE DEF t
<1>6. TypeOK'
  <2>1. /\ keyAt' = [keyAt EXCEPT ![t] = k]
        /\ valAt' = [valAt EXCEPT ![t] = v]
        /\ pairs' = pairs /\ Slots' = Slots
    BY DEF Write, t, Slots, SlotsOf
  <2>2. /\ keyAt' \in [Slots -> Keys \cup {NoKey}]
        /\ valAt' \in [Slots -> Values \cup {NoValue}]
    BY <2>1, <1>5 DEF TypeOK
  <2>3. \A s \in Slots : keyAt'[s] = NoKey <=> valAt'[s] = NoValue
    BY <2>1, <1>5, TableAssumption DEF TypeOK
  <2>4. len' \in Nat
    BY DEF TypeOK, Write
  <2>5. UNCHANGED <<hash, seedCount, oldPairs, oldKey, oldVal, todo>>
    BY DEF Write, old
  <2>6. UNCHANGED SlotsOf(oldPairs)
    BY <2>5 DEF SlotsOf
  <2> QED BY <2>1, <2>2, <2>3, <2>4, <2>5, <2>6 DEF TypeOK, Write
<1>7. OfferIsFirstEmpty' /\ Calls' /\ Growing'
  BY DEF Write, OfferIsFirstEmpty, Calls, Growing
<1> QED BY <1>3, <1>6, <1>7 DEF IInv

LEMMA BeginGrowStep ==
  ASSUME TypeOK, NoHoles, OneSlotPerKey, NEW k \in Keys, NEW v \in Values,
         Absent(pairs, keyAt, k), offer \in Slots \cup {NoSlot},
         BeginGrow(k, v)
  PROVE  IInv'
<1> USE DEF BeginGrow
<1>1. /\ oldPairs' = pairs /\ oldKey' = keyAt /\ oldVal' = valAt
      /\ pairs' = 2 * pairs /\ hash' = hash
      /\ keyAt' = [s \in SlotsOf(2 * pairs) |-> NoKey]
      /\ valAt' = [s \in SlotsOf(2 * pairs) |-> NoValue]
      /\ todo' = Occupied(pairs, keyAt)
      /\ pc' = "rehash" /\ opKey' = k /\ opVal' = v /\ offer' = offer
  OBVIOUS
<1>2. TypeOK'
  <2>1. pairs \in Nat \ {0} /\ pairs' \in Nat \ {0}
    BY <1>1 DEF TypeOK
  <2>2. Slots' = SlotsOf(2 * pairs) /\ SlotsOf(oldPairs)' = Slots
    BY <1>1 DEF Slots, SlotsOf
  <2>3. /\ keyAt' \in [Slots' -> Keys \cup {NoKey}]
        /\ valAt' \in [Slots' -> Values \cup {NoValue}]
        /\ \A s \in Slots' : keyAt'[s] = NoKey <=> valAt'[s] = NoValue
    BY <1>1, <2>2
  <2>4. todo' \subseteq SlotsOf(oldPairs)'
    BY <1>1, <2>2 DEF Occupied, Slots
  <2>5. /\ oldKey' \in [SlotsOf(oldPairs)' -> Keys \cup {NoKey}]
        /\ oldVal' \in [SlotsOf(oldPairs)' -> Values \cup {NoValue}]
    BY <1>1, <2>2 DEF TypeOK
  <2> QED BY <1>1, <2>1, <2>2, <2>3, <2>4, <2>5 DEF TypeOK
<1>3. Occupied(pairs', keyAt') = {}
  BY <1>1 DEF Occupied
<1>4. NoHoles' /\ OneSlotPerKey'
  <2>1. Reachable(pairs', keyAt') /\ Distinct(pairs', keyAt')
    BY <1>3 DEF Reachable, Distinct
  <2> QED BY <2>1, <1>1, Primed
<1>5. OfferIsFirstEmpty' /\ Calls'
  BY <1>1 DEF OfferIsFirstEmpty, Calls
<1>6. Growing'
  <2>1. oldPairs' \in Nat \ {0} /\ pairs' = 2 * oldPairs' /\ opVal' \in Values
    BY <1>1 DEF TypeOK
  <2>2. Occupied(oldPairs, oldKey)' = Occupied(pairs, keyAt)
    BY <1>1 DEF Occupied, SlotsOf
  <2>3. Occupied(pairs, keyAt)' = {}
    BY <1>3 DEF Occupied, SlotsOf
  <2>4. Reachable(oldPairs, oldKey)'
    BY <1>1 DEF NoHoles, Reachable, StopsAt, Holds, HasOpen, Walk, Steps, Occupied,
                SlotsOf
  <2>5. Distinct(oldPairs, oldKey)'
    BY <1>1 DEF OneSlotPerKey, Distinct, Occupied, SlotsOf
  <2>6. Absent(oldPairs, oldKey, opKey)'
    BY <1>1 DEF Absent, SlotsOf
  <2>7. Paired(oldPairs, oldKey, oldVal)'
    BY <1>1 DEF Paired, SlotsOf, TypeOK, Slots
  <2>8. todo' = Occupied(oldPairs, oldKey)'
    BY <1>1, <2>2
  <2> QED BY <2>1, <2>2, <2>3, <2>4, <2>5, <2>6, <2>7, <2>8 DEF Growing
<1> QED BY <1>2, <1>4, <1>5, <1>6 DEF IInv

LEMMA InsertStep ==
  ASSUME TypeOK, NoHoles, OneSlotPerKey, NEW k \in Keys, NEW v \in Values,
         Absent(pairs, keyAt, k), offer \in Slots \cup {NoSlot},
         InsertAbsent(k, v)
  PROVE  IInv'
<1>1. CASE Full
  BY <1>1, BeginGrowStep DEF InsertAbsent
<1>2. CASE ~Full
  BY <1>2, WriteStep DEF InsertAbsent
<1> QED BY <1>1, <1>2

(* Lookups and probes leave the table alone. *)
LEMMA ReadStep ==
  ASSUME IInv, pc = "idle",
         UNCHANGED <<hash, seedCount, pairs, keyAt, valAt, len, pc, op, old>>,
         answer' \in Values \cup {Missing, Elsewhere, Nothing}
  PROVE  IInv'
<1>1. TypeOK'
  BY DEF IInv, TypeOK, op, old, Slots, SlotsOf
<1>2. NoHoles' /\ OneSlotPerKey'
  BY Primed DEF IInv, NoHoles, OneSlotPerKey
<1>3. OfferIsFirstEmpty' /\ Calls' /\ Growing'
  BY DEF IInv, OfferIsFirstEmpty, Calls, Growing, op, old
<1> QED BY <1>1, <1>2, <1>3 DEF IInv

LEMMA HeldValue ==
  ASSUME TypeOK, NEW k \in Keys, NEW j \in Nat, Holds(pairs, keyAt, k, j)
  PROVE  valAt[SlotHolding(pairs, keyAt, k, j)] \in Values
<1>1. /\ SlotHolding(pairs, keyAt, k, j) \in Occupied(pairs, keyAt)
      /\ keyAt[SlotHolding(pairs, keyAt, k, j)] = k
  BY Typed, HoldingHolds
<1>2. /\ SlotHolding(pairs, keyAt, k, j) \in Slots
      /\ keyAt[SlotHolding(pairs, keyAt, k, j)] # NoKey
  BY <1>1 DEF Occupied, Slots
<1> QED BY <1>2 DEF TypeOK

LEMMA MissStep ==
  ASSUME IInv, NEW k \in Keys, Miss(k)
  PROVE  IInv'
<1>1. PICK j \in Steps(pairs) :
        /\ StopsAt(pairs, keyAt, k, j)
        /\ ~Holds(pairs, keyAt, k, j)
        /\ offer' = SlotOpen(pairs, keyAt, k, j)
  BY DEF Miss
<1>2. FirstOpen(pairs, keyAt, k, j) /\ Absent(pairs, keyAt, k)
  BY <1>1, Typed, MissIsAbsent DEF IInv, NoHoles
<1>3. /\ UNCHANGED <<hash, seedCount, pairs, keyAt, valAt, len, opVal>>
      /\ UNCHANGED <<oldKey, oldVal, oldPairs, todo>>
      /\ pc' = "missed" /\ opKey' = k /\ answer' = Missing
  BY DEF Miss, old
<1>4. offer' \in Slots
  BY <1>1, <1>2, Typed, OpenIsFree DEF IInv, Steps, FirstOpen, Slots
<1>5. TypeOK'
  BY <1>3, <1>4 DEF IInv, TypeOK, Slots, SlotsOf
<1>6. NoHoles' /\ OneSlotPerKey'
  BY <1>3, Primed DEF IInv, NoHoles, OneSlotPerKey
<1>7. OfferIsFirstEmpty'
  BY <1>1, <1>2, <1>3 DEF OfferIsFirstEmpty, FirstOpen, HasOpen, SlotOpen, Walk, Steps
<1>8. Calls' /\ Growing'
  BY <1>2, <1>3 DEF Calls, Growing, Absent, SlotsOf
<1> QED BY <1>5, <1>6, <1>7, <1>8 DEF IInv

LEMMA OfferInTable ==
  ASSUME IInv, pc # "rehash"
  PROVE  offer \in Slots \cup {NoSlot}
<1>1. CASE pc = "idle"
  BY <1>1 DEF IInv, Calls
<1>2. CASE pc = "missed"
  <2>1. PICK j \in Steps(pairs) :
          FirstOpen(pairs, keyAt, opKey, j) /\ offer = SlotOpen(pairs, keyAt, opKey, j)
    BY <1>2 DEF IInv, OfferIsFirstEmpty
  <2> QED BY <2>1, <1>2, Typed, OpenIsFree DEF IInv, Calls, Steps, FirstOpen, Slots
<1> QED BY <1>1, <1>2 DEF IInv, TypeOK

LEMMA ReplaceStep ==
  ASSUME IInv, NEW k \in Keys, NEW v \in Values, Replace(k, v)
  PROVE  IInv'
<1>1. PICK j \in Steps(pairs) :
        /\ StopsAt(pairs, keyAt, k, j)
        /\ \/ /\ Holds(pairs, keyAt, k, j)
              /\ valAt' = [valAt EXCEPT ![SlotHolding(pairs, keyAt, k, j)] = v]
              /\ answer' = Nothing
              /\ UNCHANGED <<hash, seedCount, pairs, keyAt, len, pc, op, old>>
           \/ /\ ~Holds(pairs, keyAt, k, j)
              /\ InsertAbsent(k, v)
  BY DEF Replace
<1>2. pc = "idle"
  BY DEF Replace
<1>3. CASE Holds(pairs, keyAt, k, j)
  <2> DEFINE s == SlotHolding(pairs, keyAt, k, j)
  <2>1. s \in Occupied(pairs, keyAt)
    BY <1>3, Typed, HoldingHolds DEF IInv, Steps
  <2>2. s \in Slots /\ keyAt[s] # NoKey
    BY <2>1 DEF Occupied, Slots
  <2>3. /\ valAt' = [valAt EXCEPT ![s] = v]
        /\ answer' = Nothing
        /\ UNCHANGED <<hash, seedCount, pairs, keyAt, len, pc, op, old>>
    BY <1>1, <1>3
  <2> HIDE DEF s
  <2>4. UNCHANGED <<hash, seedCount, pairs, keyAt, len, pc, opKey, opVal, offer, oldKey,
                    oldVal, oldPairs, todo>>
    BY <2>3 DEF op, old
  <2>5. /\ valAt' \in [Slots -> Values \cup {NoValue}]
        /\ \A x \in Slots : keyAt[x] = NoKey <=> valAt'[x] = NoValue
    BY <2>2, <2>3, TableAssumption DEF IInv, TypeOK
  <2>6. TypeOK'
    BY <2>3, <2>4, <2>5 DEF IInv, TypeOK, Slots, SlotsOf
  <2>7. NoHoles' /\ OneSlotPerKey'
    BY <2>4, Primed DEF IInv, NoHoles, OneSlotPerKey
  <2>8. OfferIsFirstEmpty' /\ Calls' /\ Growing'
    BY <1>2, <2>4 DEF IInv, OfferIsFirstEmpty, Calls, Growing
  <2> QED BY <2>6, <2>7, <2>8 DEF IInv
<1>4. CASE ~Holds(pairs, keyAt, k, j)
  <2>1. Absent(pairs, keyAt, k)
    BY <1>1, <1>4, Typed, MissIsAbsent DEF IInv, NoHoles
  <2> QED BY <1>1, <1>2, <1>4, <2>1, OfferInTable, InsertStep DEF IInv
<1> QED BY <1>3, <1>4

(* grow moves one entry: no copy of its key can be in the new table yet.   *)
LEMMA MoveStep ==
  ASSUME IInv, NEW s \in todo, Move(s)
  PROVE  IInv'
<1>1. pc = "rehash"
  BY DEF Move
<1>2. /\ oldPairs \in Nat \ {0} /\ todo \subseteq Occupied(oldPairs, oldKey)
      /\ Distinct(oldPairs, oldKey)
      /\ \A x \in Occupied(pairs, keyAt) :
           \E y \in Occupied(oldPairs, oldKey) \ todo : Moved(x, y)
      /\ \A y \in Occupied(oldPairs, oldKey) \ todo :
           \E x \in Occupied(pairs, keyAt) : Moved(x, y)
  BY <1>1 DEF IInv, Growing
<1>0. s \in Occupied(oldPairs, oldKey) /\ s \in SlotsOf(oldPairs) /\ oldKey[s] \in Keys
  BY <1>2 DEF IInv, TypeOK, Occupied
<1>3. PICK k \in Keys : s \in Occupied(oldPairs, oldKey) /\ s \in SlotsOf(oldPairs) /\ k = oldKey[s]
  BY <1>0
<1>4. PICK j \in Steps(pairs) :
        /\ FirstOpen(pairs, keyAt, k, j)
        /\ keyAt' = [keyAt EXCEPT ![SlotOpen(pairs, keyAt, k, j)] = k]
        /\ valAt' = [valAt EXCEPT ![SlotOpen(pairs, keyAt, k, j)] = oldVal[s]]
  BY <1>3 DEF Move
<1>5. Absent(pairs, keyAt, k)
  <2>1. ASSUME NEW x \in Slots, keyAt[x] = k
        PROVE  FALSE
    <3>1. x \in Occupied(pairs, keyAt)
      BY <2>1, <1>3, TableAssumption DEF Occupied, Slots
    <3>2. PICK y \in Occupied(oldPairs, oldKey) \ todo : Moved(x, y)
      BY <3>1, <1>2
    <3>3. y = s
      BY <3>2, <2>1, <1>2, <1>3 DEF Moved, Distinct
    <3> QED BY <3>2, <3>3
  <2> QED BY <2>1 DEF Absent, Slots
<1>6. TableType(pairs, keyAt)
  BY Typed DEF IInv
<1>7. j \in Nat /\ HasOpen(pairs, keyAt, k, j)
  BY <1>4 DEF Steps, FirstOpen
<1>9. /\ Reachable(pairs, keyAt')
      /\ Distinct(pairs, keyAt')
      /\ Occupied(pairs, keyAt') = Occupied(pairs, keyAt) \cup {SlotOpen(pairs, keyAt, k, j)}
  <2>1. FirstOpen(pairs, keyAt, k, j) /\ Reachable(pairs, keyAt) /\ Distinct(pairs, keyAt)
    BY <1>4 DEF IInv, NoHoles, OneSlotPerKey
  <2>2. keyAt' = [keyAt EXCEPT ![SlotOpen(pairs, keyAt, k, j)] = k]
    BY <1>4
  <2>3. k \in Keys /\ j \in Steps(pairs) OBVIOUS
  <2>4. Reachable(pairs, keyAt') /\ Distinct(pairs, keyAt')
    BY <2>1, <2>2, <2>3, <1>5, <1>6, PutReachable
  <2>5. Occupied(pairs, keyAt') = Occupied(pairs, keyAt) \cup {SlotOpen(pairs, keyAt, k, j)}
    BY <2>2, <1>3, <1>6, <1>7, OpenIsFree, TableAssumption DEF Occupied, TableType
  <2> QED BY <2>4, <2>5
<1> DEFINE t == SlotOpen(pairs, keyAt, k, j)
<1>8. t \in Slots /\ keyAt[t] = NoKey
  BY <1>3, <1>6, <1>7, OpenIsFree DEF Slots
<1>10. /\ UNCHANGED <<hash, seedCount, pairs, len, pc, opKey, opVal, offer, oldKey, oldVal,
                      oldPairs, answer>>
       /\ todo' = todo \ {s}
  BY DEF Move, op
<1> HIDE DEF t
<1>11. oldVal[s] \in Values
  BY <1>1, <1>3 DEF IInv, Growing, Paired, Occupied, TypeOK
<1>12. TypeOK'
  <2>1. /\ keyAt' \in [Slots -> Keys \cup {NoKey}]
        /\ valAt' \in [Slots -> Values \cup {NoValue}]
    BY <1>3, <1>4, <1>8, <1>11 DEF IInv, TypeOK, t
  <2>2. \A x \in Slots : keyAt'[x] = NoKey <=> valAt'[x] = NoValue
    BY <1>3, <1>4, <1>8, <1>11, TableAssumption DEF IInv, TypeOK, t
  <2>3. Slots' = Slots /\ SlotsOf(oldPairs)' = SlotsOf(oldPairs)
    BY <1>10 DEF Slots, SlotsOf
  <2> QED BY <1>10, <2>1, <2>2, <2>3 DEF IInv, TypeOK
<1>13. NoHoles' /\ OneSlotPerKey'
  BY <1>9, <1>10, Primed
<1>14. OfferIsFirstEmpty' /\ Calls'
  BY <1>1, <1>10 DEF IInv, OfferIsFirstEmpty, Calls
<1>15. Growing'
  <2>1. /\ oldPairs' \in Nat \ {0} /\ pairs' = 2 * oldPairs' /\ opVal' \in Values
        /\ Occupied(oldPairs, oldKey)' = Occupied(oldPairs, oldKey)
        /\ todo' \subseteq Occupied(oldPairs, oldKey)'
    BY <1>1, <1>10 DEF IInv, Growing, Occupied, SlotsOf
  <2>2. Reachable(oldPairs, oldKey)'
    <3>1. Reachable(oldPairs, oldKey)
      BY <1>1 DEF IInv, Growing
    <3> QED BY <3>1, <1>10 DEF Reachable, StopsAt, Holds, HasOpen, Walk, Steps, Occupied,
                               SlotsOf
  <2>3. Distinct(oldPairs, oldKey)' /\ Absent(oldPairs, oldKey, opKey)'
    BY <1>1, <1>10 DEF IInv, Growing, Distinct, Occupied, SlotsOf, Absent
  <2>4. Paired(oldPairs, oldKey, oldVal)'
    BY <1>1, <1>10 DEF IInv, Growing, Paired, SlotsOf
  <2>5. Occupied(pairs, keyAt)' = Occupied(pairs, keyAt) \cup {t}
    BY <1>9, <1>10 DEF Occupied, SlotsOf, t
  <2>6. /\ keyAt'[t] = k /\ valAt'[t] = oldVal[s]
        /\ \A x \in Occupied(pairs, keyAt) :
             x # t /\ keyAt'[x] = keyAt[x] /\ valAt'[x] = valAt[x]
    BY <1>4, <1>8 DEF IInv, TypeOK, t, Occupied, Slots
  <2>7. \A x \in Occupied(pairs, keyAt)' :
          \E y \in Occupied(oldPairs, oldKey)' \ todo' : Moved(x, y)'
    BY <1>2, <1>3, <1>10, <2>1, <2>5, <2>6 DEF Moved
  <2>8. \A y \in Occupied(oldPairs, oldKey)' \ todo' :
          \E x \in Occupied(pairs, keyAt)' : Moved(x, y)'
    BY <1>2, <1>3, <1>10, <2>1, <2>5, <2>6 DEF Moved
  <2> QED BY <2>1, <2>2, <2>3, <2>4, <2>7, <2>8 DEF Growing
<1> QED BY <1>12, <1>13, <1>14, <1>15 DEF IInv

LEMMA EndGrowStep ==
  ASSUME IInv, EndGrow
  PROVE  IInv'
<1>1. pc = "rehash" /\ todo = {}
  BY DEF EndGrow
<1>2. opKey \in Keys /\ opVal \in Values
  BY <1>1 DEF IInv, Calls, Growing
<1>3. Absent(pairs, keyAt, opKey)
  <2>1. ASSUME NEW x \in SlotsOf(pairs), keyAt[x] = opKey
        PROVE  FALSE
    <3>1. x \in Occupied(pairs, keyAt)
      BY <2>1, <1>2, TableAssumption DEF Occupied
    <3>2. PICK y \in Occupied(oldPairs, oldKey) \ todo : Moved(x, y)
      BY <3>1, <1>1 DEF IInv, Growing
    <3>3. oldKey[y] # opKey
      BY <1>1 DEF IInv, Growing, Absent, Occupied
    <3> QED BY <3>2, <3>3, <2>1 DEF Moved
  <2> QED BY <2>1 DEF Absent
<1>4. PICK j \in Steps(pairs) :
        /\ FirstOpen(pairs, keyAt, opKey, j)
        /\ Write(SlotOpen(pairs, keyAt, opKey, j), opKey, opVal)
  BY DEF EndGrow
<1> QED BY <1>2, <1>3, <1>4, WriteStep DEF IInv

(* The inductive invariant: the table is well-formed, a growing table is   *)
(* the moved part of the old one, and a call in progress inserts a key     *)
(* that has no slot yet.                                                   *)
THEOREM Inductive == Spec => []IInv
<1>1. Init => IInv
  <2> SUFFICES ASSUME Init PROVE IInv
    OBVIOUS
  <2>1. Occupied(pairs, keyAt) = {}
    BY DEF Init, Occupied, Slots
  <2>2. TypeOK
    BY TableAssumption DEF Init, TypeOK, Slots, SlotsOf
  <2>3. NoHoles /\ OneSlotPerKey
    BY <2>1 DEF NoHoles, Reachable, OneSlotPerKey, Distinct
  <2>4. OfferIsFirstEmpty /\ Calls /\ Growing
    BY DEF Init, OfferIsFirstEmpty, Calls, Growing
  <2> QED BY <2>2, <2>3, <2>4 DEF IInv
<1>2. IInv /\ [Next]_vars => IInv'
  <2> SUFFICES ASSUME IInv, [Next]_vars PROVE IInv'
    OBVIOUS
  <2>1. ASSUME NEW k \in Keys, Hit(k)
        PROVE  IInv'
    <3>1. answer' \in Values
      BY <2>1, HeldValue DEF Hit, Steps, IInv
    <3> QED BY <2>1, <3>1, ReadStep DEF Hit
  <2>2. ASSUME NEW k \in Keys, ProbePair(k)
        PROVE  IInv'
    <3>1. answer' \in Values \cup {Elsewhere}
      BY <2>2, HeldValue DEF ProbePair, IInv
    <3> QED BY <2>2, <3>1, ReadStep DEF ProbePair
  <2>3. ASSUME NEW v \in Values, InsertAt(v) \/ Insert(v)
        PROVE  IInv'
    <3>1. pc = "missed" /\ opKey \in Keys /\ Absent(pairs, keyAt, opKey)
      BY <2>3 DEF InsertAt, Insert, IInv, Calls
    <3>2. offer \in Slots \cup {NoSlot}
      BY <3>1, OfferInTable
    <3>3. CASE Insert(v)
      BY <3>1, <3>2, <3>3, InsertStep DEF Insert, IInv
    <3>4. CASE InsertAt(v) /\ Full
      BY <3>1, <3>2, <3>4, BeginGrowStep DEF InsertAt, IInv
    <3>5. CASE InsertAt(v) /\ ~Full
      <4>1. PICK j \in Steps(pairs) :
              FirstOpen(pairs, keyAt, opKey, j) /\ offer = SlotOpen(pairs, keyAt, opKey, j)
        BY <3>1 DEF IInv, OfferIsFirstEmpty
      <4>2. Write(SlotOpen(pairs, keyAt, opKey, j), opKey, v)
        BY <3>5, <4>1 DEF InsertAt
      <4> QED BY <3>1, <4>1, <4>2, WriteStep DEF IInv
    <3> QED BY <2>3, <3>3, <3>4, <3>5
  <2>4. CASE UNCHANGED vars
    <3>1. UNCHANGED <<hash, seedCount, pairs, keyAt, valAt, len, pc, opKey, opVal, offer,
                      oldKey, oldVal, oldPairs, todo, answer>>
      BY <2>4 DEF vars, op, old
    <3>2. TypeOK' /\ Calls'
      BY <3>1 DEF IInv, TypeOK, Slots, SlotsOf, Calls, Absent
    <3>3. NoHoles' /\ OneSlotPerKey'
      BY <3>1, Primed DEF IInv, NoHoles, OneSlotPerKey
    <3>4. OfferIsFirstEmpty'
      BY <3>1 DEF IInv, OfferIsFirstEmpty, FirstOpen, HasOpen, SlotOpen, Walk, Steps
    <3>5. Growing'
      BY <3>1 DEF IInv, Growing, Reachable, StopsAt, Holds, HasOpen, Walk, Steps, Occupied,
                  SlotsOf, Distinct, Absent, Paired, Moved
    <3> QED BY <3>2, <3>3, <3>4, <3>5 DEF IInv
  <2> QED
    BY <2>1, <2>2, <2>3, <2>4, MissStep, ReplaceStep, MoveStep, EndGrowStep DEF Next
<1> QED BY <1>1, <1>2, PTL DEF Spec

(* Every variable keeps its type: no walk leaves the table, and a slot has *)
(* a value exactly when it has a key.                                      *)
THEOREM TypeCorrect == Spec => []TypeOK
BY Inductive, PTL DEF IInv

(* Every stored key is found by its walk, in every table and while it      *)
(* grows.                                                                  *)
THEOREM EntriesReachable == Spec => []NoHoles
BY Inductive, PTL DEF IInv

(* No key ever takes two slots. *)
THEOREM KeysUnique == Spec => []OneSlotPerKey
BY Inductive, PTL DEF IInv

(* insert_at writes where a fresh walk would have written. *)
THEOREM OfferValid == Spec => []OfferIsFirstEmpty
BY Inductive, PTL DEF IInv

------------------------------------------------------------------------------
(* The table implements the map. *)

(* A walk ends at one pair. *)
LEMMA StopUnique ==
  ASSUME NEW p, NEW ka, NEW k, NEW i \in Steps(p), NEW j \in Steps(p),
         StopsAt(p, ka, k, i), StopsAt(p, ka, k, j)
  PROVE  i = j
<1>1. i \in Nat /\ j \in Nat
  BY DEF Steps
<1>2. ~(i < j) /\ ~(j < i)
  BY <1>1 DEF StopsAt
<1> QED BY <1>1, <1>2

(* Function F maps the keys of a table's slots to their values. *)
Shows(F, p, ka, va) ==
  /\ \A x : x \in DOMAIN F <=> \E s \in Occupied(p, ka) : ka[s] = x
  /\ \A s \in Occupied(p, ka) : F[ka[s]] = va[s]

(* What the walks of a table show is what its slots hold. *)
LEMMA VisibleIsStored ==
  ASSUME NEW p, NEW ka, NEW va, TableType(p, ka), Reachable(p, ka), Distinct(p, ka)
  PROVE  Shows(Visible(p, ka, va), p, ka, va)
<1> DEFINE stored == {k \in Keys :
                        \E j \in Steps(p) : StopsAt(p, ka, k, j) /\ Holds(p, ka, k, j)}
           At(k) == CHOOSE i \in Steps(p) : StopsAt(p, ka, k, i)
<1>1. Visible(p, ka, va) = [k \in stored |-> va[SlotHolding(p, ka, k, At(k))]]
  BY DEF Visible
<1>2. ASSUME NEW k \in Keys, NEW j \in Steps(p), StopsAt(p, ka, k, j), Holds(p, ka, k, j)
      PROVE  /\ SlotHolding(p, ka, k, At(k)) \in Occupied(p, ka)
             /\ ka[SlotHolding(p, ka, k, At(k))] = k
  <2>1. At(k) = j
    <3>1. At(k) \in Steps(p) /\ StopsAt(p, ka, k, At(k))
      BY <1>2
    <3> QED BY <3>1, <1>2, StopUnique
  <2>2. j \in Nat
    BY DEF Steps
  <2>3. /\ SlotHolding(p, ka, k, j) \in Occupied(p, ka)
        /\ ka[SlotHolding(p, ka, k, j)] = k
    BY <1>2, <2>2, HoldingHolds
  <2> HIDE DEF At
  <2> QED BY <2>1, <2>3
<1>3. ASSUME NEW s \in Occupied(p, ka)
      PROVE  ka[s] \in stored /\ va[SlotHolding(p, ka, ka[s], At(ka[s]))] = va[s]
  <2>1. s \in SlotsOf(p) /\ ka[s] \in Keys /\ ka[s] # NoKey
    BY DEF Occupied, TableType
  <2>2. PICK j \in Steps(p) : StopsAt(p, ka, ka[s], j) /\ Walk(p, ka[s], j) = s[1]
    BY DEF Reachable
  <2>3. Holds(p, ka, ka[s], j)
    <3>1. s = <<s[1], s[2]>> /\ s[2] \in {0, 1}
      BY <2>1 DEF SlotsOf
    <3> QED BY <3>1, <2>2 DEF Holds
  <2>4. ka[s] \in stored
    BY <2>1, <2>2, <2>3
  <2>5. SlotHolding(p, ka, ka[s], At(ka[s])) = s
    BY <1>2, <2>1, <2>2, <2>3 DEF Distinct
  <2> QED BY <2>4, <2>5
<1>4. \A x : x \in stored <=> \E s \in Occupied(p, ka) : ka[s] = x
  BY <1>2, <1>3
<1> HIDE DEF stored, At
<1> QED BY <1>1, <1>3, <1>4 DEF Shows

(* Table <<q, kb, vb>> holds the entries of <<p, ka, va>>, with v for k.    *)
PutInto(p, ka, va, q, kb, vb, k, v) ==
  /\ \A s \in Occupied(q, kb) :
       \/ kb[s] = k /\ vb[s] = v
       \/ kb[s] # k /\ \E t \in Occupied(p, ka) : kb[s] = ka[t] /\ vb[s] = va[t]
  /\ \E s \in Occupied(q, kb) : kb[s] = k
  /\ \A t \in Occupied(p, ka) : \E s \in Occupied(q, kb) : kb[s] = ka[t]

(* G is F with v for k. *)
IsPut(F, G, k, v) ==
  /\ DOMAIN G = DOMAIN F \cup {k}
  /\ \A x \in DOMAIN G : G[x] = IF x = k THEN v ELSE F[x]

LEMMA ShowsPut ==
  ASSUME NEW p, NEW ka, NEW va, NEW q, NEW kb, NEW vb, NEW k, NEW v, NEW F, NEW G,
         Shows(F, p, ka, va), Shows(G, q, kb, vb), PutInto(p, ka, va, q, kb, vb, k, v)
  PROVE  IsPut(F, G, k, v)
<1>0. /\ \A s \in Occupied(q, kb) :
           \/ kb[s] = k /\ vb[s] = v
           \/ kb[s] # k /\ \E t \in Occupied(p, ka) : kb[s] = ka[t] /\ vb[s] = va[t]
      /\ \E s \in Occupied(q, kb) : kb[s] = k
      /\ \A t \in Occupied(p, ka) : \E s \in Occupied(q, kb) : kb[s] = ka[t]
  BY DEF PutInto
<1>1. /\ \A x : x \in DOMAIN F <=> \E s \in Occupied(p, ka) : ka[s] = x
      /\ \A s \in Occupied(p, ka) : F[ka[s]] = va[s]
  BY DEF Shows
<1>2. /\ \A x : x \in DOMAIN G <=> \E s \in Occupied(q, kb) : kb[s] = x
      /\ \A s \in Occupied(q, kb) : G[kb[s]] = vb[s]
  BY DEF Shows
<1>3. DOMAIN G = DOMAIN F \cup {k}
  <2>1. ASSUME NEW x \in DOMAIN G
        PROVE  x \in DOMAIN F \cup {k}
    <3>1. PICK s \in Occupied(q, kb) : kb[s] = x
      BY <1>2
    <3> QED BY <3>1, <1>0, <1>1
  <2>2. k \in DOMAIN G
    BY <1>0, <1>2
  <2>3. ASSUME NEW x \in DOMAIN F
        PROVE  x \in DOMAIN G
    <3>1. PICK t \in Occupied(p, ka) : ka[t] = x
      BY <1>1
    <3>2. PICK s \in Occupied(q, kb) : kb[s] = ka[t]
      BY <1>0
    <3> QED BY <3>1, <3>2, <1>2
  <2> QED BY <2>1, <2>2, <2>3
<1>4. ASSUME NEW x \in DOMAIN G
      PROVE  G[x] = IF x = k THEN v ELSE F[x]
  <2>1. PICK s \in Occupied(q, kb) : x = kb[s]
    BY <1>2
  <2>2. G[x] = vb[s]
    BY <1>2, <2>1
  <2>3. CASE x = k
    BY <1>0, <2>1, <2>2, <2>3
  <2>4. CASE x # k
    <3>1. PICK t \in Occupied(p, ka) : kb[s] = ka[t] /\ vb[s] = va[t]
      BY <1>0, <2>1, <2>4
    <3> QED BY <3>1, <2>1, <2>2, <2>4, <1>1
  <2> QED BY <2>3, <2>4
<1> QED BY <1>3, <1>4 DEF IsPut

(* Tables with the same entries show the same map. *)
SameEntries(p, ka, va, q, kb, vb) ==
  /\ \A s \in Occupied(q, kb) : \E t \in Occupied(p, ka) : kb[s] = ka[t] /\ vb[s] = va[t]
  /\ \A t \in Occupied(p, ka) : \E s \in Occupied(q, kb) : kb[s] = ka[t] /\ vb[s] = va[t]

LEMMA ShowsSame ==
  ASSUME NEW p, NEW ka, NEW va, NEW q, NEW kb, NEW vb, NEW F,
         Shows(F, p, ka, va), SameEntries(p, ka, va, q, kb, vb)
  PROVE  Shows(F, q, kb, vb)
<1>1. /\ \A x : x \in DOMAIN F <=> \E s \in Occupied(p, ka) : ka[s] = x
      /\ \A s \in Occupied(p, ka) : F[ka[s]] = va[s]
  BY DEF Shows
<1>2. \A x : x \in DOMAIN F <=> \E s \in Occupied(q, kb) : kb[s] = x
  BY <1>1 DEF SameEntries
<1>3. ASSUME NEW s \in Occupied(q, kb)
      PROVE  F[kb[s]] = vb[s]
  <2>1. PICK t \in Occupied(p, ka) : kb[s] = ka[t] /\ vb[s] = va[t]
    BY DEF SameEntries
  <2> QED BY <2>1, <1>1
<1> QED BY <1>2, <1>3 DEF Shows

(* Writing a key that had no slot puts it in the visible map. *)
LEMMA WritePuts ==
  ASSUME TypeOK, NoHoles, OneSlotPerKey, NEW k \in Keys, NEW v \in Values,
         NEW j \in Steps(pairs), FirstOpen(pairs, keyAt, k, j),
         Absent(pairs, keyAt, k), Write(SlotOpen(pairs, keyAt, k, j), k, v)
  PROVE  LET before == Visible(pairs, keyAt, valAt) IN
         Contents' = [x \in DOMAIN before \cup {k} |-> IF x = k THEN v ELSE before[x]]
<1>1. TableType(pairs, keyAt) /\ Reachable(pairs, keyAt) /\ Distinct(pairs, keyAt)
  BY Typed DEF NoHoles, OneSlotPerKey
<1>2. /\ keyAt' = [keyAt EXCEPT ![SlotOpen(pairs, keyAt, k, j)] = k]
      /\ valAt' = [valAt EXCEPT ![SlotOpen(pairs, keyAt, k, j)] = v]
      /\ pairs' = pairs /\ hash' = hash /\ pc' = "idle"
  BY DEF Write
<1>3. TableType(pairs, keyAt') /\ Reachable(pairs, keyAt') /\ Distinct(pairs, keyAt')
  BY <1>1, <1>2, PutReachable
<1>4. j \in Nat /\ HasOpen(pairs, keyAt, k, j)
  BY DEF Steps, FirstOpen
<1> DEFINE t == SlotOpen(pairs, keyAt, k, j)
<1>5. t \in SlotsOf(pairs) /\ keyAt[t] = NoKey
  BY <1>1, <1>4, OpenIsFree
<1>6. keyAt' = [keyAt EXCEPT ![t] = k] /\ valAt' = [valAt EXCEPT ![t] = v]
  BY <1>2
<1> HIDE DEF t
<1>7. /\ keyAt'[t] = k /\ valAt'[t] = v /\ k # NoKey
      /\ \A s \in SlotsOf(pairs) : s # t => keyAt'[s] = keyAt[s] /\ valAt'[s] = valAt[s]
  BY <1>5, <1>6, TableAssumption DEF TypeOK, Slots
<1>8. \A s \in Occupied(pairs, keyAt') :
        \/ keyAt'[s] = k /\ valAt'[s] = v
        \/ /\ keyAt'[s] # k
           /\ \E u \in Occupied(pairs, keyAt) : keyAt'[s] = keyAt[u] /\ valAt'[s] = valAt[u]
  BY <1>7 DEF Occupied, Absent
<1>9. \E s \in Occupied(pairs, keyAt') : keyAt'[s] = k
  BY <1>5, <1>7 DEF Occupied
<1>10. \A u \in Occupied(pairs, keyAt) :
         \E s \in Occupied(pairs, keyAt') : keyAt'[s] = keyAt[u]
  BY <1>5, <1>7 DEF Occupied
<1> DEFINE before == Visible(pairs, keyAt, valAt)
<1>11. Visible(pairs, keyAt', valAt')
         = [x \in DOMAIN before \cup {k} |-> IF x = k THEN v ELSE before[x]]
  <2> DEFINE after == Visible(pairs, keyAt', valAt')
  <2>1. PutInto(pairs, keyAt, valAt, pairs, keyAt', valAt', k, v)
    BY <1>8, <1>9, <1>10 DEF PutInto
  <2>2. Shows(before, pairs, keyAt, valAt) /\ Shows(after, pairs, keyAt', valAt')
    BY <1>1, <1>3, VisibleIsStored
  <2>3. after = [x \in DOMAIN after |-> after[x]]
    BY DEF Visible
  <2> HIDE DEF before, after
  <2>4. IsPut(before, after, k, v)
    BY <2>1, <2>2, ShowsPut
  <2>5. after = [x \in DOMAIN before \cup {k} |-> IF x = k THEN v ELSE before[x]]
    BY <2>3, <2>4 DEF IsPut
  <2> QED BY <2>5 DEF before, after
<1>12. Contents' = Visible(pairs, keyAt, valAt)'
  BY <1>2 DEF Contents
<1>13. Visible(pairs, keyAt, valAt)' = Visible(pairs, keyAt', valAt')
  BY <1>2 DEF Visible, StopsAt, Holds, HasOpen, SlotHolding, Walk, Steps
<1> QED BY <1>11, <1>12, <1>13

(* While the old slots are kept, so is the map. *)
LEMMA ContentsKept ==
  ASSUME UNCHANGED <<hash, pc>>,
         IF pc = "rehash" THEN UNCHANGED <<oldPairs, oldKey, oldVal>>
                          ELSE UNCHANGED <<pairs, keyAt, valAt>>
  PROVE  Contents' = Contents
<1>0. hash' = hash /\ pc' = pc
  OBVIOUS
<1>1. CASE pc = "rehash"
  <2>1. oldPairs' = oldPairs /\ oldKey' = oldKey /\ oldVal' = oldVal
    BY <1>1
  <2>2. Visible(oldPairs, oldKey, oldVal)' = Visible(oldPairs', oldKey', oldVal')
    BY <1>0 DEF Visible, StopsAt, Holds, HasOpen, SlotHolding, Walk, Steps
  <2> QED BY <1>0, <1>1, <2>1, <2>2 DEF Contents
<1>2. CASE pc # "rehash"
  <2>1. pairs' = pairs /\ keyAt' = keyAt /\ valAt' = valAt
    BY <1>2
  <2>2. Visible(pairs, keyAt, valAt)' = Visible(pairs', keyAt', valAt')
    BY <1>0 DEF Visible, StopsAt, Holds, HasOpen, SlotHolding, Walk, Steps
  <2> QED BY <1>0, <1>2, <2>1, <2>2 DEF Contents
<1> QED BY <1>1, <1>2

(* A lookup that ends at the key's pair reads the value of the map. *)
LEMMA HitAnswers ==
  ASSUME TypeOK, NoHoles, OneSlotPerKey, pc # "rehash", NEW k \in Keys,
         NEW j \in Nat, Holds(pairs, keyAt, k, j)
  PROVE  /\ k \in DOMAIN Contents
         /\ Contents[k] = valAt[SlotHolding(pairs, keyAt, k, j)]
<1>1. TableType(pairs, keyAt) /\ Reachable(pairs, keyAt) /\ Distinct(pairs, keyAt)
  BY Typed DEF NoHoles, OneSlotPerKey
<1>2. /\ SlotHolding(pairs, keyAt, k, j) \in Occupied(pairs, keyAt)
      /\ keyAt[SlotHolding(pairs, keyAt, k, j)] = k
  BY <1>1, HoldingHolds
<1>3. Contents = Visible(pairs, keyAt, valAt)
  BY DEF Contents
<1> QED BY <1>1, <1>2, <1>3, VisibleIsStored DEF Shows

LEMMA AbsentHidden ==
  ASSUME TypeOK, NoHoles, OneSlotPerKey, pc # "rehash", NEW k \in Keys,
         Absent(pairs, keyAt, k)
  PROVE  k \notin DOMAIN Contents
<1>1. TableType(pairs, keyAt) /\ Reachable(pairs, keyAt) /\ Distinct(pairs, keyAt)
  BY Typed DEF NoHoles, OneSlotPerKey
<1>2. Contents = Visible(pairs, keyAt, valAt)
  BY DEF Contents
<1>3. ~ \E s \in Occupied(pairs, keyAt) : keyAt[s] = k
  BY DEF Absent, Occupied
<1> QED BY <1>1, <1>2, <1>3, VisibleIsStored DEF Shows

Memory == IF pc = "rehash" THEN oldPairs ELSE pairs

Stutters == UNCHANGED <<Contents, Memory, answer>>

Puts(k, v) ==
  /\ Contents' = [x \in DOMAIN Contents \cup {k} |-> IF x = k THEN v ELSE Contents[x]]
  /\ Memory' \in {Memory, 2 * Memory}
  /\ answer' = Nothing

(* The start of a growth is not visible. *)
LEMMA BeginGrowHidden ==
  ASSUME pc # "rehash", NEW k, NEW v, BeginGrow(k, v)
  PROVE  Stutters
<1>1. /\ pc' = "rehash" /\ hash' = hash /\ answer' = answer
      /\ oldPairs' = pairs /\ oldKey' = keyAt /\ oldVal' = valAt
  BY DEF BeginGrow
<1>2. Visible(oldPairs, oldKey, oldVal)' = Visible(oldPairs', oldKey', oldVal')
  BY <1>1 DEF Visible, StopsAt, Holds, HasOpen, SlotHolding, Walk, Steps
<1>3. Contents' = Contents
  BY <1>1, <1>2 DEF Contents
<1>4. Memory' = Memory
  BY <1>1 DEF Memory
<1> QED BY <1>1, <1>3, <1>4 DEF Stutters

LEMMA InsertMaps ==
  ASSUME TypeOK, NoHoles, OneSlotPerKey, pc # "rehash", NEW k \in Keys, NEW v \in Values,
         Absent(pairs, keyAt, k), InsertAbsent(k, v)
  PROVE  Stutters \/ Puts(k, v)
<1>1. CASE Full
  BY <1>1, BeginGrowHidden DEF InsertAbsent
<1>2. CASE ~Full
  <2>1. PICK j \in Steps(pairs) :
          /\ FirstOpen(pairs, keyAt, k, j)
          /\ Write(SlotOpen(pairs, keyAt, k, j), k, v)
    BY <1>2 DEF InsertAbsent
  <2>2. Contents = Visible(pairs, keyAt, valAt)
    BY DEF Contents
  <2>3. Contents' = [x \in DOMAIN Contents \cup {k} |-> IF x = k THEN v ELSE Contents[x]]
    BY <2>1, <2>2, WritePuts
  <2>4. Memory' = Memory /\ answer' = Nothing
    BY <2>1 DEF Write, Memory
  <2> QED BY <2>3, <2>4 DEF Puts
<1> QED BY <1>1, <1>2

LEMMA ReplaceMaps ==
  ASSUME IInv, NEW k \in Keys, NEW v \in Values, Replace(k, v)
  PROVE  Stutters \/ Puts(k, v)
<1>0. TypeOK /\ NoHoles /\ OneSlotPerKey /\ pc = "idle"
  BY DEF IInv, Replace
<1>1. PICK j \in Steps(pairs) :
        /\ StopsAt(pairs, keyAt, k, j)
        /\ \/ /\ Holds(pairs, keyAt, k, j)
              /\ valAt' = [valAt EXCEPT ![SlotHolding(pairs, keyAt, k, j)] = v]
              /\ answer' = Nothing
              /\ UNCHANGED <<hash, seedCount, pairs, keyAt, len, pc, op, old>>
           \/ /\ ~Holds(pairs, keyAt, k, j)
              /\ InsertAbsent(k, v)
  BY DEF Replace
<1>2. TableType(pairs, keyAt) /\ Reachable(pairs, keyAt) /\ Distinct(pairs, keyAt)
  BY <1>0, Typed DEF NoHoles, OneSlotPerKey
<1>3. CASE Holds(pairs, keyAt, k, j)
  <2> DEFINE s == SlotHolding(pairs, keyAt, k, j)
  <2>1. s \in Occupied(pairs, keyAt) /\ keyAt[s] = k
    BY <1>2, <1>3, HoldingHolds DEF Steps
  <2>2. valAt' = [valAt EXCEPT ![s] = v]
    BY <1>1, <1>3
  <2> HIDE DEF s
  <2>3. /\ hash' = hash /\ pairs' = pairs /\ keyAt' = keyAt /\ pc' = pc
        /\ answer' = Nothing
    BY <1>1, <1>3
  <2>4. \A t \in Occupied(pairs, keyAt) : valAt'[t] = IF t = s THEN v ELSE valAt[t]
    BY <1>0, <2>1, <2>2 DEF TypeOK, Occupied, Slots
  <2>5. PutInto(pairs, keyAt, valAt, pairs, keyAt, valAt', k, v)
    BY <1>2, <2>1, <2>4 DEF PutInto, Distinct
  <2> DEFINE before == Visible(pairs, keyAt, valAt)
             after  == Visible(pairs, keyAt, valAt')
  <2>6. Shows(before, pairs, keyAt, valAt) /\ Shows(after, pairs, keyAt, valAt')
    BY <1>2, VisibleIsStored
  <2>7. after = [x \in DOMAIN after |-> after[x]]
    BY DEF Visible
  <2>8. Contents = before
    BY <1>0 DEF Contents
  <2>9. Contents' = after
    <3>1. Visible(pairs, keyAt, valAt)' = Visible(pairs', keyAt', valAt')
      BY <2>3 DEF Visible, StopsAt, Holds, HasOpen, SlotHolding, Walk, Steps
    <3> QED BY <1>0, <2>3, <3>1 DEF Contents
  <2> HIDE DEF before, after
  <2>10. IsPut(before, after, k, v)
    BY <2>5, <2>6, ShowsPut
  <2>11. after = [x \in DOMAIN before \cup {k} |-> IF x = k THEN v ELSE before[x]]
    BY <2>7, <2>10 DEF IsPut
  <2>12. Memory' = Memory
    BY <1>0, <2>3 DEF Memory
  <2> QED BY <2>3, <2>8, <2>9, <2>11, <2>12 DEF Puts
<1>4. CASE ~Holds(pairs, keyAt, k, j)
  <2>1. Absent(pairs, keyAt, k)
    BY <1>1, <1>2, <1>4, MissIsAbsent
  <2> QED BY <1>0, <1>1, <1>4, <2>1, InsertMaps
<1> QED BY <1>3, <1>4

(* The end of a growth is one put into the map of the old table. *)
LEMMA EndGrowMaps ==
  ASSUME IInv, EndGrow
  PROVE  Puts(opKey, opVal)
<1>1. pc = "rehash" /\ todo = {} /\ TypeOK /\ NoHoles /\ OneSlotPerKey
  BY DEF EndGrow, IInv
<1>2. /\ opKey \in Keys /\ opVal \in Values /\ oldPairs \in Nat \ {0}
      /\ pairs = 2 * oldPairs /\ Reachable(oldPairs, oldKey) /\ Distinct(oldPairs, oldKey)
      /\ Absent(oldPairs, oldKey, opKey)
      /\ \A s \in Occupied(pairs, keyAt) :
           \E t \in Occupied(oldPairs, oldKey) \ todo : Moved(s, t)
      /\ \A t \in Occupied(oldPairs, oldKey) \ todo :
           \E s \in Occupied(pairs, keyAt) : Moved(s, t)
  BY <1>1 DEF IInv, Calls, Growing
<1>3. SameEntries(oldPairs, oldKey, oldVal, pairs, keyAt, valAt)
  BY <1>1, <1>2 DEF SameEntries, Moved
<1>4. TableType(oldPairs, oldKey) /\ TableType(pairs, keyAt)
  BY <1>1, <1>2, Typed, OldTyped
<1>5. Reachable(pairs, keyAt) /\ Distinct(pairs, keyAt)
  BY <1>1 DEF NoHoles, OneSlotPerKey
<1>6. Absent(pairs, keyAt, opKey)
  <2>1. ASSUME NEW x \in SlotsOf(pairs), keyAt[x] = opKey
        PROVE  FALSE
    <3>1. x \in Occupied(pairs, keyAt)
      BY <2>1, <1>2, TableAssumption DEF Occupied
    <3>2. PICK y \in Occupied(oldPairs, oldKey) \ todo : Moved(x, y)
      BY <3>1, <1>2
    <3>3. oldKey[y] # opKey
      BY <1>2 DEF Absent, Occupied
    <3> QED BY <3>2, <3>3, <2>1 DEF Moved
  <2> QED BY <2>1 DEF Absent
<1> DEFINE f == Visible(oldPairs, oldKey, oldVal)
           g == Visible(pairs, keyAt, valAt)
<1>7. Shows(f, oldPairs, oldKey, oldVal) /\ Shows(g, pairs, keyAt, valAt)
  BY <1>2, <1>4, <1>5, VisibleIsStored
<1>8. f = [x \in DOMAIN f |-> f[x]] /\ g = [x \in DOMAIN g |-> g[x]]
  BY DEF Visible
<1>9. PICK j \in Steps(pairs) :
        /\ FirstOpen(pairs, keyAt, opKey, j)
        /\ Write(SlotOpen(pairs, keyAt, opKey, j), opKey, opVal)
  BY DEF EndGrow
<1>10. Contents' = [x \in DOMAIN g \cup {opKey} |-> IF x = opKey THEN opVal ELSE g[x]]
  BY <1>1, <1>2, <1>6, <1>9, WritePuts
<1>11. Contents = f
  BY <1>1 DEF Contents
<1> HIDE DEF f, g
<1>12. Shows(f, pairs, keyAt, valAt)
  BY <1>3, <1>7, ShowsSame
<1>13. f = g
  <2>1. DOMAIN f = DOMAIN g
    BY <1>7, <1>12 DEF Shows
  <2>2. ASSUME NEW x \in DOMAIN f
        PROVE  f[x] = g[x]
    <3>1. PICK s \in Occupied(pairs, keyAt) : keyAt[s] = x
      BY <1>12 DEF Shows
    <3> QED BY <3>1, <1>7, <1>12 DEF Shows
  <2> QED BY <1>8, <2>1, <2>2
<1>14. Memory' = 2 * Memory /\ answer' = Nothing
  BY <1>1, <1>2, <1>9 DEF Write, Memory
<1> QED BY <1>10, <1>11, <1>13, <1>14 DEF Puts

(* The open-addressing table implements the map its callers rely on: no    *)
(* lookup, probe, insert, growth or replacement ever answers or stores     *)
(* anything else.                                                          *)
THEOREM ImplementsMap == Spec => MapSpec
<1>1. Init => Map!Init
  <2> SUFFICES ASSUME Init PROVE Map!Init
    OBVIOUS
  <2>1. pairs \in Nat \ {0} /\ pc = "idle" /\ answer = Nothing
    BY TableAssumption DEF Init
  <2>2. \A k \in Keys, j \in Steps(pairs) : ~Holds(pairs, keyAt, k, j)
    <3>1. hash \in [Keys -> Nat]
      BY TableAssumption DEF Init
    <3>2. TableType(pairs, keyAt)
      BY <2>1, <3>1 DEF Init, TableType, Slots
    <3>3. \A s \in SlotsOf(pairs) : keyAt[s] = NoKey
      BY DEF Init, Slots
    <3> QED BY <3>2, <3>3, WalkInTable, TableAssumption DEF Holds, Steps
  <2>3. Contents = [k \in {} |-> Nothing]
    BY <2>1, <2>2 DEF Contents, Visible
  <2> QED BY <2>1, <2>3 DEF Map!Init
<1>2. IInv /\ [Next]_vars => [Map!Next]_<<Contents, Memory, answer>>
  <2> SUFFICES ASSUME IInv, [Next]_vars
               PROVE  Map!Next \/ UNCHANGED <<Contents, Memory, answer>>
    OBVIOUS
  <2>0. TypeOK /\ NoHoles /\ OneSlotPerKey
    BY DEF IInv
  <2>1. ASSUME NEW k \in Keys, Hit(k)
        PROVE  Map!Lookup(k)
    <3>1. PICK j \in Steps(pairs) :
            /\ Holds(pairs, keyAt, k, j)
            /\ answer' = valAt[SlotHolding(pairs, keyAt, k, j)]
      BY <2>1 DEF Hit
    <3>2. pc # "rehash" /\ j \in Nat
      BY <2>1 DEF Hit, Steps
    <3>3. answer' = Contents[k] /\ k \in DOMAIN Contents
      BY <2>0, <3>1, <3>2, HitAnswers
    <3>4. Contents' = Contents /\ Memory' = Memory
      BY <2>1, ContentsKept DEF Hit, Memory, op, old
    <3> QED BY <3>3, <3>4 DEF Map!Lookup, Memory
  <2>2. ASSUME NEW k \in Keys, Miss(k)
        PROVE  Map!Lookup(k)
    <3>1. pc = "idle" /\ pc' = "missed" /\ answer' = Missing
          /\ UNCHANGED <<hash, pairs, keyAt, valAt>>
      BY <2>2 DEF Miss
    <3>2. Absent(pairs, keyAt, k)
      BY <2>0, <2>2, Typed, MissIsAbsent DEF Miss, NoHoles
    <3>3. k \notin DOMAIN Contents
      BY <2>0, <3>1, <3>2, AbsentHidden
    <3>4. Contents' = Contents
      <4>1. Visible(pairs, keyAt, valAt)' = Visible(pairs', keyAt', valAt')
        BY <3>1 DEF Visible, StopsAt, Holds, HasOpen, SlotHolding, Walk, Steps
      <4> QED BY <3>1, <4>1 DEF Contents
    <3>5. Memory' = Memory
      BY <3>1 DEF Memory
    <3> QED BY <3>1, <3>3, <3>4, <3>5 DEF Map!Lookup, Memory
  <2>3. ASSUME NEW k \in Keys, ProbePair(k)
        PROVE  Map!Probe(k)
    <3>1. pc = "idle" /\ UNCHANGED <<hash, pairs, keyAt, valAt, pc>>
      BY <2>3 DEF ProbePair
    <3>2. answer' = Elsewhere \/ (k \in DOMAIN Contents /\ answer' = Contents[k])
      BY <2>0, <2>3, <3>1, HitAnswers DEF ProbePair
    <3>3. Contents' = Contents /\ Memory' = Memory
      BY <3>1, ContentsKept DEF Memory
    <3> QED BY <3>2, <3>3 DEF Map!Probe, Memory
  <2>4. ASSUME NEW v \in Values, InsertAt(v) \/ Insert(v)
        PROVE  Stutters \/ Puts(opKey, v)
    <3>1. pc = "missed" /\ opKey \in Keys /\ Absent(pairs, keyAt, opKey)
      BY <2>4 DEF InsertAt, Insert, IInv, Calls
    <3>2. CASE Insert(v)
      BY <2>0, <3>1, <3>2, InsertMaps DEF Insert
    <3>3. CASE InsertAt(v) /\ Full
      BY <3>1, <3>3, BeginGrowHidden DEF InsertAt
    <3>4. CASE InsertAt(v) /\ ~Full
      <4>1. PICK j \in Steps(pairs) :
              FirstOpen(pairs, keyAt, opKey, j) /\ offer = SlotOpen(pairs, keyAt, opKey, j)
        BY <3>1 DEF IInv, OfferIsFirstEmpty
      <4>2. InsertAbsent(opKey, v)
        BY <3>4, <4>1 DEF InsertAt, InsertAbsent
      <4> QED BY <2>0, <3>1, <4>2, InsertMaps
    <3> QED BY <2>4, <3>2, <3>3, <3>4
  <2>5. ASSUME NEW s \in todo, Move(s)
        PROVE  Stutters
    <3>1. pc = "rehash" /\ UNCHANGED <<hash, pc, oldPairs, oldKey, oldVal, answer>>
      BY <2>5 DEF Move
    <3>2. Contents' = Contents /\ Memory' = Memory
      BY <3>1, ContentsKept DEF Memory
    <3> QED BY <3>1, <3>2 DEF Stutters
  <2>6. CASE UNCHANGED vars
    <3>1. UNCHANGED <<hash, pc, pairs, keyAt, valAt, oldPairs, oldKey, oldVal, answer>>
      BY <2>6 DEF vars, old
    <3>2. Contents' = Contents /\ Memory' = Memory
      BY <3>1, ContentsKept DEF Memory
    <3> QED BY <3>1, <3>2
  <2>7. \A k \in Keys, v \in Values : Puts(k, v) => Map!Next
    BY DEF Puts, Memory, Map!Put, Map!Next
  <2>8. Stutters => UNCHANGED <<Contents, Memory, answer>>
    BY DEF Stutters
  <2>9. \A k \in Keys : Map!Lookup(k) \/ Map!Probe(k) => Map!Next
    BY DEF Map!Next
  <2>10. ASSUME NEW k \in Keys, NEW v \in Values, Replace(k, v)
         PROVE  Map!Next \/ UNCHANGED <<Contents, Memory, answer>>
    BY <2>7, <2>8, <2>10, ReplaceMaps
  <2>11. CASE EndGrow
    <3>1. opKey \in Keys /\ opVal \in Values
      BY <2>11 DEF EndGrow, IInv, Calls, Growing
    <3> QED BY <3>1, <2>7, <2>11, EndGrowMaps
  <2>12. ASSUME NEW v \in Values, InsertAt(v) \/ Insert(v)
         PROVE  Map!Next \/ UNCHANGED <<Contents, Memory, answer>>
    <3>1. opKey \in Keys
      BY <2>12 DEF InsertAt, Insert, IInv, Calls
    <3> QED BY <3>1, <2>4, <2>7, <2>8, <2>12
  <2> QED BY <2>1, <2>2, <2>3, <2>5, <2>6, <2>8, <2>9, <2>10, <2>11, <2>12 DEF Next
<1> QED BY <1>1, <1>2, Inductive, PTL DEF Spec, MapSpec, Map!Spec, Memory

------------------------------------------------------------------------------
(* Every walk ends. *)

LEMMA Quotient ==
  ASSUME NEW p \in Nat \ {0}, NEW h \in Int
  PROVE  h \div p \in Int /\ h % p \in 0 .. p - 1 /\ h = p * (h \div p) + (h % p)
OBVIOUS

LEMMA NoSmallMultiple ==
  ASSUME NEW p \in Nat \ {0}, NEW x \in Int, p * x < p, p * x > 0 - p
  PROVE  x = 0
<1>1. CASE x >= 1
  BY <1>1
<1>2. CASE x <= -1
  BY <1>2
<1> QED BY <1>1, <1>2

LEMMA Remainder ==
  ASSUME NEW p \in Nat \ {0}, NEW d \in Int, NEW q \in 0 .. p - 1
  PROVE  (p * d + q) % p = q
<1> DEFINE n == p * d + q
           e == n \div p
           m == n % p
<1>1. n \in Int
  OBVIOUS
<1>2. e \in Int /\ m \in 0 .. p - 1 /\ n = p * e + m
  BY <1>1, Quotient
<1> HIDE DEF e, m
<1>3. p * (d - e) = m - q
  BY <1>2
<1>4. d - e = 0
  <2>1. d - e \in Int
    BY <1>2
  <2>2. p * (d - e) < p /\ p * (d - e) > 0 - p
    BY <1>2, <1>3
  <2> QED BY <2>1, <2>2, NoSmallMultiple
<1>5. m = q
  BY <1>2, <1>3, <1>4
<1> QED BY <1>5 DEF m

(* A walk of p pairs visits all p pairs. *)
LEMMA WalkVisits ==
  ASSUME NEW p \in Nat \ {0}, NEW h \in Nat, NEW q \in 0 .. p - 1
  PROVE  \E j \in 0 .. p - 1 : (h + j) % p = q
<1> DEFINE r == h % p
           d == h \div p
<1>1. d \in Int /\ r \in 0 .. p - 1 /\ h = p * d + r
  BY Quotient
<1> HIDE DEF r, d
<1>2. CASE q >= r
  <2>1. h + (q - r) = p * d + q
    BY <1>1
  <2>2. (h + (q - r)) % p = q
    BY <2>1, <1>1, Remainder
  <2>3. q - r \in 0 .. p - 1
    BY <1>1, <1>2
  <2> QED BY <2>2, <2>3
<1>3. CASE q < r
  <2>1. h + (q - r + p) = p * (d + 1) + q
    BY <1>1
  <2>2. (h + (q - r + p)) % p = q
    <3>1. d + 1 \in Int
      BY <1>1
    <3> QED BY <2>1, <3>1, Remainder
  <2>3. q - r + p \in 0 .. p - 1
    BY <1>1, <1>3
  <2> QED BY <2>2, <2>3
<1> QED BY <1>1, <1>2, <1>3

LEMMA SlotsFinite ==
  ASSUME NEW p \in Nat \ {0}
  PROVE  IsFiniteSet(SlotsOf(p)) /\ Cardinality(SlotsOf(p)) = 2 * p
<1>1. IsFiniteSet(0 .. p - 1) /\ Cardinality(0 .. p - 1) = p
  BY FS_Interval
<1>2. IsFiniteSet({0, 1}) /\ Cardinality({0, 1}) = 2
  <2>1. IsFiniteSet({0}) /\ Cardinality({0}) = 1
    BY FS_Singleton
  <2>2. IsFiniteSet({0} \cup {1}) /\ Cardinality({0} \cup {1}) = 1 + 1
    BY <2>1, FS_AddElement
  <2>3. {0} \cup {1} = {0, 1}
    OBVIOUS
  <2> QED BY <2>2, <2>3
<1>3. /\ IsFiniteSet((0 .. p - 1) \X {0, 1})
      /\ Cardinality((0 .. p - 1) \X {0, 1}) = Cardinality(0 .. p - 1) * Cardinality({0, 1})
  BY <1>1, <1>2, FS_Product
<1>4. Cardinality(SlotsOf(p)) = p * 2
  BY <1>1, <1>2, <1>3 DEF SlotsOf
<1>5. IsFiniteSet(SlotsOf(p))
  BY <1>3 DEF SlotsOf
<1> QED BY <1>4, <1>5

LEMMA OccupiedFinite ==
  ASSUME NEW p \in Nat \ {0}, NEW ka
  PROVE  IsFiniteSet(Occupied(p, ka)) /\ Cardinality(Occupied(p, ka)) \in Nat
<1>1. Occupied(p, ka) \subseteq SlotsOf(p)
  BY DEF Occupied
<1>2. IsFiniteSet(Occupied(p, ka))
  BY <1>1, SlotsFinite, FS_Subset
<1> QED BY <1>2, FS_CardinalityType

(* A table that is not full has a free slot on every walk. *)
LEMMA RoomOnWalk ==
  ASSUME NEW p, NEW ka, TableType(p, ka), NEW k \in Keys,
         Cardinality(Occupied(p, ka)) < 2 * p
  PROVE  \E j \in Steps(p) : HasOpen(p, ka, k, j)
<1>1. p \in Nat \ {0} /\ hash[k] \in Nat
  BY DEF TableType
<1>2. PICK s \in SlotsOf(p) : ka[s] = NoKey
  <2>1. SUFFICES ASSUME \A s \in SlotsOf(p) : ka[s] # NoKey
                 PROVE  FALSE
    OBVIOUS
  <2>2. Occupied(p, ka) = SlotsOf(p)
    BY <2>1 DEF Occupied
  <2>3. Cardinality(SlotsOf(p)) = 2 * p
    BY <1>1, SlotsFinite
  <2> QED BY <1>1, <2>2, <2>3
<1>3. s = <<s[1], s[2]>> /\ s[1] \in 0 .. p - 1 /\ s[2] \in {0, 1}
  BY <1>2 DEF SlotsOf
<1>4. PICK j \in 0 .. p - 1 : (hash[k] + j) % p = s[1]
  BY <1>1, <1>3, WalkVisits
<1> QED BY <1>2, <1>3, <1>4 DEF HasOpen, Walk, Steps

(* The count of entries is right, and the table keeps below its limit. *)
Load ==
  IF pc = "rehash"
  THEN /\ Cardinality(Occupied(pairs, keyAt)) + Cardinality(todo) = len
       /\ 2 * len <= 3 * oldPairs
  ELSE /\ Cardinality(Occupied(pairs, keyAt)) = len
       /\ 2 * len <= 3 * pairs

LEMMA WriteLoad ==
  ASSUME TypeOK, NEW k \in Keys, NEW v \in Values, NEW j \in Steps(pairs),
         FirstOpen(pairs, keyAt, k, j), Write(SlotOpen(pairs, keyAt, k, j), k, v),
         Cardinality(Occupied(pairs, keyAt)) = len, 2 * (len + 1) <= 3 * pairs
  PROVE  Load'
<1> DEFINE t == SlotOpen(pairs, keyAt, k, j)
<1>1. TableType(pairs, keyAt) /\ pairs \in Nat \ {0}
  BY Typed DEF TypeOK
<1>2. t \in SlotsOf(pairs) /\ keyAt[t] = NoKey
  BY <1>1, OpenIsFree DEF Steps, FirstOpen
<1>3. /\ keyAt' = [keyAt EXCEPT ![t] = k] /\ pairs' = pairs
      /\ len' = len + 1 /\ pc' = "idle"
  BY DEF Write
<1> HIDE DEF t
<1>4. Occupied(pairs, keyAt)' = Occupied(pairs, keyAt) \cup {t}
  BY <1>1, <1>2, <1>3, TableAssumption DEF Occupied, SlotsOf, TableType
<1>5. t \notin Occupied(pairs, keyAt)
  BY <1>2 DEF Occupied
<1>6. Cardinality(Occupied(pairs, keyAt) \cup {t}) = len + 1
  BY <1>1, <1>5, OccupiedFinite, FS_AddElement
<1> QED BY <1>3, <1>4, <1>6 DEF Load

LEMMA GrowLoad ==
  ASSUME TypeOK, NEW k, NEW v, BeginGrow(k, v),
         Cardinality(Occupied(pairs, keyAt)) = len, 2 * len <= 3 * pairs
  PROVE  Load'
<1>1. /\ pc' = "rehash" /\ todo' = Occupied(pairs, keyAt) /\ len' = len
      /\ oldPairs' = pairs /\ keyAt' = [s \in SlotsOf(2 * pairs) |-> NoKey]
      /\ pairs' = 2 * pairs
  BY DEF BeginGrow
<1>2. Occupied(pairs, keyAt)' = {}
  BY <1>1 DEF Occupied, SlotsOf
<1>3. Cardinality({}) = 0
  BY FS_EmptySet
<1>4. len \in Nat
  BY DEF TypeOK
<1>5. Cardinality(todo)' = len
  BY <1>1
<1>6. Cardinality(Occupied(pairs, keyAt))' = 0
  BY <1>2, <1>3
<1>7. (Cardinality(Occupied(pairs, keyAt)) + Cardinality(todo) = len)'
  BY <1>1, <1>4, <1>5, <1>6
<1>8. (2 * len <= 3 * oldPairs)'
  BY <1>1
<1> QED BY <1>1, <1>7, <1>8 DEF Load

LEMMA InsertLoad ==
  ASSUME TypeOK, NEW k \in Keys, NEW v \in Values, InsertAbsent(k, v),
         pc # "rehash", Load
  PROVE  Load'
<1>1. Cardinality(Occupied(pairs, keyAt)) = len /\ 2 * len <= 3 * pairs
      /\ len \in Nat /\ pairs \in Nat
  BY DEF Load, TypeOK
<1>2. CASE Full
  BY <1>1, <1>2, GrowLoad DEF InsertAbsent
<1>3. CASE ~Full
  <2>1. 2 * (len + 1) <= 3 * pairs
    BY <1>1, <1>3 DEF Full
  <2> QED BY <1>1, <1>3, <2>1, WriteLoad DEF InsertAbsent
<1> QED BY <1>2, <1>3

LEMMA MoveLoad ==
  ASSUME IInv, Load, NEW s \in todo, Move(s)
  PROVE  Load'
<1>1. /\ pc = "rehash" /\ oldPairs \in Nat \ {0} /\ pairs \in Nat \ {0}
      /\ todo \subseteq Occupied(oldPairs, oldKey) /\ len \in Nat
  BY DEF Move, IInv, Growing, TypeOK
<1>2. oldKey[s] \in Keys
  BY <1>1 DEF IInv, TypeOK, Occupied
<1>3. PICK j \in Steps(pairs) :
        /\ FirstOpen(pairs, keyAt, oldKey[s], j)
        /\ keyAt' = [keyAt EXCEPT ![SlotOpen(pairs, keyAt, oldKey[s], j)] = oldKey[s]]
  BY DEF Move
<1> DEFINE t == SlotOpen(pairs, keyAt, oldKey[s], j)
<1>4. TableType(pairs, keyAt)
  BY Typed DEF IInv
<1>5. t \in SlotsOf(pairs) /\ keyAt[t] = NoKey
  BY <1>2, <1>3, <1>4, OpenIsFree DEF Steps, FirstOpen
<1>6. UNCHANGED <<pairs, len, pc, oldPairs>> /\ todo' = todo \ {s}
  BY DEF Move
<1>7. keyAt' = [keyAt EXCEPT ![t] = oldKey[s]]
  BY <1>3
<1> HIDE DEF t
<1>8. Occupied(pairs, keyAt)' = Occupied(pairs, keyAt) \cup {t}
  BY <1>2, <1>4, <1>5, <1>6, <1>7, TableAssumption DEF Occupied, SlotsOf, TableType
<1>9. Cardinality(Occupied(pairs, keyAt) \cup {t}) = Cardinality(Occupied(pairs, keyAt)) + 1
  <2>1. t \notin Occupied(pairs, keyAt)
    BY <1>5 DEF Occupied
  <2> QED BY <2>1, <1>1, OccupiedFinite, FS_AddElement
<1>10. IsFiniteSet(todo) /\ Cardinality(todo) \in Nat
  <2>1. IsFiniteSet(todo)
    BY <1>1, OccupiedFinite, FS_Subset
  <2> QED BY <2>1, FS_CardinalityType
<1>11. Cardinality(todo \ {s}) = Cardinality(todo) - 1
  BY <1>10, FS_RemoveElement
<1>12. Cardinality(Occupied(pairs, keyAt)) \in Nat
  BY <1>1, OccupiedFinite
<1>13. /\ Cardinality(Occupied(pairs, keyAt)) + Cardinality(todo) = len
       /\ 2 * len <= 3 * oldPairs
  BY <1>1 DEF Load
<1>14. Cardinality(Occupied(pairs, keyAt))' = Cardinality(Occupied(pairs, keyAt)) + 1
  BY <1>8, <1>9
<1>15. Cardinality(todo)' = Cardinality(todo) - 1
  BY <1>6, <1>11
<1> HIDE DEF Occupied
<1> QED BY <1>1, <1>6, <1>10, <1>12, <1>13, <1>14, <1>15 DEF Load

(* The load never exceeds three quarters, so that every walk of a lookup,  *)
(* an insert or a growth meets a free slot.                                *)
THEOREM WalksAlwaysEnd == Spec => []WalksEnd
<1>1. Init => Load
  <2> SUFFICES ASSUME Init PROVE Load
    OBVIOUS
  <2>1. Occupied(pairs, keyAt) = {}
    BY DEF Init, Occupied, Slots
  <2>2. pairs \in Nat /\ len = 0 /\ pc = "idle"
    BY TableAssumption DEF Init
  <2> QED BY <2>1, <2>2, FS_EmptySet DEF Load
<1>2. IInv /\ Load /\ [Next]_vars => Load'
  <2> SUFFICES ASSUME IInv, Load, [Next]_vars PROVE Load'
    OBVIOUS
  <2>0. TypeOK /\ pairs \in Nat /\ len \in Nat
    BY DEF IInv, TypeOK
  <2>1. ASSUME NEW k \in Keys, Hit(k) \/ Miss(k) \/ ProbePair(k)
        PROVE  Load'
    <3>1. /\ UNCHANGED <<pairs, keyAt, len>>
          /\ pc = "idle" /\ pc' # "rehash"
      BY <2>1 DEF Hit, Miss, ProbePair
    <3> QED BY <3>1 DEF Load, Occupied, SlotsOf
  <2>2. ASSUME NEW v \in Values, InsertAt(v) \/ Insert(v)
        PROVE  Load'
    <3>1. pc = "missed" /\ opKey \in Keys
      BY <2>2 DEF InsertAt, Insert, IInv, Calls
    <3>2. InsertAbsent(opKey, v)
      <4>1. CASE Insert(v)
        BY <4>1 DEF Insert
      <4>2. CASE InsertAt(v)
        <5>1. PICK j \in Steps(pairs) :
                FirstOpen(pairs, keyAt, opKey, j) /\ offer = SlotOpen(pairs, keyAt, opKey, j)
          BY <3>1 DEF IInv, OfferIsFirstEmpty
        <5> QED BY <4>2, <5>1 DEF InsertAt, InsertAbsent
      <4> QED BY <2>2, <4>1, <4>2
    <3> QED BY <2>0, <3>1, <3>2, InsertLoad
  <2>3. ASSUME NEW k \in Keys, NEW v \in Values, Replace(k, v)
        PROVE  Load'
    <3>1. pc = "idle"
      BY <2>3 DEF Replace
    <3>2. CASE InsertAbsent(k, v)
      BY <2>0, <3>1, <3>2, InsertLoad
    <3>3. CASE UNCHANGED <<hash, seedCount, pairs, keyAt, len, pc, op, old>>
      BY <3>1, <3>3 DEF Load, Occupied, SlotsOf
    <3> QED BY <2>3, <3>2, <3>3 DEF Replace
  <2>4. CASE EndGrow
    <3>1. /\ pc = "rehash" /\ todo = {} /\ opKey \in Keys /\ opVal \in Values
          /\ pairs = 2 * oldPairs /\ oldPairs \in Nat \ {0}
      BY <2>4 DEF EndGrow, IInv, Calls, Growing
    <3>2. PICK j \in Steps(pairs) :
            /\ FirstOpen(pairs, keyAt, opKey, j)
            /\ Write(SlotOpen(pairs, keyAt, opKey, j), opKey, opVal)
      BY <2>4 DEF EndGrow
    <3>3. /\ Cardinality(Occupied(pairs, keyAt)) = len
          /\ 2 * len <= 3 * oldPairs
      <4>1. Cardinality(todo) = 0
        BY <3>1, FS_EmptySet
      <4>2. Cardinality(Occupied(pairs, keyAt)) \in Nat
        BY <3>1, OccupiedFinite
      <4> QED BY <3>1, <4>1, <4>2 DEF Load
    <3>4. 2 * (len + 1) <= 3 * pairs
      BY <2>0, <3>1, <3>3
    <3> QED BY <2>0, <3>1, <3>2, <3>3, <3>4, WriteLoad
  <2>5. CASE UNCHANGED vars
    BY <2>5 DEF vars, old, Load, Occupied, SlotsOf
  <2> QED BY <2>1, <2>2, <2>3, <2>4, <2>5, MoveLoad DEF Next
<1>3. IInv /\ Load => WalksEnd
  <2> SUFFICES ASSUME IInv, Load PROVE WalksEnd
    OBVIOUS
  <2>1. TableType(pairs, keyAt) /\ pairs \in Nat \ {0} /\ len \in Nat
    BY Typed DEF IInv, TypeOK
  <2>2. Cardinality(Occupied(pairs, keyAt)) \in Nat
    BY <2>1, OccupiedFinite
  <2>3. Cardinality(Occupied(pairs, keyAt)) * 2 <= pairs * 3
    <3>1. CASE pc = "rehash"
      <4>1. pairs = 2 * oldPairs /\ oldPairs \in Nat \ {0}
            /\ todo \subseteq Occupied(oldPairs, oldKey)
        BY <3>1 DEF IInv, Growing
      <4>2. Cardinality(todo) \in Nat
        BY <4>1, OccupiedFinite, FS_Subset, FS_CardinalityType
      <4> QED BY <2>1, <2>2, <3>1, <4>1, <4>2 DEF Load
    <3>2. CASE pc # "rehash"
      BY <2>1, <2>2, <3>2 DEF Load
    <3> QED BY <3>1, <3>2
  <2>4. Cardinality(Occupied(pairs, keyAt)) < 2 * pairs
    BY <2>1, <2>2, <2>3
  <2>5. pc # "rehash" => len = Cardinality(Occupied(pairs, keyAt))
    BY DEF Load
  <2> QED BY <2>1, <2>3, <2>4, <2>5, RoomOnWalk DEF WalksEnd
<1>4. Spec => []Load
  BY <1>1, <1>2, Inductive, PTL DEF Spec
<1> QED BY <1>3, <1>4, Inductive, PTL

(* with_at_least: the table it makes has room for the entries asked for,   *)
(* and a table never shrinks.                                              *)
SeedFits == RoomFor(pairs, seedCount)

(* A step that changes the number of pairs begins to grow a full table.    *)
LEMMA GrowthIsOfFull ==
  ASSUME [Next]_vars, pairs' # pairs
  PROVE  Full /\ pairs' = 2 * pairs /\ seedCount' = seedCount
<1>1. ASSUME NEW k, NEW v, InsertAbsent(k, v)
      PROVE  Full /\ pairs' = 2 * pairs /\ seedCount' = seedCount
  BY <1>1 DEF InsertAbsent, BeginGrow, Write
<1>2. ASSUME NEW k \in Keys, NEW v \in Values, Replace(k, v)
      PROVE  Full /\ pairs' = 2 * pairs /\ seedCount' = seedCount
  BY <1>1, <1>2 DEF Replace
<1>3. ASSUME NEW v \in Values, InsertAt(v) \/ Insert(v)
      PROVE  Full /\ pairs' = 2 * pairs /\ seedCount' = seedCount
  BY <1>1, <1>3 DEF InsertAt, Insert, BeginGrow, Write
<1>4. ASSUME NEW k \in Keys, Hit(k) \/ Miss(k) \/ ProbePair(k)
      PROVE  FALSE
  BY <1>4 DEF Hit, Miss, ProbePair
<1>5. ASSUME NEW s \in todo, Move(s)
      PROVE  FALSE
  BY <1>5 DEF Move
<1>6. ASSUME EndGrow
      PROVE  FALSE
  BY <1>6 DEF EndGrow, Write
<1>7. CASE UNCHANGED vars
  BY <1>7 DEF vars
<1> QED BY <1>2, <1>3, <1>4, <1>5, <1>6, <1>7 DEF Next

(* Putting as many entries as with_at_least was asked to make room for     *)
(* never grows the table: the load limit it computes with is the one the   *)
(* inserts compare with.                                                   *)
THEOREM SeedingNeverGrows == Spec => SeedNeverGrows
<1>1. Init => SeedFits
  BY DEF Init, SeedFits
<1>2. TypeOK /\ SeedFits /\ [Next]_vars => SeedFits'
  <2> SUFFICES ASSUME TypeOK, SeedFits, [Next]_vars PROVE SeedFits'
    OBVIOUS
  <2>1. pairs \in Nat /\ seedCount \in Nat
    BY DEF TypeOK
  <2>2. seedCount' = seedCount
    BY DEF Next, vars, Hit, Miss, ProbePair, Replace, InsertAt, Insert, InsertAbsent,
           BeginGrow, Write, Move, EndGrow
  <2>3. pairs' = pairs \/ pairs' = 2 * pairs
    BY GrowthIsOfFull
  <2> QED BY <2>1, <2>2, <2>3 DEF SeedFits, RoomFor
<1>3. TypeOK /\ SeedFits /\ [Next]_vars => [pairs' # pairs => len >= seedCount]_vars
  <2> SUFFICES ASSUME TypeOK, SeedFits, [Next]_vars, pairs' # pairs
               PROVE  len >= seedCount
    OBVIOUS
  <2>1. pairs \in Nat /\ seedCount \in Nat /\ len \in Nat
    BY DEF TypeOK
  <2>2. Full
    BY GrowthIsOfFull
  <2> QED BY <2>1, <2>2 DEF Full, SeedFits, RoomFor
<1> QED BY <1>1, <1>2, <1>3, TypeCorrect, PTL DEF Spec, SeedNeverGrows

==============================================================================
