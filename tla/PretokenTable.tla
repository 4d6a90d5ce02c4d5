---------------------------- MODULE PretokenTable ----------------------------
(***************************************************************************)
(* The open-addressing cache of short pretokens                            *)
(* (src/src/bpe/pretoken_cache.rs).                                        *)
(*                                                                         *)
(* Slots come in aligned pairs, one cache line each; a key's walk visits   *)
(* whole pairs from its home pair on, wrapping around, and every insert    *)
(* fills the first empty slot of the walk.  The slot index 2 * p + s of    *)
(* the code is <<p, s>> here and hash[k] stands for the hash without its   *)
(* lowest bit (h & mask & !1), so the home pair is hash[k] % pairs.        *)
(*                                                                         *)
(* A call is split where the code hands control back to its caller: a miss *)
(* of get_or_slot reports a slot, the caller computes the value, and       *)
(* insert_at uses the slot.  grow moves one old entry per step, in any     *)
(* order (the code goes by index).                                         *)
(***************************************************************************)
EXTENDS Naturals, FiniteSets

CONSTANTS
  Keys,
  Values,
  MaxHash,      (* bound: hashes are 0 .. MaxHash                           *)
  Sizes,        (* pairs a new table may have (2^15 and its doublings)      *)
  MinSeed,      (* bound: fewest and                                        *)
  MaxSeed,      (* most entries a table is sized for (with_at_least's n)    *)
  NoKey,        (* EMPTY_KEY                                                *)
  NoValue,      (* the value lanes of an empty slot                         *)
  Missing, Elsewhere, Nothing

ASSUME TableAssumption ==
  /\ NoKey \notin Keys
  /\ NoValue \notin Values
  /\ MaxHash \in Nat
  /\ Sizes \subseteq Nat \ {0}
  /\ MinSeed \in Nat
  /\ MaxSeed \in Nat

VARIABLES
  hash,         (* pretoken_key_hash, fixed by Init                         *)
  seedCount,    (* n of with_at_least, fixed by Init                        *)
  pairs,        (* slots.cap / 2                                            *)
  keyAt,        (* slot |-> key                                             *)
  valAt,        (* slot |-> value                                           *)
  len,
  pc,
  opKey, opVal, (* the key and the value being inserted                     *)
  offer,        (* the slot the last miss reported                          *)
  oldKey, oldVal, (* grow: the old slots                                    *)
  oldPairs,
  todo,         (* grow: old entries still to be moved                      *)
  answer

op   == <<opKey, opVal, offer>>
old  == <<oldKey, oldVal, oldPairs, todo>>
vars == <<hash, seedCount, pairs, keyAt, valAt, len, pc, op, old, answer>>

SlotsOf(p) == (0 .. p - 1) \X {0, 1}
Slots      == SlotsOf(pairs)

NoSlot == <<0, 0>>

(* A table of p pairs is the pair of p and ka, the keys of its slots. *)
Walk(p, k, j) == (hash[k] + j) % p

Holds(p, ka, k, j)  == \E s \in {0, 1} : ka[<<Walk(p, k, j), s>>] = k
HasOpen(p, ka, k, j) == \E s \in {0, 1} : ka[<<Walk(p, k, j), s>>] = NoKey

(* The lookup walk ends at its j-th pair: it holds the key or a free slot. *)
StopsAt(p, ka, k, j) ==
  /\ Holds(p, ka, k, j) \/ HasOpen(p, ka, k, j)
  /\ \A e \in 0 .. j - 1 : ~Holds(p, ka, k, e) /\ ~HasOpen(p, ka, k, e)

(* first_empty's walk ends at its j-th pair. *)
FirstOpen(p, ka, k, j) ==
  /\ HasOpen(p, ka, k, j)
  /\ \A e \in 0 .. j - 1 : ~HasOpen(p, ka, k, e)

(* Slot of k, and the slot a new k would take, in the j-th pair. *)
SlotHolding(p, ka, k, j) ==
  LET q == Walk(p, k, j) IN IF ka[<<q, 0>>] = k THEN <<q, 0>> ELSE <<q, 1>>
SlotOpen(p, ka, k, j) ==
  LET q == Walk(p, k, j) IN IF ka[<<q, 0>>] = NoKey THEN <<q, 0>> ELSE <<q, 1>>

Steps(p) == 0 .. p - 1

Occupied(p, ka) == {s \in SlotsOf(p) : ka[s] # NoKey}

(* Mutant of Full: the entry being inserted is not counted. *)
FullLate == len * 2 > pairs * 3

(* (len + 1) * 4 > cap * 3 *)
Full == (len + 1) * 2 > pairs * 3

------------------------------------------------------------------------------

(* Mutant of RoomFor: the load limit is forgotten. *)
RoomForFull(p, n) == n <= 2 * p

(* The loop of with_at_least ends: n entries and one more fit. *)
RoomFor(p, n) == (n + 1) * 2 <= p * 3

(* with_at_least: any capacity with room, as its caller asks for a minimum. *)
Init ==
  /\ hash \in [Keys -> 0 .. MaxHash]
  /\ seedCount \in MinSeed .. MaxSeed
  /\ pairs \in {p \in Sizes : RoomFor(p, seedCount)}
  /\ keyAt = [s \in Slots |-> NoKey]
  /\ valAt = [s \in Slots |-> NoValue]
  /\ len = 0
  /\ pc = "idle"
  /\ opKey = NoKey
  /\ opVal = NoValue
  /\ offer = NoSlot
  /\ oldKey = [s \in {} |-> NoKey]
  /\ oldVal = [s \in {} |-> NoValue]
  /\ oldPairs = 0
  /\ todo = {}
  /\ answer = Nothing

------------------------------------------------------------------------------

(* get_or_slot: Ok. *)
Hit(k) ==
  /\ pc = "idle"
  /\ \E j \in Steps(pairs) :
       /\ StopsAt(pairs, keyAt, k, j)
       /\ Holds(pairs, keyAt, k, j)
       /\ answer' = valAt[SlotHolding(pairs, keyAt, k, j)]
  /\ UNCHANGED <<hash, seedCount, pairs, keyAt, valAt, len, pc, op, old>>

(* get_or_slot: Err, and the slot the key belongs in. *)
Miss(k) ==
  /\ pc = "idle"
  /\ \E j \in Steps(pairs) :
       /\ StopsAt(pairs, keyAt, k, j)
       /\ ~Holds(pairs, keyAt, k, j)
       /\ offer' = SlotOpen(pairs, keyAt, k, j)
  /\ answer' = Missing
  /\ pc' = "missed"
  /\ opKey' = k
  /\ UNCHANGED <<hash, seedCount, pairs, keyAt, valAt, len, opVal, old>>

(* probe_pair: the home pair only. *)
ProbePair(k) ==
  /\ pc = "idle"
  /\ answer' = IF Holds(pairs, keyAt, k, 0)
               THEN valAt[SlotHolding(pairs, keyAt, k, 0)]
               ELSE Elsewhere
  /\ UNCHANGED <<hash, seedCount, pairs, keyAt, valAt, len, pc, op, old>>

------------------------------------------------------------------------------

(* The entry is written and the call returns. *)
Write(s, k, v) ==
  /\ keyAt' = [keyAt EXCEPT ![s] = k]
  /\ valAt' = [valAt EXCEPT ![s] = v]
  /\ len' = len + 1
  /\ pc' = "idle"
  /\ opKey' = NoKey
  /\ opVal' = NoValue
  /\ offer' = NoSlot
  /\ answer' = Nothing
  /\ UNCHANGED <<hash, seedCount, pairs, old>>

(* grow: the slots are exchanged for twice as many empty ones. *)
BeginGrow(k, v) ==
  /\ pc' = "rehash"
  /\ opKey' = k
  /\ opVal' = v
  /\ oldKey' = keyAt
  /\ oldVal' = valAt
  /\ oldPairs' = pairs
  /\ todo' = Occupied(pairs, keyAt)
  /\ pairs' = 2 * pairs
  /\ keyAt' = [s \in SlotsOf(2 * pairs) |-> NoKey]
  /\ valAt' = [s \in SlotsOf(2 * pairs) |-> NoValue]
  /\ UNCHANGED <<hash, seedCount, len, offer, answer>>

(* insert_at, with the slot of the miss. *)
InsertAt(v) ==
  /\ pc = "missed"
  /\ IF Full THEN BeginGrow(opKey, v) ELSE Write(offer, opKey, v)

(* insert: the walk is made again. *)
InsertAbsent(k, v) ==
  IF Full
  THEN BeginGrow(k, v)
  ELSE \E j \in Steps(pairs) :
         /\ FirstOpen(pairs, keyAt, k, j)
         /\ Write(SlotOpen(pairs, keyAt, k, j), k, v)

Insert(v) == pc = "missed" /\ InsertAbsent(opKey, v)

(* replace: overwrite, or a fresh insert when the walk finds no entry. *)
Replace(k, v) ==
  /\ pc = "idle"
  /\ \E j \in Steps(pairs) :
       /\ StopsAt(pairs, keyAt, k, j)
       /\ \/ /\ Holds(pairs, keyAt, k, j)
             /\ valAt' = [valAt EXCEPT ![SlotHolding(pairs, keyAt, k, j)] = v]
             /\ answer' = Nothing
             /\ UNCHANGED <<hash, seedCount, pairs, keyAt, len, pc, op, old>>
          \/ /\ ~Holds(pairs, keyAt, k, j)
             /\ InsertAbsent(k, v)

(* Mutant of Move: the entry goes to the slot its old index names. *)
MoveInPlace(s) ==
  /\ pc = "rehash"
  /\ s \in todo
  /\ keyAt' = [keyAt EXCEPT ![s] = oldKey[s]]
  /\ valAt' = [valAt EXCEPT ![s] = oldVal[s]]
  /\ todo' = todo \ {s}
  /\ UNCHANGED <<hash, seedCount, pairs, len, pc, op, oldKey, oldVal, oldPairs, answer>>

(* Mutant of Move: the value lanes stay behind. *)
MoveKeyOnly(s) ==
  /\ pc = "rehash"
  /\ s \in todo
  /\ \E j \in Steps(pairs) :
       /\ FirstOpen(pairs, keyAt, oldKey[s], j)
       /\ keyAt' = [keyAt EXCEPT ![SlotOpen(pairs, keyAt, oldKey[s], j)] = oldKey[s]]
  /\ todo' = todo \ {s}
  /\ UNCHANGED <<hash, seedCount, pairs, valAt, len, pc, op, oldKey, oldVal, oldPairs,
                 answer>>

(* One turn of grow's loop. *)
Move(s) ==
  /\ pc = "rehash"
  /\ s \in todo
  /\ \E j \in Steps(pairs) :
       LET k == oldKey[s] IN
       /\ FirstOpen(pairs, keyAt, k, j)
       /\ keyAt' = [keyAt EXCEPT ![SlotOpen(pairs, keyAt, k, j)] = k]
       /\ valAt' = [valAt EXCEPT ![SlotOpen(pairs, keyAt, k, j)] = oldVal[s]]
  /\ todo' = todo \ {s}
  /\ UNCHANGED <<hash, seedCount, pairs, len, pc, op, oldKey, oldVal, oldPairs, answer>>

(* Mutant of EndGrow: the slot of the miss is used in the new table. *)
EndGrowStaleSlot ==
  /\ pc = "rehash"
  /\ todo = {}
  /\ Write(offer, opKey, opVal)

(* grow has returned: the first empty slot is looked for in the new table. *)
EndGrow ==
  /\ pc = "rehash"
  /\ todo = {}
  /\ \E j \in Steps(pairs) :
       /\ FirstOpen(pairs, keyAt, opKey, j)
       /\ Write(SlotOpen(pairs, keyAt, opKey, j), opKey, opVal)

Next ==
  \/ \E k \in Keys :
       \/ Hit(k)
       \/ Miss(k)
       \/ ProbePair(k)
       \/ \E v \in Values : Replace(k, v)
  \/ \E v \in Values : InsertAt(v) \/ Insert(v)
  \/ \E s \in todo : Move(s)
  \/ EndGrow

Spec == Init /\ [][Next]_vars

------------------------------------------------------------------------------
(* Properties. *)

TypeOK ==
  /\ hash \in [Keys -> 0 .. MaxHash]
  /\ seedCount \in Nat
  /\ pairs \in Nat \ {0}
  /\ keyAt \in [Slots -> Keys \cup {NoKey}]
  /\ valAt \in [Slots -> Values \cup {NoValue}]
  /\ \A s \in Slots : keyAt[s] = NoKey <=> valAt[s] = NoValue
  /\ len \in Nat
  /\ pc \in {"idle", "missed", "rehash"}
  /\ opKey \in Keys \cup {NoKey}
  /\ opVal \in Values \cup {NoValue}
  /\ offer \in Slots \cup SlotsOf(oldPairs) \cup {NoSlot}
  /\ oldPairs \in Nat
  /\ oldKey \in [SlotsOf(oldPairs) -> Keys \cup {NoKey}]
  /\ oldVal \in [SlotsOf(oldPairs) -> Values \cup {NoValue}]
  /\ todo \subseteq SlotsOf(oldPairs)
  /\ answer \in Values \cup {Missing, Elsewhere, Nothing}

(***************************************************************************)
(* No entry is cut off from its walk: the walk of a stored key ends at the *)
(* pair that holds it, never at a free slot or a copy before ("every pair  *)
(* before the terminating one was full"), also in grow's half-filled table. *)
(***************************************************************************)
Reachable(p, ka) ==
  \A s \in Occupied(p, ka) :
    \E j \in Steps(p) : StopsAt(p, ka, ka[s], j) /\ Walk(p, ka[s], j) = s[1]

NoHoles == Reachable(pairs, keyAt)

(***************************************************************************)
(* A key has one slot: insert's "known to be absent" is kept by every      *)
(* caller, also when added tokens take over seeded entries (replace).      *)
(***************************************************************************)
Distinct(p, ka) == \A s, t \in Occupied(p, ka) : ka[s] = ka[t] => s = t

OneSlotPerKey == Distinct(pairs, keyAt)

(***************************************************************************)
(* The slot a miss reports is the one a fresh walk would find, as long as  *)
(* the caller inserts nothing else in between (debug_assert of insert_at). *)
(***************************************************************************)
OfferIsFirstEmpty ==
  pc = "missed" =>
    \E j \in Steps(pairs) :
      /\ FirstOpen(pairs, keyAt, opKey, j)
      /\ offer = SlotOpen(pairs, keyAt, opKey, j)

(***************************************************************************)
(* Every walk ends: the count of entries is right and at most three        *)
(* quarters of the slots are taken ("load < 1 guarantees one").            *)
(***************************************************************************)
WalksEnd ==
  /\ pc # "rehash" => len = Cardinality(Occupied(pairs, keyAt))
  /\ Cardinality(Occupied(pairs, keyAt)) * 2 <= pairs * 3
  /\ \A k \in Keys : \E j \in Steps(pairs) : HasOpen(pairs, keyAt, k, j)

(***************************************************************************)
(* Seeding a table with the number of entries it was sized for never       *)
(* rehashes ("sizing for them avoids rehashing mid-seed").                 *)
(***************************************************************************)
SeedNeverGrows ==
  [][pairs' # pairs => len >= seedCount]_vars

(***************************************************************************)
(* The table is the map its callers see: a lookup finds the last value put *)
(* for the key and no other, through collisions, displaced keys, a growth  *)
(* between miss and insert, and replacement.                               *)
(***************************************************************************)
Visible(p, ka, va) ==
  LET stored == {k \in Keys : \E j \in Steps(p) : StopsAt(p, ka, k, j) /\ Holds(p, ka, k, j)}
  IN [k \in stored |->
        LET j == CHOOSE i \in Steps(p) : StopsAt(p, ka, k, i)
        IN va[SlotHolding(p, ka, k, j)]]

Contents ==
  IF pc = "rehash" THEN Visible(oldPairs, oldKey, oldVal)
                   ELSE Visible(pairs, keyAt, valAt)

Map == INSTANCE PretokenMap
         WITH map <- Contents,
              memory <- IF pc = "rehash" THEN oldPairs ELSE pairs

MapSpec == Map!Spec

==============================================================================
