---------------------------- MODULE EmitLoopProofs ----------------------------
(***************************************************************************)
(* Theorems about EmitLoop.                                                *)
(*                                                                         *)
(* Bounds: the chunk's slack and the freshness of the loop's pointers hold *)
(* because every path out of the slow case reserves a whole chunk and      *)
(* takes the pointers anew, and because an inline value has at most four   *)
(* tokens.  Contents: the ranges recorded in the arena stay sound as it    *)
(* only grows, provided that its offsets do not wrap; then each step that  *)
(* moves the cursor appends exactly the tokens of its pretoken.            *)
(***************************************************************************)
EXTENDS EmitLoop, SequenceTheorems, TLAPS

Cells == Tokens \cup {Garbage}

(* Where the loop stands. *)
Place ==
  /\ Len(batch) <= Chunk
  /\ i \in 1 .. Len(batch) + 1
  /\ len <= w
  /\ pc = "slow" => i <= Len(batch)
  /\ pc = "fill" => len = w /\ i = 1 /\ ends = <<>> /\ batch = <<>>

(* An inline value holds the tokens of its key, four at most. *)
InlineSound ==
  \A p \in DOMAIN cache :
    ~cache[p].spill => LanesHold(cache[p], p) /\ Len(Encode[p]) <= Lanes

Bounds == TypeOK /\ Place /\ SlackLeft /\ PointersFresh /\ InlineSound

------------------------------------------------------------------------------
(* Facts. *)

LEMMA EncodeType ==
  ASSUME NEW p \in Pretokens
  PROVE  Encode[p] \in Seq(Tokens) /\ Encode[p] \in Seq(Cells) /\ Len(Encode[p]) \in Nat
<1>1. Encode[p] \in Seq(Tokens)
  BY EmitAssumption
<1>2. Encode[p] \in Seq(Cells)
  BY <1>1, SeqMonotonic DEF Cells
<1> QED BY <1>1, <1>2, LenProperties

(* The first n cells are tokens of the output. *)
LEMMA ContentType ==
  ASSUME NEW m \in Seq(Cells), NEW n \in 0 .. Len(m)
  PROVE  /\ SubSeq(m, 1, n) \in Seq(Cells)
         /\ Len(SubSeq(m, 1, n)) = n
         /\ \A x \in 1 .. n : SubSeq(m, 1, n)[x] = m[x]
<1>1. n \in Int /\ Len(m) \in Nat
  BY LenProperties
<1>2. \A x \in 1 .. n : m[x] \in Cells
  BY <1>1, ElementOfSeq
<1> QED BY <1>1, <1>2, SubSeqProperties

LEMMA GarbageType ==
  ASSUME NEW n \in Nat
  PROVE  /\ [x \in 1 .. n |-> Garbage] \in Seq(Cells)
         /\ Len([x \in 1 .. n |-> Garbage]) = n
BY DEF Cells

(* reserve keeps the tokens it is given and makes the room asked for. *)
LEMMA Reserved ==
  ASSUME TypeOK, NEW c \in Seq(Cells), NEW k \in Nat, Reserve(c, k)
  PROVE  /\ mem' \in Seq(Cells)
         /\ place' \in Places
         /\ Len(c) + k <= Len(mem')
         /\ \A x \in 1 .. Len(c) : mem'[x] = c[x]
<1>1. mem \in Seq(Cells) /\ place \in Places
  BY DEF TypeOK, Cells
<1>2. Len(c) \in Nat /\ Len(mem) \in Nat
  BY <1>1, LenProperties
<1>3. CASE Len(c) + k <= Len(mem)
  <2> DEFINE rest == SubSeq(mem, Len(c) + 1, Len(mem))
  <2>1. mem' = c \o rest /\ place' = place
    BY <1>2, <1>3 DEF Reserve
  <2>2. rest \in Seq(Cells) /\ Len(rest) = Len(mem) - Len(c)
    <3>1. \A x \in Len(c) + 1 .. Len(mem) : mem[x] \in Cells
      BY <1>1, <1>2, ElementOfSeq
    <3> QED BY <1>2, <1>3, <3>1, SubSeqProperties
  <2> HIDE DEF rest
  <2>3. mem' \in Seq(Cells) /\ Len(mem') = Len(c) + Len(rest)
    BY <2>1, <2>2, ConcatProperties
  <2>4. \A x \in 1 .. Len(c) : mem'[x] = c[x]
    BY <1>2, <2>1, <2>2, <1>3, ConcatProperties
  <2> QED BY <1>1, <1>2, <1>3, <2>1, <2>2, <2>3, <2>4
<1>4. CASE Len(c) + k > Len(mem)
  <2> DEFINE room == Larger(2 * Len(mem), Len(c) + k) - Len(c)
             rest == [x \in 1 .. room |-> Garbage]
  <2>1. mem' = c \o rest /\ place' \in Places
    <3>1. ~(Len(c) + k <= Len(mem))
      BY <1>2, <1>4
    <3> QED BY <3>1, Zenon DEF Reserve
  <2>2. room \in Nat /\ room >= k
    BY <1>2, <1>4 DEF Larger
  <2> HIDE DEF room
  <2>3. rest \in Seq(Cells) /\ Len(rest) = room
    BY <2>2, GarbageType
  <2> HIDE DEF rest
  <2>4. mem' \in Seq(Cells) /\ Len(mem') = Len(c) + Len(rest)
    BY <2>1, <2>3, ConcatProperties
  <2>5. \A x \in 1 .. Len(c) : mem'[x] = c[x]
    BY <1>2, <2>1, <2>2, <2>3, ConcatProperties
  <2> QED BY <1>2, <2>1, <2>2, <2>3, <2>4, <2>5
<1> QED BY <1>2, <1>3, <1>4

(* A store touches nothing below the cursor and writes its lanes there. *)
LEMMA Stored ==
  ASSUME TypeOK, NEW lanes \in Seq(Tokens), Len(lanes) <= Lanes, Store(lanes)
  PROVE  /\ mem' \in Seq(Cells)
         /\ Len(mem') = Len(mem)
         /\ \A x \in 1 .. w : mem'[x] = mem[x]
         /\ dst = place /\ w + Lanes <= Len(mem) =>
              \A x \in 1 .. Len(lanes) : mem'[w + x] = lanes[x]
<1>1. mem \in Seq(Cells) /\ w \in 0 .. Len(mem)
  BY DEF TypeOK, Cells
<1>2. Len(mem) \in Nat /\ Len(lanes) \in Nat /\ w \in Nat
  BY <1>1, LenProperties
<1> DEFINE cell(x) == IF dst = place /\ x \in w + 1 .. w + Lanes
                      THEN IF x - w <= Len(lanes) THEN lanes[x - w] ELSE Garbage
                      ELSE mem[x]
<1>3. mem' = [x \in 1 .. Len(mem) |-> cell(x)]
  BY DEF Store
<1>4. ASSUME NEW x \in 1 .. Len(mem)
      PROVE  cell(x) \in Cells
  <2>1. mem[x] \in Cells
    BY <1>1, ElementOfSeq
  <2>2. CASE dst = place /\ x \in w + 1 .. w + Lanes /\ x - w <= Len(lanes)
    <3>1. x - w \in 1 .. Len(lanes)
      BY <1>2, <2>2
    <3>2. lanes[x - w] \in Tokens
      BY <3>1, ElementOfSeq
    <3> QED BY <2>2, <3>2 DEF Cells
  <2> QED BY <2>1, <2>2 DEF Cells
<1>5. mem' \in Seq(Cells) /\ Len(mem') = Len(mem)
  BY <1>2, <1>3, <1>4
<1>6. \A x \in 1 .. w : mem'[x] = mem[x]
  BY <1>1, <1>2, <1>3
<1>7. ASSUME dst = place, w + Lanes <= Len(mem), NEW x \in 1 .. Len(lanes)
      PROVE  mem'[w + x] = lanes[x]
  <2>1. w + x \in 1 .. Len(mem) /\ w + x \in w + 1 .. w + Lanes /\ (w + x) - w = x
    BY <1>2, <1>7 DEF Lanes
  <2>2. x <= Len(lanes)
    BY <1>2
  <2>3. cell(w + x) = lanes[x]
    BY <1>7, <2>1, <2>2
  <2> HIDE DEF cell
  <2> QED BY <1>3, <2>1, <2>3
<1> QED BY <1>5, <1>6, <1>7

------------------------------------------------------------------------------
(* Bounds. *)

(* What every way out of the loop body for pretoken p does. *)
Emits(p) ==
  /\ mem' \in Seq(Cells)
  /\ \A x \in 1 .. w : mem'[x] = mem[x]
  /\ \A x \in 1 .. Len(Encode[p]) : mem'[w + x] = Encode[p][x]
  /\ w' = w + Len(Encode[p])
  /\ ends' = Append(ends, w')
  /\ i' = i + 1
  /\ batch' = batch
  /\ from' = from

(* The slow path leaves a chunk's worth of room and fresh pointers. *)
LEMMA Finished ==
  ASSUME TypeOK, NEW p \in Pretokens, Finish(Encode[p])
  PROVE  /\ Emits(p)
         /\ w' + Lanes * Chunk <= Len(mem')
         /\ place' \in Places
<1> DEFINE c == SubSeq(mem, 1, w) \o Encode[p]
<1>1. mem \in Seq(Cells) /\ w \in 0 .. Len(mem) /\ w \in Nat
  <2>1. mem \in Seq(Cells) /\ w \in 0 .. Len(mem)
    BY DEF TypeOK, Cells
  <2> QED BY <2>1, LenProperties
<1>2. /\ SubSeq(mem, 1, w) \in Seq(Cells) /\ Len(SubSeq(mem, 1, w)) = w
      /\ \A x \in 1 .. w : SubSeq(mem, 1, w)[x] = mem[x]
  BY <1>1, ContentType
<1>3. Encode[p] \in Seq(Cells) /\ Len(Encode[p]) \in Nat
  BY EncodeType
<1>4. c \in Seq(Cells) /\ Len(c) = w + Len(Encode[p])
  BY <1>2, <1>3, ConcatProperties
<1>5. \A x \in 1 .. w : c[x] = mem[x]
  <2> SUFFICES ASSUME NEW x \in 1 .. w
               PROVE  c[x] = mem[x]
    OBVIOUS
  <2>1. x \in 1 .. w + Len(Encode[p]) /\ x <= w
    BY <1>1, <1>3
  <2> QED BY <1>2, <1>3, <2>1, ConcatProperties
<1>6. \A x \in 1 .. Len(Encode[p]) : c[w + x] = Encode[p][x]
  <2> SUFFICES ASSUME NEW x \in 1 .. Len(Encode[p])
               PROVE  c[w + x] = Encode[p][x]
    OBVIOUS
  <2>1. w + x \in 1 .. w + Len(Encode[p]) /\ ~(w + x <= w) /\ (w + x) - w = x
    BY <1>1, <1>3
  <2> QED BY <1>2, <1>3, <2>1, ConcatProperties
<1> HIDE DEF c
<1>7. Lanes * Chunk \in Nat
  BY EmitAssumption DEF Lanes
<1>8. Reserve(c, Lanes * Chunk)
  BY DEF Finish, c
<1>9. /\ mem' \in Seq(Cells) /\ place' \in Places
      /\ Len(c) + Lanes * Chunk <= Len(mem')
      /\ \A x \in 1 .. Len(c) : mem'[x] = c[x]
  BY <1>4, <1>7, <1>8, Reserved
<1>10. \A x \in 1 .. w : mem'[x] = mem[x]
  BY <1>1, <1>3, <1>4, <1>5, <1>9
<1>11. \A x \in 1 .. Len(Encode[p]) : mem'[w + x] = Encode[p][x]
  BY <1>1, <1>3, <1>4, <1>6, <1>9
<1>12. /\ w' = w + Len(Encode[p]) /\ ends' = Append(ends, w')
       /\ i' = i + 1 /\ batch' = batch /\ from' = from
  BY DEF Finish, chunk
<1> QED BY <1>4, <1>9, <1>10, <1>11, <1>12 DEF Emits

(* A fast pretoken has at most four tokens, all stored. *)
LEMMA FastEmits ==
  ASSUME Bounds, EmitFast
  PROVE  /\ Emits(batch[i])
         /\ batch[i] \in Pretokens
         /\ Len(Encode[batch[i]]) <= Lanes
         /\ Len(mem') = Len(mem)
<1> DEFINE p == batch[i]
<1>1. p \in Pretokens
  <2>1. batch \in Seq(Pretokens) /\ i \in 1 .. Len(batch)
    <3>1. batch \in Seq(Pretokens) /\ i \in Nat \ {0} /\ i <= Len(batch)
      BY DEF Bounds, TypeOK, EmitFast
    <3> QED BY <3>1, LenProperties
  <2> QED BY <2>1, ElementOfSeq
<1>2. p \in DOMAIN cache /\ answer' = cache[p] /\ ~cache[p].spill
  <2>1. IsFast(answer') /\ Cache!Probe(p)
    BY DEF EmitFast
  <2>2. answer' # Elsewhere
    BY <2>1 DEF IsFast
  <2>3. p \in DOMAIN cache /\ answer' = cache[p]
    BY <2>1, <2>2 DEF Cache!Probe
  <2> QED BY <2>1, <2>2, <2>3 DEF IsFast
<1> HIDE DEF p
<1>3. /\ cache[p].n = Len(Encode[p]) /\ cache[p].lanes = Encode[p]
      /\ Len(Encode[p]) <= Lanes
  BY <1>2 DEF Bounds, InlineSound, LanesHold
<1>4. Store(Encode[p]) /\ w' = w + Len(Encode[p])
  BY <1>2, <1>3 DEF EmitFast
<1>5. Encode[p] \in Seq(Tokens)
  BY <1>1, EncodeType
<1>6. dst = place /\ w + Lanes <= Len(mem)
  <2>1. dst = place /\ w + Lanes * (Len(batch) + 1 - i) <= Len(mem)
    BY DEF Bounds, PointersFresh, SlackLeft, EmitFast
  <2>2. i \in Nat /\ Len(batch) \in Nat /\ i <= Len(batch) /\ w \in Nat /\ Len(mem) \in Nat
    <3>1. batch \in Seq(Pretokens) /\ i \in Nat /\ i <= Len(batch)
      BY DEF Bounds, TypeOK, EmitFast
    <3>2. mem \in Seq(Cells) /\ w \in 0 .. Len(mem)
      BY DEF Bounds, TypeOK, Cells
    <3> QED BY <3>1, <3>2, LenProperties
  <2> QED BY <2>1, <2>2 DEF Lanes
<1>7. /\ mem' \in Seq(Cells) /\ Len(mem') = Len(mem)
      /\ \A x \in 1 .. w : mem'[x] = mem[x]
      /\ \A x \in 1 .. Len(Encode[p]) : mem'[w + x] = Encode[p][x]
  BY <1>3, <1>4, <1>5, <1>6, Stored DEF Bounds
<1>8. /\ ends' = Append(ends, w') /\ i' = i + 1 /\ batch' = batch /\ from' = from
  BY DEF EmitFast, chunk
<1>9. Emits(p)
  BY <1>4, <1>7, <1>8 DEF Emits
<1> QED BY <1>1, <1>3, <1>7, <1>9 DEF p

LEMMA Standing ==
  ASSUME TypeOK
  PROVE  /\ mem \in Seq(Cells) /\ w \in 0 .. Len(mem) /\ w \in Nat /\ Len(mem) \in Nat
         /\ len \in 0 .. Len(mem) /\ len \in Nat
         /\ batch \in Seq(Pretokens) /\ Len(batch) \in Nat
         /\ i \in Nat
         /\ i <= Len(batch) => batch[i] \in Pretokens
<1>1. mem \in Seq(Cells) /\ w \in 0 .. Len(mem) /\ len \in 0 .. Len(mem)
      /\ batch \in Seq(Pretokens) /\ i \in Nat \ {0}
  BY DEF TypeOK, Cells
<1>2. Len(mem) \in Nat /\ Len(batch) \in Nat
  BY <1>1, LenProperties
<1>3. i <= Len(batch) => batch[i] \in Pretokens
  BY <1>1, <1>2, ElementOfSeq
<1> QED BY <1>1, <1>2, <1>3

(* What an emitting step keeps of the types. *)
LEMMA EmitsTyped ==
  ASSUME TypeOK, NEW p \in Pretokens, Emits(p)
  PROVE  /\ w' \in Nat /\ i' \in Nat \ {0} /\ from' \in Nat
         /\ batch' \in Seq(Pretokens)
         /\ ends' \in Seq(Nat)
<1>1. w' \in Nat
  BY Standing, EncodeType DEF Emits
<1>2. ends' \in Seq(Nat)
  BY <1>1, AppendProperties DEF Emits, TypeOK
<1> QED BY <1>1, <1>2 DEF Emits, TypeOK

(* A step of the slow path keeps the bounds, given what it does to the caches. *)
LEMMA FinishBounds ==
  ASSUME Bounds, NEW p \in Pretokens, Finish(Encode[p]), pc = "slow",
         memory' \in Nat \ {0},
         DOMAIN cache' \subseteq Short, \A q \in DOMAIN cache' : cache'[q] \in Packed,
         DOMAIN long' \subseteq Memoized,
         \A q \in DOMAIN long' : long'[q] \in [at : Nat, n : Nat],
         arena' \in Seq(Tokens),
         answer' \in Packed \cup {Missing, Elsewhere, Nothing},
         InlineSound'
  PROVE  Bounds'
<1>0. TypeOK
  BY DEF Bounds
<1>1. Emits(p) /\ w' + Lanes * Chunk <= Len(mem') /\ place' \in Places
  BY <1>0, Finished
<1>2. /\ w' \in Nat /\ i' \in Nat \ {0} /\ from' \in Nat
      /\ batch' \in Seq(Pretokens) /\ ends' \in Seq(Nat)
  BY <1>0, <1>1, EmitsTyped
<1>3. /\ len' = w' /\ dst' = place' /\ table' = memory' /\ pc' = "probe"
  BY DEF Finish
<1>4. mem' \in Seq(Cells) /\ batch' = batch /\ i' = i + 1
  BY <1>1 DEF Emits
<1>5. Len(mem') \in Nat
  BY <1>4, LenProperties
<1>6. Len(batch) <= Chunk /\ Chunk \in Nat
  BY EmitAssumption DEF Bounds, Place
<1>7. w' \in 0 .. Len(mem') /\ len' \in 0 .. Len(mem')
  BY <1>1, <1>2, <1>3, <1>5, EmitAssumption DEF Lanes
<1>8. TypeOK'
  BY <1>1, <1>2, <1>3, <1>4, <1>7 DEF TypeOK, Cells
<1>9. Place'
  BY <1>2, <1>3, <1>4, <1>0, Standing DEF Place, Bounds
<1>10. SlackLeft'
  <2> DEFINE left == Len(batch') + 1 - i'
  <2>1. left <= Chunk /\ left \in Int
    BY <1>0, <1>4, <1>6, Standing DEF Bounds, Place
  <2> HIDE DEF left
  <2>2. w' + Lanes * left <= Len(mem')
    <3>1. Lanes * left <= Lanes * Chunk /\ Lanes * left \in Int /\ Lanes * Chunk \in Int
      BY <1>6, <2>1 DEF Lanes
    <3> QED BY <1>1, <1>2, <1>5, <3>1
  <2> USE DEF left
  <2> QED BY <2>2 DEF SlackLeft
<1>11. PointersFresh'
  BY <1>3 DEF PointersFresh
<1> QED BY <1>8, <1>9, <1>10, <1>11 DEF Bounds

LEMMA PackType ==
  ASSUME TypeOK, NEW p \in Short
  PROVE  /\ p \in Pretokens
         /\ PackVal(p) \in Packed
         /\ ~PackVal(p).spill => p \in Inline
         /\ p \in Inline => LanesHold(PackVal(p), p)
         /\ p \in Inline => Len(Encode[p]) <= Lanes
<1>1. p \in Pretokens
  BY EmitAssumption
<1>2. Encode[p] \in Seq(Tokens) /\ Len(Encode[p]) \in Nat
  BY <1>1, EncodeType
<1>3. ArenaEnd \in Nat
  <2>1. Len(arena) \in Nat
    BY LenProperties DEF TypeOK
  <2> QED BY <2>1, EmitAssumption DEF ArenaEnd
<1>4. <<>> \in Seq(Tokens)
  OBVIOUS
<1>5. PackVal(p) \in Packed
  BY <1>2, <1>3, <1>4 DEF PackVal, Packed
<1>6. ~PackVal(p).spill => p \in Inline
  BY DEF PackVal
<1>7. p \in Inline => LanesHold(PackVal(p), p)
  BY DEF PackVal, LanesHold
<1>8. p \in Inline => Len(Encode[p]) <= Lanes
  <2> SUFFICES ASSUME p \in Inline
               PROVE  Len(Encode[p]) <= Lanes
    OBVIOUS
  <2>1. Len(Encode[p]) \in 1 .. Lanes
    BY EmitAssumption
  <2>2. Lanes \in Int
    BY DEF Lanes
  <2> QED BY <2>1, <2>2
<1> QED BY <1>1, <1>5, <1>6, <1>7, <1>8

(* A short miss puts a sound entry. *)
LEMMA PutSound ==
  ASSUME Bounds, NEW p \in Short, Cache!Put(p, PackVal(p))
  PROVE  /\ memory' \in Nat \ {0}
         /\ DOMAIN cache' \subseteq Short
         /\ \A q \in DOMAIN cache' : cache'[q] \in Packed
         /\ answer' = Nothing
         /\ InlineSound'
<1>1. /\ cache' = [x \in DOMAIN cache \cup {p} |-> IF x = p THEN PackVal(p) ELSE cache[x]]
      /\ memory' \in {memory, 2 * memory} /\ answer' = Nothing
  BY DEF Cache!Put
<1>2. memory' \in Nat \ {0}
  BY <1>1 DEF Bounds, TypeOK
<1>3. DOMAIN cache' = DOMAIN cache \cup {p}
  BY <1>1
<1>4. PackVal(p) \in Packed
  BY PackType DEF Bounds
<1>5. ASSUME NEW q \in DOMAIN cache'
      PROVE  /\ cache'[q] \in Packed
             /\ ~cache'[q].spill => LanesHold(cache'[q], q) /\ Len(Encode[q]) <= Lanes
  <2>1. CASE q = p
    <3>1. cache'[q] = PackVal(p)
      BY <1>1, <1>3, <2>1
    <3> QED BY <1>4, <2>1, <3>1, PackType DEF Bounds
  <2>2. CASE q # p
    <3>1. q \in DOMAIN cache /\ cache'[q] = cache[q]
      BY <1>1, <1>3, <2>2
    <3>2. cache[q] \in Packed
      BY <3>1 DEF Bounds, TypeOK
    <3>3. ~cache[q].spill => LanesHold(cache[q], q) /\ Len(Encode[q]) <= Lanes
      BY <3>1 DEF Bounds, InlineSound
    <3> QED BY <3>1, <3>2, <3>3
  <2> QED BY <2>1, <2>2
<1>6. InlineSound'
  BY <1>5 DEF InlineSound, LanesHold
<1> QED BY <1>1, <1>2, <1>3, <1>5, <1>6 DEF Bounds, TypeOK

(* A probe of the table answers with a packed value or none. *)
LEMMA AnswerType ==
  ASSUME TypeOK, NEW p, Cache!Probe(p) \/ Cache!Lookup(p)
  PROVE  /\ answer' \in Packed \cup {Missing, Elsewhere, Nothing}
         /\ cache' = cache /\ memory' = memory
BY DEF TypeOK, Cache!Probe, Cache!Lookup

LEMMA FillBounds ==
  ASSUME Bounds, Fill
  PROVE  Bounds'
<1>0. TypeOK
  BY DEF Bounds
<1>1. PICK n \in 1 .. Chunk : batch' \in [1 .. n -> Pretokens]
  BY DEF Fill
<1>2. batch' \in Seq(Pretokens) /\ Len(batch') = n /\ n \in Nat /\ n <= Chunk
  BY <1>1, EmitAssumption
<1>3. SubSeq(mem, 1, len) \in Seq(Cells) /\ Len(SubSeq(mem, 1, len)) = len
  BY <1>0, Standing, ContentType
<1>4. Lanes * Len(batch') \in Nat
  BY <1>2 DEF Lanes
<1>5. Reserve(SubSeq(mem, 1, len), Lanes * Len(batch'))
  BY DEF Fill
<1>6. /\ mem' \in Seq(Cells) /\ place' \in Places
      /\ len + Lanes * Len(batch') <= Len(mem')
  BY <1>0, <1>3, <1>4, <1>5, Reserved
<1>7. Len(mem') \in Nat
  BY <1>6, LenProperties
<1>8. /\ from' = len /\ w' = len /\ ends' = <<>> /\ i' = 1 /\ dst' = place'
      /\ table' = memory /\ pc' = "probe" /\ len' = len
  BY DEF Fill
<1>9. cache' = cache /\ memory' = memory /\ answer' = answer /\ long' = long /\ arena' = arena
  BY DEF Fill, short
<1>10. len \in 0 .. Len(mem') /\ len \in Nat
  BY <1>0, <1>2, <1>6, <1>7, Standing DEF Lanes
<1>11. TypeOK'
  <2>1. ends' \in Seq(Nat)
    BY <1>8
  <2> QED BY <1>0, <1>2, <1>6, <1>8, <1>9, <1>10, <2>1 DEF TypeOK, Cells
<1>12. Place'
  BY <1>2, <1>8, <1>10 DEF Place
<1>13. SlackLeft'
  <2>1. Len(batch') + 1 - i' = Len(batch')
    BY <1>2, <1>8
  <2> QED BY <1>6, <1>8, <2>1 DEF SlackLeft
<1>14. PointersFresh' /\ InlineSound'
  BY <1>8, <1>9 DEF Bounds, PointersFresh, InlineSound, LanesHold
<1> QED BY <1>11, <1>12, <1>13, <1>14 DEF Bounds

LEMMA EmitFastBounds ==
  ASSUME Bounds, EmitFast
  PROVE  Bounds'
<1>0. TypeOK
  BY DEF Bounds
<1> DEFINE p == batch[i]
<1>1. Emits(p) /\ p \in Pretokens /\ Len(Encode[p]) <= Lanes /\ Len(mem') = Len(mem)
  BY FastEmits
<1>2. Cache!Probe(p)
  BY DEF EmitFast
<1>3. cache' = cache /\ memory' = memory
      /\ answer' \in Packed \cup {Missing, Elsewhere, Nothing}
  BY <1>0, <1>2, AnswerType
<1>4. pc = "probe" /\ pc' = pc /\ i <= Len(batch)
      /\ len' = len /\ place' = place /\ dst' = dst /\ table' = table
      /\ long' = long /\ arena' = arena
  BY DEF EmitFast
<1> HIDE DEF p
<1>5. /\ w' \in Nat /\ i' \in Nat \ {0} /\ from' \in Nat
      /\ batch' \in Seq(Pretokens) /\ ends' \in Seq(Nat)
  BY <1>0, <1>1, EmitsTyped
<1>6. /\ mem' \in Seq(Cells) /\ w' = w + Len(Encode[p]) /\ batch' = batch /\ i' = i + 1
  BY <1>1 DEF Emits
<1>7. /\ w \in Nat /\ Len(mem) \in Nat /\ len \in 0 .. Len(mem) /\ i \in Nat
      /\ Len(batch) \in Nat /\ Len(Encode[p]) \in Nat
  BY <1>0, <1>1, Standing, EncodeType
<1> DEFINE left == Len(batch) + 1 - i
<1>8. w + Lanes * left <= Len(mem)
  BY <1>4 DEF Bounds, SlackLeft
<1>a. left \in Nat /\ left >= 1 /\ Len(batch') + 1 - i' = left - 1
  BY <1>4, <1>6, <1>7
<1> HIDE DEF left
<1>b. w' + Lanes * (left - 1) <= Len(mem') /\ w' <= Len(mem')
  <2>1. Lanes * left = 4 * left /\ Lanes * (left - 1) = 4 * left - 4
    BY <1>a DEF Lanes
  <2>2. Len(Encode[p]) <= 4 /\ Len(Encode[p]) \in Nat
    BY <1>1, <1>7 DEF Lanes
  <2> QED BY <1>1, <1>6, <1>7, <1>8, <1>a, <2>1, <2>2
<1>9. w' + Lanes * (Len(batch') + 1 - i') <= Len(mem')
  BY <1>a, <1>b
<1>10. w' \in 0 .. Len(mem') /\ len' \in 0 .. Len(mem')
  BY <1>1, <1>4, <1>5, <1>7, <1>b
<1>11. TypeOK'
  BY <1>0, <1>3, <1>4, <1>5, <1>6, <1>10 DEF TypeOK, Cells
<1>12. Place'
  BY <1>4, <1>6, <1>7 DEF Bounds, Place
<1>13. SlackLeft' /\ PointersFresh' /\ InlineSound'
  BY <1>3, <1>4, <1>9 DEF Bounds, SlackLeft, PointersFresh, InlineSound, LanesHold
<1> QED BY <1>11, <1>12, <1>13 DEF Bounds

LEMMA GoSlowBounds ==
  ASSUME Bounds, GoSlow
  PROVE  Bounds'
<1>0. TypeOK
  BY DEF Bounds
<1>1. <<>> \in Seq(Tokens) /\ Len(<<>>) <= Lanes
  BY DEF Lanes
<1>2. Store(<<>>)
  BY DEF GoSlow
<1>3. mem' \in Seq(Cells) /\ Len(mem') = Len(mem)
  BY <1>0, <1>1, <1>2, Stored
<1>4. cache' = cache /\ memory' = memory
      /\ answer' \in Packed \cup {Missing, Elsewhere, Nothing}
  <2>1. Cache!Probe(batch[i]) \/ UNCHANGED short
    BY DEF GoSlow
  <2> QED BY <1>0, <2>1, AnswerType DEF short, TypeOK
<1>5. pc = "probe" /\ pc' = "slow" /\ i <= Len(batch)
      /\ batch' = batch /\ from' = from /\ i' = i /\ w' = w /\ ends' = ends
      /\ len' = len /\ place' = place /\ dst' = dst /\ table' = table
      /\ long' = long /\ arena' = arena
  BY DEF GoSlow, chunk
<1>6. TypeOK'
  BY <1>0, <1>3, <1>4, <1>5 DEF TypeOK, Cells
<1>7. Place' /\ SlackLeft' /\ PointersFresh' /\ InlineSound'
  BY <1>4, <1>5 DEF Bounds, Place, SlackLeft, PointersFresh, InlineSound, LanesHold
<1> QED BY <1>6, <1>7 DEF Bounds

------------------------------------------------------------------------------
(* Contents. *)

(* Arena offsets are never cut to 32 bits. *)
ArenaFits == MaxArena < OffsetWrap

Ranges == Len(arena) <= MaxArena /\ EntriesSound

CachedSound(p) ==
  IF cache[p].spill THEN RangeHolds(cache[p].at, cache[p].n, p) ELSE LanesHold(cache[p], p)
LongSound(p) == RangeHolds(long[p].at, long[p].n, p)

(* The j-th recorded cursor ends the tokens of the j-th pretoken. *)
CutAt(j) ==
  /\ ends[j] = SliceStart(j) + Len(Encode[batch[j]])
  /\ ends[j] <= w
  /\ \A x \in 1 .. Len(Encode[batch[j]]) : mem[SliceStart(j) + x] = Encode[batch[j]][x]

Cuts ==
  /\ Len(ends) = i - 1
  /\ SliceStart(i) = w
  /\ from <= w
  /\ \A j \in 1 .. Len(ends) : CutAt(j)

IInv == Bounds /\ Ranges /\ Cuts

(* A range of an arena stays when tokens are appended. *)
LEMMA RangeKept ==
  ASSUME NEW a \in Seq(Tokens), NEW t \in Seq(Tokens),
         NEW at \in Nat, NEW n \in Nat, at + n <= Len(a)
  PROVE  SubSeq(a \o t, at + 1, at + n) = SubSeq(a, at + 1, at + n)
<1>1. Len(a) \in Nat /\ a \o t \in Seq(Tokens)
  BY LenProperties, ConcatProperties
<1>2. CASE n = 0
  <2>1. at + n < at + 1
    BY <1>2
  <2> QED BY <2>1, SubSeqEmpty
<1>3. CASE n # 0
  <2>1. at + 1 \in 1 .. Len(a) /\ at + n \in 1 .. Len(a)
    BY <1>1, <1>3
  <2> QED BY <2>1, SubSeqOfConcat1
<1> QED BY <1>2, <1>3

(* Tokens just appended are found where the arena ended. *)
LEMMA RangeAdded ==
  ASSUME NEW a \in Seq(Tokens), NEW t \in Seq(Tokens)
  PROVE  /\ SubSeq(a \o t, Len(a) + 1, Len(a) + Len(t)) = t
         /\ Len(a \o t) = Len(a) + Len(t)
<1>1. Len(a) \in Nat /\ Len(t) \in Nat
  BY LenProperties
<1>2. a \o t \in Seq(Tokens) /\ Len(a \o t) = Len(a) + Len(t)
  BY ConcatProperties
<1>3. CASE Len(t) = 0
  <2>1. Len(a) + Len(t) < Len(a) + 1
    BY <1>1, <1>3
  <2>2. t = <<>>
    BY <1>3, EmptySeq
  <2> QED BY <1>1, <1>2, <2>1, <2>2, SubSeqEmpty
<1>4. CASE Len(t) # 0
  <2>1. /\ Len(a) + 1 \in Len(a) + 1 .. Len(a) + Len(t)
        /\ Len(a) + Len(t) \in Len(a) + 1 .. Len(a) + Len(t)
    BY <1>1, <1>4
  <2>2. (Len(a) + 1) - Len(a) = 1 /\ (Len(a) + Len(t)) - Len(a) = Len(t)
    BY <1>1
  <2>3. SubSeq(a \o t, Len(a) + 1, Len(a) + Len(t)) = SubSeq(t, 1, Len(t))
    BY <2>1, <2>2, SubSeqOfConcat2
  <2> QED BY <1>2, <2>3, SubSeqFull
<1> QED BY <1>3, <1>4

(* The arena grows by the tokens of p. *)
Grown(p) == arena' = arena \o Encode[p] /\ ArenaHolds(p)

LEMMA GrownRanges ==
  ASSUME TypeOK, ArenaFits, Ranges, NEW p \in Pretokens, Grown(p)
  PROVE  /\ Len(arena') <= MaxArena
         /\ arena' \in Seq(Tokens)
         /\ \A q \in Pretokens : \A at, n \in Nat :
              RangeHolds(at, n, q) => at + n <= Len(arena') /\ InArena(at, n)' = Encode[q]
         /\ ArenaEnd \in Nat
         /\ ArenaEnd + Len(Encode[p]) <= Len(arena')
         /\ SubSeq(arena', ArenaEnd + 1, ArenaEnd + Len(Encode[p])) = Encode[p]
<1>1. arena \in Seq(Tokens) /\ Encode[p] \in Seq(Tokens)
      /\ Len(arena) \in Nat /\ Len(Encode[p]) \in Nat
  BY EncodeType, LenProperties DEF TypeOK
<1>2. arena' = arena \o Encode[p] /\ Len(arena) + Len(Encode[p]) <= MaxArena
  BY DEF Grown, ArenaHolds
<1>3. arena' \in Seq(Tokens) /\ Len(arena') = Len(arena) + Len(Encode[p])
  BY <1>1, <1>2, ConcatProperties
<1>4. ASSUME NEW q \in Pretokens, NEW at \in Nat, NEW n \in Nat, RangeHolds(at, n, q)
      PROVE  at + n <= Len(arena') /\ InArena(at, n)' = Encode[q]
  <2>1. at + n <= Len(arena) /\ SubSeq(arena, at + 1, at + n) = Encode[q]
    BY <1>4 DEF RangeHolds, InArena
  <2>2. SubSeq(arena', at + 1, at + n) = Encode[q]
    BY <1>1, <1>2, <2>1, RangeKept
  <2> QED BY <1>1, <1>3, <2>1, <2>2 DEF InArena
<1>5. ArenaEnd = Len(arena)
  <2>1. Len(arena) < OffsetWrap /\ OffsetWrap \in Nat \ {0} /\ MaxArena \in Nat
    BY <1>1, EmitAssumption DEF ArenaFits, Ranges
  <2> QED BY <1>1, <2>1 DEF ArenaEnd
<1>6. SubSeq(arena', Len(arena) + 1, Len(arena) + Len(Encode[p])) = Encode[p]
  BY <1>1, <1>2, RangeAdded
<1> QED BY <1>1, <1>2, <1>3, <1>4, <1>5, <1>6

(* Where slices start, and how long they are. *)
LEMMA SliceType ==
  ASSUME Bounds, Cuts, NEW j \in 1 .. Len(ends)
  PROVE  /\ SliceStart(j) \in Nat /\ ends[j] \in Nat /\ w \in Nat
         /\ Len(Encode[batch[j]]) \in Nat
         /\ batch[j] \in Pretokens
<1>1. ends \in Seq(Nat) /\ from \in Nat /\ w \in Nat /\ Len(ends) \in Nat
  BY Standing, LenProperties DEF Bounds, TypeOK
<1>2. SliceStart(j) \in Nat
  <2>1. CASE j = 1
    BY <2>1, <1>1 DEF SliceStart
  <2>2. CASE j # 1
    <3>1. j - 1 \in 1 .. Len(ends)
      BY <1>1, <2>2
    <3>2. ends[j - 1] \in Nat
      BY <3>1, <1>1, ElementOfSeq
    <3> QED BY <2>2, <3>2 DEF SliceStart
  <2> QED BY <2>1, <2>2
<1>3. ends[j] \in Nat
  BY <1>1, ElementOfSeq
<1>4. batch[j] \in Pretokens
  <2>1. Len(batch) \in Nat /\ batch \in Seq(Pretokens) /\ i \in Nat
    BY Standing DEF Bounds
  <2>2. Len(ends) = i - 1 /\ i <= Len(batch) + 1
    BY <2>1 DEF Bounds, Place, Cuts
  <2>3. j \in 1 .. Len(batch)
    BY <2>1, <2>2
  <2> QED BY <2>1, <2>3, ElementOfSeq
<1> QED BY <1>1, <1>2, <1>3, <1>4, EncodeType

(* An emitting step records one more cut. *)
LEMMA EmitsCuts ==
  ASSUME Bounds, Cuts, i <= Len(batch), batch[i] \in Pretokens, Emits(batch[i])
  PROVE  Cuts'
<1> DEFINE L == Len(Encode[batch[i]])
<1>1. /\ i \in Nat \ {0} /\ w \in Nat /\ L \in Nat /\ from \in Nat
      /\ ends \in Seq(Nat) /\ Len(ends) \in Nat
  BY Standing, EncodeType, LenProperties DEF Bounds, TypeOK
<1>2. /\ \A x \in 1 .. w : mem'[x] = mem[x]
      /\ \A x \in 1 .. L : mem'[w + x] = Encode[batch[i]][x]
      /\ w' = w + L /\ i' = i + 1 /\ batch' = batch /\ from' = from
      /\ ends' = Append(ends, w')
  BY DEF Emits
<1>3. Len(ends) = i - 1 /\ SliceStart(i) = w /\ from <= w
  BY DEF Cuts
<1>4. w' \in Nat /\ w <= w'
  BY <1>1, <1>2
<1>5. /\ Len(ends') = i
      /\ \A j \in 1 .. i - 1 : ends'[j] = ends[j]
      /\ ends'[i] = w'
  BY <1>1, <1>2, <1>3, <1>4, AppendProperties
<1>6. \A j \in 1 .. i : SliceStart(j)' = SliceStart(j)
  <2> SUFFICES ASSUME NEW j \in 1 .. i
               PROVE  SliceStart(j)' = SliceStart(j)
    OBVIOUS
  <2>1. CASE j = 1
    BY <2>1, <1>2 DEF SliceStart
  <2>2. CASE j # 1
    <3>1. j - 1 \in 1 .. i - 1
      BY <1>1, <2>2
    <3> QED BY <2>2, <3>1, <1>5 DEF SliceStart
  <2> QED BY <2>1, <2>2
<1> HIDE DEF L
<1>7. SliceStart(i)' = w'
  <2>1. i' # 1 /\ i' - 1 = i
    BY <1>1, <1>2
  <2>2. SliceStart(i)' = ends'[i]
    BY <2>1 DEF SliceStart
  <2> QED BY <2>2, <1>5
<1>8. ASSUME NEW j \in 1 .. i
      PROVE  CutAt(j)'
  <2>1. CASE j = i
    <3>1. SliceStart(j)' = w /\ ends'[j] = w' /\ batch' = batch
      BY <1>2, <1>3, <1>5, <1>6, <2>1
    <3>2. ends'[j] = SliceStart(j)' + Len(Encode[batch'[j]])
      BY <1>2, <2>1, <3>1 DEF L
    <3>3. \A x \in 1 .. Len(Encode[batch'[j]]) : mem'[SliceStart(j)' + x] = Encode[batch'[j]][x]
      BY <1>2, <2>1, <3>1 DEF L
    <3>4. ends'[j] <= w'
      BY <3>1, <1>4
    <3> QED BY <3>2, <3>3, <3>4 DEF CutAt
  <2>2. CASE j # i
    <3>1. j \in 1 .. i - 1 /\ j \in 1 .. Len(ends)
      BY <1>1, <1>3, <2>2
    <3>2. /\ ends[j] = SliceStart(j) + Len(Encode[batch[j]]) /\ ends[j] <= w
          /\ \A x \in 1 .. Len(Encode[batch[j]]) : mem[SliceStart(j) + x] = Encode[batch[j]][x]
      BY <3>1 DEF Cuts, CutAt
    <3>3. SliceStart(j)' = SliceStart(j) /\ ends'[j] = ends[j] /\ batch'[j] = batch[j]
      BY <1>2, <1>5, <1>6, <3>1
    <3>4. SliceStart(j) \in Nat /\ ends[j] \in Nat /\ Len(Encode[batch[j]]) \in Nat
      BY <3>1, SliceType
    <3>5. ASSUME NEW x \in 1 .. Len(Encode[batch[j]])
          PROVE  mem'[SliceStart(j) + x] = Encode[batch[j]][x]
      <4>1. SliceStart(j) + x \in 1 .. w
        <5>1. SliceStart(j) + Len(Encode[batch[j]]) <= w
          BY <3>2
        <5>2. x \in Nat /\ 1 <= x /\ x <= Len(Encode[batch[j]])
          BY <3>4
        <5>3. SliceStart(j) \in Nat /\ Len(Encode[batch[j]]) \in Nat
          BY <3>4
        <5>4. w \in Nat
          BY <1>1
        <5> QED BY <5>1, <5>2, <5>3, <5>4
      <4> QED BY <4>1, <1>2, <3>2
    <3>6. ends'[j] <= w'
      BY <1>1, <1>4, <3>2, <3>3, <3>4
    <3> QED BY <3>2, <3>3, <3>5, <3>6 DEF CutAt
  <2> QED BY <2>1, <2>2
<1>9. Len(ends') = i' - 1 /\ from' <= w'
  BY <1>1, <1>2, <1>3, <1>4, <1>5
<1>10. \A j \in 1 .. Len(ends') : CutAt(j)'
  BY <1>5, <1>8
<1> QED BY <1>7, <1>9, <1>10 DEF Cuts

(* What the slow path does for pretoken p. *)
Slow(p) == Finish(Encode[p]) /\ Bounds' /\ Ranges'

LEMMA SlowHitStep ==
  ASSUME Bounds, Ranges, SlowHit
  PROVE  Slow(batch[i])
<1> DEFINE p == batch[i]
<1>1. pc = "slow" /\ p \in Short /\ Cache!Lookup(p) /\ answer' # Missing
      /\ Finish(TokensOf(answer')) /\ long' = long /\ arena' = arena
  BY DEF SlowHit
<1>2. p \in Pretokens
  BY <1>1, EmitAssumption
<1> HIDE DEF p
<1>3. p \in DOMAIN cache /\ answer' = cache[p]
  BY <1>1 DEF Cache!Lookup
<1>4. TokensOf(cache[p]) = Encode[p]
  <2>1. CASE cache[p].spill
    BY <1>3, <2>1 DEF Ranges, EntriesSound, RangeHolds, TokensOf
  <2>2. CASE ~cache[p].spill
    BY <1>3, <2>2 DEF Ranges, EntriesSound, LanesHold, TokensOf
  <2> QED BY <2>1, <2>2
<1>5. Finish(Encode[p])
  BY <1>1, <1>3, <1>4
<1>6. cache' = cache /\ memory' = memory
      /\ answer' \in Packed \cup {Missing, Elsewhere, Nothing}
  BY <1>1, AnswerType DEF Bounds
<1>7. InlineSound' /\ Ranges'
  BY <1>1, <1>6 DEF Bounds, InlineSound, LanesHold, Ranges, EntriesSound, RangeHolds, InArena
<1>8. Bounds'
  BY <1>1, <1>2, <1>5, <1>6, <1>7, FinishBounds DEF Bounds, TypeOK
<1> QED BY <1>5, <1>7, <1>8 DEF Slow, p

LEMMA LongHitStep ==
  ASSUME Bounds, Ranges, LongHit
  PROVE  Slow(batch[i])
<1> DEFINE p == batch[i]
<1>1. pc = "slow" /\ p \in DOMAIN long
      /\ Finish(InArena(long[p].at, long[p].n))
      /\ cache' = cache /\ memory' = memory /\ answer' = answer
      /\ long' = long /\ arena' = arena
  BY DEF LongHit, short
<1>2. p \in Pretokens
  BY <1>1, EmitAssumption DEF Bounds, TypeOK
<1> HIDE DEF p
<1>3. Finish(Encode[p])
  BY <1>1 DEF Ranges, EntriesSound, RangeHolds
<1>4. InlineSound' /\ Ranges'
  BY <1>1 DEF Bounds, InlineSound, LanesHold, Ranges, EntriesSound, RangeHolds, InArena
<1>5. Bounds'
  BY <1>1, <1>2, <1>3, <1>4, FinishBounds DEF Bounds, TypeOK
<1> QED BY <1>3, <1>4, <1>5 DEF Slow, p

LEMMA SlowMissStep ==
  ASSUME Bounds, ArenaFits, Ranges, SlowMiss
  PROVE  Slow(batch[i])
<1> DEFINE p == batch[i]
<1>1. pc = "slow" /\ p \in Short /\ ArenaHolds(p) /\ Cache!Put(p, PackVal(p))
      /\ arena' = (IF p \in Inline THEN arena ELSE arena \o Encode[p])
      /\ Finish(Encode[p]) /\ long' = long
  BY DEF SlowMiss
<1>0. TypeOK
  BY DEF Bounds
<1> HIDE DEF p
<1>2. p \in Pretokens
  BY <1>1, EmitAssumption
<1>3. /\ memory' \in Nat \ {0} /\ DOMAIN cache' \subseteq Short
      /\ \A q \in DOMAIN cache' : cache'[q] \in Packed
      /\ answer' = Nothing /\ InlineSound'
  BY <1>1, PutSound
<1>4. /\ DOMAIN cache' = DOMAIN cache \cup {p}
      /\ cache'[p] = PackVal(p)
      /\ \A q \in DOMAIN cache : q # p => cache'[q] = cache[q]
  BY <1>1 DEF Cache!Put
<1>5. /\ Len(arena') <= MaxArena /\ arena' \in Seq(Tokens)
      /\ \A q \in Pretokens : \A at, n \in Nat :
           RangeHolds(at, n, q) => at + n <= Len(arena') /\ InArena(at, n)' = Encode[q]
  <2>1. CASE p \in Inline
    <3>1. arena' = arena
      BY <1>1, <2>1
    <3> QED BY <3>1, <1>0 DEF Ranges, TypeOK, RangeHolds, InArena
  <2>2. CASE p \notin Inline
    <3>1. Grown(p)
      BY <1>1, <2>2 DEF Grown
    <3> QED BY <3>1, <1>0, <1>2, GrownRanges
  <2> QED BY <2>1, <2>2
<1>6. ASSUME NEW q \in DOMAIN cache'
      PROVE  CachedSound(q)'
  <2>1. CASE q = p /\ p \in Inline
    <3>1. cache'[q] = PackVal(p) /\ ~PackVal(p).spill /\ LanesHold(PackVal(p), p)
      BY <1>0, <1>1, <1>4, <2>1, PackType DEF PackVal
    <3> QED BY <2>1, <3>1 DEF CachedSound, LanesHold
  <2>2. CASE q = p /\ p \notin Inline
    <3>1. Grown(p)
      BY <1>1, <2>2 DEF Grown
    <3>2. /\ ArenaEnd + Len(Encode[p]) <= Len(arena')
          /\ SubSeq(arena', ArenaEnd + 1, ArenaEnd + Len(Encode[p])) = Encode[p]
      BY <3>1, <1>0, <1>2, GrownRanges
    <3>3. cache'[q] = PackVal(p)
      BY <1>4, <2>2
    <3>4. PackVal(p).spill = TRUE
      BY <2>2 DEF PackVal
    <3>5. PackVal(p).at = ArenaEnd /\ PackVal(p).n = Len(Encode[p])
      BY <2>2 DEF PackVal
    <3> QED BY <2>2, <3>2, <3>3, <3>4, <3>5 DEF CachedSound, RangeHolds, InArena
  <2>3. CASE q # p
    <3>1. q \in DOMAIN cache /\ cache'[q] = cache[q]
      BY <1>4, <2>3
    <3>2. q \in Pretokens /\ cache[q] \in Packed
      BY <1>0, <3>1, EmitAssumption DEF TypeOK
    <3>3. cache[q].at \in Nat /\ cache[q].n \in Nat
      BY <3>2 DEF Packed
    <3>4. CachedSound(q)
      BY <3>1 DEF Ranges, EntriesSound, CachedSound
    <3>5. CASE cache[q].spill
      <4>1. RangeHolds(cache[q].at, cache[q].n, q)
        BY <3>4, <3>5 DEF CachedSound
      <4>2. /\ cache[q].at + cache[q].n <= Len(arena')
            /\ SubSeq(arena', cache[q].at + 1, cache[q].at + cache[q].n) = Encode[q]
        BY <1>5, <3>2, <3>3, <4>1 DEF InArena
      <4> QED BY <3>1, <3>5, <4>2 DEF CachedSound, RangeHolds, InArena
    <3>6. CASE ~cache[q].spill
      BY <3>1, <3>4, <3>6 DEF CachedSound, LanesHold
    <3> QED BY <3>5, <3>6
  <2> QED BY <2>1, <2>2, <2>3
<1>7. ASSUME NEW q \in DOMAIN long'
      PROVE  LongSound(q)'
  <2>1. q \in Pretokens /\ long[q].at \in Nat /\ long[q].n \in Nat
    BY <1>0, <1>1, EmitAssumption DEF TypeOK
  <2>2. RangeHolds(long[q].at, long[q].n, q)
    BY <1>1 DEF Ranges, EntriesSound
  <2>3. /\ long[q].at + long[q].n <= Len(arena')
        /\ SubSeq(arena', long[q].at + 1, long[q].at + long[q].n) = Encode[q]
    BY <1>5, <2>1, <2>2 DEF InArena
  <2> QED BY <1>1, <2>3 DEF LongSound, RangeHolds, InArena
<1>8. Ranges'
  BY <1>5, <1>6, <1>7 DEF Ranges, EntriesSound, CachedSound, LongSound
<1>9. Bounds'
  BY <1>0, <1>1, <1>2, <1>3, <1>5, FinishBounds DEF TypeOK
<1> QED BY <1>1, <1>8, <1>9 DEF Slow, p

LEMMA LongMissStep ==
  ASSUME Bounds, ArenaFits, Ranges, LongMiss, i <= Len(batch)
  PROVE  Slow(batch[i])
<1> DEFINE p == batch[i]
<1>1. pc = "slow" /\ p \notin DOMAIN long /\ ArenaHolds(p) /\ Finish(Encode[p])
      /\ cache' = cache /\ memory' = memory /\ answer' = answer
  BY DEF LongMiss, short
<1>2. \/ /\ p \in Memoized /\ arena' = arena \o Encode[p]
         /\ long' = [x \in DOMAIN long \cup {p} |->
                       IF x = p THEN [at |-> ArenaEnd, n |-> Len(Encode[p])] ELSE long[x]]
      \/ p \notin Memoized /\ arena' = arena /\ long' = long
  BY DEF LongMiss
<1>0. TypeOK
  BY DEF Bounds
<1>3. p \in Pretokens
  BY <1>0, Standing
<1> HIDE DEF p
<1>4. /\ Len(arena') <= MaxArena /\ arena' \in Seq(Tokens)
      /\ \A q \in Pretokens : \A at, n \in Nat :
           RangeHolds(at, n, q) => at + n <= Len(arena') /\ InArena(at, n)' = Encode[q]
  <2>1. CASE p \in Memoized
    <3>1. Grown(p)
      BY <1>1, <1>2, <2>1 DEF Grown
    <3> QED BY <3>1, <1>0, <1>3, GrownRanges
  <2>2. CASE p \notin Memoized
    <3>1. arena' = arena
      BY <1>2, <2>2
    <3> QED BY <3>1, <1>0 DEF Ranges, TypeOK, RangeHolds, InArena
  <2> QED BY <2>1, <2>2
<1>5. ASSUME NEW q \in DOMAIN long'
      PROVE  long'[q] \in [at : Nat, n : Nat] /\ q \in Memoized /\ LongSound(q)'
  <2>1. CASE q \in DOMAIN long
    <3>1. long'[q] = long[q]
      BY <1>1, <1>2, <2>1
    <3>2. q \in Pretokens /\ q \in Memoized /\ long[q] \in [at : Nat, n : Nat]
      BY <1>0, <2>1, EmitAssumption DEF TypeOK
    <3>3. RangeHolds(long[q].at, long[q].n, q)
      BY <2>1 DEF Ranges, EntriesSound
    <3>4. /\ long[q].at + long[q].n <= Len(arena')
          /\ SubSeq(arena', long[q].at + 1, long[q].at + long[q].n) = Encode[q]
      BY <1>4, <3>2, <3>3 DEF InArena
    <3> QED BY <3>1, <3>2, <3>4 DEF LongSound, RangeHolds, InArena
  <2>2. CASE q \notin DOMAIN long
    <3>1. q = p /\ p \in Memoized /\ long'[q] = [at |-> ArenaEnd, n |-> Len(Encode[p])]
          /\ arena' = arena \o Encode[p]
      BY <1>2, <2>2
    <3>2. Grown(p)
      BY <1>1, <3>1 DEF Grown
    <3>3. /\ ArenaEnd \in Nat
          /\ ArenaEnd + Len(Encode[p]) <= Len(arena')
          /\ SubSeq(arena', ArenaEnd + 1, ArenaEnd + Len(Encode[p])) = Encode[p]
      BY <3>2, <1>0, <1>3, GrownRanges
    <3>4. Len(Encode[p]) \in Nat
      BY <1>3, EncodeType
    <3>5. long'[q].at = ArenaEnd /\ long'[q].n = Len(Encode[p])
      BY <3>1
    <3> QED BY <3>1, <3>3, <3>4, <3>5 DEF LongSound, RangeHolds, InArena
  <2> QED BY <2>1, <2>2
<1>6. ASSUME NEW q \in DOMAIN cache'
      PROVE  CachedSound(q)'
  <2>1. q \in Pretokens /\ cache[q] \in Packed
    BY <1>0, <1>1, EmitAssumption DEF TypeOK
  <2>2. cache[q].at \in Nat /\ cache[q].n \in Nat
    BY <2>1 DEF Packed
  <2>3. CachedSound(q)
    BY <1>1 DEF Ranges, EntriesSound, CachedSound
  <2>4. CASE cache[q].spill
    <3>1. RangeHolds(cache[q].at, cache[q].n, q)
      BY <2>3, <2>4 DEF CachedSound
    <3>2. /\ cache[q].at + cache[q].n <= Len(arena')
          /\ SubSeq(arena', cache[q].at + 1, cache[q].at + cache[q].n) = Encode[q]
      BY <1>4, <2>1, <2>2, <3>1 DEF InArena
    <3> QED BY <1>1, <2>4, <3>2 DEF CachedSound, RangeHolds, InArena
  <2>5. CASE ~cache[q].spill
    BY <1>1, <2>3, <2>5 DEF CachedSound, LanesHold
  <2> QED BY <2>4, <2>5
<1>7. Ranges'
  BY <1>4, <1>5, <1>6 DEF Ranges, EntriesSound, CachedSound, LongSound
<1>8. InlineSound'
  BY <1>1 DEF Bounds, InlineSound, LanesHold
<1>9. Bounds'
  <2>1. DOMAIN cache' \subseteq Short /\ \A q \in DOMAIN cache' : cache'[q] \in Packed
    BY <1>0, <1>1 DEF TypeOK
  <2>2. DOMAIN long' \subseteq Memoized /\ \A q \in DOMAIN long' : long'[q] \in [at : Nat, n : Nat]
    BY <1>5
  <2>3. memory' \in Nat \ {0} /\ answer' \in Packed \cup {Missing, Elsewhere, Nothing}
    BY <1>0, <1>1 DEF TypeOK
  <2> QED BY <1>1, <1>3, <1>4, <1>8, <2>1, <2>2, <2>3, FinishBounds
<1> QED BY <1>1, <1>7, <1>9 DEF Slow, p

(* The entries do not change. *)
LEMMA RangesSame ==
  ASSUME Ranges, cache' = cache, long' = long, arena' = arena
  PROVE  Ranges'
BY DEF Ranges, EntriesSound, RangeHolds, LanesHold, InArena

LEMMA EndChunkStep ==
  ASSUME IInv, EndChunk
  PROVE  IInv'
<1>1. /\ pc = "probe" /\ i > Len(batch) /\ len' = w /\ from' = w /\ batch' = <<>>
      /\ ends' = <<>> /\ i' = 1 /\ pc' = "fill"
      /\ mem' = mem /\ place' = place /\ w' = w /\ dst' = dst /\ table' = table
      /\ cache' = cache /\ memory' = memory /\ answer' = answer
      /\ long' = long /\ arena' = arena
  BY DEF EndChunk, short
<1>2. TypeOK'
  BY <1>1, Standing DEF IInv, Bounds, TypeOK
<1>3. Place' /\ SlackLeft' /\ PointersFresh' /\ InlineSound'
  BY <1>1, EmitAssumption, Standing
     DEF IInv, Bounds, Place, SlackLeft, PointersFresh, InlineSound, LanesHold
<1>4. Cuts'
  BY <1>1, Standing DEF IInv, Bounds, Cuts, SliceStart
<1>5. Ranges'
  BY <1>1, RangesSame DEF IInv
<1> QED BY <1>2, <1>3, <1>4, <1>5 DEF IInv, Bounds

LEMMA TakeStep ==
  ASSUME IInv, Take
  PROVE  IInv'
<1>1. /\ pc = "fill" /\ pc' = pc /\ len' = 0 /\ w' = 0 /\ from' = 0
      /\ batch' = batch /\ ends' = ends /\ i' = i
      /\ dst' = dst /\ table' = table
      /\ cache' = cache /\ memory' = memory /\ answer' = answer
      /\ long' = long /\ arena' = arena
  BY DEF Take, short
<1>2. mem' \in Seq(Cells) /\ place' \in Places /\ Len(mem') \in Nat
  <2>1. Len(mem) \in Nat /\ place \in Places
    BY Standing DEF IInv, Bounds, TypeOK
  <2>2. CASE mem' = [x \in 1 .. Len(mem) |-> Garbage] /\ place' = place
    BY <2>1, <2>2, GarbageType
  <2>3. CASE mem' = <<>> /\ place' \in Places
    BY <2>3
  <2> QED BY <2>2, <2>3 DEF Take
<1>3. TypeOK'
  BY <1>1, <1>2 DEF IInv, Bounds, TypeOK, Cells
<1>4. i = 1 /\ ends = <<>>
  BY <1>1 DEF IInv, Bounds, Place
<1>5. Place' /\ SlackLeft' /\ PointersFresh' /\ InlineSound'
  BY <1>1 DEF IInv, Bounds, Place, SlackLeft, PointersFresh, InlineSound, LanesHold
<1>6. Cuts'
  BY <1>1, <1>4 DEF Cuts, SliceStart
<1>7. Ranges'
  BY <1>1, RangesSame DEF IInv
<1> QED BY <1>3, <1>5, <1>6, <1>7 DEF IInv, Bounds

LEMMA FillStep ==
  ASSUME IInv, Fill
  PROVE  IInv'
<1>1. Bounds'
  BY FillBounds DEF IInv
<1>2. /\ from' = len /\ w' = len /\ ends' = <<>> /\ i' = 1
      /\ cache' = cache /\ long' = long /\ arena' = arena
  BY DEF Fill, short
<1>3. Cuts'
  BY <1>2, Standing DEF IInv, Bounds, Cuts, SliceStart
<1>4. Ranges'
  BY <1>2, RangesSame DEF IInv
<1> QED BY <1>1, <1>3, <1>4 DEF IInv

LEMMA GoSlowStep ==
  ASSUME IInv, GoSlow
  PROVE  IInv'
<1>1. Bounds'
  BY GoSlowBounds DEF IInv
<1>2. /\ batch' = batch /\ from' = from /\ i' = i /\ w' = w /\ ends' = ends
      /\ cache' = cache /\ long' = long /\ arena' = arena
  <2>1. UNCHANGED short \/ Cache!Probe(batch[i])
    BY DEF GoSlow
  <2>2. cache' = cache
    BY <2>1, AnswerType DEF short, IInv, Bounds
  <2> QED BY <2>2 DEF GoSlow, chunk
<1>3. Store(<<>>)
  BY DEF GoSlow
<1>4. \A x \in 1 .. w : mem'[x] = mem[x]
  <2>1. <<>> \in Seq(Tokens) /\ Len(<<>>) <= Lanes
    BY DEF Lanes
  <2> QED BY <1>3, <2>1, Stored DEF IInv, Bounds
<1>5. Ranges'
  BY <1>2, RangesSame DEF IInv
<1>6. Cuts'
  <2>1. \A j : SliceStart(j)' = SliceStart(j)
    BY <1>2 DEF SliceStart
  <2>2. ASSUME NEW j \in 1 .. Len(ends)
        PROVE  CutAt(j)'
    <3>1. /\ ends[j] = SliceStart(j) + Len(Encode[batch[j]]) /\ ends[j] <= w
          /\ \A x \in 1 .. Len(Encode[batch[j]]) : mem[SliceStart(j) + x] = Encode[batch[j]][x]
      BY DEF IInv, Cuts, CutAt
    <3>2. SliceStart(j) \in Nat /\ Len(Encode[batch[j]]) \in Nat /\ w \in Nat
      BY SliceType DEF IInv
    <3>3. ASSUME NEW x \in 1 .. Len(Encode[batch[j]])
          PROVE  mem'[SliceStart(j) + x] = Encode[batch[j]][x]
      <4>1. SliceStart(j) + x \in 1 .. w
        BY <3>1, <3>2
      <4> QED BY <4>1, <1>4, <3>1
    <3> QED BY <1>2, <2>1, <3>1, <3>3 DEF CutAt
  <2> QED BY <1>2, <2>1, <2>2 DEF IInv, Cuts
<1> QED BY <1>1, <1>5, <1>6 DEF IInv

LEMMA InitHolds == Init => IInv
<1> SUFFICES ASSUME Init PROVE IInv
  OBVIOUS
<1>1. /\ batch = <<>> /\ ends = <<>> /\ mem = <<>> /\ arena = <<>>
      /\ i = 1 /\ pc = "fill" /\ len = 0 /\ w = 0 /\ from = 0 /\ memory = 1 /\ table = 1
      /\ place \in Places /\ dst = place /\ answer = Nothing
  BY DEF Init
<1>2. DOMAIN cache = {} /\ DOMAIN long = {}
  BY DEF Init
<1>3. TypeOK
  BY <1>1, <1>2 DEF TypeOK
<1>4. Place /\ SlackLeft /\ PointersFresh /\ InlineSound
  BY <1>1, <1>2, EmitAssumption DEF Place, SlackLeft, PointersFresh, InlineSound
<1>5. Ranges
  BY <1>1, <1>2, EmitAssumption DEF Ranges, EntriesSound
<1>6. Cuts
  BY <1>1 DEF Cuts, SliceStart
<1> QED BY <1>3, <1>4, <1>5, <1>6 DEF IInv, Bounds

(* A slow step emits, and keeps the invariant. *)
LEMMA SlowStep ==
  ASSUME IInv, ArenaFits, SlowHit \/ SlowMiss \/ LongHit \/ LongMiss
  PROVE  Emits(batch[i]) /\ batch[i] \in Pretokens /\ IInv'
<1>1. pc = "slow"
  BY DEF SlowHit, SlowMiss, LongHit, LongMiss
<1>2. i <= Len(batch) /\ batch[i] \in Pretokens
  BY <1>1, Standing DEF IInv, Bounds, Place
<1>3. Slow(batch[i])
  BY <1>2, SlowHitStep, SlowMissStep, LongHitStep, LongMissStep DEF IInv
<1>4. Emits(batch[i])
  BY <1>2, <1>3, Finished DEF IInv, Bounds, Slow
<1>5. Cuts'
  BY <1>2, <1>4, EmitsCuts DEF IInv
<1> QED BY <1>2, <1>3, <1>4, <1>5 DEF IInv, Slow

LEMMA FastStep ==
  ASSUME IInv, EmitFast
  PROVE  Emits(batch[i]) /\ batch[i] \in Pretokens /\ IInv'
<1>1. Emits(batch[i]) /\ batch[i] \in Pretokens /\ Bounds'
  BY FastEmits, EmitFastBounds DEF IInv
<1>2. i <= Len(batch) /\ long' = long /\ arena' = arena /\ cache' = cache
  <2>1. Cache!Probe(batch[i])
    BY DEF EmitFast
  <2> QED BY <2>1, AnswerType DEF EmitFast, IInv, Bounds
<1>3. Cuts'
  BY <1>1, <1>2, EmitsCuts DEF IInv
<1>4. Ranges'
  BY <1>2, RangesSame DEF IInv
<1> QED BY <1>1, <1>3, <1>4 DEF IInv

LEMMA StutterStep ==
  ASSUME IInv, UNCHANGED vars
  PROVE  IInv'
<1>1. /\ batch' = batch /\ from' = from /\ i' = i /\ pc' = pc /\ mem' = mem
      /\ place' = place /\ len' = len /\ w' = w /\ ends' = ends /\ dst' = dst
      /\ table' = table /\ cache' = cache /\ memory' = memory /\ answer' = answer
      /\ long' = long /\ arena' = arena
  BY DEF vars, chunk, short
<1>2. TypeOK'
  BY <1>1 DEF IInv, Bounds, TypeOK
<1>3. Place' /\ SlackLeft' /\ PointersFresh' /\ InlineSound'
  BY <1>1 DEF IInv, Bounds, Place, SlackLeft, PointersFresh, InlineSound, LanesHold
<1>4. Ranges'
  BY <1>1, RangesSame DEF IInv
<1>5. Cuts'
  <2>1. \A j : SliceStart(j)' = SliceStart(j)
    BY <1>1 DEF SliceStart
  <2> QED BY <1>1, <2>1 DEF IInv, Cuts, CutAt
<1> QED BY <1>2, <1>3, <1>4, <1>5 DEF IInv, Bounds

(* The inductive invariant of the loop. *)
THEOREM Inductive ==
  ASSUME ArenaFits
  PROVE  Spec => []IInv
<1>1. IInv /\ [Next]_vars => IInv'
  <2> SUFFICES ASSUME IInv, [Next]_vars
               PROVE  IInv'
    OBVIOUS
  <2>1. CASE Fill
    BY <2>1, FillStep
  <2>2. CASE EmitFast
    BY <2>2, FastStep
  <2>3. CASE GoSlow
    BY <2>3, GoSlowStep
  <2>4. CASE EndChunk
    BY <2>4, EndChunkStep
  <2>5. CASE Take
    BY <2>5, TakeStep
  <2>6. CASE SlowHit \/ SlowMiss \/ LongHit \/ LongMiss
    BY <2>6, SlowStep
  <2>7. CASE UNCHANGED vars
    BY <2>7, StutterStep
  <2> QED BY <2>1, <2>2, <2>3, <2>4, <2>5, <2>6, <2>7 DEF Next
<1> QED BY InitHolds, <1>1, PTL DEF Spec

(* Every variable of the loop keeps its type. *)
THEOREM TypeCorrect ==
  ASSUME ArenaFits
  PROVE  Spec => []TypeOK
<1>1. IInv => TypeOK
  BY DEF IInv, Bounds
<1> QED BY Inductive, <1>1, PTL

(* Every unchecked store of probe_emit_chunk is in bounds. *)
THEOREM StoresInBounds ==
  ASSUME ArenaFits
  PROVE  Spec => []SlackLeft
<1>1. IInv => SlackLeft
  BY DEF IInv, Bounds
<1> QED BY Inductive, <1>1, PTL

(* The loop never uses a pointer that a growth has left behind. *)
THEOREM PointersAreFresh ==
  ASSUME ArenaFits
  PROVE  Spec => []PointersFresh
<1>1. IInv => PointersFresh
  BY DEF IInv, Bounds
<1> QED BY Inductive, <1>1, PTL

(* Cached values and arena ranges hold the tokens of their keys. *)
THEOREM EntriesAreSound ==
  ASSUME ArenaFits
  PROVE  Spec => []EntriesSound
<1>1. IInv => EntriesSound
  BY DEF IInv, Ranges
<1> QED BY Inductive, <1>1, PTL

LEMMA SliceIs ==
  ASSUME NEW m \in Seq(Cells), NEW a \in Nat, NEW q \in Seq(Cells),
         a + Len(q) <= Len(m), \A x \in 1 .. Len(q) : m[a + x] = q[x]
  PROVE  SubSeq(m, a + 1, a + Len(q)) = q
<1> DEFINE s == SubSeq(m, a + 1, a + Len(q))
<1>1. Len(m) \in Nat /\ Len(q) \in Nat
  BY LenProperties
<1>2. \A x \in a + 1 .. a + Len(q) : m[x] \in Cells
  <2> SUFFICES ASSUME NEW x \in a + 1 .. a + Len(q)
               PROVE  m[x] \in Cells
    OBVIOUS
  <2>1. x \in 1 .. Len(m)
    BY <1>1
  <2> QED BY <2>1, ElementOfSeq
<1>3. /\ s \in Seq(Cells) /\ Len(s) = Len(q)
      /\ \A x \in 1 .. (a + Len(q)) - (a + 1) + 1 : s[x] = m[(a + 1) + x - 1]
  BY <1>1, <1>2, SubSeqProperties
<1> HIDE DEF s
<1>4. \A x \in 1 .. Len(s) : s[x] = q[x]
  <2> SUFFICES ASSUME NEW x \in 1 .. Len(q)
               PROVE  s[x] = q[x]
    BY <1>3
  <2>1. x \in 1 .. (a + Len(q)) - (a + 1) + 1 /\ (a + 1) + x - 1 = a + x
    BY <1>1
  <2> QED BY <1>3, <2>1
<1>5. s = q
  BY <1>3, <1>4, SeqEqual
<1> QED BY <1>5 DEF s

(* memoized_encode hands out the tokens of each pretoken. *)
THEOREM SlicesAreEncodings ==
  ASSUME ArenaFits
  PROVE  Spec => []SlicesMatch
<1>1. ASSUME IInv
      PROVE  SlicesMatch
  <2> SUFFICES ASSUME NEW j \in 1 .. Len(ends)
               PROVE  SubSeq(mem, SliceStart(j) + 1, ends[j]) = Encode[batch[j]]
    BY DEF SlicesMatch
  <2> DEFINE q == Encode[batch[j]]
  <2>1. /\ ends[j] = SliceStart(j) + Len(q) /\ ends[j] <= w
        /\ \A x \in 1 .. Len(q) : mem[SliceStart(j) + x] = q[x]
    BY <1>1 DEF IInv, Cuts, CutAt
  <2>2. SliceStart(j) \in Nat /\ batch[j] \in Pretokens /\ ends[j] \in Nat
    BY <1>1, SliceType DEF IInv
  <2>3. q \in Seq(Cells)
    BY <2>2, EncodeType
  <2> HIDE DEF q
  <2>4. mem \in Seq(Cells) /\ w <= Len(mem) /\ w \in Nat /\ Len(mem) \in Nat
    BY <1>1, Standing DEF IInv, Bounds
  <2>5. SliceStart(j) + Len(q) <= Len(mem)
    BY <2>1, <2>2, <2>4
  <2>6. SubSeq(mem, SliceStart(j) + 1, SliceStart(j) + Len(q)) = q
    BY <2>1, <2>2, <2>3, <2>4, <2>5, SliceIs
  <2> QED BY <2>1, <2>6 DEF q
<1> QED BY Inductive, <1>1, PTL

------------------------------------------------------------------------------
(* The loop implements the stream. *)

LEMMA EmitsAppends ==
  ASSUME TypeOK, NEW p \in Pretokens, Emits(p), w' <= Len(mem')
  PROVE  SubSeq(mem, 1, w)' = SubSeq(mem, 1, w) \o Encode[p]
<1> DEFINE s == SubSeq(mem, 1, w)
           t == SubSeq(mem', 1, w')
           L == Len(Encode[p])
<1>1. /\ mem' \in Seq(Cells) /\ w' = w + L
      /\ \A x \in 1 .. w : mem'[x] = mem[x]
      /\ \A x \in 1 .. L : mem'[w + x] = Encode[p][x]
  BY DEF Emits
<1>2. mem \in Seq(Cells) /\ w \in 0 .. Len(mem) /\ w \in Nat
  BY Standing
<1>3. Encode[p] \in Seq(Cells) /\ L \in Nat
  BY EncodeType
<1>4. w' \in 0 .. Len(mem')
  BY <1>1, <1>2, <1>3, LenProperties
<1>5. s \in Seq(Cells) /\ Len(s) = w /\ \A x \in 1 .. w : s[x] = mem[x]
  BY <1>2, ContentType
<1>6. t \in Seq(Cells) /\ Len(t) = w' /\ \A x \in 1 .. w' : t[x] = mem'[x]
  BY <1>1, <1>4, ContentType
<1> HIDE DEF s, t
<1>7. /\ s \o Encode[p] \in Seq(Cells) /\ Len(s \o Encode[p]) = w + L
      /\ \A x \in 1 .. w + L :
           (s \o Encode[p])[x] = IF x <= w THEN s[x] ELSE Encode[p][x - w]
  BY <1>3, <1>5, ConcatProperties
<1>8. \A x \in 1 .. Len(t) : t[x] = (s \o Encode[p])[x]
  <2> SUFFICES ASSUME NEW x \in 1 .. w + L
               PROVE  t[x] = (s \o Encode[p])[x]
    BY <1>1, <1>6
  <2>1. t[x] = mem'[x]
    BY <1>1, <1>6
  <2>2. CASE x <= w
    <3>1. x \in 1 .. w
      BY <1>2, <1>3, <2>2
    <3> QED BY <1>1, <1>5, <1>7, <2>1, <2>2, <3>1
  <2>3. CASE ~(x <= w)
    <3>1. x - w \in 1 .. L /\ w + (x - w) = x
      BY <1>2, <1>3, <2>3
    <3>2. mem'[w + (x - w)] = Encode[p][x - w]
      BY <1>1, <3>1
    <3> QED BY <1>7, <2>1, <2>3, <3>1, <3>2
  <2> QED BY <2>2, <2>3
<1>9. t = s \o Encode[p]
  BY <1>1, <1>6, <1>7, <1>8, SeqEqual
<1> QED BY <1>9 DEF s, t

(* A step that keeps the cells below the cursor and the cursor. *)
LEMMA SameContent ==
  ASSUME TypeOK, mem' \in Seq(Cells), w' = w, w <= Len(mem'),
         \A x \in 1 .. w : mem'[x] = mem[x]
  PROVE  SubSeq(mem, 1, w)' = SubSeq(mem, 1, w)
<1>1. mem \in Seq(Cells) /\ w \in 0 .. Len(mem) /\ w \in Nat
  BY Standing
<1>2. w \in 0 .. Len(mem')
  BY <1>1, LenProperties
<1> DEFINE s == SubSeq(mem, 1, w)
           t == SubSeq(mem', 1, w)
<1>3. s \in Seq(Cells) /\ Len(s) = w /\ \A x \in 1 .. w : s[x] = mem[x]
  BY <1>1, ContentType
<1>4. t \in Seq(Cells) /\ Len(t) = w /\ \A x \in 1 .. w : t[x] = mem'[x]
  BY <1>2, ContentType
<1> HIDE DEF s, t
<1>5. t = s
  BY <1>3, <1>4, SeqEqual
<1> QED BY <1>5 DEF s, t

LEMMA FillSame ==
  ASSUME IInv, Fill
  PROVE  SubSeq(mem, 1, w)' = SubSeq(mem, 1, w)
<1>1. pc = "fill" /\ w' = len /\ Bounds'
  BY FillBounds DEF Fill, IInv
<1>2. len = w /\ TypeOK
  BY <1>1 DEF IInv, Bounds, Place
<1>3. SubSeq(mem, 1, len) \in Seq(Cells) /\ Len(SubSeq(mem, 1, len)) = len
      /\ \A x \in 1 .. len : SubSeq(mem, 1, len)[x] = mem[x]
  BY <1>2, Standing, ContentType
<1>4. PICK n \in 1 .. Chunk : batch' \in [1 .. n -> Pretokens]
  BY DEF Fill
<1>5. Lanes * Len(batch') \in Nat
  <2>1. Len(batch') \in Nat
    BY <1>4, EmitAssumption
  <2> QED BY <2>1 DEF Lanes
<1>6. Reserve(SubSeq(mem, 1, len), Lanes * Len(batch'))
  BY DEF Fill
<1>7. /\ mem' \in Seq(Cells)
      /\ \A x \in 1 .. len : mem'[x] = SubSeq(mem, 1, len)[x]
  BY <1>2, <1>3, <1>5, <1>6, Reserved
<1>8. w <= Len(mem')
  <2>1. w' \in 0 .. Len(mem') /\ Len(mem') \in Nat
    BY <1>1, <1>7, LenProperties DEF Bounds, TypeOK
  <2> QED BY <1>1, <1>2, <2>1
<1> QED BY <1>1, <1>2, <1>3, <1>7, <1>8, SameContent

LEMMA GoSlowSame ==
  ASSUME IInv, GoSlow
  PROVE  SubSeq(mem, 1, w)' = SubSeq(mem, 1, w)
<1>1. Store(<<>>) /\ w' = w
  BY DEF GoSlow
<1>2. <<>> \in Seq(Tokens) /\ Len(<<>>) <= Lanes
  BY DEF Lanes
<1>3. mem' \in Seq(Cells) /\ Len(mem') = Len(mem) /\ \A x \in 1 .. w : mem'[x] = mem[x]
  BY <1>1, <1>2, Stored DEF IInv, Bounds
<1>4. w <= Len(mem')
  BY <1>3, Standing DEF IInv, Bounds
<1> QED BY <1>1, <1>3, <1>4, SameContent DEF IInv, Bounds

(* The caches, the lanes and the growths are invisible to the caller: a    *)
(* step of the loop reads the next chunk, appends the tokens of the next   *)
(* pretoken of its batch, is the caller's, or does not show.               *)
THEOREM ImplementsStream ==
  ASSUME ArenaFits
  PROVE  Spec => StreamSpec
<1>1. Init => Stream!Init
  BY SubSeqEmpty DEF Init, Stream!Init
<1>2. ASSUME IInv, IInv', [Next]_vars
      PROVE  [Stream!Next]_(<<SubSeq(mem, 1, w), batch, i - 1>>)
  <2> DEFINE out == SubSeq(mem, 1, w)
  <2>t. /\ batch \in Seq(Pretokens) /\ Len(batch) \in Nat /\ i \in Nat
        /\ batch' \in Seq(Pretokens)
    <3>1. TypeOK /\ TypeOK'
      BY <1>2 DEF IInv, Bounds
    <3> QED BY <3>1, Standing DEF TypeOK
  <2>f. pc = "fill" => batch = <<>> /\ i = 1 /\ Len(batch) = 0
    BY <1>2 DEF IInv, Bounds, Place
  <2>1. CASE Fill
    <3>1. out' = out
      BY <1>2, <2>1, FillSame
    <3>2. pc = "fill" /\ i' = 1
      BY <2>1 DEF Fill
    <3> HIDE DEF out
    <3>3. i - 1 = Len(batch) /\ i' - 1 = 0
      BY <2>f, <3>2
    <3>4. Stream!Read
      BY <2>t, <3>1, <3>3 DEF Stream!Read, out
    <3> QED BY <3>4 DEF Stream!Next
  <2>2. CASE GoSlow
    <3>1. out' = out
      BY <1>2, <2>2, GoSlowSame
    <3>2. batch' = batch /\ i' = i
      BY <2>2 DEF GoSlow, chunk
    <3> QED BY <3>1, <3>2
  <2>3. CASE EndChunk
    <3>1. out' = out
      BY <2>3 DEF EndChunk
    <3>2. i > Len(batch) /\ i <= Len(batch) + 1 /\ i' = 1
      BY <1>2, <2>3, <2>t DEF EndChunk, IInv, Bounds, Place
    <3> HIDE DEF out
    <3>3. i - 1 = Len(batch) /\ i' - 1 = 0
      BY <2>t, <3>2
    <3>4. Stream!Read
      BY <2>t, <3>1, <3>3 DEF Stream!Read, out
    <3> QED BY <3>4 DEF Stream!Next
  <2>4. CASE Take
    <3>1. w' = 0 /\ pc = "fill" /\ batch' = batch /\ i' = i
      BY <2>4 DEF Take
    <3>2. SubSeq(mem, 1, w)' = <<>>
      BY <3>1, SubSeqEmpty
    <3>3. i - 1 = Len(batch) /\ i' - 1 = i - 1
      BY <2>f, <3>1
    <3>4. Stream!Take
      BY <3>1, <3>2, <3>3 DEF Stream!Take
    <3> QED BY <3>4 DEF Stream!Next
  <2>5. CASE EmitFast \/ SlowHit \/ SlowMiss \/ LongHit \/ LongMiss
    <3>1. Emits(batch[i]) /\ batch[i] \in Pretokens
      BY <1>2, <2>5, FastStep, SlowStep
    <3>2. w' <= Len(mem') /\ TypeOK
      <4>1. TypeOK /\ TypeOK'
        BY <1>2 DEF IInv, Bounds
      <4>2. w' \in 0 .. Len(mem') /\ Len(mem') \in Nat
        BY <4>1, LenProperties DEF TypeOK
      <4> QED BY <4>1, <4>2
    <3>3. out' = out \o Encode[batch[i]]
      BY <3>1, <3>2, EmitsAppends
    <3>4. i' = i + 1 /\ batch' = batch
      BY <3>1 DEF Emits
    <3>5. i <= Len(batch)
      <4>1. pc = "slow" => i <= Len(batch)
        BY <1>2 DEF IInv, Bounds, Place
      <4> QED BY <2>5, <4>1 DEF EmitFast, SlowHit, SlowMiss, LongHit, LongMiss
    <3> HIDE DEF out
    <3>6. i - 1 < Len(batch) /\ (i - 1) + 1 = i /\ i' - 1 = (i - 1) + 1
      BY <2>t, <3>4, <3>5
    <3>7. out' = out \o Encode[batch[(i - 1) + 1]]
      BY <3>3, <3>6
    <3>8. Stream!Emit
      BY <3>4, <3>6, <3>7 DEF Stream!Emit, out
    <3> QED BY <3>8 DEF Stream!Next
  <2>6. CASE UNCHANGED vars
    BY <2>6 DEF vars, chunk
  <2> QED BY <1>2, <2>1, <2>2, <2>3, <2>4, <2>5, <2>6 DEF Next
<1>3. Spec => []IInv
  BY Inductive
<1> QED BY <1>1, <1>2, <1>3, PTL DEF Spec, StreamSpec, Stream!Spec

==============================================================================
