------------------------------- MODULE EmitLoop -------------------------------
(***************************************************************************)
(* The probe/emit loop over the pretoken caches (probe_emit_chunk,         *)
(* probe_emit_slow and the miss paths in src/src/bpe/tiktoken.rs).         *)
(*                                                                         *)
(* The loop writes through raw pointers: four token lanes per pretoken at  *)
(* the cursor w, dead unless the cursor advances, and probes the cache     *)
(* through a view of its memory.  Both pointers are refreshed only by the  *)
(* slow path, and capacity is reserved for a chunk ahead.                  *)
(*                                                                         *)
(* The cache of short pretokens is the map of PretokenMap (implemented by  *)
(* PretokenTable).  A token is any value; merging is the function Encode.  *)
(***************************************************************************)
EXTENDS Naturals, Sequences

CONSTANTS
  Pretokens,
  Tokens,
  Encode,       (* pretoken |-> its tokens                                  *)
  Short,        (* pretokens of at most 15 bytes: key # 0                   *)
  Inline,       (* short pretokens whose tokens pack_val_inline can hold    *)
  Memoized,     (* long pretokens of at most LONG_CACHE_MAX bytes           *)
  Chunk,        (* PRETOKEN_CHUNK                                           *)
  Places,       (* addresses an output buffer may have                      *)
  OffsetWrap,   (* 2^32: arena offsets are kept modulo this                 *)
  MaxOut,       (* bound: no new chunk once the output has this many tokens *)
  MaxArena,     (* bound on the tokens in the arena                         *)
  Garbage,      (* memory nothing was written to                            *)
  Missing, Elsewhere, Nothing

Lanes == 4

ASSUME EmitAssumption ==
  /\ Short \subseteq Pretokens
  /\ Inline \subseteq Short
  /\ Memoized \subseteq Pretokens \ Short
  /\ Encode \in [Pretokens -> Seq(Tokens)]
  /\ \A p \in Inline : Len(Encode[p]) \in 1 .. Lanes
  /\ Chunk \in Nat \ {0}
  /\ OffsetWrap \in Nat \ {0}
  /\ MaxOut \in Nat
  /\ MaxArena \in Nat
  /\ Garbage \notin Tokens

VARIABLES
  batch,        (* SpanBatch: the pretokens of the chunk                    *)
  i,            (* the pretoken the loop is at                              *)
  pc,
  mem,          (* the memory of out, all of its capacity                   *)
  place,        (* and its address                                          *)
  len,          (* the length out itself knows                              *)
  w,            (* the write cursor                                         *)
  from,         (* the cursor before the chunk                              *)
  ends,         (* the cursors recorded for the chunk                       *)
  dst,          (* the address the loop writes to                           *)
  table,        (* probe_view: the allocation the loop probes               *)
  cache,        (* pretoken_cache                                           *)
  memory,       (* and its allocation                                       *)
  answer,
  long,         (* pretoken_cache_long                                      *)
  arena         (* token_arena                                              *)

chunk  == <<batch, from>>
short  == <<cache, memory, answer>>
vars   == <<chunk, i, pc, mem, place, len, w, ends, dst, table, short, long, arena>>

(* A packed value: its token lanes, or the range of the arena it names. *)
Packed == [spill : BOOLEAN, n : Nat, lanes : Seq(Tokens), at : Nat]

Cache == INSTANCE PretokenMap WITH Keys <- Short, Values <- Packed, map <- cache

(* Where tokens appended to the arena start, as an entry records it. *)
ArenaEnd == Len(arena) % OffsetWrap

(* Tokens of an entry: unpack_val_lanes, or the arena range. *)
InArena(at, n) == SubSeq(arena, at + 1, at + n)
TokensOf(v)    == IF v.spill THEN InArena(v.at, v.n) ELSE v.lanes

PackVal(p) ==
  [spill |-> p \notin Inline,
   n     |-> Len(Encode[p]),
   lanes |-> IF p \in Inline THEN Encode[p] ELSE <<>>,
   at    |-> IF p \in Inline THEN 0 ELSE ArenaEnd]

Larger(a, b) == IF a > b THEN a ELSE b

(* out holds the tokens of c and has room for k more: Vec::reserve.  A Vec *)
(* at least doubles when it grows; it moves, and copies c only.            *)
Reserve(c, k) ==
  \/ /\ Len(c) + k <= Len(mem)
     /\ mem' = c \o SubSeq(mem, Len(c) + 1, Len(mem))
     /\ place' = place
  \/ /\ Len(c) + k > Len(mem)
     /\ LET room == Larger(2 * Len(mem), Len(c) + k) - Len(c)
        IN mem' = c \o [x \in 1 .. room |-> Garbage]
     /\ place' \in Places \ {place}

(* The two unconditional eight-byte stores; past the lanes of v the code   *)
(* stores zeros or another entry's tokens.                                 *)
Store(lanes) ==
  mem' = [x \in 1 .. Len(mem) |->
            IF dst = place /\ x \in w + 1 .. w + Lanes
            THEN IF x - w <= Len(lanes) THEN lanes[x - w] ELSE Garbage
            ELSE mem[x]]

------------------------------------------------------------------------------

Init ==
  /\ batch = <<>>
  /\ i = 1
  /\ pc = "fill"
  /\ mem = <<>>
  /\ place \in Places
  /\ len = 0
  /\ w = 0
  /\ from = 0
  /\ ends = <<>>
  /\ dst = place
  /\ cache = [k \in {} |-> Nothing]
  /\ memory = 1
  /\ table = memory
  /\ answer = Nothing
  /\ long = [k \in {} |-> Nothing]
  /\ arena = <<>>

(* The pair probe has found an inline value. *)
IsFast(a) == IF a = Elsewhere THEN FALSE ELSE ~a.spill

(* Mutant of Fill: one token per pretoken is reserved. *)
FillLaneless ==
  /\ pc = "fill"
  /\ len < MaxOut
  /\ \E n \in 1 .. Chunk : batch' \in [1 .. n -> Pretokens]
  /\ Reserve(SubSeq(mem, 1, len), Len(batch'))
  /\ from' = len
  /\ w' = len
  /\ ends' = <<>>
  /\ i' = 1
  /\ dst' = place'
  /\ table' = memory
  /\ pc' = "probe"
  /\ UNCHANGED <<len, short, long, arena>>

(* A chunk is filled, of any size: a short one ends a document.  The loop  *)
(* reserves its stores and takes its pointers.                             *)
Fill ==
  /\ pc = "fill"
  /\ len < MaxOut
  /\ \E n \in 1 .. Chunk : batch' \in [1 .. n -> Pretokens]
  /\ Reserve(SubSeq(mem, 1, len), Lanes * Len(batch'))
  /\ from' = len
  /\ w' = len
  /\ ends' = <<>>
  /\ i' = 1
  /\ dst' = place'
  /\ table' = memory
  /\ pc' = "probe"
  /\ UNCHANGED <<len, short, long, arena>>

(* Its lanes become tokens. *)
EmitFast ==
  /\ pc = "probe"
  /\ i <= Len(batch)
  /\ batch[i] \in Short
  /\ Cache!Probe(batch[i])
  /\ IsFast(answer')
  /\ Store(answer'.lanes)
  /\ w' = w + answer'.n
  /\ ends' = Append(ends, w')
  /\ i' = i + 1
  /\ UNCHANGED <<chunk, pc, place, len, dst, table, long, arena>>

(* It has not, or the pretoken is long: the lanes stored are dead. *)
GoSlow ==
  /\ pc = "probe"
  /\ i <= Len(batch)
  /\ \/ /\ batch[i] \in Short
        /\ Cache!Probe(batch[i])
        /\ ~IsFast(answer')
     \/ batch[i] \notin Short /\ UNCHANGED short
  /\ Store(<<>>)
  /\ pc' = "slow"
  /\ UNCHANGED <<chunk, i, place, len, w, ends, dst, table, long, arena>>

(* Mutant of Finish: only the appended tokens are made room for. *)
FinishNoRoom(tokens) ==
  /\ Reserve(SubSeq(mem, 1, w) \o tokens, 0)
  /\ w' = w + Len(tokens)
  /\ len' = w'
  /\ dst' = place'
  /\ table' = memory'
  /\ ends' = Append(ends, w')
  /\ i' = i + 1
  /\ pc' = "probe"
  /\ UNCHANGED chunk

(* Mutant of Finish: the view of the table is kept. *)
FinishOldView(tokens) ==
  /\ Reserve(SubSeq(mem, 1, w) \o tokens, Lanes * Chunk)
  /\ w' = w + Len(tokens)
  /\ len' = w'
  /\ dst' = place'
  /\ table' = table
  /\ ends' = Append(ends, w')
  /\ i' = i + 1
  /\ pc' = "probe"
  /\ UNCHANGED chunk

(* Mutant of Finish: out is not told about the tokens before the cursor. *)
FinishNoLen(tokens) ==
  /\ Reserve(SubSeq(mem, 1, len) \o tokens, Lanes * Chunk)
  /\ w' = len + Len(tokens)
  /\ len' = w'
  /\ dst' = place'
  /\ table' = memory'
  /\ ends' = Append(ends, w')
  /\ i' = i + 1
  /\ pc' = "probe"
  /\ UNCHANGED chunk

(* set_len(w), the tokens appended, room for a chunk reserved, and the     *)
(* loop's pointers taken anew.                                             *)
Finish(tokens) ==
  /\ Reserve(SubSeq(mem, 1, w) \o tokens, Lanes * Chunk)
  /\ w' = w + Len(tokens)
  /\ len' = w'
  /\ dst' = place'
  /\ table' = memory'
  /\ ends' = Append(ends, w')
  /\ i' = i + 1
  /\ pc' = "probe"
  /\ UNCHANGED chunk

(* The walk finds the key beyond its home pair, or its value is spilled. *)
SlowHit ==
  /\ pc = "slow"
  /\ batch[i] \in Short
  /\ Cache!Lookup(batch[i])
  /\ answer' # Missing
  /\ Finish(TokensOf(answer'))
  /\ UNCHANGED <<long, arena>>

ArenaHolds(p) == Len(arena) + Len(Encode[p]) <= MaxArena

(* encode_pretoken_miss of a short pretoken. *)
SlowMiss ==
  LET p == batch[i] IN
  /\ pc = "slow"
  /\ p \in Short
  /\ p \notin DOMAIN cache
  /\ ArenaHolds(p)
  /\ Cache!Put(p, PackVal(p))
  /\ arena' = IF p \in Inline THEN arena ELSE arena \o Encode[p]
  /\ Finish(Encode[p])
  /\ UNCHANGED long

LongHit ==
  LET p == batch[i] IN
  /\ pc = "slow"
  /\ p \in DOMAIN long
  /\ UNCHANGED <<short, long, arena>>
  /\ Finish(InArena(long[p].at, long[p].n))

(* Mutant of LongMiss: the offset is read after the append. *)
LongMissAfter ==
  LET p == batch[i] IN
  /\ pc = "slow"
  /\ p \notin Short
  /\ p \notin DOMAIN long
  /\ ArenaHolds(p)
  /\ IF p \in Memoized
     THEN /\ arena' = arena \o Encode[p]
          /\ long' = [x \in DOMAIN long \cup {p} |->
                        IF x = p THEN [at |-> Len(arena') % OffsetWrap, n |-> Len(Encode[p])]
                                 ELSE long[x]]
     ELSE UNCHANGED <<arena, long>>
  /\ UNCHANGED short
  /\ Finish(Encode[p])

(* encode_pretoken_miss of a long pretoken. *)
LongMiss ==
  LET p == batch[i] IN
  /\ pc = "slow"
  /\ p \notin Short
  /\ p \notin DOMAIN long
  /\ ArenaHolds(p)
  /\ IF p \in Memoized
     THEN /\ arena' = arena \o Encode[p]
          /\ long' = [x \in DOMAIN long \cup {p} |->
                        IF x = p THEN [at |-> ArenaEnd, n |-> Len(Encode[p])]
                                 ELSE long[x]]
     ELSE UNCHANGED <<arena, long>>
  /\ UNCHANGED short
  /\ Finish(Encode[p])

(* set_len(w): the dead lanes past the cursor are cut off, and the chunk   *)
(* is done.                                                                *)
EndChunk ==
  /\ pc = "probe"
  /\ i > Len(batch)
  /\ len' = w
  /\ from' = w
  /\ batch' = <<>>
  /\ ends' = <<>>
  /\ i' = 1
  /\ pc' = "fill"
  /\ UNCHANGED <<mem, place, w, dst, table, short, long, arena>>

(* The caller clears out, or goes on with a new one and the same caches.   *)
(* What a cleared buffer still holds counts as garbage.                    *)
Take ==
  /\ pc = "fill"
  /\ \/ mem' = [x \in 1 .. Len(mem) |-> Garbage] /\ place' = place
     \/ mem' = <<>> /\ place' \in Places
  /\ len' = 0
  /\ w' = 0
  /\ from' = 0
  /\ UNCHANGED <<batch, i, pc, ends, dst, table, short, long, arena>>

Next ==
  \/ Fill \/ EmitFast \/ GoSlow \/ EndChunk \/ Take
  \/ SlowHit \/ SlowMiss \/ LongHit \/ LongMiss

Spec == Init /\ [][Next]_vars

------------------------------------------------------------------------------
(* Properties. *)

TypeOK ==
  /\ batch \in Seq(Pretokens)
  /\ i \in Nat \ {0}
  /\ pc \in {"fill", "probe", "slow"}
  /\ mem \in Seq(Tokens \cup {Garbage})
  /\ place \in Places
  /\ len \in 0 .. Len(mem)
  /\ w \in 0 .. Len(mem)
  /\ from \in Nat
  /\ ends \in Seq(Nat)
  /\ dst \in Places
  /\ memory \in Nat \ {0}
  /\ table \in Nat \ {0}
  /\ DOMAIN cache \subseteq Short
  /\ \A p \in DOMAIN cache : cache[p] \in Packed
  /\ DOMAIN long \subseteq Memoized
  /\ \A p \in DOMAIN long : long[p] \in [at : Nat, n : Nat]
  /\ arena \in Seq(Tokens)
  /\ answer \in Packed \cup {Missing, Elsewhere, Nothing}

(***************************************************************************)
(* Every unchecked store of the chunk is in bounds, whatever mix of fast   *)
(* and slow pretokens is left ("out.capacity() >= cursor + 4 * (iterations *)
(* left)").                                                                *)
(***************************************************************************)
SlackLeft ==
  pc = "probe" => w + Lanes * (Len(batch) + 1 - i) <= Len(mem)

(***************************************************************************)
(* The loop never probes or writes through a pointer that a growth of the  *)
(* table or of the output has left behind ("both are refreshed there and   *)
(* nowhere else").                                                         *)
(***************************************************************************)
PointersFresh ==
  pc = "probe" => dst = place /\ table = memory

RangeHolds(at, n, p) == at + n <= Len(arena) /\ InArena(at, n) = Encode[p]
LanesHold(v, p)      == v.n = Len(Encode[p]) /\ v.lanes = Encode[p]

(***************************************************************************)
(* An arena range recorded in either cache still holds the tokens of its   *)
(* key, however much was appended since ("recorded right after appending   *)
(* len tokens at start; the arena never shrinks").                         *)
(***************************************************************************)
EntriesSound ==
  /\ \A p \in DOMAIN cache :
       IF cache[p].spill THEN RangeHolds(cache[p].at, cache[p].n, p)
                         ELSE LanesHold(cache[p], p)
  /\ \A p \in DOMAIN long : RangeHolds(long[p].at, long[p].n, p)

(***************************************************************************)
(* The cursors recorded for a chunk cut the output into the tokens of its  *)
(* pretokens ("the recorded ends partition out"), and no dead lane is      *)
(* among them.                                                             *)
(***************************************************************************)
SliceStart(j) == IF j = 1 THEN from ELSE ends[j - 1]

SlicesMatch ==
  \A j \in 1 .. Len(ends) : SubSeq(mem, SliceStart(j) + 1, ends[j]) = Encode[batch[j]]

(***************************************************************************)
(* The caches are invisible: each step of the loop appends the tokens of   *)
(* the very next pretoken of its batch or nothing, and no batch is left    *)
(* before its end, across chunks, growths and cleared buffers.             *)
(***************************************************************************)
Stream == INSTANCE PretokenStream WITH out <- SubSeq(mem, 1, w), done <- i - 1

StreamSpec == Stream!Spec

==============================================================================
