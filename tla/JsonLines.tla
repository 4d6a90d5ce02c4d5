------------------------------ MODULE JsonLines ------------------------------
(***************************************************************************)
(* JSONL files: the serial iterator over a slice, the same iterator over   *)
(* newline-aligned chunks on several threads, and the streaming reader of  *)
(* compressed files (src/input/jsonl.rs, src/input/file_source.rs).        *)
(*                                                                         *)
(* A file is a string of four bytes: a newline, a carriage return, one     *)
(* that stands for an object with the wanted field, and one that makes the *)
(* line it is on unusable (no JSON, no such field, no string).             *)
(***************************************************************************)
EXTENDS Integers, Sequences, SequencesExt

CONSTANTS
  newline, cr, object, junk,   \* the bytes
  Files,                       \* byte strings
  Targets, Counts              \* sizes and numbers of chunks asked for

Bytes == {newline, cr, object, junk}

InputAssumption ==
  /\ \A f \in Files : f \in Seq(Bytes)
  /\ Targets \subseteq Nat \ {0} /\ Counts \subseteq Nat \ {0}
  /\ object # cr

VARIABLES
  file,
  rule, size,   \* "target" and its bytes, or "count" and its chunks
  turn,         \* the loop index of jsonl_chunk_boundaries
  cuts,         \* chunk boundaries so far, from 0
  pos,          \* position of each iterator
  open,         \* iterators that have not returned None
  docs,         \* ranges of the lines each iterator has yielded
  pc,           \* "cut", then "run"
  failed        \* history: the reader of a compressed file failed

vars == <<file, rule, size, turn, cuts, pos, open, docs, pc, failed>>
input == <<file, rule, size>>

Serial == 0      \* JsonLinesSlice over the whole file
Streaming == -1  \* JsonLinesReader over the whole file
-----------------------------------------------------------------------------

(* memchr: the first newline of file[from .. to], or to. *)
Newlines(from, to) == {p \in from .. to - 1 : file[p + 1] = newline}
LineEnd(from, to) ==
  IF Newlines(from, to) = {} THEN to
  ELSE CHOOSE p \in Newlines(from, to) : \A q \in Newlines(from, to) : p <= q

Line(from, to) == {file[p + 1] : p \in from .. to - 1}
Usable(from, to) == object \in Line(from, to) /\ junk \notin Line(from, to)

Init ==
  /\ file \in Files
  /\ \/ rule = "target" /\ size \in Targets
     \/ rule = "count" /\ size \in Counts
  /\ turn = 1
  /\ cuts = <<0>>
  /\ pos = <<>> /\ open = {} /\ docs = <<>>
  /\ pc = "cut"
  /\ failed = FALSE

-----------------------------------------------------------------------------
(* chunk_ranges (Jsonl) and jsonl_chunk_boundaries: the next cut is past   *)
(* the first newline at or after a probe.  (Mutant: at the probe.)         *)

Probe == IF rule = "target" THEN Last(cuts) + size ELSE turn * (Len(file) \div size)

MoreCuts ==
  /\ Probe < Len(file)
  /\ rule = "count" => turn < size
  /\ Newlines(Probe, Len(file)) # {}

CutAt(boundary) == IF boundary = Last(cuts) THEN cuts ELSE Append(cuts, boundary)

AddCutAtProbe ==
  /\ pc = "cut" /\ MoreCuts
  /\ cuts' = CutAt(Probe + 1)
  /\ turn' = turn + 1
  /\ UNCHANGED <<input, pos, open, docs, pc, failed>>

AddCut ==
  /\ pc = "cut" /\ MoreCuts
  /\ cuts' = CutAt(LineEnd(Probe, Len(file)) + 1)
  /\ turn' = turn + 1
  /\ UNCHANGED <<input, pos, open, docs, pc, failed>>

Chunks == Len(cuts) - 1
Iterators == -1 .. Chunks
StartOf(k) == IF k < 1 THEN 0 ELSE cuts[k]
EndOf(k) == IF k < 1 THEN Len(file) ELSE cuts[k + 1]

(* The last chunk ends with the file. *)
LastCut ==
  /\ pc = "cut" /\ ~MoreCuts
  /\ cuts' = CutAt(Len(file))
  /\ pc' = "run"
  /\ pos' = [k \in Iterators' |-> StartOf(k)']
  /\ open' = Iterators'
  /\ docs' = [k \in Iterators' |-> <<>>]
  /\ UNCHANGED <<input, turn, failed>>

-----------------------------------------------------------------------------
(* One turn of next(): a line is skipped, yielded or ends the iteration.   *)
(* The slice skips empty lines, the reader lines of carriage returns too.  *)

Skipped(k, to) ==
  IF k = Streaming THEN Line(pos[k], to) \subseteq {cr} ELSE pos[k] = to

LineEndOf(k) == LineEnd(pos[k], EndOf(k))

SkipLine(k) ==
  /\ k \in open /\ pos[k] < EndOf(k)
  /\ Skipped(k, LineEndOf(k))
  /\ pos' = [pos EXCEPT ![k] = LineEndOf(k) + 1]
  /\ UNCHANGED <<input, turn, cuts, open, docs, pc, failed>>

YieldLine(k) ==
  /\ k \in open /\ pos[k] < EndOf(k)
  /\ ~Skipped(k, LineEndOf(k)) /\ Usable(pos[k], LineEndOf(k))
  /\ docs' = [docs EXCEPT ![k] = Append(@, <<pos[k], LineEndOf(k)>>)]
  /\ pos' = [pos EXCEPT ![k] = LineEndOf(k) + 1]
  /\ UNCHANGED <<input, turn, cuts, open, pc, failed>>

(* The end, or a line the parser rejects: the iterator returns None.       *)
EndLines(k) ==
  /\ k \in open
  /\ \/ pos[k] >= EndOf(k)
     \/ ~Skipped(k, LineEndOf(k)) /\ ~Usable(pos[k], LineEndOf(k))
  /\ open' = open \ {k}
  /\ UNCHANGED <<input, turn, cuts, pos, docs, pc, failed>>

(* The decompressor may fail whenever the reader asks for a line: None. *)
ReadError ==
  /\ Streaming \in open
  /\ open' = open \ {Streaming}
  /\ failed' = TRUE
  /\ UNCHANGED <<input, turn, cuts, pos, docs, pc>>

Done == pc = "run" /\ open = {}

Next ==
  \/ AddCut
  \/ LastCut
  \/ \E k \in open : SkipLine(k)
  \/ \E k \in open : YieldLine(k)
  \/ \E k \in open : EndLines(k)
  \/ Done /\ UNCHANGED vars

-----------------------------------------------------------------------------

(* No line is torn: every document, of any iterator, is a whole usable     *)
(* line of the file.                                                       *)
IsLine(d) ==
  /\ d[1] = 0 \/ file[d[1]] = newline
  /\ d[2] = LineEnd(d[1], Len(file))
  /\ Usable(d[1], d[2])

WholeLines == \A k \in DOMAIN docs : \A i \in DOMAIN docs[k] : IsLine(docs[k][i])

Chunked == FlattenSeq([k \in 1 .. Chunks |-> docs[k]])

(* A line that cannot be used ends the serial iteration; chunked, it ends  *)
(* its chunk only.  So the serial documents come first in the chunked ones,*)
(* and there are no others when every line is empty or usable.  Then the   *)
(* streaming reader agrees as well, as far as it can read.                 *)
AllUsable ==
  \A p \in 0 .. Len(file) - 1 :
    p = 0 \/ file[p] = newline =>
      p = LineEnd(p, Len(file)) \/ Usable(p, LineEnd(p, Len(file)))

SerialFirst ==
  Done => /\ IsPrefix(docs[Serial], Chunked)
          /\ AllUsable => /\ Chunked = docs[Serial]
                          /\ IsPrefix(docs[Streaming], docs[Serial])
                          /\ ~failed => docs[Streaming] = docs[Serial]

(* The same without a condition, as the serial path promises.              *)
SameLines == Done => Chunked = docs[Serial]
=============================================================================
