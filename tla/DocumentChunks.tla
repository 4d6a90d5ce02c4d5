---------------------------- MODULE DocumentChunks ----------------------------
(***************************************************************************)
(* How a text file is cut into documents, and into regions that threads    *)
(* cut into documents on their own (src/input/mod.rs,                      *)
(* src/input/file_source.rs).  chunk_ranges cuts regions of about a target *)
(* size for encode_files; par_document_chunks cuts a number of them for    *)
(* training.  Both look for the next separator from a position that need   *)
(* not be where the serial iterator would look.                            *)
(*                                                                         *)
(* Offsets count from 0 and a range is half open, as in the code.          *)
(* Iterator 0 is the serial one, over the whole file.                      *)
(***************************************************************************)
EXTENDS Integers, Sequences, SequencesExt

CONSTANTS
  Bytes,       \* the bytes files are made of
  Files,       \* byte strings
  Separators,  \* byte strings
  Targets,     \* sizes chunk_ranges may be asked for
  Counts       \* numbers of chunks par_document_chunks may be asked for

InputAssumption ==
  /\ \A s \in Separators : s \in Seq(Bytes)
  /\ \A f \in Files : f \in Seq(Bytes)
  /\ Targets \subseteq Nat \ {0} /\ Counts \subseteq Nat \ {0}

VARIABLES
  file, sep,   \* what is cut
  rule, size,  \* "target" and its bytes, or "count" and its chunks
  start,       \* chunk_ranges: where the next region starts;
               \* par_document_chunks: its loop index
  ranges,      \* the regions so far, <<from, to>>
  iter,        \* position of each iterator, once there are regions
  open,        \* iterators that have not returned None
  docs,        \* ranges each iterator has yielded
  pc           \* "cut", then "run"

vars == <<file, sep, rule, size, start, ranges, iter, open, docs, pc>>
input == <<file, sep, rule, size>>

-----------------------------------------------------------------------------

(* An empty separator separates nothing: chunk_ranges, par_document_chunks *)
(* and DocumentIter each test for it, and go on as if none occurred.       *)
MatchAt(p) == sep # <<>> /\ SubSeq(file, p + 1, p + Len(sep)) = sep

(* memmem over file[from .. to]: the first occurrence that fits, if any. *)
Hits(from, to) == {p \in from .. to - Len(sep) : MatchAt(p)}
First(from, to) == CHOOSE p \in Hits(from, to) : \A q \in Hits(from, to) : p <= q

Init ==
  /\ file \in Files
  /\ sep \in Separators
  /\ \/ rule = "target" /\ size \in Targets /\ start = 0
     \/ rule = "count" /\ size \in Counts /\ start = 1
  /\ ranges = <<>>
  /\ iter = <<>> /\ open = {} /\ docs = <<>>
  /\ pc = "cut"

-----------------------------------------------------------------------------
(* chunk_ranges: one turn of the loop of cut.                            *)

CutRegion ==
  LET probe == start + size
  IN /\ pc = "cut" /\ rule = "target"
     /\ start < Len(file)
     /\ probe < Len(file) /\ Hits(probe, Len(file)) # {}
     /\ ranges' = Append(ranges, <<start, First(probe, Len(file))>>)
     /\ start' = First(probe, Len(file)) + Len(sep)
     /\ UNCHANGED <<input, iter, open, docs, pc>>

(* par_document_chunks: one turn of its loop.  ranges holds the boundaries *)
(* as the ranges they close, and an empty one is what dedup removes.       *)
LastEnd == IF ranges = <<>> THEN 0 ELSE ranges[Len(ranges)][2]

Closed(boundary) ==
  IF boundary = LastEnd THEN ranges ELSE Append(ranges, <<LastEnd, boundary>>)

CutCounted ==
  LET target == start * (Len(file) \div size)
  IN /\ pc = "cut" /\ rule = "count"
     /\ Len(file) > 0 /\ start < size
     /\ Hits(target, Len(file)) # {}
     /\ ranges' = Closed(First(target, Len(file)) + Len(sep))
     /\ start' = start + 1
     /\ UNCHANGED <<input, iter, open, docs, pc>>

(* Both: what is left is the last region.  An empty file has one empty     *)
(* region, so files stay one to one with their lists of regions.           *)
Finished ==
  IF rule = "target"
  THEN start >= Len(file) \/ start + size >= Len(file)
       \/ Hits(start + size, Len(file)) = {}
  ELSE Len(file) = 0 \/ start >= size
       \/ Hits(start * (Len(file) \div size), Len(file)) = {}

(* (Mutant: the loop that breaks for want of a separator forgets the rest.) *)
LastRangeEmptyOnly ==
  IF Len(file) = 0 THEN <<<<0, 0>>>>
  ELSE IF ranges = <<>> THEN <<<<0, Len(file)>>>> ELSE ranges

LastRange ==
  IF Len(file) = 0 THEN <<<<0, 0>>>>
  ELSE IF rule = "count" THEN Closed(Len(file))
  ELSE IF start < Len(file) THEN Append(ranges, <<start, Len(file)>>)
  ELSE ranges

CutLast ==
  /\ pc = "cut" /\ Finished
  /\ ranges' = LastRange
  /\ iter' = [k \in 0 .. Len(ranges') |-> IF k = 0 THEN 0 ELSE ranges'[k][1]]
  /\ docs' = [k \in 0 .. Len(ranges') |-> <<>>]
  /\ open' = 0 .. Len(ranges')
  /\ pc' = "run"
  /\ UNCHANGED <<input, start>>

-----------------------------------------------------------------------------
(* DocumentIter::next: one turn of its loop. *)

EndOf(k) == IF k = 0 THEN Len(file) ELSE ranges[k][2]

(* A separator: the document before it is yielded unless it is empty.      *)
Piece(k) ==
  LET at == First(iter[k], EndOf(k))
  IN /\ docs' = [docs EXCEPT ![k] =
                   IF at = iter[k] THEN @ ELSE Append(@, <<iter[k], at>>)]
     /\ iter' = [iter EXCEPT ![k] = at + Len(sep)]

NextPiece(k) ==
  /\ k \in open
  /\ iter[k] < EndOf(k) /\ Hits(iter[k], EndOf(k)) # {}
  /\ Piece(k)
  /\ UNCHANGED <<input, start, ranges, open, pc>>

(* None left: the remainder is the last document. *)
YieldRest(k) ==
  /\ k \in open
  /\ iter[k] < EndOf(k) /\ Hits(iter[k], EndOf(k)) = {}
  /\ docs' = [docs EXCEPT ![k] = Append(@, <<iter[k], EndOf(k)>>)]
  /\ open' = open \ {k}
  /\ UNCHANGED <<input, start, ranges, iter, pc>>

Stop(k) ==
  /\ k \in open
  /\ iter[k] >= EndOf(k)
  /\ open' = open \ {k}
  /\ UNCHANGED <<input, start, ranges, iter, docs, pc>>

Done == pc = "run" /\ open = {}

Next ==
  \/ CutRegion
  \/ CutCounted
  \/ CutLast
  \/ \E k \in open : NextPiece(k)
  \/ \E k \in open : YieldRest(k)
  \/ \E k \in open : Stop(k)
  \/ Done /\ UNCHANGED vars

-----------------------------------------------------------------------------

(* Regions never overlap and are in order; what lies between two of them   *)
(* is one separator (chunk_ranges) or nothing (par_document_chunks), and   *)
(* the last ends with the file or a separator before its end.              *)
RegionsTile ==
  /\ \A i \in 1 .. Len(ranges) :
       /\ ranges[i][1] <= ranges[i][2] /\ ranges[i][2] <= Len(file)
       /\ i > 1 => \/ ranges[i][1] = ranges[i - 1][2]
                   \/ /\ MatchAt(ranges[i - 1][2])
                      /\ ranges[i][1] = ranges[i - 1][2] + Len(sep)
  /\ pc = "run" =>
       \/ ranges[Len(ranges)][2] = Len(file)
       \/ ranges[Len(ranges)][2] + Len(sep) = Len(file)

(* "Documents are the pieces between separator occurrences": every range   *)
(* an iterator yields is non-empty, holds no occurrence, and is bounded on *)
(* both sides by an occurrence or an end of the file.                      *)
IsPiece(d) ==
  /\ d[1] < d[2]
  /\ Hits(d[1], d[2]) = {}
  /\ d[1] = 0 \/ (d[1] >= Len(sep) /\ MatchAt(d[1] - Len(sep)))
  /\ d[2] = Len(file) \/ MatchAt(d[2])

WholePieces == \A k \in DOMAIN docs : \A j \in DOMAIN docs[k] : IsPiece(docs[k][j])

(* No two occurrences of the separator share a byte of this file.  (A      *)
(* separator like "\n\n" overlaps itself in a run of three newlines.)      *)
SeparatorsApart ==
  \A p, q \in Hits(0, Len(file)) : p < q => p + Len(sep) <= q

(* Together the regions have the documents of the whole file, in order.    *)
Chunked == FlattenSeq([k \in 1 .. Len(ranges) |-> docs[k]])
SameDocuments == Done /\ SeparatorsApart => Chunked = docs[0]

(* The texts of documents, which is all an encoding sees of them. *)
TextsOf(ds) == [j \in DOMAIN ds |-> SubSeq(file, ds[j][1] + 1, ds[j][2])]
SameTexts == Done => TextsOf(Chunked) = TextsOf(docs[0])
=============================================================================
