--------------------------- MODULE SeparatorReader ---------------------------
(***************************************************************************)
(* The streaming splitter of compressed text files (SeparatorReader in     *)
(* src/input/file_source.rs), with a reader that hands out its input in    *)
(* pieces of any size and may fail.                                        *)
(*                                                                         *)
(* buf is always a stretch of the input that ends where the reader is, so  *)
(* it is the range from .. read; offsets count from 0.                     *)
(***************************************************************************)
EXTENDS Integers, Sequences

CONSTANTS
  Bytes,       \* the bytes inputs are made of
  Inputs,      \* byte strings
  Separators   \* byte strings

InputAssumption ==
  /\ \A s \in Separators : s \in Seq(Bytes)
  /\ \A i \in Inputs : i \in Seq(Bytes)

VARIABLES
  input, separator,
  from,      \* where buf starts
  read,      \* what the reader has handed out, and where buf ends
  finished,
  pc,        \* "idle" between calls, "scan" inside one, "none" after None
  out,       \* ranges of the documents returned
  skipped,   \* history: this call has passed over an empty document
  failed     \* history: the reader returned an error

vars == <<input, separator, from, read, finished, pc, out, skipped, failed>>

-----------------------------------------------------------------------------

(* With an empty separator, which occurs nowhere, the turns below read to  *)
(* the end: that is next()'s read_to_end, which an error ends as well.     *)
MatchAt(p) ==
  separator # <<>> /\ SubSeq(input, p + 1, p + Len(separator)) = separator
Hits(a, b) == {p \in a .. b - Len(separator) : MatchAt(p)}
First(a, b) == CHOOSE p \in Hits(a, b) : \A q \in Hits(a, b) : p <= q

Smaller(a, b) == IF a < b THEN a ELSE b

Init ==
  /\ input \in Inputs
  /\ separator \in Separators
  /\ from = 0 /\ read = 0
  /\ finished = FALSE
  /\ pc = "idle"
  /\ out = <<>>
  /\ skipped = FALSE /\ failed = FALSE

(* next() is entered: nothing left to say, or the buffer is cleared. *)
Call ==
  /\ pc = "idle"
  /\ IF finished
     THEN pc' = "none" /\ UNCHANGED <<from, skipped>>
     ELSE pc' = "scan" /\ from' = read /\ skipped' = FALSE
  /\ UNCHANGED <<input, separator, read, finished, out, failed>>

(* Where the search of the grown buffer starts: far enough back for a      *)
(* separator that straddles what was there.  (Mutant: one byte short.)     *)
SearchStartShort == read - Smaller(Len(separator) - 2, read - from)
SearchStart == read - Smaller(Len(separator) - 1, read - from)

(* Data, and a separator in it: what precedes it is a document, what       *)
(* follows stays in buf, and an empty document keeps the loop going.       *)
Found(upto) ==
  LET at == First(SearchStart, upto)
  IN /\ from' = at + Len(separator)
     /\ IF at = from
        THEN out' = out /\ pc' = pc /\ skipped' = TRUE
        ELSE out' = Append(out, <<from, at>>) /\ pc' = "idle" /\ skipped' = skipped

Fill ==
  /\ pc = "scan" /\ read < Len(input)
  /\ \E upto \in read + 1 .. Len(input) :
       /\ read' = upto
       /\ IF Hits(SearchStart, upto) # {}
          THEN Found(upto)
          ELSE UNCHANGED <<from, out, pc, skipped>>
  /\ UNCHANGED <<input, separator, finished, failed>>

(* The end of the input: what is in buf is the last document.  (Mutant:    *)
(* the end is not noticed while buf is empty.)                             *)
EofUnnoticed ==
  /\ pc = "scan" /\ read = Len(input)
  /\ IF from = read
     THEN UNCHANGED <<finished, pc, out, from>>
     ELSE /\ finished' = TRUE /\ pc' = "idle"
          /\ out' = Append(out, <<from, read>>) /\ from' = read
  /\ UNCHANGED <<input, separator, read, skipped, failed>>

Eof ==
  /\ pc = "scan" /\ read = Len(input)
  /\ finished' = TRUE
  /\ IF from = read
     THEN pc' = "none" /\ UNCHANGED <<from, out>>
     ELSE pc' = "idle" /\ out' = Append(out, <<from, read>>) /\ from' = read
  /\ UNCHANGED <<input, separator, read, skipped, failed>>

(* An I/O error ends the iteration and drops what is in buf. *)
ReadError ==
  /\ pc = "scan"
  /\ finished' = TRUE /\ failed' = TRUE
  /\ pc' = "none"
  /\ UNCHANGED <<input, separator, from, read, out, skipped>>

Done == pc = "none"

Step ==
  \/ Call
  \/ Fill
  \/ Eof
  \/ Done /\ UNCHANGED vars

-----------------------------------------------------------------------------

(* The overlap is wide enough: until a call skips an empty document, the   *)
(* buffer it has searched holds no separator, however the reader cuts it.  *)
NoSeparatorMissed ==
  pc = "scan" /\ ~skipped => Hits(from, read) = {}

(* Documents are non-empty, in order, and no byte is in two of them. *)
InOrder ==
  \A i \in 1 .. Len(out) :
    /\ out[i][1] < out[i][2]
    /\ i > 1 => out[i - 1][2] <= out[i][1]

(* "Keep everything after the separator for the next call".  The next call *)
(* clears it: without an error, bytes of the input that are no part of a   *)
(* separator are in no document.                                           *)
InDocument(p) == \E i \in 1 .. Len(out) : out[i][1] <= p /\ p < out[i][2]
InSeparator(p) == \E q \in Hits(0, Len(input)) : q <= p /\ p < q + Len(separator)

NothingDropped ==
  Done /\ ~failed =>
    \A p \in 0 .. Len(input) - 1 : InDocument(p) \/ InSeparator(p)
=============================================================================
