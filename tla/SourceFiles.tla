----------------------------- MODULE SourceFiles -----------------------------
(***************************************************************************)
(* One file and the reader its format and compression select               *)
(* (pretokenize_file and FileSource of src/input/file_source.rs): text in  *)
(* memory is cut by DocumentChunks, JSONL by JsonLines, and compressed     *)
(* text goes through SeparatorReader as it is decompressed.                *)
(*                                                                         *)
(* The readers share the variables of a file being read.  Where their      *)
(* names differ, one variable plays both parts.                            *)
(***************************************************************************)
EXTENDS Integers, Sequences

CONSTANTS
  TextBytes, Texts, Separators,      \* text and what separates its documents
  newline, cr, object, junk, Lines,  \* bytes of JSONL files, and the files
  Targets, Counts                    \* sizes and numbers of regions asked for

VARIABLES
  kind,      \* "text", "jsonl" or "compressed"
  file, sep, rule, size,
  start,     \* JsonLines: turn.  SeparatorReader: from
  ranges,    \* JsonLines: cuts
  iter,      \* JsonLines: pos.   SeparatorReader: read
  open,
  docs,      \* SeparatorReader: out
  pc,
  finished, skipped, failed

vars == <<kind, file, sep, rule, size, start, ranges, iter, open, docs, pc,
          finished, skipped, failed>>

Chunks == INSTANCE DocumentChunks WITH Bytes <- TextBytes, Files <- Texts

Jsonl == INSTANCE JsonLines WITH
  Files <- Lines, turn <- start, cuts <- ranges, pos <- iter

Stream == INSTANCE SeparatorReader WITH
  Bytes <- TextBytes, Inputs <- Texts, input <- file, separator <- sep,
  from <- start, read <- iter, out <- docs

ASSUME SourcesAssumption ==
  /\ Chunks!InputAssumption
  /\ Jsonl!InputAssumption
  /\ Stream!InputAssumption

NotStreamed == finished = FALSE /\ skipped = FALSE /\ failed = FALSE

Init ==
  \/ /\ kind = "text"
     /\ Chunks!Init /\ NotStreamed
  \/ /\ kind = "jsonl"
     /\ Jsonl!Init /\ NotStreamed /\ sep = <<>>
  \/ /\ kind = "compressed"
     /\ Stream!Init
     /\ rule = "none" /\ size = 0 /\ ranges = <<>> /\ open = {}

ReadText ==
  /\ kind = "text"
  /\ Chunks!Next
  /\ UNCHANGED <<kind, finished, skipped, failed>>

ReadLines ==
  /\ kind = "jsonl"
  /\ Jsonl!Next
  /\ UNCHANGED <<kind, sep, finished, skipped>>

FailLines ==
  /\ kind = "jsonl"
  /\ Jsonl!ReadError
  /\ UNCHANGED <<kind, sep, finished, skipped>>

ReadStream ==
  /\ kind = "compressed"
  /\ Stream!Step
  /\ UNCHANGED <<kind, rule, size, ranges, open>>

(* The decompressor may fail whenever it is asked for more. *)
FailStream ==
  /\ kind = "compressed"
  /\ Stream!ReadError
  /\ UNCHANGED <<kind, rule, size, ranges, open>>

Next == ReadText \/ ReadLines \/ FailLines \/ ReadStream \/ FailStream

(* The threads and the caller iterate to the end, and reads return. *)
Spec ==
  Init /\ [][Next]_vars
       /\ WF_vars(ReadText) /\ WF_vars(ReadLines) /\ WF_vars(ReadStream)

-----------------------------------------------------------------------------

(* Regions tile the file, and no document of any iterator is torn: it is a *)
(* whole piece between two separators, or a whole line.  The regions of    *)
(* par_document_chunks keep that only of separators that do not overlap.   *)
NothingTorn ==
  /\ kind = "text" =>
       /\ Chunks!RegionsTile
       /\ rule = "target" \/ Chunks!SeparatorsApart => Chunks!WholePieces
  /\ kind = "jsonl" => Jsonl!WholeLines

(* Cut into regions anywhere, a file has the documents it has read         *)
(* serially, in the same order: of a text in which no two separators       *)
(* overlap, and of JSONL lines up to the first that cannot be used.        *)
SameDocuments ==
  /\ kind = "text" => Chunks!SameDocuments
  /\ kind = "jsonl" => Jsonl!SerialFirst

(* encode_files_docs_serial promises as much of every text: "Document      *)
(* iteration matches the parallel path's chunk regions (for_each_doc over  *)
(* the same format), so the output is token- and order-identical".  Where  *)
(* separators overlap, the regions start where the serial iterator has     *)
(* found another separator.                                                *)
TextPromise == kind = "text" /\ rule = "target" => Chunks!SameTexts

(* And of every JSONL file; but a line that cannot be used ends the serial *)
(* iteration, and of the chunked ones that of its own chunk only.          *)
LinesPromise == kind = "jsonl" /\ rule = "target" => Jsonl!SameLines

(* The overlap that is searched again is wide enough for a separator that  *)
(* straddles any reads, and no byte is in two documents.                   *)
StreamCuts ==
  kind = "compressed" => Stream!NoSeparatorMissed /\ Stream!InOrder

(* Every iterator returns None in the end, whatever the file and the cuts. *)
SourceEnds ==
  <>(\/ kind = "text" /\ Chunks!Done
     \/ kind = "jsonl" /\ Jsonl!Done
     \/ kind = "compressed" /\ Stream!Done)

(* "Keep everything after the separator for the next call".  The next call *)
(* clears the buffer: without any error, bytes of a compressed text that   *)
(* belong to no separator are in no document.                              *)
NothingDropped == kind = "compressed" => Stream!NothingDropped
=============================================================================
