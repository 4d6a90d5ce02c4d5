---------------------------- MODULE MCSourceFiles ----------------------------
(* Every text over the two bytes of a separator and one more, and every     *)
(* JSONL file, up to a length.                                              *)
EXTENDS SourceFiles

CONSTANTS s, t, x, LongestText, LongestLines

UpTo(n, bytes) == UNION {[1 .. k -> bytes] : k \in 0 .. n}

MCBytes == {s, t, x}
MCTexts == UpTo(LongestText, MCBytes)
MCLines == UpTo(LongestLines, {newline, cr, object, junk})

(* None, one byte, one that overlaps itself and one that does not. *)
MCSeparators == {<<>>, <<s>>, <<s, s>>, <<s, s, t>>}
==============================================================================
