----------------------------- MODULE Level1Units -----------------------------
(***************************************************************************)
(* The units SuperBPE encodes on its first level                           *)
(* (src/pretokenize/fast/level1.rs): a stage-1 pretoken and every one that *)
(* glues onto it.  A pretoken is given by its bounds in the text, which is *)
(* valid UTF-8.                                                            *)
(***************************************************************************)
EXTENDS MaskBits

FirstCat(t, lo) == CharAt(t, lo).cat
LastCat(t, hi) == char_through(t, hi).cat

starts_with_word(t, lo) == ClassOf(FirstCat(t, lo)) \in {"Letter", "Number"}
ends_with_mark(t, hi) == LastCat(t, hi) = "M"

\* Both chars at the junction are multi-byte.
non_ascii_pair(t, mid) == NonAscii(Byte(t, mid - 1)) /\ NonAscii(Byte(t, mid))

\* Does the pretoken at mid glue onto prev, the one from lo to mid?
glues(t, lo, mid, wide) ==
    \/ wide /\ \/ starts_with_word(t, mid)
               \/ FirstCat(t, mid) = "Z" /\ ends_with_mark(t, mid)
    \/ LastCat(t, mid) = "Z" /\ FirstCat(t, mid) = "Z"
    \/ "'" \in {Byte(t, mid - 1), Byte(t, lo)}
    \/ Byte(t, mid) = "0"
    \/ non_ascii_pair(t, mid)

\* Level1Walk::next_unit: the end of the unit that starts at `start`, from the
\* tokens of the text and those of them that the next one glues onto.
next_unit(size, start, advance, glued) ==
    LET end[lo \in 0 .. size] ==
          LET hi == advance[lo]
          IN  IF hi < size /\ <<lo, hi>> \in glued THEN end[hi] ELSE hi
    IN  end[start]

\* Of the token ends harvested from base on, those that end a unit.  The last
\* has no successor to glue on, and is left to the next fill unless the text
\* ends there.
glue_filter(size, base, ends, glued) ==
    LET n == Len(ends)
        lo(i) == IF i = 1 THEN base ELSE ends[i - 1]
        kept == {i \in 1 .. n : IF i < n THEN <<lo(i), ends[i]>> \notin glued
                                ELSE ends[n] >= size}
    IN  InOrder({ends[i] : i \in kept})
=============================================================================
