----------------------------- MODULE AddedTokens -----------------------------
(***************************************************************************)
(* Added tokens are matched in the raw text, before anything else          *)
(* (for_each_piece of src/bpe/tiktoken.rs), and restrict where a document  *)
(* may be cut (safe_split_ranges of src/pretokenize/mod.rs).               *)
(*                                                                         *)
(* An added token is a record of its text and of whether it absorbs the    *)
(* whitespace to its left (lstrip) and to its right (rstrip).              *)
(***************************************************************************)
EXTENDS PretokenText, SequencesExt

Slice(t, lo, hi) == SubSeq(t, lo + 1, hi)

OccursAt(t, p, needle) ==
    p + Len(needle) <= Len(t) /\ Slice(t, p, p + Len(needle)) = needle

trim_ws_start(t, p) == RunEnd(t, p, {"Z"})
\* Where the whitespace that ends at hi begins, but not before lo.
trim_ws_end(t, lo, hi) == Min({q \in lo .. hi : RunEnd(t, q, {"Z"}) >= hi})

\* The leftmost added token at or after `from` and where it starts, the
\* longest of those that start there; <<>> when there is none.
find_added_token(t, from, added) ==
    LET found == {m \in (from .. Len(t)) \X added : OccursAt(t, m[1], m[2].text)}
        before(m, o) == m[1] < o[1] \/ (m[1] = o[1] /\ Len(m[2].text) >= Len(o[2].text))
    IN  IF found = {} THEN <<>> ELSE CHOOSE m \in found : \A o \in found : before(m, o)

Segment(t, lo, hi) == [added |-> FALSE, bytes |-> Slice(t, lo, hi)]

\* The pieces from pos on, where m is the next added token; `from` has those
\* of every later position.
PiecesUpTo(t, pos, m, from) ==
    LET end == m[1] + Len(m[2].text)
        before == IF m[2].lstrip THEN trim_ws_end(t, pos, m[1]) ELSE m[1]
        after == IF m[2].rstrip THEN trim_ws_start(t, end) ELSE end
    IN  IF m = <<>> THEN <<Segment(t, pos, Len(t))>>
        ELSE <<Segment(t, pos, before), [added |-> TRUE, bytes |-> m[2].text]>> \o from[after]

\* for_each_piece: added tokens and the segments between them, in order.
Pieces(t, added) ==
    LET from[pos \in 0 .. Len(t)] ==
          IF pos = Len(t) THEN <<>>
          ELSE PiecesUpTo(t, pos, find_added_token(t, pos, added), from)
    IN  from[0]

-----------------------------------------------------------------------------

Alphabetic == Lower \cup Upper
Alphanumeric == Alphabetic \cup {"0"}

\* memmem's find_iter: the occurrences in t from lo to hi that do not overlap
\* an earlier one.
find_iter(t, lo, hi, needle) ==
    LET from[p \in lo .. hi] ==
          CASE p + Len(needle) > hi -> {}
            [] p + Len(needle) <= hi /\ OccursAt(t, p, needle) ->
                 {p} \cup from[p + Len(needle)]
            [] OTHER -> from[p + 1]
    IN  from[lo]

blockers(added) == {a.text : a \in {b \in added : " " \in Range(b.text)}}
end_blockers(added) ==
    {a.text : a \in {b \in added : b.rstrip /\ Last(b.text) \in Alphanumeric}}

\* Does an occurrence span the cut at p?
cuts_added_token(t, p, added) ==
    LET radius == Max({Len(b) : b \in blockers(added)}) - 1
        lo == Max({0, p - radius})
        hi == Min({p + radius, Len(t)})
    IN  \E b \in blockers(added) :
          \E s \in find_iter(t, lo, hi, b) : s < p /\ s + Len(b) > p

ends_rstrip_token(t, p, added) ==
    \E b \in end_blockers(added) : Len(b) <= p /\ OccursAt(t, p - Len(b), b)

\* Is p a boundary under every scheme that splits words, and no part of an
\* added token?
MayCut(t, p, added) ==
    /\ Byte(t, p) = " "
    /\ Byte(t, p - 1) \in Alphanumeric
    /\ Byte(t, p + 1) \in Alphabetic
    /\ blockers(added) # {} => ~cuts_added_token(t, p, added)
    /\ ~ends_rstrip_token(t, p, added)

\* The ranges between each bound and the next; an empty text is one range.
Consecutive(bounds) ==
    IF Len(bounds) = 1 THEN <<<<0, 0>>>>
    ELSE [i \in 1 .. Len(bounds) - 1 |-> <<bounds[i], bounds[i + 1]>>]

\* Ranges of about `target` bytes that tile t, each <<from, to>>.
safe_split_ranges(t, target, added) ==
    LET next(start) == Min({Len(t)} \cup
                           {p \in start + target .. Len(t) - 2 : MayCut(t, p, added)})
        ends[start \in 0 .. Len(t)] ==
          {start} \cup IF start = Len(t) THEN {} ELSE ends[next(start)]
    IN  Consecutive(InOrder(ends[0]))
=============================================================================
