----------------------------- MODULE MaskWalker -----------------------------
(***************************************************************************)
(* The batch walker of src/pretokenize/fast/mask.rs: MaskState pulls the   *)
(* spans of a text one at a time (next_span) or a chunk at a time          *)
(* (fill_spans_two_phase), from the masks of batches on a fixed grid where *)
(* they can be trusted and from the scheme's scalar advance elsewhere.     *)
(*                                                                         *)
(* Every iteration of a loop of the code is an action; pc says which loop  *)
(* the call in progress is in.  A boundary is an offset into the text; the *)
(* code keeps those of a fill relative to its base in sixteen bits.        *)
(***************************************************************************)
EXTENDS MaskBits, Level1Units, SequencesExt

CONSTANTS
    Chunk,    \* spans of a fill, PRETOKEN_CHUNK (256)
    U16,      \* the largest relative offset a fill keeps (65535)
    Never     \* usize::MAX, past every offset

ASSUME WalkerAssumption == {Chunk, U16, Never} \subseteq Nat \ {0} /\ U16 >= 2 * W

VARIABLES
    text, scheme,
    \* what the scheme makes of the text
    advance,       \* start -> end of the token there, Never if none is left
    batch_masks,   \* base of a batch -> its usable and bad bits
    gluing,        \* are the spans units of level 1, and
    glued,         \* the <<start, end>> of the tokens the next one glues onto
    tokens,        \* the ends of its tokens or units by Advance alone: what
                   \* the walk should hand out, never read by an action
    simd,          \* simd_scanner_available()
    pc,            \* "idle" between calls, else the loop the call is in
    pos,           \* start of the pending token
    scan,          \* base of the next batch
    mask_base,     \* base that rem, usable and bad refer to
    rem,           \* boundary bits ready to pop
    usable, bad,   \* the masks of the current batch
    scalar_until,  \* below this offset tokens come from Advance
    pre_base,      \* batch whose masks are computed ahead, Never if none
    pre,           \* those masks
    \* of the fill in progress
    pending,       \* start of its pending token
    fill_base,     \* base of the buffer
    resume,        \* bits below it are settled
    masks, at,     \* the batch it harvests, the bit it has come to
    nb,            \* the buffer of boundaries
    overflow_end,  \* an end past the buffer's range, Never if none
    exhausted,     \* the text is used up
    filled,        \* spans filled in
    ends           \* the spans handed out so far, by their ends

batchVars == <<mask_base, rem, usable, bad, scalar_until, pre_base, pre>>
fillVars == <<pending, fill_base, resume, masks, at, nb, overflow_end, exhausted,
              filled>>
input == <<text, scheme, advance, batch_masks, gluing, glued, tokens, simd>>
vars == <<input, pc, pos, scan, batchVars, fillVars, ends>>

Size == Len(text)
NoMasks == [usable |-> {}, bad |-> {}]
\* (Mutant of Rewound: a base past p stays.)
NotRewound(base, p) == base
\* The first grid base at or below p, seen from a base that is past it.
Rewound(base, p) == IF base > p THEN base - W * ((base - p + W - 1) \div W) ELSE base
LastOf(s, none) == IF s = <<>> THEN none ELSE s[Len(s)]

\* The ends of the steps from p on, up to the first at or past `until`, at
\* most k of them.
Walk(step, p, until, k) ==
    LET walk[n \in 0 .. k] ==
          IF n = 0 THEN <<>>
          ELSE LET before == walk[n - 1]
                   last == LastOf(before, p)
               IN  IF last >= until \/ Len(before) < n - 1 THEN before
                   ELSE Append(before, step[last])
    IN  walk[k]

\* The spans a scalar walk hands out from p, at most k.
Span(p) == IF gluing THEN next_unit(Size, p, advance, glued) ELSE advance[p]
SpanEnds == [q \in DOMAIN advance |-> Span(q)]
Spans(p, k) == LET walk == Walk(SpanEnds, p, Size, k)
               IN  IF LastOf(walk, p) = Never THEN Front(walk) ELSE walk

\* The batches that fit the text, and the bytes their masks speak of.
Grid == {W * k : k \in 0 .. Size} \cap 0 .. Size - W
Scanned == {base + i : base \in Grid, i \in Bits}
Marked(q, mask) == \E base \in Grid : q - base \in batch_masks[base][mask]

\* The starts of the tokens of the text, and its end.
Boundaries == LET ends_of == Walk(advance, 0, Size, Size)
              IN  {0} \cup {ends_of[i] : i \in DOMAIN ends_of}

\* What a scheme owes the walk.  Its masks may miss the end of a token, or
\* mark a byte inside it, but not without a bad byte behind the token's start.
MasksAgree ==
    /\ batch_masks \in [Grid -> [usable : SUBSET Bits, bad : SUBSET Bits]]
    /\ \A start \in Boundaries \ {Size} :
         LET end == advance[start]
         IN  /\ \A q \in start + 1 .. end - 1 :
                  Marked(q, "usable") => \E z \in start .. q - 1 : Marked(z, "bad")
             /\ end \in Scanned /\ ~Marked(end, "usable") =>
                  \E z \in start .. end : Marked(z, "bad")

\* A text with the spans of a scheme.
Given ==
    /\ Size \in Nat /\ Size < Never
    /\ gluing \in BOOLEAN /\ simd \in BOOLEAN
    /\ advance \in [0 .. Size - 1 -> 1 .. Size \cup {Never}]
    /\ \A p \in DOMAIN advance :
         /\ advance[p] > p
         /\ simd \/ gluing => advance[p] # Never
    /\ \A pair \in glued : pair[1] \in DOMAIN advance
    /\ tokens = Spans(0, Size)
    /\ simd => MasksAgree

\* MaskState::new
New(start) ==
    /\ pos = start /\ scan = start /\ mask_base = start
    /\ rem = {} /\ usable = {} /\ bad = {}
    /\ scalar_until = IF simd THEN start ELSE Never
    /\ pre_base = Never /\ pre = NoMasks
    /\ pending = start /\ fill_base = start /\ resume = start
    /\ masks = NoMasks /\ at = -1
    /\ nb = <<>> /\ overflow_end = Never /\ exhausted = FALSE /\ filled = 0
    /\ pc = "idle" /\ ends = <<>>

-----------------------------------------------------------------------------
(* One span at a time *)

CallNext ==
    /\ pc = "idle" /\ ~gluing
    /\ pc' = "next"
    /\ UNCHANGED <<input, pos, scan, batchVars, fillVars, ends>>

Emit(end) ==
    /\ pos' = end
    /\ ends' = Append(ends, end)
    /\ pc' = "idle"

PopBit ==
    /\ pc = "next" /\ rem # {}
    /\ Emit(mask_base + Min(rem))
    /\ rem' = rem \ {Min(rem)}
    /\ UNCHANGED <<input, scan, mask_base, usable, bad, scalar_until, pre_base,
                   pre, fillVars>>

ScalarSpan ==
    /\ pc = "next" /\ rem = {} /\ pos < scalar_until
    /\ pos < Size /\ advance[pos] # Never
    /\ Emit(advance[pos])
    /\ UNCHANGED <<input, scan, batchVars, fillVars>>

\* None: the input is over
EndOfInput ==
    /\ pc = "next" /\ rem = {} /\ pos < scalar_until
    /\ pos < Size => advance[pos] = Never
    /\ pc' = "done"
    /\ UNCHANGED <<input, pos, scan, batchVars, fillVars, ends>>

\* The usable bits from bit `from` up to the next bad zone are ready; behind
\* the zone the scalar path hands over at the next trusted boundary.
load_segment(base, use, unsafe, from) ==
    LET zone == unsafe \cap From(from)
        next == Min(zone)
        rest == {i \in use : i >= next}
        ready == {i \in use \cap From(from) : zone = {} \/ i < next}
    IN  /\ rem' = IF pos = base + from THEN ready \ {from} ELSE ready
        /\ bad' = IF zone = {} THEN {} ELSE unsafe
        /\ scalar_until' = IF zone = {} THEN scalar_until
                           ELSE IF rest = {} THEN base + W
                           ELSE base + Min(rest)

OutOfBits == pc = "next" /\ rem = {} /\ pos >= scalar_until
InBatch == bad # {} /\ pos < mask_base + W

NextSegment ==
    /\ OutOfBits /\ InBatch
    /\ load_segment(mask_base, usable, bad, pos - mask_base)
    /\ UNCHANGED <<input, pc, pos, scan, mask_base, usable, pre_base, pre,
                   fillVars, ends>>

\* The grid base of the batch after an overrun.
Onward == IF scan + W <= pos THEN scan + W * ((pos - scan) \div W) ELSE scan

ScalarTail ==
    /\ OutOfBits /\ ~InBatch /\ Onward + W > Size
    /\ scan' = Onward
    /\ bad' = {}
    /\ scalar_until' = Never
    /\ UNCHANGED <<input, pc, pos, mask_base, rem, usable, pre_base, pre,
                   fillVars, ends>>

NextBatch ==
    /\ OutOfBits /\ ~InBatch /\ Onward + W <= Size
    /\ LET m == IF pre_base = Onward THEN pre ELSE batch_masks[Onward]
       IN  /\ usable' = m.usable
           /\ load_segment(Onward, m.usable, m.bad,
                           IF pos > Onward THEN pos - Onward ELSE 0)
    /\ mask_base' = Onward
    /\ scan' = Onward + W
    /\ IF scan' + W <= Size
       THEN pre_base' = scan' /\ pre' = batch_masks[scan']
       ELSE pre_base' = Never /\ pre' = pre
    /\ UNCHANGED <<input, pc, pos, fillVars, ends>>

-----------------------------------------------------------------------------
(* A chunk at a time *)

\* Without a SIMD scanner, or in a scheme that has no masks, a fill pulls
\* its spans one by one.
FillScalar ==
    /\ pc = "idle" /\ ~simd
    /\ LET more == Spans(pos, Chunk)
       IN  /\ ends' = ends \o more
           /\ pos' = LastOf(more, pos)
           /\ pc' = IF Len(more) < Chunk THEN "done" ELSE "idle"
    /\ UNCHANGED <<input, scan, batchVars, fillVars>>

CallFill ==
    /\ pc = "idle" /\ simd
    /\ pc' = "fill"
    /\ pending' = pos
    /\ scan' = Rewound(scan, pos)
    /\ filled' = 0
    /\ exhausted' = FALSE
    /\ UNCHANGED <<input, pos, batchVars, fill_base, resume, masks, at, nb,
                   overflow_end, ends>>

Refill ==
    /\ pc = "fill" /\ filled < Chunk /\ pending < Size /\ ~exhausted
    /\ scan' = IF pending >= scan + W THEN scan + W * ((pending - scan) \div W)
               ELSE IF gluing THEN Rewound(scan, pending)
               ELSE scan
    /\ fill_base' = pending
    /\ resume' = pending
    /\ nb' = <<>>
    /\ overflow_end' = Never
    /\ pc' = "harvest"
    /\ UNCHANGED <<input, pos, batchVars, pending, masks, at, exhausted,
                   filled, ends>>

Needed == Chunk - filled
RelLimit == U16 - (2 * W - 1)
\* (Mutant of Harvesting: only the number of boundaries counts.)
HarvestingFar == pc = "harvest" /\ Len(nb) < Needed
Harvesting == pc = "harvest" /\ Len(nb) < Needed /\ scan - fill_base <= RelLimit

\* Enough boundaries, or the next ones may not fit sixteen bits.
StopHarvest ==
    /\ pc = "harvest" /\ ~Harvesting
    /\ pc' = "emit"
    /\ UNCHANGED <<input, pos, scan, batchVars, fillVars, ends>>

\* The scalar ends from p on, up to the first at or past `until`.
ScalarEnds(p, until, k) == Walk(advance, p, until, k)

HarvestTail ==
    /\ Harvesting /\ scan + W > Size
    /\ LET more == ScalarEnds(LastOf(nb, fill_base), Size, Needed - Len(nb))
       IN  /\ nb' = nb \o more
           /\ exhausted' = (LastOf(nb \o more, fill_base) >= Size)
    /\ pc' = "emit"
    /\ UNCHANGED <<input, pos, scan, batchVars, pending, fill_base, resume, masks,
                   at, overflow_end, filled, ends>>

\* At a resume point inside the batch its usable bit is settled, but a bad
\* zone that starts there still holds.
EnterBatch ==
    /\ Harvesting /\ scan + W <= Size
    /\ masks' = batch_masks[scan]
    /\ at' = IF resume >= scan THEN resume - scan ELSE -1
    /\ pc' = "batch"
    /\ UNCHANGED <<input, pos, scan, batchVars, pending, fill_base, resume, nb,
                   overflow_end, exhausted, filled, ends>>

Offsets(bits) == InOrder({scan + i : i \in bits})

HarvestClean ==
    /\ pc = "batch" /\ masks.bad \cap From(at) = {}
    /\ nb' = nb \o Offsets(masks.usable \cap From(at + 1))
    /\ scan' = scan + W
    /\ masks' = NoMasks
    /\ pc' = "harvest"
    /\ UNCHANGED <<input, pos, batchVars, pending, fill_base, resume, at,
                   overflow_end, exhausted, filled, ends>>

HarvestDirty ==
    /\ pc = "batch" /\ masks.bad \cap From(at) # {}
    /\ LET zone == Min(masks.bad \cap From(at))
           head == nb \o Offsets({i \in masks.usable : at < i /\ i < zone})
           rest == {i \in masks.usable : i >= zone}
           until == scan + IF rest = {} THEN W ELSE Min(rest)
           more == ScalarEnds(LastOf(head, fill_base), until, Size)
           far == {i \in DOMAIN more : more[i] - fill_base > U16}
           fits == IF far = {} THEN more ELSE SubSeq(more, 1, Min(far) - 1)
           p == LastOf(more, LastOf(head, fill_base))
       IN  /\ nb' = head \o fits
           /\ IF Len(fits) < Len(more)
              THEN /\ overflow_end' = more[Len(fits) + 1]
                   /\ pc' = "emit"
                   /\ masks' = NoMasks
                   /\ UNCHANGED <<scan, resume, at>>
              ELSE /\ UNCHANGED overflow_end
                   /\ IF p >= scan + W
                      THEN /\ scan' = scan + W * ((p - scan) \div W)
                           /\ resume' = p
                           /\ pc' = "harvest"
                           /\ masks' = NoMasks
                           /\ UNCHANGED at
                      ELSE /\ at' = p - scan
                           /\ UNCHANGED <<scan, resume, masks, pc>>
    /\ UNCHANGED <<input, pos, batchVars, pending, fill_base, exhausted, filled,
                   ends>>

Kept == IF gluing THEN glue_filter(Size, fill_base, nb, glued) ELSE nb

\* No boundary came out of the harvest: a span longer than the window, or
\* every boundary glued over.
EmitDirect ==
    /\ pc = "emit" /\ Kept = <<>>
    /\ LET end == IF ~gluing /\ overflow_end # Never THEN overflow_end
                  ELSE Span(fill_base)
       IN  /\ ends' = Append(ends, end)
           /\ pending' = end
    /\ filled' = filled + 1
    /\ pc' = "fill"
    /\ UNCHANGED <<input, pos, scan, batchVars, fill_base, resume, masks, at, nb,
                   overflow_end, exhausted>>

EmitChunk ==
    /\ pc = "emit" /\ Kept # <<>>
    /\ LET out == SubSeq(Kept, 1, Min({Len(Kept), Needed}))
       IN  /\ ends' = ends \o out
           /\ filled' = filled + Len(out)
           /\ pending' = out[Len(out)]
    /\ pc' = "fill"
    /\ UNCHANGED <<input, pos, scan, batchVars, fill_base, resume, masks, at, nb,
                   overflow_end, exhausted>>

\* The state a fill leaves is a fresh resume at the pending token.
FinishFill ==
    /\ pc = "fill" /\ (filled >= Chunk \/ pending >= Size \/ exhausted)
    /\ pos' = pending
    /\ scan' = Rewound(scan, pending)
    /\ mask_base' = scan'
    /\ rem' = {} /\ usable' = {} /\ bad' = {}
    /\ scalar_until' = pending
    /\ pre_base' = Never /\ UNCHANGED pre
    /\ pc' = IF filled < Chunk THEN "done" ELSE "idle"
    /\ UNCHANGED <<input, fillVars, ends>>

Finished == pc = "done" /\ UNCHANGED vars

Next ==
    \/ CallNext \/ PopBit \/ ScalarSpan \/ EndOfInput \/ NextSegment
    \/ ScalarTail \/ NextBatch
    \/ FillScalar \/ CallFill \/ Refill \/ StopHarvest \/ HarvestTail \/ EnterBatch
    \/ HarvestClean \/ HarvestDirty \/ EmitDirect \/ EmitChunk \/ FinishFill
    \/ Finished

\* A walk over a text whose scheme keeps its promise.
Walking == Given /\ New(0) /\ [][Next]_vars

-----------------------------------------------------------------------------
\* Every span, by whichever pull and in whichever order the pulls alternate,
\* ends where the scheme's scalar advance ends the token that starts where
\* the span before it ended; and a pull that says the input is over (a short
\* fill is what the encode loop stops on) has handed out all of it.
SpansAreScalar == IsPrefix(ends, tokens) /\ (pc = "done" => ends = tokens)

\* The boundary buffer of a fill is written unchecked: it never holds more
\* than a chunk and one batch (what BOUND_BUF leaves room for, with the slack
\* of a wide store), and every boundary in it fits sixteen bits.
BufferFits ==
    /\ Len(nb) <= Chunk + W
    /\ \A i \in DOMAIN nb : nb[i] - fill_base <= U16
=============================================================================
