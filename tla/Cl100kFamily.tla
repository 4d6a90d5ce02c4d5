---------------------------- MODULE Cl100kFamily ----------------------------
(***************************************************************************)
(* The schemes that share the boundary algebra of                          *)
(* src/pretokenize/fast/cl100k_family.rs: cl100k, olmo3, qwen2, qwen3_5.   *)
(*   '(?i:[sdmt]|ll|ve|re)|[^\r\n\p{L}\p{N}]?\p{L}+|\p{N}{1,3}             *)
(*   | ?[^\s\p{L}\p{N}]+[\r\n]*|\s+$|\s*[\r\n]|\s+(?!\S)|\s+               *)
(* qwen2 and qwen3_5 take one number char, all but cl100k put the newline  *)
(* rule before the end of the text, qwen3_5 counts marks as letters.       *)
(***************************************************************************)
EXTENDS MaskBits

\* (Mutant of ws_token_end: cl100k's is like the others'.)
ws_token_end_alike(t, p, eosFirst) ==
    LET run == WsRun(t, p)
    IN  CASE run.newline # 0 -> run.newline
          [] run.newline = 0 /\ run.end = Len(t) -> run.end
          [] OTHER -> IF run.last > p THEN run.last ELSE run.end
\* A whitespace token; `eosFirst` is cl100k's \s+$ ahead of the newlines.
ws_token_end(t, p, eosFirst) ==
    LET run == WsRun(t, p)
    IN  CASE eosFirst /\ run.end = Len(t) -> run.end
          [] run.newline # 0 -> run.newline
          [] run.end = Len(t) -> run.end
          [] run.last > p -> run.last
          [] OTHER -> run.end

\* \p{N} and \p{N}{1,3}
Single(t, p) == p + CharAt(t, p).len
Up3(t, p) == scan_numbers_max3(t, p + CharAt(t, p).len, 1)

\* A scheme f says how many digits a number has, whether marks are letters and
\* whether the end of the text comes before the newlines.
Cl100k == [digits3 |-> TRUE, marks |-> FALSE, eosFirst |-> TRUE]
Olmo3 == [digits3 |-> TRUE, marks |-> FALSE, eosFirst |-> FALSE]
Qwen2 == [digits3 |-> FALSE, marks |-> FALSE, eosFirst |-> FALSE]
Qwen35 == [digits3 |-> FALSE, marks |-> TRUE, eosFirst |-> FALSE]

ClassIn(f, cat) == IF f.marks THEN ClassOfMarksJoin(cat) ELSE ClassOf(cat)
OfClassIn(f, c) == {cat \in Cats : ClassIn(f, cat) = c}

\* The end of the token that starts at p.
family_advance(f, t, p) ==
    LET letters == OfClassIn(f, "Letter")
        others == OfClassIn(f, "Other")
        b == Byte(t, p)
        q == IF b = " " THEN p + 1 ELSE p + CharAt(t, p).len
        in(at, cats) == at < Len(t) /\ CharAt(t, at).cat \in cats
        others_from(at) == scan_newlines(t, RunEnd(t, at, others))
        ws == ws_token_end(t, p, f.eosFirst)
    IN  CASE in(p, letters) -> RunEnd(t, p, letters)
          [] b = "'" /\ Suffix(t, p, TRUE) > 0 -> p + Suffix(t, p, TRUE)
          [] b = "'" /\ Get(t, p + 1) = "ls2" /\ Get(t, p + 2) = "~" -> p + 3
          [] in(p, OfClass("Number")) -> IF f.digits3 THEN Up3(t, p) ELSE Single(t, p)
          [] b \in Newline -> ws
          [] b \notin Newline /\ in(q, letters) -> RunEnd(t, q, letters)
          [] b = " " /\ in(q, others) -> others_from(q)
          [] b = " " /\ in(q, OfClass("Number")) -> q
          [] in(p, {"Z"}) -> ws
          [] OTHER -> others_from(p)

-----------------------------------------------------------------------------
\* What the two chars before the batch carry into it, as bits 0: P1 is the
\* char that ends before it, P2 the one before P1.  b2b is the bit of the
\* first char whose predecessor's predecessor is a space or punctuation.
NoCarries == [pl |-> {}, ps |-> {}, pwt |-> {}, po |-> {}, pws |-> {},
              pd |-> {}, b2b |-> {}]

Bit0(cond) == IF cond THEN {0} ELSE {}

ascii_carries(t, scan) ==
    LET b == Byte(t, scan - 1)
        c == ClassOf(AsciiCat(b))
        b2 == IF scan >= 2 THEN Byte(t, scan - 2) ELSE "a"
    IN  [pl |-> Bit0(c = "Letter"), ps |-> Bit0(b = " "), pwt |-> Bit0(b = "t"),
         po |-> Bit0(c = "Other"), pws |-> Bit0(c = "Whitespace"),
         pd |-> Bit0(c = "Number"),
         b2b |-> Bit0(b2 = " " \/ ClassOf(AsciiCat(b2)) = "Other")]

\* The carries by walking back through the two chars; P1 may straddle into
\* the batch, and P2 is then the predecessor of its predecessor there.
walk_back_carries(f, t, scan) ==
    LET one == char_through(t, scan)
        c == ClassIn(f, one.cat)
        b == Byte(t, scan - 1)
        two == IF one.lead = 0 THEN FALSE
               ELSE \/ Byte(t, one.lead - 1) = " "
                    \/ ClassIn(f, char_through(t, one.lead).cat) = "Other"
        ws == c = "Whitespace"
    IN  [pl |-> Bit0(c = "Letter"), ps |-> Bit0(ws /\ b = " "),
         pwt |-> Bit0(ws /\ b # " " /\ b \notin Newline),
         po |-> Bit0(c = "Other"), pws |-> Bit0(ws), pd |-> Bit0(c = "Number"),
         b2b |-> IF two THEN {one.end - scan} \cap Bits ELSE {}]

\* The bytes of a char that straddles into the batch, for its class; number
\* and whitespace chars that do are left to the scalar path.
straddling_claim(f, t, scan) ==
    LET one == char_through(t, scan)
        c == ClassIn(f, one.cat)
        chm == {i \in Bits : scan + i < one.end}
        if(x) == IF c = x THEN chm ELSE {}
    IN  [NoUni EXCEPT !.l = if("Letter"), !.n = if("Number"), !.o = if("Other"),
                      !.ws = if("Whitespace"), !.cont = chm,
                      !.resid = if("Number") \cup if("Whitespace")]

\* The bits of the chars whose predecessor's predecessor is in m << 1.
two_back(m, uni) ==
    LET len1 == Bits \ (uni.cont \cup uni.lead2 \cup uni.lead3 \cup uni.lead4)
    IN  Up(m \cap len1, 1) \cup Up(m \cap uni.lead2, 2)
          \cup Up(m \cap uni.lead3, 3) \cup Up(m \cap uni.lead4, 4)

\* Does the char behind the batch end a whitespace run at its edge?
nn64(t, scan, bad) ==
    nn_at_full(t, scan + W) /\ (NonAscii(Byte(t, scan + W)) => W - 1 \notin bad)

\* A whitespace run that leaves the batch is bad, and so is a digit run of
\* whose groups of three the masks do not know the phase.
open_ends(am, wsEff, nn, digits3, pd, bad) ==
    LET nonws == Bits \ wsEff
        open == bad \cup IF W - 1 \in wsEff /\ ~nn /\ nonws # {}
                         THEN From(Max(nonws) + 1) ELSE {}
    IN  open \cup IF digits3 THEN smear_up(am.d \cap (Up(open, 1) \cup pd), am.d)
                 ELSE {}

\* The whitespace tokens: a run leaves its last char to the token after it,
\* and one with a newline splits behind its last newline instead.
ws_starts(am, uni, wsEff, absorbed, pws, nn, bad) ==
    LET nonws == Bits \ wsEff
        leads1 == (am.s \cup am.wt \cup am.n) \cap wsEff
        leads == (leads1 \cup uni.w2 \cup uni.w3) \ absorbed
        edge == (leads1 \cap {W - 1}) \cup (uni.w2 \cap {W - 2})
                  \cup (uni.w3 \cap {W - 3})
        splitOk == (leads1 \cap Down(nonws, 1)) \cup (uni.w2 \cap Down(nonws, 2))
                     \cup (uni.w3 \cap Down(nonws, 3)) \cup IF nn THEN edge ELSE {}
        split == leads \ ((Up(wsEff, 1) \cup pws) \ splitOk)
        runOf(f) == {i \in wsEff : (Min({i, f}) .. Max({i, f})) \subseteq wsEff}
        runs == {runOf(f) : f \in (am.n \cap wsEff) \ bad}
        startsOf(run) ==
          LET q == Max(am.n \cap run)
              tail == {i \in run : i > q}
          IN  {Min(run)} \cup IF tail = {} THEN {}
                              ELSE {q + 1, Max(leads \cap tail)}
    IN  (split \ UNION runs) \cup UNION {startsOf(r) : r \in runs}

\* The boundary algebra of the family over the classes of each byte.
family_algebra(f, t, scan, am, cr, uni) ==
    LET lb == am.l \cup uni.l
        wtb == am.wt \cup uni.ws
        ob == (Bits \ (am.l \cup am.d \cup am.s \cup am.wt \cup am.n \cup am.hi))
                \cup uni.o
        prevO == Up(ob, 1) \cup cr.po
        prevS == Up(am.s, 1) \cup cr.ps
        \* letters take one char in front, unless that char is spoken for
        \* by the char before it
        b2back == two_back(prevO \cup prevS, uni) \cup cr.b2b
        bLetters == lb \ (uni.cont \cup Up(lb, 1) \cup cr.pl \cup prevS
                            \cup Up(wtb, 1) \cup cr.pwt \cup (prevO \ b2back))
        bDigits == IF f.digits3 THEN digit_run_splits3(am.d) ELSE am.d
        bPunct == ob \ (uni.cont \cup prevO \cup prevS)
        \* newlines that a punctuation run absorbs
        absN == smear_up(am.n \cap prevO, am.n)
        wsEff == (am.s \cup wtb \cup am.n) \ absN
        bad0 == uni.resid \cup Up(uni.resid, 1) \cup Down(uni.resid, 1)
        nn == nn64(t, scan, bad0)
        bad1 == bad0 \cup IF W - 1 \in absN /\ ~nn THEN {W - 1} ELSE {}
        bad == open_ends(am, wsEff, nn, f.digits3, cr.pd, bad1)
        bWs == ws_starts(am, uni, wsEff, absN, cr.pws, nn, bad)
    IN  IF wsEff = Bits /\ ~nn THEN AllBad
        ELSE ContractionFixup(t, scan, bLetters \cup bDigits \cup bPunct \cup bWs,
                              bad, am.ap, TRUE)

family_extended_masks(f, t, scan, am) ==
    LET walk == scan > 0 /\ (\/ NonAscii(Byte(t, scan - 1))
                             \/ scan >= 2 /\ NonAscii(Byte(t, scan - 2)))
        cr == IF scan = 0 THEN NoCarries
              ELSE IF walk THEN walk_back_carries(f, t, scan)
              ELSE ascii_carries(t, scan)
        claim == IF walk THEN straddling_claim(f, t, scan) ELSE NoUni
        uni == classify_uni_chars(t, scan, am.hi \ claim.cont,
                                  [cat \in Cats |-> ClassIn(f, cat)], FALSE)
    IN  family_algebra(f, t, scan, am, cr, Merge(claim, uni))

family_batch_masks(f, t, scan) ==
    LET am == AsciiMasks(t, scan)
        near == {p \in {scan - 1, scan - 2} : p >= 0 /\ NonAscii(Byte(t, p))}
    IN  IF ~Guarded(t, scan) THEN AllBad
        ELSE IF am.hi # {} \/ near # {}
        THEN family_extended_masks(f, t, scan, am)
        ELSE family_algebra(f, t, scan, am,
                            IF scan = 0 THEN NoCarries ELSE ascii_carries(t, scan),
                            NoUni)
=============================================================================
