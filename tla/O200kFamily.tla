----------------------------- MODULE O200kFamily -----------------------------
(***************************************************************************)
(* The schemes of src/pretokenize/fast/o200k_family.rs: o200k, nemotron,   *)
(* kimi and SuperBPE's stage 1.                                            *)
(*   HAN+|PRE?[UPPER CASELESS M]*[LOWER CASELESS M]+SUF?                   *)
(*   |PRE?[UPPER CASELESS M]+[LOWER CASELESS M]*SUF?|\p{N}{1,3}            *)
(*   | ?[^\s\p{L}\p{N}]+TAIL|\s*[\r\n]+|\s+(?!\S)|\s+                      *)
(* A scheme f says whether it has contractions as suffixes, three digits   *)
(* to a number, slashes in the tail of punctuation, and runs of Han.       *)
(***************************************************************************)
EXTENDS Cl100kFamily

CONSTANT Walkback   \* tail bytes that are walked back over (8 in the code)

ASSUME WalkbackAssumption == Walkback \in Nat

O200k == [contractions |-> TRUE, digits3 |-> TRUE, slash |-> TRUE, han |-> FALSE]
Nemotron == [contractions |-> FALSE, digits3 |-> FALSE, slash |-> TRUE, han |-> FALSE]
Kimi == [contractions |-> TRUE, digits3 |-> TRUE, slash |-> FALSE, han |-> TRUE]
SuperBPEStage1 ==
    [contractions |-> FALSE, digits3 |-> TRUE, slash |-> TRUE, han |-> FALSE]

is_tail_byte(f, b) == b \in Newline \/ (f.slash /\ b = "/")

\* unicode::o200k_class_of, and KimiCharClass::base: what a char of \p{Han}
\* is outside a Han run.
o200k_class_of(cat) == CASE cat = "Lu" -> "Upper"
                         [] cat = "Ll" -> "Lower"
                         [] cat \in {"Lo", "Han"} -> "Caseless"
                         [] cat = "M" -> "Mark"
                         [] OTHER -> ClassOf(cat)
IsHan(f, cat) == f.han /\ cat \in {"Han", "HanN", "HanS"}
LetterRun == {"Upper", "Lower", "Caseless", "Mark"}

\* Can the char at p be in a letter run?
letter_run_first(f, t, p) ==
    /\ p < Len(t)
    /\ o200k_class_of(CharAt(t, p).cat) \in LetterRun
    /\ ~IsHan(f, CharAt(t, p).cat)

\* A letter run from p.  Before its first lower case letter (phase "U") it
\* takes capitals, and gives back those behind its last caseless char (which
\* ends at cl, 0 if there is none) when no lower case letter comes; after
\* that letter (phase "L") a capital ends it.
scan_case_run(f, t, p) ==
    LET run[q \in p .. Len(t), phase \in {"U", "L"}, cl \in 0 .. Len(t)] ==
          LET c == IF letter_run_first(f, t, q)
                   THEN o200k_class_of(CharAt(t, q).cat) ELSE "none"
              next == q + CharAt(t, q).len
          IN  CASE c = "Upper" /\ phase = "U" -> run[next, "U", cl]
                [] c = "Lower" -> run[next, "L", 0]
                [] c \in {"Caseless", "Mark"} ->
                     run[next, phase, IF phase = "U" THEN next ELSE 0]
                [] OTHER -> IF phase = "U" /\ cl # 0 THEN cl ELSE q
    IN  run[p, "U", 0]

try_suffix(f, t, e) ==
    IF ~f.contractions \/ Get(t, e) # "'" THEN e
    ELSE IF Get(t, e + 1) = "ls2" /\ Get(t, e + 2) = "~" THEN e + 3
    ELSE e + Suffix(t, e, TRUE)

\* [^\s\p{L}\p{N}]+ and its tail
scan_punct_from(t, p) == RunEnd(t, p, OfClass("Other"))

scan_tail(f, t, p) ==
    LET end[q \in p .. Len(t)] ==
          IF is_tail_byte(f, Get(t, q)) THEN end[q + 1] ELSE q
    IN  end[p]

scan_han_run(t, p) == RunEnd(t, p, {"Han", "HanN", "HanS"})

o200k_ws_token_end(t, p) == ws_token_end(t, p, FALSE)

digit_token_end(f, t, p) == IF f.digits3 THEN Up3(t, p) ELSE Single(t, p)

\* The end of the token that starts at p.
o200k_advance(f, t, p) ==
    LET b == Byte(t, p)
        cat == CharAt(t, p).cat
        class == o200k_class_of(cat)
        q == p + CharAt(t, p).len
        letters(at) == try_suffix(f, t, scan_case_run(f, t, at))
        punct(at) == scan_tail(f, t, scan_punct_from(t, at))
        next == IF q < Len(t) THEN o200k_class_of(CharAt(t, q).cat) ELSE "none"
    IN  CASE IsHan(f, cat) -> scan_han_run(t, p)
          [] ~IsHan(f, cat) /\ class \in LetterRun -> letters(p)
          [] ~IsHan(f, cat) /\ class = "Number" -> digit_token_end(f, t, p)
          [] b \in Newline -> o200k_ws_token_end(t, p)
          [] ~IsHan(f, cat) /\ class \in {"Other", "Whitespace"} /\ b \notin Newline ->
               CASE letter_run_first(f, t, q) -> letters(q)
                 [] ~letter_run_first(f, t, q) /\ b = " " ->
                      CASE next = "Other" -> punct(q)
                        [] next = "Whitespace" -> o200k_ws_token_end(t, p)
                        [] OTHER -> q
                 [] ~letter_run_first(f, t, q) /\ b # " " ->
                      IF class = "Whitespace" THEN o200k_ws_token_end(t, p)
                      ELSE punct(p)

-----------------------------------------------------------------------------
\* Was the tail byte before scan taken by the punctuation before it, rather
\* than by whitespace or a new punctuation run?  "unknown" when the run of
\* tail bytes is too long or what precedes it has no class of its own.
prev_tail_absorbed(f, t, scan) ==
    LET tail == {r \in 0 .. scan - 1 : \A q \in r .. scan - 1 : is_tail_byte(f, Byte(t, q))}
        r == Min(tail)
        pred == char_through(t, r).cat
        leading == r > 0 /\ Byte(t, r) \in Newline
        class == o200k_class_of(pred)
        behindSlash == \E q, s \in r .. scan - 1 :
                          s < q /\ Byte(t, s) = "/" /\ Byte(t, q) \in Newline
    IN  CASE scan - 1 - r > Walkback -> "unknown"
          [] leading /\ (class = "Mark" \/ (class = "Other" /\ IsHan(f, pred))) -> "unknown"
          [] leading /\ class = "Other" /\ ~IsHan(f, pred) -> "yes"
          [] OTHER -> IF behindSlash THEN "yes" ELSE "no"

\* Is the ASCII byte at p a space or in a punctuation run?
c2_os_ascii(f, t, p) ==
    LET b == Byte(t, p)
    IN  IF f.slash /\ b = "/"
        THEN CASE prev_tail_absorbed(f, t, p + 1) = "yes" -> "no"
               [] prev_tail_absorbed(f, t, p + 1) = "no" -> "yes"
               [] OTHER -> "unknown"
        ELSE IF b = " " \/ ClassOf(AsciiCat(b)) = "Other" THEN "yes" ELSE "no"

\* What the chars before the batch carry into it: the carries of the cl100k
\* family and the case of the letter before it, a Han letter before it, an
\* absorbed tail that may go on, and carries that could not be resolved.
NoOCarries == [pl |-> {}, pu |-> {}, pcl |-> {}, ps |-> {}, pwt |-> {}, po |-> {},
               pws |-> {}, pd |-> {}, phan |-> {}, b2b |-> {}, abs |-> {},
               unresolved |-> FALSE]

o200k_ascii_carries(f, t, scan) ==
    LET b == Byte(t, scan - 1)
        c == ClassOf(AsciiCat(b))
        two == IF scan >= 2 THEN c2_os_ascii(f, t, scan - 2) ELSE "no"
    IN  [NoOCarries EXCEPT
           !.pl = Bit0(c = "Letter"), !.pu = Bit0(b \in Upper), !.ps = Bit0(b = " "),
           !.pwt = Bit0(c = "Whitespace" /\ b # " "), !.po = Bit0(c = "Other"),
           !.pws = Bit0(c = "Whitespace"), !.pd = Bit0(c = "Number"),
           !.b2b = Bit0(two = "yes"), !.unresolved = (two = "unknown")]

\* The carries behind a tail byte: an absorbed tail ends its token, so that
\* only its own continuation is carried.
tail_carries(f, t, scan) ==
    LET absorbed == prev_tail_absorbed(f, t, scan)
        b == Byte(t, scan - 1)
        b2 == Byte(t, scan - 2)
    IN  CASE absorbed = "yes" -> [NoOCarries EXCEPT !.abs = {0}]
          [] absorbed = "unknown" \/ (scan >= 2 /\ NonAscii(b2)) ->
               [NoOCarries EXCEPT !.unresolved = TRUE]
          [] OTHER ->
               [NoOCarries EXCEPT
                  !.po = Bit0(b = "/"), !.pws = Bit0(b # "/"),
                  !.b2b = Bit0(scan >= 2 /\ (b2 = " " \/ ClassOf(AsciiCat(b2)) = "Other"))]

ascii_batch_carries(f, t, scan) ==
    CASE scan = 0 -> NoOCarries
      [] scan > 0 /\ is_tail_byte(f, Byte(t, scan - 1)) -> tail_carries(f, t, scan)
      [] OTHER -> o200k_ascii_carries(f, t, scan)

\* The carries by walking back through multi-byte chars.
o200k_walk_back(f, t, scan) ==
    LET one == char_through(t, scan)
        class == o200k_class_of(one.cat)
        han == IsHan(f, one.cat)
        b == Byte(t, scan - 1)
        before == char_through(t, one.lead)
        c2 == o200k_class_of(before.cat)
        two == CASE one.lead = 0 -> "no"
                 [] one.lead > 0 /\ f.slash /\ Byte(t, one.lead - 1) = "/" ->
                      c2_os_ascii(f, t, one.lead - 1)
                 [] OTHER ->
                      IF c2 = "Mark" \/ (c2 = "Other" /\ IsHan(f, before.cat))
                      THEN "unknown"
                      ELSE IF Byte(t, one.lead - 1) = " " \/ c2 = "Other" THEN "yes"
                      ELSE "no"
        is(c) == class = c /\ ~han
    IN  [pl |-> Bit0(~han /\ class \in LetterRun \ {"Mark"}), pu |-> Bit0(is("Upper")),
         pcl |-> Bit0(is("Caseless")), ps |-> Bit0(b = " "),
         pwt |-> Bit0(is("Whitespace") /\ b # " " /\ b \notin Newline),
         po |-> Bit0(class \in {"Other", "Mark"}), pws |-> Bit0(is("Whitespace")),
         pd |-> Bit0(class = "Number"), phan |-> Bit0(class = "Caseless" /\ han),
         b2b |-> IF two = "yes" \/ (two = "unknown" /\ c2 = "Mark")
                 THEN {one.end - scan} \cap Bits ELSE {},
         abs |-> {}, unresolved |-> (two = "unknown")]

ONoUni == [l |-> {}, u |-> {}, cl |-> {}, n |-> {}, o |-> {}, ws |-> {}, w2 |-> {},
           w3 |-> {}, lead2 |-> {}, lead3 |-> {}, lead4 |-> {}, cont |-> {},
           resid |-> {}, mk |-> {}, han |-> {}, hanLeads |-> {}]

\* The bytes that a char claims in the masks of its class.  Marks and Han
\* symbols have no class of their own: they count as punctuation and are
\* deferred, as are numbers, whose groups are counted in chars.
claims(f, cat, chm) ==
    LET c == o200k_class_of(cat)
        han == IsHan(f, cat)
        mark == c = "Mark" \/ (c = "Other" /\ han)
        if(cond) == IF cond THEN chm ELSE {}
    IN  [ONoUni EXCEPT
           !.l = if(~han /\ c \in {"Upper", "Lower", "Caseless"}),
           !.u = if(c = "Upper"), !.cl = if(~han /\ c = "Caseless"),
           !.n = if(c = "Number"), !.o = if(mark \/ c = "Other"),
           !.ws = if(c = "Whitespace"), !.resid = if(c = "Number"), !.mk = if(mark),
           !.han = if(han /\ c = "Caseless")]

\* Every non-ASCII char with its lead in m.
classify_uni_o200k(f, t, scan, m) ==
    LET leads == {i \in m : Byte(t, scan + i) # "~"}
        len(i) == Leads[Byte(t, scan + i)][2]
        cat(i) == CharAt(t, scan + i).cat
        chm(i) == (i .. i + len(i) - 1) \cap Bits
        all == [x \in DOMAIN ONoUni |-> UNION {claims(f, cat(i), chm(i))[x] : i \in leads}]
        ws == {i \in leads : cat(i) = "Z"}
        straddling == {i \in ws : i + len(i) > W \/ len(i) = 4}
        bytes(S) == UNION {chm(i) : i \in S}
        ofLen(S, l) == {i \in S : len(i) = l}
    IN  [all EXCEPT
           !.w2 = ofLen(ws \ straddling, 2), !.w3 = ofLen(ws \ straddling, 3),
           !.lead2 = ofLen(leads, 2), !.lead3 = ofLen(leads, 3),
           !.lead4 = ofLen(leads, 4), !.cont = bytes(leads) \ leads,
           !.resid = @ \cup bytes(straddling) \cup (m \ bytes(leads)),
           !.hanLeads = leads \cap all.han]

-----------------------------------------------------------------------------
\* Contractions are suffixes of letter tokens: an apostrophe behind a letter
\* joins that token with its suffix, and the token after it starts there.
\* Where the letter may itself belong to a suffix, or the batch ends before
\* the suffix can, the scalar path decides.
suffix_fixup(t, scan, boundary, bad, cand) ==
    LET late == {i \in cand : i >= W - 3}
        first == IF late = {} THEN W ELSE Min(late)
        mid == {i \in cand : 2 < i /\ i < first}
        byte(i) == Byte(t, scan + i)
        behindSuffix(i) ==
          \/ (byte(i - 2) = "'" /\ byte(i - 1) \in {"s", "S"})
          \/ /\ byte(i - 3) = "'"
             /\ \/ {byte(i - 2), byte(i - 1)} \subseteq {"l", "L"}
                \/ (byte(i - 2) = "ls2" /\ byte(i - 1) = "~")
        \* the bytes the apostrophe at i takes, of those that a suffix just
        \* before it has not ended
        taken[i \in mid] ==
          LET forced == \E k \in {2, 3} : i - k \in mid /\ taken[i - k] = k
          IN  IF forced \/ behindSuffix(i) \/ NonAscii(byte(i + 1)) THEN 0
              ELSE Suffix(t, scan + i, TRUE)
        forced(i) == \E k \in {2, 3} : i - k \in mid /\ taken[i - k] = k
        deferred == {i \in cand : i <= 2}
                      \cup {i \in mid : ~forced(i) /\ (behindSuffix(i) \/ NonAscii(byte(i + 1)))}
        joined == {i \in mid : taken[i] # 0}
        newBad == bad \cup From(first) \cup (UNION {i .. i + 2 : i \in deferred} \cap Bits)
        b == (boundary \ UNION {i .. i + taken[i] - 1 : i \in joined})
               \cup {i + taken[i] : i \in joined}
    IN  [usable |-> b \ newBad, bad |-> newBad]

\* The boundary algebra of the family over the classes of each byte.
o200k_algebra(f, t, scan, am, cr, uni) ==
    LET bytes(S) == {i \in Bits : Byte(t, scan + i) \in S}
        lb == am.l \cup uni.l
        ub == bytes(Upper) \cup uni.u
        wtb == am.wt \cup uni.ws
        ob == (Bits \ (am.l \cup am.d \cup am.s \cup am.wt \cup am.n \cup am.hi))
                \cup uni.o
        \* tails that a punctuation run absorbs
        tcls == am.n \cup IF f.slash THEN bytes({"/"}) ELSE {}
        absT == smear_up((am.n \cap (Up(ob, 1) \cup cr.po)) \cup (cr.abs \cap tcls), tcls)
        obEff == ob \ absT
        prevO == Up(obEff, 1) \cup cr.po
        prevS == Up(am.s, 1) \cup cr.ps
        b2back == two_back(prevO \cup prevS, uni) \cup cr.b2b
        prevL == Up(lb, 1) \cup cr.pl
        prevCl == Up(uni.cl, 1) \cup cr.pcl
        capital == (ub \ uni.cont) \cap (prevL \ (Up(ub, 1) \cup cr.pu \cup prevCl))
        bLetters == capital \cup (lb \ (uni.cont \cup prevL \cup prevS \cup Up(wtb, 1)
                                          \cup cr.pwt \cup (prevO \ b2back)))
        bDigits == IF f.digits3 THEN digit_run_splits3(am.d) ELSE am.d
        bPunct == obEff \ (uni.cont \cup prevO \cup prevS)
        bHan == uni.hanLeads \ (Up(uni.han, 1) \cup cr.phan)
        bad0 == uni.resid \cup Up(uni.resid, 1) \cup Down(uni.resid, 1)
                  \cup UNION {Up(uni.mk, k) : k \in 0 .. 4} \cup Down(uni.mk, 1)
                  \cup ((ub \ uni.cont) \cap prevCl)
                  \cup IF cr.unresolved
                       THEN {0, 1} \cup Up(smear_up(tcls \cap {0}, tcls), 1) ELSE {}
        wsEff == (am.s \cup wtb \cup am.n) \ absT
        nn == nn64(t, scan, bad0)
        bad == open_ends(am, wsEff, nn, f.digits3, cr.pd, bad0)
        bWs == ws_starts(am, uni, wsEff, absT, cr.pws, nn, bad)
        boundary == bLetters \cup bDigits \cup bPunct \cup bWs \cup bHan
    IN  IF wsEff = Bits /\ ~nn THEN AllBad
        ELSE IF f.contractions
        THEN suffix_fixup(t, scan, boundary, bad, (am.ap \cap boundary \cap prevL) \ bad)
        ELSE [usable |-> boundary \ bad, bad |-> bad]

\* A char that straddles into the batch claims its bytes; behind a mark or a
\* Han symbol or numeral the front of the batch is deferred.
o200k_extended_masks(f, t, scan, am) ==
    LET ascii(p) == ~NonAscii(Byte(t, p))
        walk == scan > 0 /\ ~(ascii(scan - 1) /\ is_tail_byte(f, Byte(t, scan - 1)))
                  /\ ~(ascii(scan - 1) /\ (scan < 2 \/ ascii(scan - 2)))
        one == char_through(t, scan)
        chm == {i \in Bits : scan + i < one.end}
        claim == claims(f, one.cat, chm)
        class == o200k_class_of(one.cat)
        front == [claim EXCEPT
                    !.cont = chm,
                    !.mk = @ \cup Bit0(class = "Mark" \/ (class = "Other" /\ IsHan(f, one.cat))),
                    !.resid = @ \cup claim.ws
                                \cup Bit0(class = "Number" /\ IsHan(f, one.cat))]
        uni == classify_uni_o200k(f, t, scan, am.hi \ IF walk THEN chm ELSE {})
    IN  IF walk
        THEN o200k_algebra(f, t, scan, am, o200k_walk_back(f, t, scan), Merge(front, uni))
        ELSE o200k_algebra(f, t, scan, am, ascii_batch_carries(f, t, scan), uni)

o200k_batch_masks(f, t, scan) ==
    LET am == AsciiMasks(t, scan)
        near == {p \in {scan - 1, scan - 2} : p >= 0 /\ NonAscii(Byte(t, p))}
    IN  IF ~Guarded(t, scan) THEN AllBad
        ELSE IF am.hi # {} \/ near # {} THEN o200k_extended_masks(f, t, scan, am)
        ELSE o200k_algebra(f, t, scan, am, ascii_batch_carries(f, t, scan), ONoUni)
=============================================================================
