------------------------------ MODULE R50kScan ------------------------------
(***************************************************************************)
(* The GPT-2 scheme (src/pretokenize/fast/r50k.rs):                        *)
(*   '(?:[sdmt]|ll|ve|re)| ?\p{L}+| ?\p{N}+| ?[^\s\p{L}\p{N}]+             *)
(*   |\s+(?!\S)|\s+                                                        *)
(***************************************************************************)
EXTENDS MaskBits

\* A whitespace token from start leaves its last char to the token after it.
r50k_advance_ws(t, start) ==
    LET run == WsRun(t, start)
    IN  IF run.end < Len(t) /\ run.last > start THEN run.last ELSE run.end

\* The end of the token that starts at p.
r50k_advance(t, p) ==
    LET b == Byte(t, p)
        q == IF b = " " THEN p + 1 ELSE p     \* ` ?`
    IN  CASE q = Len(t) -> q
          [] b = "'" /\ Suffix(t, p, FALSE) > 0 -> p + Suffix(t, p, FALSE)
          [] ClassAt(t, q) = "Letter" -> scan_letters_from(t, q)
          [] ClassAt(t, q) = "Number" -> scan_digits_from(t, q)
          [] ClassAt(t, q) = "Other" -> scan_other_from(t, q)
          [] OTHER -> r50k_advance_ws(t, p)

\* What the char before the batch carries into it.
r50k_carries_at(t, scan) ==
    IF scan = 0
    THEN [class |-> "none", space |-> FALSE]
    ELSE [class |-> ClassOf(char_through(t, scan).cat),
          space |-> Byte(t, scan - 1) = " "]

\* The boundary algebra over the classes of each byte.
r50k_algebra(t, scan, am, uni, carry) ==
    LET in(c) == IF carry.class = c THEN {0} ELSE {}
        lb == am.l \cup uni.l
        db == am.d \cup uni.n
        wsa == am.s \cup am.wt \cup am.n
        wsb == wsa \cup uni.ws
        ob == (Bits \ (am.l \cup am.d \cup wsa \cup am.hi)) \cup uni.o
        contSame == (lb \cap (Up(lb, 1) \cup in("Letter")))
                      \cup (db \cap (Up(db, 1) \cup in("Number")))
                      \cup (ob \cap (Up(ob, 1) \cup in("Other")))
        afterSpace == Up(am.s, 1) \cup IF carry.space THEN {0} ELSE {}
        starts == Bits \ (wsb \cup contSame \cup afterSpace \cup uni.cont)
        nn == Bits \ wsb
        edge == (wsa \cap {W - 1}) \cup (uni.w2 \cap {W - 2}) \cup (uni.w3 \cap {W - 3})
        splitOk == (((wsa \cap Down(nn, 1)) \cup (uni.w2 \cap Down(nn, 2))
                       \cup (uni.w3 \cap Down(nn, 3))) \ edge)
                     \cup IF nn_at_full(t, scan + W) THEN edge ELSE {}
        prevWs == Up(wsb, 1) \cup in("Whitespace")
        wsStarts == (wsa \cup uni.w2 \cup uni.w3) \cap ((Bits \ prevWs) \cup splitOk)
        bad == uni.resid \cup Up(uni.resid, 1) \cup Down(uni.resid, 1)
    IN  ContractionFixup(t, scan, starts \cup wsStarts, bad, am.ap, FALSE)

r50k_ascii_batch_algebra(t, scan, am) ==
    r50k_algebra(t, scan, am, NoUni, r50k_carries_at(t, scan))

\* The char that straddles into the batch claims its bytes for its class;
\* whitespace that does is left to the scalar path.
r50k_extended_masks(t, scan, am) ==
    LET carry == r50k_carries_at(t, scan)
        end == IF scan = 0 THEN 0 ELSE char_through(t, scan).end
        chm == {i \in Bits : scan + i < end}
        claim == [NoUni EXCEPT
                    !.l = IF carry.class = "Letter" THEN chm ELSE {},
                    !.n = IF carry.class = "Number" THEN chm ELSE {},
                    !.o = IF carry.class = "Other" THEN chm ELSE {},
                    !.ws = IF carry.class = "Whitespace" THEN chm ELSE {},
                    !.resid = IF carry.class = "Whitespace" THEN chm ELSE {},
                    !.cont = chm]
        uni == classify_uni_chars(t, scan, am.hi \ chm,
                                  [cat \in Cats |-> ClassOf(cat)], TRUE)
    IN  r50k_algebra(t, scan, am, Merge(claim, uni), carry)

r50k_batch_masks(t, scan) ==
    LET am == AsciiMasks(t, scan)
    IN  IF ~Guarded(t, scan) THEN AllBad
        ELSE IF am.hi # {} THEN r50k_extended_masks(t, scan, am)
        ELSE r50k_ascii_batch_algebra(t, scan, am)
=============================================================================
