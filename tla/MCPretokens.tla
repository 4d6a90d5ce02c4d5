----------------------------- MODULE MCPretokens -----------------------------
(***************************************************************************)
(* Texts of up to three batches of eight bytes, walked one span or one     *)
(* chunk at a time under every scheme, with and without a SIMD scanner.    *)
(***************************************************************************)
EXTENDS MaskWalker, Pretokens, PretokenRegex

\* Every pair of these chars is laid across the edge of the first two
\* batches, at two distances from it.
Chars == {<<"a">>, <<"S">>, <<"s">>, <<"0">>, <<" ">>, <<"n">>, <<"'">>, <<"/">>,
          <<"lo3", "~", "~">>, <<"m2", "~">>, <<"n2", "~">>, <<"w2", "~">>,
          <<"o3", "~", "~">>}
Han == {<<"han3", "~", "~">>, <<"hn3", "~", "~">>, <<"hs3", "~", "~">>,
        <<"kp3", "~", "~">>, <<"kc3", "~", "~">>, <<"c">>, <<"ls2", "~">>}
Basic == {<<"s">>, <<"0">>, <<" ">>, <<"n">>, <<"'">>, <<"/">>, <<"w2", "~">>}
Glued == {<<"s">>, <<"0">>, <<" ">>, <<"n">>, <<"'">>, <<"lo3", "~", "~">>,
          <<"m2", "~">>, <<"w2", "~">>}
Heads == {<<"a", "a", ".", "a", "a", "a">>, <<"a", "a", "a", ".", "a", " ", "a">>}
Rest == <<"a", "a", "a", " ", "0", "a", "a", "a", "a", "n", ".", "a", "a", "a">>

Across(chars) == {h \o c[1] \o c[2] \o Rest : h \in Heads, c \in chars \X chars}
\* Short texts of any three chars, which no batch fits.
Short(chars) == {c[1] \o c[2] \o c[3] : c \in chars \X chars \X chars}
\* More tokens than a chunk in one batch; tokens whose ends are past the
\* range of a buffer, behind a boundary, behind none and in a bad zone.
Extremes == {[i \in 1 .. 25 |-> "0"], [i \in 1 .. 25 |-> "a"],
             [i \in 1 .. 23 |-> IF i = 3 THEN " " ELSE "a"],
             <<"n2", "~">> \o [i \in 1 .. 23 |-> "a"]}

MCSchemes == Masked \cup Scalar \cup DOMAIN Level1
MCTexts == [s \in MCSchemes |->
              IF s \in DOMAIN Level1 THEN Across(Glued) \cup Extremes
              ELSE IF s = "kimi" THEN Across((Chars \ {<<"0">>, <<"S">>}) \cup Han) \cup Extremes
              ELSE IF s \in Masked THEN Across(Chars) \cup Extremes \cup Short(Basic)
              ELSE Short((Chars \ {<<"n2", "~">>, <<"w2", "~">>}) \cup Han)]

Init ==
    /\ scheme \in MCSchemes
    /\ text \in MCTexts[scheme]
    /\ simd \in IF scheme \in Scalar THEN {FALSE} ELSE BOOLEAN
    /\ gluing = (scheme \in DOMAIN Level1)
    /\ advance = [p \in 0 .. Size - 1 |-> SchemeAdvance(Base(scheme), text, p, Never)]
    /\ batch_masks = IF simd
                     THEN [base \in Grid |->
                             SchemeMasks(Base(scheme), text, base)]
                     ELSE <<>>
    /\ glued = IF gluing
               THEN {<<lo, advance[lo]>> : lo \in
                       {p \in DOMAIN advance :
                          /\ advance[p] < Size
                          /\ glues(text, p, advance[p], Level1[scheme].wide)}}
               ELSE {}
    /\ tokens = Spans(0, Size)
    /\ New(0)

Spec == Init /\ [][Next]_vars

\* For every scheme, the tokens of a valid text are those that its regexes
\* (or BERT's two splits) make of it.
TokensAreRegex == ~gluing /\ WellFormed(text) => tokens = RegexEnds(scheme, text)

\* What the walk rests on, of any text before it starts: the scheme's masks
\* agree with its scalar advance, and its tokens are those of its regexes.
SchemesSound == pc = "idle" /\ ends = <<>> => Given /\ TokensAreRegex
=============================================================================
