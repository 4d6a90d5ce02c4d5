---------------------------- MODULE PretokenRegex ----------------------------
(***************************************************************************)
(* What the schemes promise: the split regexes of a tokenizer.json that    *)
(* src/pretokenize/options.rs recognises, matched the way the tokenizers   *)
(* library matches them (leftmost, alternatives in order, backtracking).   *)
(* For TLC only.                                                           *)
(*                                                                         *)
(* A regex is a record; Matches lists the ends of its matches at p in the  *)
(* order a backtracking matcher tries them.                                *)
(***************************************************************************)
EXTENDS PretokenText, SequencesExt

\* What a class of a regex is made of: the byte of an ASCII char, the
\* category of another, and the long s by name, for it folds to "s".
Symbol(t, p) == IF ~NonAscii(Byte(t, p)) \/ Byte(t, p) = "ls2" THEN Byte(t, p)
                ELSE CharAt(t, p).cat

Space == AsciiWs \cup {"Z"}                                      \* \s
Letter == Lower \cup Upper \cup {"Lu", "Ll", "ls2", "Lo", "Han"} \* \p{L}
Number == {"0", "N", "HanN"}                                     \* \p{N}
Mark == {"M"}                                                    \* \p{M}
AsciiPunct == {"'", "/", "."}
PunctSym == AsciiPunct \cup {"P", "CjkP", "HanS"}                \* \p{P}\p{S}
AnyChar == Space \cup Letter \cup Number \cup Mark \cup PunctSym \cup {"c", "C", "CjkC"}
HanScript == {"Han", "HanN", "HanS"}                             \* \p{Han}
CjkRange == {"Han", "CjkP", "CjkC"}
UpperSet == Upper \cup {"Lu", "Lo", "Han", "M"}      \* [\p{Lu}\p{Lt}\p{Lm}\p{Lo}\p{M}]
LowerSet == Lower \cup {"Ll", "ls2", "Lo", "Han", "M"}   \* [\p{Ll}\p{Lm}\p{Lo}\p{M}]

Rep(set, min, max) == [op |-> "class", set |-> set, min |-> min, max |-> max]
Many == 1000
One(set) == Rep(set, 1, 1)
Maybe(set) == Rep(set, 0, 1)
Plus(set) == Rep(set, 1, Many)
Star(set) == Rep(set, 0, Many)
Seq_(parts) == [op |-> "seq", parts |-> parts]
Alt(parts) == [op |-> "alt", parts |-> parts]
NotBefore(set) == [op |-> "not_before", set |-> set]      \* (?![set])
Atomic(re) == [op |-> "atomic", re |-> re]                \* possessive

RECURSIVE Matches(_, _, _)
Matches(re, t, p) ==
    CASE re.op = "class" ->
           LET run[n \in 0 .. Len(t) - p] ==   \* the ends of up to n chars, longest first
                 IF n = 0 THEN <<p>>
                 ELSE LET before == run[n - 1]
                          q == Head(before)
                      IN  IF Len(before) = n /\ n <= re.max /\ q < Len(t)
                             /\ Symbol(t, q) \in re.set
                          THEN <<q + CharAt(t, q).len>> \o before
                          ELSE before
               all == run[Len(t) - p]
           IN  SubSeq(all, 1, Len(all) - re.min)
      [] re.op = "seq" ->
           IF re.parts = <<>> THEN <<p>>
           ELSE LET first == Matches(Head(re.parts), t, p)
                    rest == Seq_(Tail(re.parts))
                IN  FlattenSeq([i \in DOMAIN first |-> Matches(rest, t, first[i])])
      [] re.op = "alt" ->
           FlattenSeq([i \in DOMAIN re.parts |-> Matches(re.parts[i], t, p)])
      [] re.op = "not_before" ->
           IF p < Len(t) /\ Symbol(t, p) \in re.set THEN <<>> ELSE <<p>>
      [] re.op = "atomic" ->
           LET all == Matches(re.re, t, p) IN SubSeq(all, 1, Min({1, Len(all)}))

\* The pieces of a text that a Split with Isolated behaviour makes, by their
\* ends: the matches and the gaps between them.
SplitIsolated(re, t) ==
    LET from[p \in 0 .. Len(t), gap \in 0 .. Len(t)] ==
          LET found == Matches(re, t, p)
              skipped == IF gap < p THEN <<p>> ELSE <<>>
          IN  IF p = Len(t) THEN skipped
              ELSE IF found = <<>> THEN from[p + CharAt(t, p).len, gap]
              ELSE skipped \o <<found[1]>> \o from[found[1], found[1]]
    IN  from[0, 0]

\* A sequence of Splits, each over the pieces of the one before it.
SplitSequence(res, t) ==
    LET pieces(ends) == [i \in DOMAIN ends |->
                           [lo |-> IF i = 1 THEN 0 ELSE ends[i - 1], hi |-> ends[i]]]
        resplit(piece, re) ==
          LET inner == SplitIsolated(re, SubSeq(t, piece.lo + 1, piece.hi))
          IN  [i \in DOMAIN inner |-> piece.lo + inner[i]]
        stage[k \in 0 .. Len(res)] ==
          IF k = 0 THEN IF t = <<>> THEN <<>> ELSE <<Len(t)>>
          ELSE LET before == pieces(stage[k - 1])
               IN  FlattenSeq([i \in DOMAIN before |-> resplit(before[i], res[k])])
    IN  stage[Len(res)]

-----------------------------------------------------------------------------
(* The regexes of options.rs, and kimi.rs for Kimi's *)

SpaceNotLast == Seq_(<<Plus(Space), NotBefore(AnyChar \ Space)>>)     \* \s+(?!\S)
Spaces == Plus(Space)
Newlines == {"n"}
Contraction == Seq_(<<One({"'"}), Alt(<<One({"s"}), Seq_(<<One({"l"}), One({"l"})>>)>>)>>)
ContractionI == Seq_(<<One({"'"}), Alt(<<One({"s", "S", "ls2"}),
                                        Seq_(<<One({"l", "L"}), One({"l", "L"})>>)>>)>>)
Prefix == Maybe(AnyChar \ (Newlines \cup Letter \cup Number))   \* [^\r\n\p{L}\p{N}]?
Others == AnyChar \ (Space \cup Letter \cup Number)            \* [^\s\p{L}\p{N}]
Punct(set, tail) == Seq_(<<Maybe({" "}), Plus(set), Star(tail)>>)
LinesPlus == Seq_(<<Star(Space), Plus(Newlines)>>)         \* \s*[\r\n]+
LinesOne == Seq_(<<Star(Space), One(Newlines)>>)           \* \s*[\r\n]

Gpt2Regex == Alt(<<Contraction, Seq_(<<Maybe({" "}), Plus(Letter)>>),
                  Seq_(<<Maybe({" "}), Plus(Number)>>),
                  Seq_(<<Maybe({" "}), Plus(Others)>>), SpaceNotLast, Spaces>>)
Gpt4Regex == Alt(<<ContractionI, Seq_(<<Atomic(Prefix), Atomic(Plus(Letter))>>),
                  Atomic(Rep(Number, 1, 3)),
                  Seq_(<<Maybe({" "}), Atomic(Plus(Others)), Atomic(Star(Newlines))>>),
                  Seq_(<<Atomic(Plus(Space)), NotBefore(AnyChar)>>),
                  LinesOne, SpaceNotLast, Spaces>>)
\* qwen2, qwen3.5 and olmo3 differ in what a word and a number are made of.
WordsRegex(word, digits) ==
    Alt(<<ContractionI, Seq_(<<Prefix, Plus(word)>>), Rep(Number, 1, digits),
          Punct(Others \ word, Newlines), LinesPlus, SpaceNotLast, Spaces>>)
\* o200k and its kin: words by case, without han; a suffix; a tail of
\* punctuation.
CaseRegex(han, suffix, digits, tail) ==
    LET upper == UpperSet \ han
        lower == LowerSet \ han
        end == IF suffix THEN <<Alt(<<ContractionI, Seq_(<<>>)>>)>> ELSE <<>>
    IN  Alt((IF han = {} THEN <<>> ELSE <<Plus(han)>>)
            \o <<Seq_(<<Prefix, Star(upper), Plus(lower)>> \o end),
                 Seq_(<<Prefix, Plus(upper), Star(lower)>> \o end),
                 Rep(Number, 1, digits), Punct(Others, tail), LinesPlus,
                 SpaceNotLast, Spaces>>)
BoundedRegex == Alt(<<Rep(Number, 1, 3),
                     Seq_(<<Maybe({" "}), Rep(Others, 2, Many), Star({"n", "/"})>>),
                     Seq_(<<Plus({" "}), NotBefore(AnyChar \ Space)>>)>>)
DeepSeekMain ==
    Alt(<<Seq_(<<One(AsciiPunct), Plus(Lower \cup Upper)>>),
          Seq_(<<Maybe(AnyChar \ (Newlines \cup Letter \cup PunctSym)), Plus(Letter \cup Mark)>>),
          Punct(PunctSym, Newlines), LinesPlus, SpaceNotLast, Spaces>>)

SchemeRegexes(scheme) ==
    CASE scheme = "gpt2" -> <<Gpt2Regex>>
      [] scheme = "gpt4" -> <<Gpt4Regex>>
      [] scheme = "qwen2" -> <<WordsRegex(Letter, 1)>>
      [] scheme = "qwen35" -> <<WordsRegex(Letter \cup Mark, 1)>>
      [] scheme = "olmo3" -> <<WordsRegex(Letter, 3)>>
      [] scheme = "o200k" -> <<CaseRegex({}, TRUE, 3, {"n", "/"})>>
      [] scheme = "nemotron" -> <<CaseRegex({}, FALSE, 1, {"n", "/"})>>
      [] scheme = "stage1" -> <<CaseRegex({}, FALSE, 3, {"n", "/"})>>
      [] scheme = "kimi" -> <<CaseRegex(HanScript, TRUE, 3, {"n"})>>
      [] scheme = "superword_bounded" -> <<BoundedRegex>>
      [] scheme = "superword" -> <<>>
      [] scheme = "deepseek_v3" -> <<Rep(Number, 1, 3), Plus(CjkRange), DeepSeekMain>>

\* BertPreTokenizer: whitespace removed, then punctuation isolated.
BertEnds(t) ==
    LET word == AnyChar \ (Space \cup AsciiPunct \cup {"P", "CjkP"})
        ends == SplitIsolated(Alt(<<Plus(Space), One(AsciiPunct \cup {"P", "CjkP"}), Plus(word)>>), t)
        lo(i) == IF i = 1 THEN 0 ELSE ends[i - 1]
        kept == {i \in DOMAIN ends : Symbol(t, lo(i)) \notin Space}
    IN  InOrder({ends[i] : i \in kept})

RegexEnds(scheme, t) ==
    IF scheme = "bert" THEN BertEnds(t) ELSE SplitSequence(SchemeRegexes(scheme), t)

\* Valid UTF-8: the tokenizers library matches strings.
WellFormed(t) ==
    LET ok[p \in 0 .. Len(t)] ==
          \/ p = Len(t)
          \/ /\ Byte(t, p) # "~"
             /\ LET n == IF NonAscii(Byte(t, p)) THEN Leads[Byte(t, p)][2] ELSE 1
                IN  /\ p + n <= Len(t)
                    /\ \A i \in 1 .. n - 1 : Byte(t, p + i) = "~"
                    /\ ok[p + n]
    IN  ok[0]
=============================================================================
