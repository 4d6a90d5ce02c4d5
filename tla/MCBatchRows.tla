---------------------------- MODULE MCBatchRows ----------------------------
(***************************************************************************)
(* Tokenizers that cover what a document meets on its way, each with the   *)
(* batches that concern it.                                                *)
(***************************************************************************)
EXTENDS BatchRows

Off == [clean_text |-> FALSE, handle_chinese_chars |-> FALSE, strip_accents |-> FALSE,
        lowercase |-> FALSE]
NoWords == [used |-> FALSE]

\* A BPE tokenizer.
Bpe(scheme, merges, added, prefix) ==
    [scheme |-> scheme, merges |-> merges, added |-> added, add_prefix_space |-> prefix,
     normalizer |-> Off, wordpiece |-> NoWords]

Token(text, lstrip, rstrip) == [text |-> text, lstrip |-> lstrip, rstrip |-> rstrip]
Spaced == {Token(<<"a", " ", "a">>, FALSE, FALSE)}
Stripping == {Token(<<"s">>, FALSE, TRUE), Token(<<".">>, TRUE, TRUE)}

Letters == <<<<<<"a">>, <<"a">>>>, <<<<" ">>, <<"a">>>>, <<<<" ", "a">>, <<"s">>>>>>

Bert(n, added) ==
    [scheme |-> "bert", merges |-> <<>>, added |-> added, add_prefix_space |-> FALSE,
     normalizer |-> n,
     wordpiece |-> [used |-> TRUE, max_chars |-> 3,
                    head |-> {<<"a">>, <<"a", "a">>, <<"A">>, <<"s", "a">>, <<".">>, <<"ll2", "~">>},
                    cont |-> {<<"a">>, <<"s">>, <<"m2", "~">>}]]
Uncased == [clean_text |-> TRUE, handle_chinese_chars |-> TRUE, strip_accents |-> TRUE,
            lowercase |-> TRUE]
Cased == [Off EXCEPT !.clean_text = TRUE, !.handle_chinese_chars = TRUE]
Folding == [Off EXCEPT !.strip_accents = TRUE, !.lowercase = TRUE]

\* Merge tables of SuperBPE: what stage 1 may learn, then superwords.
Words == <<<<<<"a">>, <<"a">>>>, <<<<" ">>, <<"a">>>>, <<<<" ", "a">>, <<" ", "a">>>>,
           <<<<"a", "a">>, <<" ", "a">>>>>>
Spaces == <<<<<<" ">>, <<" ">>>>, <<<<" ">>, <<"a">>>>, <<<<"a">>, <<" ", " ">>>>,
            <<<<"n">>, <<" ">>>>>>
Contractions == <<<<<<"'">>, <<"s">>>>, <<<<"s">>, <<"a">>>>, <<<<"a">>, <<"'", "s">>>>,
                  <<<<"'", "s">>, <<"a">>>>>>
Numbers == <<<<<<"0">>, <<"0">>>>, <<<<" ">>, <<"0">>>>, <<<<"a">>, <<" ", "0">>>>,
             <<<<"0", "0">>, <<"a">>>>>>
Lines == <<<<<<".">>, <<"n">>>>, <<<<".">>, <<".">>>>, <<<<"n">>, <<"a">>>>,
           <<<<".", "n">>, <<"n", "a">>>>>>
Cases == <<<<<<"a">>, <<"A">>>>, <<<<" ">>, <<"A">>>>, <<<<"a", "A">>, <<" ", "A">>>>>>
\* Only the wide rules glue a word to the punctuation before it.
Wide == <<<<<<".">>, <<"s">>>>, <<<<"s">>, <<"a">>>>, <<<<" ">>, <<"s">>>>, <<<<"s", "a">>, <<".", "s">>>>>>
\* A slash may end a run of punctuation and a newline.
Slashes == <<<<<<"/">>, <<".">>>>, <<<<".">>, <<"n">>>>, <<<<"a">>, <<" ">>>>>>

Upto(n, chars) == UNION {[1 .. k -> chars] : k \in 0 .. n}

Tables == [words |-> Words, spaces |-> Spaces, contractions |-> Contractions,
           numbers |-> Numbers, lines |-> Lines, cases |-> Cases, wide |-> Wide]
Alphabet == [words |-> {"a", " "}, spaces |-> {"a", " ", "n"},
             contractions |-> {"a", "s", "'", "."}, numbers |-> {"a", "0", " "},
             lines |-> {"a", ".", "n"}, cases |-> {"a", "A", " "},
             wide |-> {"a", "s", ".", " "}]

\* Texts of four words behind a letter, cut wherever that is possible.
Piece == {<<"a">>, <<" ", "a">>, <<" ", "s">>, <<".">>, <<" ">>}
Long == {<<"a">> \o p[1] \o p[2] \o p[3] \o p[4] : p \in Piece \X Piece \X Piece \X Piece}
Fragmented == {<<<<>>, long, <<"a">>>> : long \in Long}
Grouped == {<<t[1], t[2], t[3], t[4]>> :
              t \in Upto(2, {"a"}) \X Upto(3, {"s"}) \X Upto(2, {"a"}) \X {<<>>, <<"s", "s">>}}
Foreign == {<<"a">>, <<"A">>, <<" ">>, <<"n">>, <<"c">>, <<".">>, <<"lu2", "~">>,
            <<"m2", "~">>, <<"han3", "~", "~">>}
Chosen == {<<c[1] \o c[2] \o c[3]>> : c \in Foreign \X Foreign \X Foreign}

Fragmenting ==
    [gpt2 |-> Bpe("gpt2", Letters, {}, FALSE),
     prefixing |-> Bpe("gpt2", Letters, Stripping, TRUE),
     spaced |-> Bpe("gpt4", Letters, Spaced, FALSE),
     stripping |-> Bpe("o200k", Letters, Stripping, FALSE),
     deepseek |-> Bpe("deepseek_v3", Letters, Spaced \cup Stripping, FALSE),
     bounded |-> Bpe("superword_bounded", Letters, Stripping, FALSE),
     bert_words |-> Bert(Uncased, Stripping)]
Normalizing == [uncased |-> Bert(Uncased, {}), cased |-> Bert(Cased, {}),
                folding |-> Bert(Folding, {})]

MCTokenizers ==
    Fragmenting @@ Normalizing @@ [grouping |-> Bpe("gpt2", Letters, {}, FALSE)]
      @@ [name \in DOMAIN Tables |-> Bpe("superword", Tables[name], {}, FALSE)]
MCBatches ==
    [name \in DOMAIN Fragmenting |-> Fragmented] @@ [name \in DOMAIN Normalizing |-> Chosen]
      @@ [grouping |-> Grouped]
      @@ [name \in DOMAIN Tables |-> {<<t>> : t \in [1 .. 5 -> Alphabet[name]]}]

SlashTokenizers == [slashes |-> Bpe("superword", Slashes, {}, FALSE)]
SlashBatches == [slashes |-> {<<t>> : t \in Upto(4, {"a", ".", "n", "/"})}]

\* Two added tokens with spaces, the longer of which widens the window that is
\* searched around a cut; texts of five words.
TwoSpaced == Spaced \cup {Token(<<"s", " ", "s", " ", "s">>, FALSE, FALSE)}
Word == {<<"a">>, <<"s">>}
FiveWords ==
    {w[1] \o <<" ">> \o w[2] \o <<" ">> \o w[3] \o <<" ">> \o w[4] \o <<" ">> \o w[5] :
       w \in Word \X Word \X Word \X Word \X Word}

SpacedTokenizers == [two_spaced |-> Bpe("gpt2", Letters, TwoSpaced, FALSE)]
SpacedBatches == [two_spaced |-> {<<t>> : t \in FiveWords}]
=============================================================================
