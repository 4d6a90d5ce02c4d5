------------------------------ MODULE BertModel ------------------------------
(***************************************************************************)
(* What a BERT tokenizer does to a segment before and after it is split:   *)
(* the normalizer (src/bpe/bert_normalizer.rs) and the longest-match-first *)
(* encoding of a word (src/bpe/wordpiece.rs).                              *)
(*                                                                         *)
(* Accents: "lu2" stands for a capital with one, which decomposes to "A"   *)
(* and a mark, "ll2" for its lower case.  No char lowers to several.       *)
(*                                                                         *)
(* Texts are valid UTF-8; any other segment the normalizer hands on as it  *)
(* is.                                                                     *)
(***************************************************************************)
EXTENDS PretokenText, SequencesExt

\* The chars of a text, each the sequence of its bytes.
CharsOf(t) ==
    LET from[p \in 0 .. Len(t)] ==
          IF p = Len(t) THEN <<>>
          ELSE LET len == CharAt(t, p).len
               IN  <<SubSeq(t, p + 1, p + len)>> \o from[p + len]
    IN  from[0]

Chars(t) == Range(CharsOf(t))
\* Every char of t replaced by its image.
Each(t, image) ==
    LET chars == CharsOf(t)
    IN  FlattenSeq([i \in DOMAIN chars |-> image[chars[i]]])

IsAscii(c) == ~NonAscii(c[1])
Printable(c) == IsAscii(c) /\ c[1] \notin {"t", "n", "c"}

to_ascii_lowercase(c) ==
    <<CASE c[1] = "A" -> "a" [] c[1] = "S" -> "s" [] c[1] = "L" -> "l" [] OTHER -> c[1]>>
to_lowercase(c) ==
    CASE IsAscii(c) -> to_ascii_lowercase(c)
      [] c[1] = "lu2" -> <<"ll2", "~">>
      [] OTHER -> c

\* What clean_text removes and what it makes a space of, and the marks
\* strip_accents drops.  A category has one role here.  The codepoints that the
\* table treats unlike the rest of theirs (U+FFFD, unassigned ones, marks that
\* take space, the stale lists of HF) have no class of their own.
norm_class_of(c) ==
    LET cat == CharAt(c, 0).cat
    IN  CASE cat = "C" -> "Remove"
          [] cat = "Z" -> "Whitespace"
          [] cat = "M" -> "Mark"
          [] OTHER -> "Keep"
is_bert_cjk(c) == CharAt(c, 0).cat = "Han"

\* Canonical decomposition.
Nfd(c) == CASE c[1] = "lu2" -> <<"A", "m2", "~">>
            [] c[1] = "ll2" -> <<"a", "m2", "~">>
            [] OTHER -> c

\* clean_text, handle_chinese_chars and, of ASCII, lowercase in one pass.
clean_char(n, c) ==
    CASE n.clean_text /\ norm_class_of(c) = "Remove" -> <<>>
      [] n.clean_text /\ norm_class_of(c) = "Whitespace" -> <<" ">>
      [] n.handle_chinese_chars /\ is_bert_cjk(c) -> <<" ">> \o c \o <<" ">>
      [] OTHER -> IF n.lowercase /\ IsAscii(c) THEN to_ascii_lowercase(c) ELSE c

\* Marks are dropped and what is left is folded, in one pass.
fold_char(n, c) ==
    CASE n.strip_accents /\ norm_class_of(c) = "Mark" -> <<>>
      [] OTHER -> IF n.lowercase THEN to_lowercase(c) ELSE c

is_noop(n) == ~(n.clean_text \/ n.handle_chinese_chars \/ n.strip_accents \/ n.lowercase)

\* Text that is all printable ASCII, and text that is all ASCII, leave early.
cleans(n) == n.clean_text \/ n.handle_chinese_chars
cleaned(n, t) == IF cleans(n) THEN Each(t, [c \in Chars(t) |-> clean_char(n, c)]) ELSE t
decomposed(n, t) == IF n.strip_accents THEN Each(t, [c \in Chars(t) |-> Nfd(c)]) ELSE t
folded(n, t) ==
    IF n.strip_accents \/ n.lowercase THEN Each(t, [c \in Chars(t) |-> fold_char(n, c)]) ELSE t

normalize(n, t) ==
    CASE is_noop(n) -> t
      [] ~is_noop(n) /\ (\A c \in Chars(t) : Printable(c)) ->
           IF n.lowercase THEN Each(t, [c \in Chars(t) |-> to_ascii_lowercase(c)]) ELSE t
      [] ~is_noop(n) /\ (\E c \in Chars(t) : ~Printable(c)) ->
           IF cleans(n) /\ (\A c \in Chars(t) : IsAscii(c)) THEN cleaned(n, t)
           ELSE folded(n, decomposed(n, cleaned(n, t)))

-----------------------------------------------------------------------------
(* WordPiece.  A vocabulary is two sets of byte strings, pieces that start *)
(* a word and pieces that continue one, without their prefix.  A token is  *)
(* its bytes, with the prefix.                                             *)

Prefix == <<"##">>
Unk == <<"[UNK]">>

Longest(strings) == Max({0} \cup {Len(s) : s \in strings})
CharCount(word) == Cardinality({i \in DOMAIN word : word[i] # "~"})

encode_unit(wp, word) ==
    LET len == Len(word)
        piece(lo, hi) == SubSeq(word, lo + 1, hi)
        from[start \in 0 .. len] ==
          LET map == IF start = 0 THEN wp.head ELSE wp.cont
              ends == {e \in start + 1 .. Min({len, start + Longest(map)}) :
                         piece(start, e) \in map}
              end == Max(ends)
              token == (IF start = 0 THEN <<>> ELSE Prefix) \o piece(start, end)
          IN  CASE start = len -> <<>>
                [] start < len /\ (ends = {} \/ Unk \in Range(from[end])) -> <<Unk>>
                [] OTHER -> <<token>> \o from[end]
    IN  IF CharCount(word) > wp.max_chars THEN <<Unk>> ELSE from[0]

-----------------------------------------------------------------------------
(* References.  HuggingFace's normalizer: every step is a pass of its own, *)
(* in this order.                                                          *)

Removed(n, t) ==
    IF ~n.clean_text THEN t
    ELSE Each(t, [c \in Chars(t) |-> CASE norm_class_of(c) = "Remove" -> <<>>
                                       [] norm_class_of(c) = "Whitespace" -> <<" ">>
                                       [] OTHER -> c])
Padded(n, t) ==
    IF ~n.handle_chinese_chars THEN t
    ELSE Each(t, [c \in Chars(t) |-> IF is_bert_cjk(c) THEN <<" ">> \o c \o <<" ">> ELSE c])
Stripped(n, t) ==
    LET unmarked(nfd) ==
          Each(nfd, [c \in Chars(nfd) |-> IF norm_class_of(c) = "Mark" THEN <<>> ELSE c])
    IN  IF n.strip_accents THEN unmarked(Each(t, [c \in Chars(t) |-> Nfd(c)])) ELSE t
Lowered(n, t) ==
    IF n.lowercase THEN Each(t, [c \in Chars(t) |-> to_lowercase(c)]) ELSE t

NormalizedByStep(n, t) == Lowered(n, Stripped(n, Padded(n, Removed(n, t))))

\* The word cut so that every piece is the longest the vocabulary has there;
\* the unknown token when no cut reaches the end of the word.
LongestMatches(wp, word) ==
    LET len == Len(word)
        fits(lo, hi) == SubSeq(word, lo + 1, hi) \in IF lo = 0 THEN wp.head ELSE wp.cont
        follows(cut, lo) == Min({e \in cut : e > lo})
        greedy == {cut \in {c \cup {0, len} : c \in SUBSET (0 .. len)} :
                     \A lo \in cut \ {len} :
                       /\ fits(lo, follows(cut, lo))
                       /\ \A hi \in follows(cut, lo) + 1 .. len : ~fits(lo, hi)}
        cut == InOrder(CHOOSE c \in greedy : TRUE)
    IN  CASE len = 0 -> <<>>
          [] len > 0 /\ (greedy = {} \/ CharCount(word) > wp.max_chars) -> <<Unk>>
          [] OTHER -> [i \in 1 .. Len(cut) - 1 |->
                         (IF i = 1 THEN <<>> ELSE Prefix)
                           \o SubSeq(word, cut[i] + 1, cut[i + 1])]
=============================================================================
