---------------------------- MODULE PretokenText ----------------------------
(***************************************************************************)
(* The bytes a pretokenizer reads, and the scans all schemes share         *)
(* (src/pretokenize/fast/mod.rs, src/pretokenize/unicode.rs).              *)
(*                                                                         *)
(* A text is a sequence of bytes and an offset p counts them from 0, as in *)
(* the code.  A byte is named for what the schemes tell apart: "a" is any  *)
(* lower case letter that no contraction ends with, "s" one that is a      *)
(* contraction of its own ('s 'd 'm 't), "l" one that is half of one       *)
(* ('ll 've 're), "A", "S" and "L" their capitals, "0" a digit, " " the    *)
(* space, "t" a tab, "n" a newline, "'" the apostrophe, "/" the slash and  *)
(* "." other punctuation, "c" a control.  A lead byte names the general    *)
(* category of its codepoint and the length of its UTF-8 form; "~" is a    *)
(* continuation byte.                                                      *)
(***************************************************************************)
EXTENDS Integers, Sequences, FiniteSets, FiniteSetsExt

\* The elements of a set of numbers from the least up.
InOrder(S) ==
    [j \in 1 .. Cardinality(S) |->
       CHOOSE x \in S : Cardinality({y \in S : y <= x}) = j]

Lower == {"a", "s", "l"}
Upper == {"A", "S", "L"}
Newline == {"n"}
AsciiWs == {" ", "t", "n"}

\* Non-ASCII lead bytes: the general category and the length they announce.
\* "ls2" is U+017F, the long s that folds to "s"; "han3" is an ideograph,
\* "kp3" punctuation and "kc3" unassigned in the ranges of the ideographs;
\* "hn3" is a numeral and "hs3" a symbol of the Han script.
Leads == [lu2 |-> <<"Lu", 2>>, ll2 |-> <<"Ll", 2>>, ls2 |-> <<"Ll", 2>>,
          lo3 |-> <<"Lo", 3>>, han3 |-> <<"Han", 3>>, m2 |-> <<"M", 2>>,
          m3 |-> <<"M", 3>>, n2 |-> <<"N", 2>>, n3 |-> <<"N", 3>>,
          w2 |-> <<"Z", 2>>, w3 |-> <<"Z", 3>>, o2 |-> <<"P", 2>>,
          o3 |-> <<"P", 3>>, o4 |-> <<"P", 4>>, c2 |-> <<"C", 2>>,
          kp3 |-> <<"CjkP", 3>>, kc3 |-> <<"CjkC", 3>>,
          hn3 |-> <<"HanN", 3>>, hs3 |-> <<"HanS", 3>>]

NonAscii(b) == b \in DOMAIN Leads \cup {"~"}

Byte(t, p) == t[p + 1]
\* bytes.get(p)
Get(t, p) == IF p < Len(t) THEN t[p + 1] ELSE "end"

\* The general category of an ASCII byte.
AsciiCat(b) == CASE b \in Lower -> "Ll"
                 [] b \in Upper -> "Lu"
                 [] b = "0" -> "N"
                 [] b \in AsciiWs -> "Z"
                 [] b = "c" -> "C"
                 [] OTHER -> "P"

\* The char at p: its category and its length.  A sequence the end of the
\* text cuts off is one unclassifiable char that takes all that is left.
CharAt(t, p) ==
    LET b == Byte(t, p)
        led(cat, len) == IF p + len > Len(t) THEN [cat |-> "C", len |-> Len(t) - p]
                         ELSE [cat |-> cat, len |-> len]
        by(lead) == led(lead[1], lead[2])
    IN  CASE b = "~" -> [cat |-> "C", len |-> Min({2, Len(t) - p})]
          [] b # "~" /\ NonAscii(b) -> by(Leads[b])
          [] OTHER -> [cat |-> AsciiCat(b), len |-> 1]

\* unicode::class_of: marks and everything unassigned are Other.
ClassOf(cat) == CASE cat \in {"Lu", "Ll", "Lo", "Han"} -> "Letter"
                  [] cat \in {"N", "HanN"} -> "Number"
                  [] cat = "Z" -> "Whitespace"
                  [] OTHER -> "Other"

\* unicode::class_of_marks_join: \p{M} counts as a letter.
ClassOfMarksJoin(cat) == IF cat = "M" THEN "Letter" ELSE ClassOf(cat)

ClassAt(t, p) == ClassOf(CharAt(t, p).cat)

\* The end of the longest run of chars of the categories that starts at p.
RunEnd(t, p, cats) ==
    LET end[q \in p .. Len(t)] ==
          LET past(char) == IF char.cat \in cats THEN end[q + char.len] ELSE q
          IN  IF q < Len(t) THEN past(CharAt(t, q)) ELSE q
    IN  end[p]

Cats == {"Lu", "Ll", "Lo", "Han", "M", "N", "HanN", "Z", "P", "HanS", "C", "CjkP",
         "CjkC"}
OfClass(c) == {cat \in Cats : ClassOf(cat) = c}

scan_letters_from(t, p) == RunEnd(t, p, OfClass("Letter"))
scan_digits_from(t, p) == RunEnd(t, p, OfClass("Number"))
scan_other_from(t, p) == RunEnd(t, p, OfClass("Other"))

\* [\r\n]*
scan_newlines(t, p) ==
    LET end[q \in p .. Len(t)] ==
          IF Get(t, q) \in Newline THEN end[q + 1] ELSE q
    IN  end[p]

\* \p{N}{1,3}, of which `consumed` chars are already matched
scan_numbers_max3(t, p, consumed) ==
    LET end[k \in 0 .. 3] ==
          LET q == IF k <= consumed THEN p ELSE end[k - 1]
          IN  IF k > consumed /\ q < Len(t) /\ ClassAt(t, q) = "Number"
              THEN q + CharAt(t, q).len ELSE q
    IN  end[3]

\* The end of the letter at p, or p when there is none.
letter_end_at(t, p) ==
    IF p < Len(t) /\ ClassAt(t, p) = "Letter" THEN p + CharAt(t, p).len ELSE p

\* The bytes a contraction takes from an apostrophe at p, 0 when there is
\* none; `fold` is the (?i) of the newer schemes.
Suffix(t, p, fold) ==
    LET short == {"s"} \cup IF fold THEN {"S"} ELSE {}
        long == {"l"} \cup IF fold THEN {"L"} ELSE {}
    IN  CASE Get(t, p + 1) \in short -> 2
          [] Get(t, p + 1) \in long /\ Get(t, p + 2) \in long -> 3
          [] OTHER -> 0

\* The first byte of the char that ends before p, but not before lo.
LastStart(t, lo, p) ==
    Max({q \in lo .. p - 1 : q = lo \/ Byte(t, q) # "~"})

\* A whitespace run from p: where it ends, where its last char starts and
\* where its last newline ends (0 when it has none).
WsRun(t, p) ==
    LET upto(e) ==
          LET nl == {q \in p .. e - 1 : Byte(t, q) \in Newline}
          IN  [end |-> e,
               last |-> LastStart(t, p, e),
               newline |-> IF nl = {} THEN 0 ELSE Max(nl) + 1]
    IN  upto(RunEnd(t, p, {"Z"}))
=============================================================================
