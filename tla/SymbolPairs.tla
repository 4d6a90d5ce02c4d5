---------------------------- MODULE SymbolPairs ----------------------------
(* Symbols, their pairs, and the three ways to break a tie between pairs.  *)
EXTENDS Integers, Sequences, FiniteSets, SequencesExt

CONSTANTS
  Bytes,   \* 0 .. B - 1; the first symbols
  HfRank   \* HfRank[b]: where byte b stands in the ByteLevel alphabet

(* Symbols are numbered from 0 in a table of byte strings.                 *)
BytesOf(table, id) == table[id + 1]

AdjacentPairs(s) == {<<s[i], s[i + 1]>> : i \in 1 .. Len(s) - 1}

(* Where pair p stands in s, overlaps included. *)
Places(s, p) == {i \in 1 .. Len(s) - 1 : <<s[i], s[i + 1]>> = p}

(* The pairs of some words, each with the count of its word, and how often *)
(* one of them occurs.                                                     *)
PairsOf(words) == UNION {AdjacentPairs(words[w].symbols) : w \in DOMAIN words}

PairCount(words, p) ==
  SumFunction([w \in DOMAIN words |->
                 words[w].count * Cardinality(Places(words[w].symbols, p))])

Below(a, b) == a[1] < b[1] \/ (a[1] = b[1] /\ a[2] < b[2])

(* Byte strings in lexicographic order. *)
StringBelow(s, t) ==
  \/ IsStrictPrefix(s, t)
  \/ \E k \in DOMAIN s \cap DOMAIN t :
       s[k] < t[k] /\ \A j \in 1 .. k - 1 : s[j] = t[j]

Remap(id) == IF id \in Bytes THEN HfRank[id] ELSE id

(* Pair p wins a tie against pair q. *)
Wins(rule, table, p, q) ==
  CASE rule = "RawTokenIds" -> Below(p, q)
    [] rule = "HuggingFace" ->
         Below(<<Remap(p[1]), Remap(p[2])>>, <<Remap(q[1]), Remap(q[2])>>)
    [] rule = "AssembledBytes" ->
         LET assembled(r, k) == BytesOf(table, r[k])
         IN \/ StringBelow(assembled(p, 1), assembled(q, 1))
            \/ /\ assembled(p, 1) = assembled(q, 1)
               /\ StringBelow(assembled(p, 2), assembled(q, 2))

(* The symbols at i and i + 1 of s become one. *)
Merged(s, i, id) == RemoveAt([s EXCEPT ![i] = id], i + 1)

(* The sequence s with pair p replaced from left to right. *)
Replaced(s, p, id) ==
  LET rest[i \in 1 .. Len(s) + 1] ==
        IF i > Len(s) THEN <<>>
        ELSE IF i < Len(s) /\ <<s[i], s[i + 1]>> = p THEN <<id>> \o rest[i + 2]
        ELSE <<s[i]>> \o rest[i + 1]
  IN rest[1]

(* The sequence s with merges [pair, id] made one after the other.         *)
Replayed(s, merges) ==
  LET after[k \in 0 .. Len(merges)] ==
        IF k = 0 THEN s ELSE Replaced(after[k - 1], merges[k].pair, merges[k].id)
  IN after[Len(merges)]
=============================================================================
