------------------------------ MODULE Recount ------------------------------
(***************************************************************************)
(* What training promises: the pair that occurs most often in the words,   *)
(* counted afresh each time, becomes a new symbol wherever it occurs; and  *)
(* new words are brought to where they would be had they been there from   *)
(* the start.                                                              *)
(***************************************************************************)
EXTENDS SymbolPairs, FiniteSetsExt

CONSTANTS Corpora, Specials

VARIABLES
  units,    \* words to go on with
  rule,     \* how ties are broken
  words,    \* sequence of [symbols, count]
  symbols,  \* table of byte strings
  learned   \* sequence of [pair, id], in the order they were merged

Occurring == PairsOf(words)

(* How often pair p occurs, overlaps counted. *)
Count(p) == PairCount(words, p)

Learn(p) ==
  LET id == Len(symbols)
  IN /\ symbols' = Append(symbols, BytesOf(symbols, p[1]) \o BytesOf(symbols, p[2]))
     /\ learned' = Append(learned, [pair |-> p, id |-> id])
     /\ words' = [w \in DOMAIN words |->
                    [words[w] EXCEPT !.symbols = Replaced(@, p, id)]]
     /\ UNCHANGED <<rule, units>>

(* The most frequent pair, and of several the one that wins the tie. *)
LearnBest(p) ==
  /\ p \in Occurring
  /\ \A q \in Occurring :
       \/ Count(p) > Count(q)
       \/ Count(p) = Count(q) /\ ~Wins(rule, symbols, q, p)
  /\ Learn(p)

(* When nothing is left to merge, symbols may still be added for pairs     *)
(* that no word has any more.                                              *)
LearnNothing(p) ==
  /\ Occurring = {}
  /\ Learn(p)

(* Training goes on with other words. *)
Resume ==
  /\ words' = [u \in DOMAIN units |->
                 [symbols |-> Replayed(units[u].symbols, learned), count |-> units[u].count]]
  /\ UNCHANGED <<rule, symbols, learned, units>>

Init ==
  /\ rule \in {"HuggingFace", "RawTokenIds", "AssembledBytes"}
  /\ \E c \in Corpora : words = c.words /\ units = c.units
  /\ symbols = [b \in 1 .. Cardinality(Bytes) |-> <<b - 1>>] \o Specials
  /\ learned = <<>>

Next ==
  \/ \E p \in Occurring : LearnBest(p)
  \/ \E p \in (0 .. Len(symbols) - 1) \X (0 .. Len(symbols) - 1) : LearnNothing(p)
  \/ Resume

Spec == Init /\ [][Next]_<<units, rule, words, symbols, learned>>
=============================================================================
