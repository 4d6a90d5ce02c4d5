----------------------------- MODULE BpeTrainer -----------------------------
(***************************************************************************)
(* BPE training, src/src/bpe_train.rs: a queue of pairs by count and an    *)
(* index from pairs to words, both kept up to date with what a merge       *)
(* changes.  The words of the index are updated in any order, as parallel  *)
(* chunks do.  Stage 2 resumes with longer units over the same symbols.    *)
(*                                                                         *)
(* The popped priority queue is a function from pairs to counts; which of  *)
(* the largest it pops first makes no difference.                          *)
(***************************************************************************)
EXTENDS SymbolPairs, FiniteSetsExt

CONSTANTS
  Corpora,     \* sets of [words, units], each a sequence of [symbols, count]
  Specials,    \* special tokens, as byte strings
  Transition,  \* bound of stage 1: symbols
  Target       \* bound of stage 2: symbols

VARIABLES
  rule,
  words, symbols, merges,
  queue,     \* pq
  index,     \* contained_in_words
  pc,        \* "pick", "update", or "done"
  stage,
  units,     \* the relaxed units of stage 2
  pair,      \* the pair being merged
  todo,      \* words of the pair that have not been updated yet
  changes,   \* count_changes
  gained,    \* contained_updates, as <<pair, word>>
  learned    \* history: the merges with the ids they were given

update == <<pair, todo, changes, gained>>
vars == <<rule, words, symbols, merges, queue, index, pc, stage, units, update, learned>>

Empty == [p \in {} |-> 0]

-----------------------------------------------------------------------------

Word == [symbols : Seq(Bytes), count : Nat \ {0}]

ASSUME TrainerAssumption ==
  /\ IsFiniteSet(Bytes) /\ Bytes = 0 .. Cardinality(Bytes) - 1
  /\ Specials \in Seq(Seq(Nat))
  /\ \A c \in Corpora : c.words \in Seq(Word) /\ c.units \in Seq(Word)

(* No special token of two bytes or more stands in a word or a unit.       *)
SpecialsApart ==
  \A k \in DOMAIN Specials : Len(Specials[k]) > 1 =>
    \A c \in Corpora : \A w \in ToSet(c.words) \cup ToSet(c.units) :
      Specials[k] \notin SubSeqs(w.symbols)

CountPairs(ws) == [p \in PairsOf(ws) |-> PairCount(ws, p)]

BuildContainedInWords(ws) ==
  [p \in PairsOf(ws) |->
     {w \in DOMAIN ws : p \in AdjacentPairs(ws[w].symbols)}]

Init ==
  /\ rule \in {"HuggingFace", "RawTokenIds", "AssembledBytes"}
  /\ \E c \in Corpora : words = c.words /\ units = c.units
  /\ queue = CountPairs(words)
  /\ index = BuildContainedInWords(words)
  /\ symbols = [b \in 1 .. Cardinality(Bytes) |-> <<b - 1>>] \o Specials
  /\ merges = <<>> /\ learned = <<>>
  /\ pc = "pick" /\ stage = 1
  /\ pair = <<>> /\ todo = {} /\ changes = Empty /\ gained = {}

-----------------------------------------------------------------------------

Limit == IF stage = 1 THEN Transition ELSE Target

IsMost(p) ==
  \A q \in DOMAIN queue :
    queue[q] < queue[p] \/ (queue[q] = queue[p] /\ ~Wins(rule, symbols, q, p))

(* Mutant: the pairs that lost the tie are not pushed back.                *)
Pick_TiedLost(p) ==
  /\ pc = "pick" /\ Len(symbols) < Limit
  /\ p \in DOMAIN queue /\ IsMost(p)
  /\ LET left == BytesOf(symbols, p[1])
         right == BytesOf(symbols, p[2])
     IN /\ symbols' = Append(symbols, left \o right)
        /\ merges' = Append(merges, <<left, right>>)
  /\ learned' = Append(learned, [pair |-> p, id |-> Len(symbols)])
  /\ queue' = [q \in {q \in DOMAIN queue : queue[q] < queue[p]} |-> queue[q]]
  /\ pair' = p
  /\ todo' = index[p]
  /\ pc' = "update"
  /\ UNCHANGED <<rule, words, index, stage, units, changes, gained>>

Pick(p) ==
  /\ pc = "pick" /\ Len(symbols) < Limit
  /\ p \in DOMAIN queue /\ IsMost(p)
  /\ LET left == BytesOf(symbols, p[1])
         right == BytesOf(symbols, p[2])
     IN /\ symbols' = Append(symbols, left \o right)
        /\ merges' = Append(merges, <<left, right>>)
  /\ learned' = Append(learned, [pair |-> p, id |-> Len(symbols)])
  /\ queue' = [q \in DOMAIN queue \ {p} |-> queue[q]]
  /\ pair' = p
  /\ todo' = index[p]
  /\ pc' = "update"
  /\ UNCHANGED <<rule, words, index, stage, units, changes, gained>>

(* One round of the loop of update_word: r has the symbols, the position   *)
(* the loop has come to, and the pairs that have come (+1) and gone (-1).  *)
UpdateRound(r, p, new) ==
  LET t == r.symbols
      i == r.at
      left == IF i = 1 THEN <<>>
              ELSE << <<<<t[i - 1], p[1]>>, -1>>, <<<<t[i - 1], new>>, 1>> >>
      right == IF i + 2 > Len(t) THEN <<>>
               ELSE << <<<<p[2], t[i + 2]>>, -1>>, <<<<new, t[i + 2]>>, 1>> >>
  IN IF i >= Len(t) THEN r
     ELSE IF i \notin Places(t, p) THEN [r EXCEPT !.at = i + 1]
     ELSE [symbols |-> Merged(t, i, new), at |-> i + 1, record |-> r.record \o left \o right]

UpdateWord(s, p, new) ==
  LET round[n \in 0 .. Len(s)] ==
        IF n = 0 THEN [symbols |-> s, at |-> 1, record |-> <<>>]
        ELSE UpdateRound(round[n - 1], p, new)
  IN round[Len(s)]

(* How many more of pair p have come than gone. *)
NetChange(record, p) ==
  Cardinality({k \in DOMAIN record : record[k] = <<p, 1>>})
    - Cardinality({k \in DOMAIN record : record[k] = <<p, -1>>})

(* Mutant: a word is indexed for a pair when it gained more than it lost.  *)
UpdateOne_NetGain(w) ==
  /\ pc = "update" /\ w \in todo
  /\ LET done == UpdateWord(words[w].symbols, pair, Len(symbols) - 1)
         touched == {done.record[k][1] : k \in DOMAIN done.record}
         change(p) == words[w].count * NetChange(done.record, p)
         old(p) == IF p \in DOMAIN changes THEN changes[p] ELSE 0
     IN /\ words' = [words EXCEPT ![w].symbols = done.symbols]
        /\ changes' = [p \in DOMAIN changes \cup touched |-> old(p) + change(p)]
        /\ gained' = gained \cup
             {<<p, w>> : p \in {p \in touched : change(p) > 0}}
  /\ todo' = todo \ {w}
  /\ UNCHANGED <<rule, symbols, merges, queue, index, pc, stage, units, pair, learned>>

UpdateOne(w) ==
  /\ pc = "update" /\ w \in todo
  /\ LET done == UpdateWord(words[w].symbols, pair, Len(symbols) - 1)
         touched == {done.record[k][1] : k \in DOMAIN done.record}
         change(p) == words[w].count * NetChange(done.record, p)
         old(p) == IF p \in DOMAIN changes THEN changes[p] ELSE 0
     IN /\ words' = [words EXCEPT ![w].symbols = done.symbols]
        /\ changes' = [p \in DOMAIN changes \cup touched |-> old(p) + change(p)]
        /\ gained' = gained \cup
             {<<r[1], w>> : r \in {r \in ToSet(done.record) : r[2] > 0}}
  /\ todo' = todo \ {w}
  /\ UNCHANGED <<rule, symbols, merges, queue, index, pc, stage, units, pair, learned>>

(* The index gains what was recorded, the queue is changed or pushed. *)
Apply ==
  /\ pc = "update" /\ todo = {}
  /\ index' = [p \in DOMAIN index \cup {g[1] : g \in gained} |->
                 (IF p \in DOMAIN index THEN index[p] ELSE {})
                   \cup {g[2] : g \in {g \in gained : g[1] = p}}]
  /\ queue' = [p \in DOMAIN queue \cup DOMAIN changes |->
                 (IF p \in DOMAIN queue THEN queue[p] ELSE 0)
                   + (IF p \in DOMAIN changes THEN changes[p] ELSE 0)]
  /\ pc' = "pick"
  /\ pair' = <<>> /\ changes' = Empty /\ gained' = {}
  /\ UNCHANGED <<rule, words, symbols, merges, stage, units, todo, learned>>

Exhausted == DOMAIN queue = {} \/ Len(symbols) >= Limit

-----------------------------------------------------------------------------
(* Stage 2. *)

(* Mutant: a later symbol with the same bytes takes the place of the first. *)
IdOf_Last(string) ==
  Max({id \in 0 .. Len(symbols) - 1 : BytesOf(symbols, id) = string})

(* The first symbol with these bytes. *)
IdOf(string) == Min({id \in 0 .. Len(symbols) - 1 : BytesOf(symbols, id) = string})

MergeMap ==
  [p \in {<<IdOf(m[1]), IdOf(m[2])>> : m \in ToSet(merges)} |->
     IdOf(BytesOf(symbols, p[1]) \o BytesOf(symbols, p[2]))]

(* A round of simple_bpe_merge: the lowest merged id, then the leftmost.   *)
MergeRound(map, t) ==
  LET can == {i \in 1 .. Len(t) - 1 : <<t[i], t[i + 1]>> \in DOMAIN map}
      id(i) == map[<<t[i], t[i + 1]>>]
      best == CHOOSE i \in can :
                \A j \in can : id(i) < id(j) \/ (id(i) = id(j) /\ i <= j)
  IN IF can = {} THEN t ELSE Merged(t, best, id(best))

SimpleBpeMerge(map, s) ==
  LET round[n \in 0 .. Len(s)] ==
        IF n = 0 THEN s ELSE MergeRound(map, round[n - 1])
  IN round[Len(s)]

Resume ==
  /\ pc = "pick" /\ stage = 1 /\ Exhausted
  /\ words' = [u \in DOMAIN units |->
       [symbols |-> SimpleBpeMerge(MergeMap, units[u].symbols),
        count |-> units[u].count]]
  /\ queue' = CountPairs(words')
  /\ index' = BuildContainedInWords(words')
  /\ stage' = 2
  /\ UNCHANGED <<rule, symbols, merges, pc, units, update, learned>>

Finish ==
  /\ pc = "pick" /\ stage = 2 /\ Exhausted
  /\ pc' = "done"
  /\ UNCHANGED <<rule, words, symbols, merges, queue, index, stage, units, update, learned>>

Next ==
  \/ \E p \in DOMAIN queue : Pick(p)
  \/ \E w \in todo : UpdateOne(w)
  \/ Apply
  \/ Resume
  \/ Finish

Spec == Init /\ [][Next]_vars

-----------------------------------------------------------------------------

(* The words as they will be when the merge in progress is through.        *)
Settled ==
  [w \in DOMAIN words |->
     IF w \in todo
     THEN [words[w] EXCEPT !.symbols = Replaced(@, pair, Len(symbols) - 1)]
     ELSE words[w]]

Promise == INSTANCE Recount WITH words <- Settled

(* Every merge is the one that counting all words again would choose, and  *)
(* reaches every word with the pair; units resume as if trained along.     *)
RecountSpec == Promise!Spec

(* Between merges the queue has the true count of every pair that occurs,  *)
(* and the index names every word of every queued pair, so that looking a  *)
(* picked pair up in it cannot fail.                                       *)
CountsExact ==
  pc = "pick" =>
    /\ PairsOf(words) \subseteq DOMAIN queue
    /\ \A p \in DOMAIN queue :
         IF p \in PairsOf(words) THEN queue[p] = PairCount(words, p) ELSE queue[p] <= 0
    /\ DOMAIN queue \subseteq DOMAIN index
    /\ \A w \in DOMAIN words : \A p \in AdjacentPairs(words[w].symbols) : w \in index[p]

(* The words as trained are what the learned tokenizer makes of their      *)
(* bytes.                                                                  *)
TextOf(s) == FlattenSeq([i \in DOMAIN s |-> BytesOf(symbols, s[i])])

TrainedAsEncoded ==
  pc = "pick" =>
    \A w \in DOMAIN words :
      words[w].symbols = SimpleBpeMerge(MergeMap, TextOf(words[w].symbols))

(* What the loop is documented to do: merge pairs until none remains.      *)
MergesOccur ==
  [][learned' # learned => Last(learned').pair \in Promise!Occurring]_vars
=============================================================================
