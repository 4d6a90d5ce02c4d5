---------------------------- MODULE TokenizerSeed ----------------------------
(***************************************************************************)
(* The caches of a Tokenizer (src/bpe/tiktoken.rs) against the settings    *)
(* they depend on.  The short cache is seeded with the encoding of every   *)
(* short vocabulary entry and then overwritten for the added tokens; the   *)
(* mutators of the loader patch it in place, while a fork seeds its own    *)
(* from the tables.  The long cache is filled by encoding only.            *)
(*                                                                         *)
(* A tokenizer answers for a byte string with one id or with Pieces, the   *)
(* encoding its model gives the string (merges or WordPiece).  They are    *)
(* kept apart although many vocabulary entries merge to their own id: the  *)
(* entries that do not are the ones a wrong seed gets wrong.               *)
(***************************************************************************)
EXTENDS Naturals

CONSTANTS
  Contents,   \* non-empty byte strings: vocabulary entries, tokens, pretokens
  Short,      \* those of 1 to 15 bytes
  Ids,        \* token ids, the indices of the decode vocabulary
  Workers,    \* slots of a WorkerPool
  Proto,      \* the prototype the workers are forked from
  Pieces,     \* the answer of the model itself
  Absent,     \* no entry in a cache
  NoId,       \* no entry in vocab_inv
  Unused      \* an id whose bytes are empty or beyond the vocabulary

ASSUME ShortAssumption == Short \subseteq Contents
ASSUME NamesAssumption ==
  /\ Unused \notin Contents
  /\ Proto \notin Workers
  /\ NoId \notin Ids /\ Pieces \notin Ids
  /\ Absent \notin Ids \cup {Pieces}
(* Every set of ids has a last one: the vocabulary is finite. *)
ASSUME IdsAssumption ==
  \A ids \in SUBSET Ids : ids # {} =>
    \E last \in ids : \A other \in ids : other <= last

Long == Contents \ Short
Answers == Ids \cup {Pieces}
Instances == Workers \cup {Proto}

VARIABLES
  tok,      \* the tokenizers, by instance
  built,    \* the instances there are
  pending   \* contents add_special_tokens has pushed and not yet installed

vars == <<tok, built, pending>>

Tokenizer ==
  [vocab : [Ids -> Contents \cup {Unused}],
   vocab_inv : [Contents -> Ids \cup {NoId}],
   added_tokens : SUBSET Contents,
   ignore_merges : BOOLEAN,
   pretoken_cache : [Short -> Answers \cup {Absent}],
   pretoken_cache_long : [Long -> Answers \cup {Absent}]]

-----------------------------------------------------------------------------

(* The entries of the vocabulary, and what vocab_inv resolves. *)
Entries(t) == {t.vocab[id] : id \in Ids} \ {Unused}
Resolved(t) == {c \in Contents : t.vocab_inv[c] # NoId}

(* seed_symbols: the seed value of a byte string, and what a miss computes. *)
Seed(t, c) ==
  IF t.ignore_merges /\ c \in Resolved(t) THEN t.vocab_inv[c] ELSE Pieces

(* The tokenizer of the tables of t with these settings and caches. *)
With(t, added, flag, short, long) ==
  [vocab |-> t.vocab, vocab_inv |-> t.vocab_inv, added_tokens |-> added,
   ignore_merges |-> flag, pretoken_cache |-> short,
   pretoken_cache_long |-> long]

(* apply_added_token_overwrites, over a cache. *)
Overwritten(t, added, cache) ==
  [c \in Short |-> IF c \in added \cap Resolved(t) THEN t.vocab_inv[c]
                   ELSE cache[c]]

(* seeded_pretoken_cache: the seed value of every short entry, no other. *)
Seeded(t) == [c \in Short |-> IF c \in Entries(t) THEN Seed(t, c) ELSE Absent]

(* fork_sized: the tables are shared, the caches built again.              *)
Forked(t) ==
  With(t, t.added_tokens, t.ignore_merges,
       Overwritten(t, t.added_tokens, Seeded(t)), [c \in Long |-> Absent])

(* The value a lookup of c returns: the entry, or what the miss computes. *)
Entry(t, c) ==
  IF c \in Short THEN t.pretoken_cache[c] ELSE t.pretoken_cache_long[c]

Answer(t, c) == IF Entry(t, c) = Absent THEN Seed(t, c) ELSE Entry(t, c)

(* from_tables: the last id wins a duplicate; no added tokens, no flag. *)
LastId(vocab, c) ==
  LET ids == {id \in Ids : vocab[id] = c}
  IN IF ids = {} THEN NoId ELSE CHOOSE id \in ids : \A other \in ids : other <= id

Constructed(vocab) ==
  Forked([vocab |-> vocab, vocab_inv |-> [c \in Contents |-> LastId(vocab, c)],
          added_tokens |-> {}, ignore_merges |-> FALSE])

Init ==
  /\ \E vocab \in [Ids -> Contents \cup {Unused}] :
       tok = [i \in Instances |-> Constructed(vocab)]
  /\ built = {Proto}
  /\ pending = {}

-----------------------------------------------------------------------------
(* Encoding.  A miss stores what it computed; a hit changes nothing.       *)
(* (Mutant: the miss forgets the flag.)                                    *)

Stored(cache, c, answer) == [d \in DOMAIN cache |-> IF d = c THEN answer ELSE cache[d]]

FilledPieces(t, c) ==
  With(t, t.added_tokens, t.ignore_merges, Stored(t.pretoken_cache, c, Pieces),
       Stored(t.pretoken_cache_long, c, Pieces))

Filled(t, c) ==
  With(t, t.added_tokens, t.ignore_merges,
       Stored(t.pretoken_cache, c, Seed(t, c)),
       Stored(t.pretoken_cache_long, c, Seed(t, c)))

EncodeMiss(i, c) ==
  /\ i \in built
  /\ i = Proto => pending = {}
  /\ Entry(tok[i], c) = Absent
  /\ tok' = [tok EXCEPT ![i] = Filled(tok[i], c)]
  /\ UNCHANGED <<built, pending>>

Fork(w) ==
  /\ w \notin built
  /\ pending = {}
  /\ tok' = [tok EXCEPT ![w] = Forked(tok[Proto])]
  /\ built' = built \cup {w}
  /\ UNCHANGED pending

-----------------------------------------------------------------------------
(* The mutators, on the prototype. *)

(* set_ignore_merges: every short entry of the vocabulary is rewritten.    *)
(* (Mutant: the added tokens are not reasserted.)                           *)
Flagged(t, flag) == With(t, t.added_tokens, flag, t.pretoken_cache, t.pretoken_cache_long)

Reseeded(t) ==
  [c \in Short |-> IF c \in Entries(t) THEN Seed(t, c) ELSE t.pretoken_cache[c]]

WithFlagOnly(t, flag) ==
  With(t, t.added_tokens, flag, Reseeded(Flagged(t, flag)), t.pretoken_cache_long)

WithFlag(t, flag) ==
  With(t, t.added_tokens, flag,
       Overwritten(t, t.added_tokens, Reseeded(Flagged(t, flag))),
       t.pretoken_cache_long)

SetIgnoreMerges(flag) ==
  /\ pending = {}
  /\ tok[Proto].ignore_merges # flag
  /\ tok' = [tok EXCEPT ![Proto] = WithFlag(tok[Proto], flag)]
  /\ UNCHANGED <<built, pending>>

(* set_added_tokens: the outgoing contents get their seed value back, then *)
(* the incoming ones are overwritten.  (Mutant: nothing is restored.)      *)
Outgoing(t) == t.added_tokens \cap Short \cap Resolved(t)

Restored(t) ==
  [c \in Short |-> IF c \in Outgoing(t) THEN Seed(t, c) ELSE t.pretoken_cache[c]]

WithAddedOnly(t, added) ==
  With(t, added, t.ignore_merges, Overwritten(t, added, t.pretoken_cache),
       t.pretoken_cache_long)

WithAdded(t, added) ==
  With(t, added, t.ignore_merges, Overwritten(t, added, Restored(t)),
       t.pretoken_cache_long)

SetAddedTokens(added) ==
  /\ pending = {}
  /\ tok' = [tok EXCEPT ![Proto] = WithAdded(tok[Proto], added)]
  /\ UNCHANGED <<built, pending>>

(* add_special_tokens, one turn of its loop: the bytes of an unused id are *)
(* written and vocab_inv follows; the content is pushed either way.        *)
Extended(t, c, id) ==
  [vocab |-> [t.vocab EXCEPT ![id] = c],
   vocab_inv |-> [t.vocab_inv EXCEPT ![c] = id]]

WithEntry(t, c, id) ==
  IF t.vocab[id] # Unused THEN t
  ELSE With(Extended(t, c, id), t.added_tokens, t.ignore_merges,
            t.pretoken_cache, t.pretoken_cache_long)

AddSpecialToken(c, id) ==
  /\ tok' = [tok EXCEPT ![Proto] = WithEntry(tok[Proto], c, id)]
  /\ pending' = pending \cup {c}
  /\ UNCHANGED built

InstallSpecialTokens ==
  /\ pending # {}
  /\ tok' = [tok EXCEPT ![Proto] =
               WithAdded(tok[Proto], tok[Proto].added_tokens \cup pending)]
  /\ pending' = {}
  /\ UNCHANGED built

-----------------------------------------------------------------------------

Next ==
  \/ \E i \in Instances, c \in Contents : EncodeMiss(i, c)
  \/ \E w \in Workers : Fork(w)
  \/ \E flag \in BOOLEAN : SetIgnoreMerges(flag)
  \/ \E added \in SUBSET Contents : SetAddedTokens(added)
  \/ \E c \in Contents, id \in Ids : AddSpecialToken(c, id)
  \/ InstallSpecialTokens

Spec == Init /\ [][Next]_vars

-----------------------------------------------------------------------------
(* Properties.  An instance is at rest unless it is the prototype inside   *)
(* add_special_tokens.                                                     *)

AtRest(i) == i \in built /\ (i = Proto => pending = {})

(* Type invariant: settings and caches of every tokenizer keep their types. *)
TypeOK ==
  /\ tok \in [Instances -> Tokenizer]
  /\ built \subseteq Instances
  /\ Proto \in built
  /\ pending \subseteq Contents

(* What a short pretoken encodes to, as a function of the settings alone: *)
(* an added token that resolves, and under ignore_merges any vocabulary   *)
(* entry, is its single id; everything else is up to the model.  That is  *)
(* the seed of a BPE model; WordPiece has no such rule and leaves         *)
(* ignore_merges aside.                                                   *)
Intended(t, c) ==
  IF c \in Resolved(t) /\ (t.ignore_merges \/ c \in t.added_tokens)
  THEN t.vocab_inv[c] ELSE Pieces

(* The short cache is a pure function of (vocab, ignore_merges,            *)
(* added_tokens), whatever sequence of mutations, encodes and forks led    *)
(* there (set_ignore_merges, apply_added_token_overwrites).                *)
ShortAnswers ==
  \A i \in Instances : AtRest(i) =>
    \A c \in Short : Answer(tok[i], c) = Intended(tok[i], c)

(* "Parent and forked workers always agree on every short pretoken": a     *)
(* worker forked from any instance now would answer as that instance.      *)
ForkAgrees ==
  \A i \in Instances : AtRest(i) =>
    \A c \in Short : Answer(Forked(tok[i]), c) = Answer(tok[i], c)

(* A tokenizer's answers change only when its own settings do: encoding,   *)
(* forking and mutating the prototype never change what an instance        *)
(* answers, long pretokens included.                                       *)
Settings(i) == <<tok[i].vocab_inv, tok[i].added_tokens, tok[i].ignore_merges,
                 IF i = Proto THEN pending ELSE {}>>

AnswersStable ==
  [][\A i \in built : Settings(i)' = Settings(i) =>
       \A c \in Contents : Answer(tok'[i], c) = Answer(tok[i], c)]_vars
=============================================================================
