------------------------- MODULE TokenizerSeedProofs -------------------------
(***************************************************************************)
(* The short cache answers as the settings say, for any set of byte        *)
(* strings, any vocabulary, any number of workers and any sequence of      *)
(* encodes, forks and mutations.                                           *)
(*                                                                         *)
(* The inductive invariant says so for every instance, with two things the *)
(* property leaves out.  Indexed: vocab_inv resolves a content to an id    *)
(* whose bytes it is, so that set_ignore_merges, which walks the           *)
(* vocabulary, reaches every content whose answer the flag decides.        *)
(* Faithful: inside add_special_tokens only contents that are pending and  *)
(* resolve may have a stale entry, and set_added_tokens overwrites exactly *)
(* those.                                                                  *)
(***************************************************************************)
EXTENDS TokenizerSeed, TLAPS

Unsettled(i) == IF i = Proto THEN pending ELSE {}

Indexed(t) == \A c \in Resolved(t) : t.vocab[t.vocab_inv[c]] = c

Faithful(t, open) ==
  \A c \in Short : c \notin open \/ c \notin Resolved(t) =>
    Answer(t, c) = Intended(t, c)

Good(t, open) == t \in Tokenizer /\ Indexed(t) /\ Faithful(t, open)

IInv ==
  /\ TypeOK
  /\ \A i \in Instances : Good(tok[i], Unsettled(i))

-----------------------------------------------------------------------------
(* Types of the pieces a tokenizer is made of. *)

(* With makes a tokenizer of its parts. *)
LEMMA WithType ==
  ASSUME NEW t \in Tokenizer, NEW added \in SUBSET Contents,
         NEW flag \in BOOLEAN,
         NEW short \in [Short -> Answers \cup {Absent}],
         NEW long \in [Long -> Answers \cup {Absent}]
  PROVE  With(t, added, flag, short, long) \in Tokenizer
BY DEF With, Tokenizer

(* A seed value is an answer. *)
LEMMA SeedType ==
  ASSUME NEW t, t.vocab_inv \in [Contents -> Ids \cup {NoId}],
         NEW c \in Contents
  PROVE  Seed(t, c) \in Answers
BY DEF Seed, Resolved, Answers

(* Overwriting keeps a cache a cache. *)
LEMMA OverwrittenType ==
  ASSUME NEW t, t.vocab_inv \in [Contents -> Ids \cup {NoId}],
         NEW added \in SUBSET Contents,
         NEW cache \in [Short -> Answers \cup {Absent}]
  PROVE  Overwritten(t, added, cache) \in [Short -> Answers \cup {Absent}]
<1>1. ASSUME NEW c \in Short
      PROVE  (IF c \in added \cap Resolved(t) THEN t.vocab_inv[c] ELSE cache[c])
               \in Answers \cup {Absent}
  BY ShortAssumption DEF Resolved, Answers
<1>2. QED
  BY <1>1 DEF Overwritten

(* An id that resolves, and Pieces, are never mistaken for no entry. *)
LEMMA AnswerPresent == Absent \notin Answers
BY NamesAssumption DEF Answers

-----------------------------------------------------------------------------
(* One lemma per operation on a tokenizer. *)

(* A fork of any well-typed tokenizer answers as its settings say. *)
LEMMA ForkedGood ==
  ASSUME NEW t, t.vocab \in [Ids -> Contents \cup {Unused}],
         t.vocab_inv \in [Contents -> Ids \cup {NoId}],
         t.added_tokens \in SUBSET Contents, t.ignore_merges \in BOOLEAN,
         Indexed(t), NEW open
  PROVE  Good(Forked(t), open)
<1> DEFINE f == Forked(t)
<1>1. Seeded(t) \in [Short -> Answers \cup {Absent}]
  BY SeedType, ShortAssumption DEF Seeded
<1>2. /\ f.vocab = t.vocab /\ f.vocab_inv = t.vocab_inv
      /\ f.added_tokens = t.added_tokens /\ f.ignore_merges = t.ignore_merges
      /\ f.pretoken_cache = Overwritten(t, t.added_tokens, Seeded(t))
      /\ f.pretoken_cache_long = [c \in Long |-> Absent]
  BY DEF Forked, With
<1>3. f \in Tokenizer
  <2>1. f.pretoken_cache \in [Short -> Answers \cup {Absent}]
    BY <1>1, <1>2, OverwrittenType
  <2>2. QED
    BY <1>2, <2>1 DEF Forked, With, Tokenizer
<1>4. Resolved(f) = Resolved(t) /\ \A c : Seed(f, c) = Seed(t, c)
  BY <1>2 DEF Resolved, Seed
<1>5. Indexed(f)
  BY <1>2, <1>4 DEF Indexed
<1>6. ASSUME NEW c \in Short
      PROVE  Answer(f, c) = Intended(f, c)
  <2> c \in Contents
    BY ShortAssumption
  <2>1. Entry(f, c) = IF c \in t.added_tokens \cap Resolved(t)
                      THEN t.vocab_inv[c] ELSE Seeded(t)[c]
    BY <1>2 DEF Entry, Overwritten
  <2>2. CASE c \in t.added_tokens \cap Resolved(t)
    <3>1. t.vocab_inv[c] \in Answers
      BY <2>2 DEF Resolved, Answers
    <3>2. QED
      BY <2>1, <2>2, <3>1, <1>2, <1>4, AnswerPresent DEF Answer, Intended
  <2>3. CASE c \notin t.added_tokens \cap Resolved(t)
    <3>1. Answer(f, c) = Seed(t, c)
      BY <2>1, <2>3, <1>4, SeedType, AnswerPresent DEF Answer, Seeded
    <3>2. QED
      BY <3>1, <2>3, <1>2, <1>4 DEF Seed, Intended
  <2>4. QED
    BY <2>2, <2>3
<1>7. QED
  BY <1>3, <1>5, <1>6 DEF Good, Faithful

(* A construction is a fork of bare tables. *)
LEMMA ConstructedGood ==
  ASSUME NEW vocab \in [Ids -> Contents \cup {Unused}], NEW open
  PROVE  Good(Constructed(vocab), open)
<1> DEFINE inv == [c \in Contents |-> LastId(vocab, c)]
           bare == [vocab |-> vocab, vocab_inv |-> inv,
                    added_tokens |-> {}, ignore_merges |-> FALSE]
<1>1. ASSUME NEW c \in Contents
      PROVE  /\ LastId(vocab, c) \in Ids \cup {NoId}
             /\ LastId(vocab, c) # NoId => vocab[LastId(vocab, c)] = c
  <2> DEFINE ids == {id \in Ids : vocab[id] = c}
  <2>1. CASE ids = {}
    BY <2>1 DEF LastId
  <2>2. CASE ids # {}
    <3>1. \E last \in ids : \A other \in ids : other <= last
      BY <2>2, IdsAssumption
    <3>2. LastId(vocab, c) = CHOOSE id \in ids : \A other \in ids : other <= id
      BY <2>2 DEF LastId
    <3>3. LastId(vocab, c) \in ids
      BY <3>1, <3>2
    <3>4. QED
      BY <3>3
  <2>3. QED
    BY <2>1, <2>2
<1>2. inv \in [Contents -> Ids \cup {NoId}]
  BY <1>1
<1>3. Indexed(bare)
  BY <1>1 DEF Indexed, Resolved
<1>4. /\ bare.vocab = vocab /\ bare.vocab_inv = inv
      /\ bare.added_tokens = {} /\ bare.ignore_merges = FALSE
  OBVIOUS
<1>5. Good(Forked(bare), open)
  BY <1>2, <1>3, <1>4, ForkedGood
<1>6. QED
  BY <1>5 DEF Constructed

(* A miss stores the answer it gave. *)
LEMMA FilledGood ==
  ASSUME NEW t, NEW c \in Contents, NEW open, Good(t, open),
         Entry(t, c) = Absent
  PROVE  Good(Filled(t, c), open)
<1> DEFINE f == Filled(t, c)
<1>0. t \in Tokenizer /\ t.vocab_inv \in [Contents -> Ids \cup {NoId}]
      /\ DOMAIN t.pretoken_cache = Short /\ DOMAIN t.pretoken_cache_long = Long
  BY DEF Good, Tokenizer
<1>1. /\ f.vocab = t.vocab /\ f.vocab_inv = t.vocab_inv
      /\ f.added_tokens = t.added_tokens /\ f.ignore_merges = t.ignore_merges
      /\ f.pretoken_cache = Stored(t.pretoken_cache, c, Seed(t, c))
  BY DEF Filled, With
<1>2. Seed(t, c) \in Answers
  BY <1>0, SeedType
<1>3. f \in Tokenizer
  <2>1. /\ t.added_tokens \in SUBSET Contents /\ t.ignore_merges \in BOOLEAN
        /\ t.pretoken_cache \in [Short -> Answers \cup {Absent}]
        /\ t.pretoken_cache_long \in [Long -> Answers \cup {Absent}]
    BY <1>0 DEF Tokenizer
  <2>2. Stored(t.pretoken_cache, c, Seed(t, c)) \in [Short -> Answers \cup {Absent}]
    BY <1>2, <2>1 DEF Stored
  <2>3. Stored(t.pretoken_cache_long, c, Seed(t, c)) \in [Long -> Answers \cup {Absent}]
    BY <1>2, <2>1 DEF Stored
  <2>4. QED
    BY <1>0, <2>1, <2>2, <2>3, WithType DEF Filled
<1>4. Resolved(f) = Resolved(t) /\ \A d : Seed(f, d) = Seed(t, d)
  BY <1>1 DEF Resolved, Seed
<1>5. Indexed(f)
  BY <1>1, <1>4 DEF Indexed, Good
<1>6. ASSUME NEW d \in Short, d \notin open \/ d \notin Resolved(f)
      PROVE  Answer(f, d) = Intended(f, d)
  <2>1. Answer(t, d) = Intended(t, d)
    BY <1>4, <1>6 DEF Good, Faithful
  <2>2. Intended(f, d) = Intended(t, d)
    BY <1>1, <1>4 DEF Intended
  <2>3. Entry(f, d) = IF d = c THEN Seed(t, c) ELSE Entry(t, d)
    BY <1>0, <1>1 DEF Entry, Stored
  <2>4. Answer(f, d) = Answer(t, d)
    BY <2>3, <1>2, <1>4, AnswerPresent DEF Answer
  <2>5. QED
    BY <2>1, <2>2, <2>4
<1>7. QED
  BY <1>3, <1>5, <1>6 DEF Good, Faithful

(* The flag flip reaches every entry the flag decides. *)
LEMMA WithFlagGood ==
  ASSUME NEW t, NEW flag \in BOOLEAN, Good(t, {})
  PROVE  Good(WithFlag(t, flag), {})
<1> DEFINE now == Flagged(t, flag)
           f == WithFlag(t, flag)
<1>0. /\ t \in Tokenizer /\ t.vocab_inv \in [Contents -> Ids \cup {NoId}]
      /\ t.added_tokens \in SUBSET Contents
      /\ t.vocab \in [Ids -> Contents \cup {Unused}]
      /\ t.pretoken_cache \in [Short -> Answers \cup {Absent}]
      /\ t.pretoken_cache_long \in [Long -> Answers \cup {Absent}]
  BY DEF Good, Tokenizer
<1>1. /\ now.vocab = t.vocab /\ now.vocab_inv = t.vocab_inv
      /\ now.added_tokens = t.added_tokens /\ now.ignore_merges = flag
      /\ now.pretoken_cache = t.pretoken_cache
  BY DEF Flagged, With
<1>2. /\ f.vocab = t.vocab /\ f.vocab_inv = t.vocab_inv
      /\ f.added_tokens = t.added_tokens /\ f.ignore_merges = flag
      /\ f.pretoken_cache = Overwritten(t, t.added_tokens, Reseeded(now))
  BY DEF WithFlag, With
<1>3. /\ Resolved(f) = Resolved(t) /\ Resolved(now) = Resolved(t)
      /\ Entries(now) = Entries(t)
      /\ \A d : Seed(f, d) = Seed(now, d)
  BY <1>1, <1>2 DEF Resolved, Entries, Seed
<1>4. \A d \in Contents : Seed(now, d) \in Answers
  BY <1>0, <1>1, SeedType
<1>5. f \in Tokenizer
  <2>1. Reseeded(now) \in [Short -> Answers \cup {Absent}]
    BY <1>0, <1>1, <1>4, ShortAssumption DEF Reseeded
  <2>2. Overwritten(t, t.added_tokens, Reseeded(now)) \in [Short -> Answers \cup {Absent}]
    BY <1>0, <2>1, OverwrittenType
  <2>3. QED
    BY <1>0, <2>2, WithType DEF WithFlag
<1>6. Indexed(f)
  BY <1>2, <1>3 DEF Indexed, Good
<1>7. ASSUME NEW c \in Short
      PROVE  Answer(f, c) = Intended(f, c)
  <2> c \in Contents
    BY ShortAssumption
  <2>1. Entry(f, c) = IF c \in t.added_tokens \cap Resolved(t)
                      THEN t.vocab_inv[c]
                      ELSE IF c \in Entries(t) THEN Seed(now, c)
                      ELSE t.pretoken_cache[c]
    BY <1>1, <1>2, <1>3 DEF Entry, Overwritten, Reseeded
  <2>2. CASE c \in t.added_tokens \cap Resolved(t)
    <3>1. t.vocab_inv[c] \in Answers
      BY <1>0, <2>2 DEF Resolved, Answers
    <3>2. QED
      BY <2>1, <2>2, <3>1, <1>2, <1>3, AnswerPresent DEF Answer, Intended
  <2>3. CASE c \notin t.added_tokens \cap Resolved(t) /\ c \in Entries(t)
    <3>1. Answer(f, c) = Seed(now, c)
      BY <2>1, <2>3, <1>4, AnswerPresent DEF Answer
    <3>2. QED
      BY <3>1, <2>3, <1>1, <1>2, <1>3 DEF Seed, Intended
  <2>4. CASE c \notin Entries(t)
    <3>1. c \notin Resolved(t)
      BY <2>4, <1>0, NamesAssumption DEF Good, Indexed, Entries, Resolved
    <3>2. Intended(t, c) = Pieces /\ Intended(f, c) = Pieces
      BY <3>1, <1>3 DEF Intended
    <3>3. Seed(now, c) = Pieces
      BY <3>1, <1>3 DEF Seed
    <3>4. Seed(t, c) = Pieces
      BY <3>1 DEF Seed
    <3>5. Answer(t, c) = Pieces
      BY <3>2 DEF Good, Faithful
    <3>6. Entry(f, c) = Entry(t, c)
      BY <2>1, <2>4, <3>1 DEF Entry
    <3>7. QED
      BY <3>2, <3>3, <3>4, <3>5, <3>6, <1>3 DEF Answer
  <2>5. QED
    BY <2>2, <2>3, <2>4
<1>8. QED
  BY <1>5, <1>6, <1>7 DEF Good, Faithful

(* Installing a set of added tokens that includes the pending ones settles *)
(* every entry.                                                            *)
LEMMA WithAddedGood ==
  ASSUME NEW t, NEW open, NEW added \in SUBSET Contents, Good(t, open),
         open \subseteq added
  PROVE  Good(WithAdded(t, added), {})
<1> DEFINE f == WithAdded(t, added)
<1>0. /\ t \in Tokenizer /\ t.vocab_inv \in [Contents -> Ids \cup {NoId}]
      /\ t.added_tokens \in SUBSET Contents /\ t.ignore_merges \in BOOLEAN
      /\ t.pretoken_cache \in [Short -> Answers \cup {Absent}]
      /\ t.pretoken_cache_long \in [Long -> Answers \cup {Absent}]
  BY DEF Good, Tokenizer
<1>1. /\ f.vocab = t.vocab /\ f.vocab_inv = t.vocab_inv
      /\ f.added_tokens = added /\ f.ignore_merges = t.ignore_merges
      /\ f.pretoken_cache = Overwritten(t, added, Restored(t))
  BY DEF WithAdded, With
<1>2. Resolved(f) = Resolved(t) /\ \A d : Seed(f, d) = Seed(t, d)
  BY <1>1 DEF Resolved, Seed
<1>3. \A d \in Contents : Seed(t, d) \in Answers
  BY <1>0, SeedType
<1>4. f \in Tokenizer
  <2>1. Restored(t) \in [Short -> Answers \cup {Absent}]
    BY <1>0, <1>3, ShortAssumption DEF Restored
  <2>2. Overwritten(t, added, Restored(t)) \in [Short -> Answers \cup {Absent}]
    BY <1>0, <2>1, OverwrittenType
  <2>3. QED
    BY <1>0, <2>2, WithType DEF WithAdded
<1>5. Indexed(f)
  BY <1>1, <1>2 DEF Indexed, Good
<1>6. ASSUME NEW c \in Short
      PROVE  Answer(f, c) = Intended(f, c)
  <2> c \in Contents
    BY ShortAssumption
  <2>1. Entry(f, c) = IF c \in added \cap Resolved(t) THEN t.vocab_inv[c]
                      ELSE IF c \in Outgoing(t) THEN Seed(t, c)
                      ELSE t.pretoken_cache[c]
    BY <1>1 DEF Entry, Overwritten, Restored
  <2>2. CASE c \in added \cap Resolved(t)
    <3>1. t.vocab_inv[c] \in Answers
      BY <1>0, <2>2 DEF Resolved, Answers
    <3>2. QED
      BY <2>1, <2>2, <3>1, <1>1, <1>2, AnswerPresent DEF Answer, Intended
  <2>3. CASE c \notin added \cap Resolved(t) /\ c \in Outgoing(t)
    <3>1. Answer(f, c) = Seed(t, c)
      BY <2>1, <2>3, <1>3, AnswerPresent DEF Answer
    <3>2. QED
      BY <3>1, <2>3, <1>1, <1>2 DEF Seed, Intended
  <2>4. CASE c \notin added \cap Resolved(t) /\ c \notin Outgoing(t)
    <3>1. c \notin open \/ c \notin Resolved(t)
      BY <2>4
    <3>2. Answer(t, c) = Intended(t, c)
      BY <3>1 DEF Good, Faithful
    <3>3. Intended(f, c) = Intended(t, c)
      BY <2>4, <1>1, <1>2 DEF Intended, Outgoing
    <3>4. Answer(f, c) = Answer(t, c)
      BY <2>1, <2>4, <1>2 DEF Answer, Entry
    <3>5. QED
      BY <3>2, <3>3, <3>4
  <2>5. QED
    BY <2>2, <2>3, <2>4
<1>7. QED
  BY <1>4, <1>5, <1>6 DEF Good, Faithful

(* One turn of the loop of add_special_tokens unsettles its own content,   *)
(* and that only if it now resolves.                                       *)
LEMMA WithEntryGood ==
  ASSUME NEW t, NEW open, NEW c \in Contents, NEW id \in Ids, Good(t, open)
  PROVE  Good(WithEntry(t, c, id), open \cup {c})
<1> DEFINE f == WithEntry(t, c, id)
<1>1. CASE t.vocab[id] # Unused
  <2>1. f = t
    BY <1>1 DEF WithEntry
  <2>2. QED
    BY <2>1 DEF Good, Faithful
<1>2. CASE t.vocab[id] = Unused
  <2>0. /\ t.vocab_inv \in [Contents -> Ids \cup {NoId}]
        /\ t.vocab \in [Ids -> Contents \cup {Unused}]
        /\ t.added_tokens \in SUBSET Contents /\ t.ignore_merges \in BOOLEAN
        /\ t.pretoken_cache \in [Short -> Answers \cup {Absent}]
        /\ t.pretoken_cache_long \in [Long -> Answers \cup {Absent}]
    BY DEF Good, Tokenizer
  <2>1. /\ f.vocab = [t.vocab EXCEPT ![id] = c]
        /\ f.vocab_inv = [t.vocab_inv EXCEPT ![c] = id]
        /\ f.added_tokens = t.added_tokens
        /\ f.ignore_merges = t.ignore_merges
        /\ f.pretoken_cache = t.pretoken_cache
    BY <1>2 DEF WithEntry, Extended, With
  <2>2. f \in Tokenizer
    BY <1>2, <2>0 DEF WithEntry, Extended, With, Tokenizer
  <2>3. /\ c \in Resolved(f) /\ f.vocab_inv[c] = id
        /\ \A d \in Contents : d # c =>
             /\ f.vocab_inv[d] = t.vocab_inv[d]
             /\ d \in Resolved(f) <=> d \in Resolved(t)
    BY <2>0, <2>1, NamesAssumption DEF Resolved
  <2>4. ASSUME NEW d \in Resolved(f)
        PROVE  f.vocab[f.vocab_inv[d]] = d
    <3> d \in Contents
      BY DEF Resolved
    <3>1. CASE d = c
      BY <3>1, <2>0, <2>1, <2>3
    <3>2. CASE d # c
      <4>1. d \in Resolved(t) /\ t.vocab[t.vocab_inv[d]] = d
        BY <3>2, <2>3 DEF Good, Indexed
      <4>2. t.vocab_inv[d] \in Ids /\ t.vocab_inv[d] # id
        BY <4>1, <2>0, <1>2, NamesAssumption DEF Resolved
      <4>3. QED
        BY <4>1, <4>2, <3>2, <2>0, <2>1, <2>3
    <3>3. QED
      BY <3>1, <3>2
  <2>5. ASSUME NEW d \in Short, d \notin open \cup {c} \/ d \notin Resolved(f)
        PROVE  Answer(f, d) = Intended(f, d)
    <3>1. d \in Contents /\ d # c
      BY <2>3, <2>5, ShortAssumption
    <3>2. f.vocab_inv[d] = t.vocab_inv[d] /\ (d \in Resolved(f) <=> d \in Resolved(t))
      BY <3>1, <2>3
    <3>3. Answer(t, d) = Intended(t, d)
      BY <3>2, <2>5 DEF Good, Faithful
    <3>4. Answer(f, d) = Answer(t, d)
      BY <3>2, <2>1 DEF Answer, Entry, Seed
    <3>5. Intended(f, d) = Intended(t, d)
      BY <3>2, <2>1 DEF Intended
    <3>6. QED
      BY <3>3, <3>4, <3>5
  <2>6. QED
    BY <2>2, <2>4, <2>5 DEF Good, Indexed, Faithful
<1>3. QED
  BY <1>1, <1>2

-----------------------------------------------------------------------------

(* The new tokenizers of a step, and which of their contents are pending. *)
LEMMA OneChanges ==
  ASSUME IInv, NEW i \in Instances, NEW t, NEW open,
         Good(t, open), tok' = [tok EXCEPT ![i] = t],
         open = IF i = Proto THEN pending' ELSE {},
         i # Proto => pending' = pending,
         pending' \subseteq Contents, built' \subseteq Instances,
         built \subseteq built'
  PROVE  IInv'
<1>1. TypeOK'
  BY DEF IInv, TypeOK, Good
<1>2. ASSUME NEW j \in Instances
      PROVE  Good(tok'[j], IF j = Proto THEN pending' ELSE {})
  <2>1. CASE j = i
    BY <2>1 DEF IInv, TypeOK
  <2>2. CASE j # i
    <3>1. tok'[j] = tok[j] /\ Good(tok[j], IF j = Proto THEN pending ELSE {})
      BY <2>2 DEF IInv, TypeOK, Unsettled
    <3>2. CASE j = Proto
      BY <2>2, <3>1, <3>2
    <3>3. CASE j # Proto
      BY <3>1, <3>3
    <3>4. QED
      BY <3>2, <3>3
  <2>3. QED
    BY <2>1, <2>2
<1>3. \A j \in Instances : Good(tok[j], Unsettled(j))'
  BY <1>2 DEF Unsettled, Good, Faithful, Indexed, Tokenizer, Answer, Entry,
              Seed, Intended, Resolved
<1>4. QED
  BY <1>1, <1>3 DEF IInv

(* The invariant holds when the prototype is constructed. *)
LEMMA InitHolds == Init => IInv
<1> SUFFICES ASSUME Init PROVE IInv
  OBVIOUS
<1>1. PICK vocab \in [Ids -> Contents \cup {Unused}] :
        tok = [i \in Instances |-> Constructed(vocab)]
  BY DEF Init
<1>2. \A i \in Instances : Good(tok[i], Unsettled(i))
  BY <1>1, ConstructedGood
<1>3. TypeOK
  BY <1>1, <1>2 DEF Init, TypeOK, Good, Instances
<1>4. QED
  BY <1>2, <1>3 DEF IInv

(* Every operation preserves the invariant. *)
LEMMA StepHolds == IInv /\ [Next]_vars => IInv'
<1> SUFFICES ASSUME IInv, [Next]_vars PROVE IInv'
  OBVIOUS
<1> USE DEF Instances
<1>0. /\ Proto \in built /\ built \subseteq Instances /\ pending \subseteq Contents
      /\ tok \in [Instances -> Tokenizer]
      /\ \A i \in Instances : Good(tok[i], Unsettled(i))
  BY DEF IInv, TypeOK
<1>1. ASSUME NEW i \in Instances, NEW c \in Contents, EncodeMiss(i, c)
      PROVE  IInv'
  <2>1. Good(Filled(tok[i], c), Unsettled(i))
    BY <1>0, <1>1, FilledGood DEF EncodeMiss
  <2>2. QED
    BY <2>1, <1>0, <1>1, OneChanges DEF EncodeMiss, Unsettled
<1>2. ASSUME NEW w \in Workers, Fork(w)
      PROVE  IInv'
  <2>1. Good(tok[Proto], {}) /\ w # Proto
    BY <1>0, <1>2, NamesAssumption DEF Fork, Unsettled
  <2>2. Good(Forked(tok[Proto]), {})
    BY <2>1, ForkedGood DEF Good, Tokenizer
  <2>3. QED
    BY <2>1, <2>2, <1>0, <1>2, OneChanges DEF Fork
<1>3. ASSUME NEW flag \in BOOLEAN, SetIgnoreMerges(flag)
      PROVE  IInv'
  <2>1. Good(WithFlag(tok[Proto], flag), {})
    BY <1>0, <1>3, WithFlagGood DEF SetIgnoreMerges, Unsettled
  <2>2. QED
    BY <2>1, <1>0, <1>3, OneChanges DEF SetIgnoreMerges
<1>4. ASSUME NEW added \in SUBSET Contents, SetAddedTokens(added)
      PROVE  IInv'
  <2>1. Good(WithAdded(tok[Proto], added), {})
    BY <1>0, <1>4, WithAddedGood DEF SetAddedTokens, Unsettled
  <2>2. QED
    BY <2>1, <1>0, <1>4, OneChanges DEF SetAddedTokens
<1>5. ASSUME NEW c \in Contents, NEW id \in Ids, AddSpecialToken(c, id)
      PROVE  IInv'
  <2>1. Good(WithEntry(tok[Proto], c, id), pending \cup {c})
    BY <1>0, WithEntryGood DEF Unsettled
  <2>2. QED
    BY <2>1, <1>0, <1>5, OneChanges DEF AddSpecialToken
<1>6. ASSUME InstallSpecialTokens
      PROVE  IInv'
  <2> DEFINE added == tok[Proto].added_tokens \cup pending
  <2>1. added \in SUBSET Contents /\ pending \subseteq added
    BY <1>0 DEF Tokenizer
  <2>2. Good(WithAdded(tok[Proto], added), {})
    BY <2>1, <1>0, WithAddedGood DEF Unsettled
  <2>3. QED
    BY <2>2, <1>0, <1>6, OneChanges DEF InstallSpecialTokens
<1>7. CASE UNCHANGED vars
  BY <1>7 DEF vars, IInv, TypeOK, Good, Faithful, Indexed, Unsettled, Answer,
              Entry, Seed, Intended, Resolved
<1>8. QED
  BY <1>1, <1>2, <1>3, <1>4, <1>5, <1>6, <1>7 DEF Next

-----------------------------------------------------------------------------

(* The invariant of every reachable state. *)
THEOREM Inductive == Spec => []IInv
BY InitHolds, StepHolds, PTL DEF Spec

(* Settings and caches of every tokenizer keep their types. *)
THEOREM TypeCorrect == Spec => []TypeOK
<1>1. IInv => TypeOK
  BY DEF IInv
<1>2. QED
  BY <1>1, Inductive, PTL

(* The short cache of every instance at rest is a pure function of the     *)
(* settings: set_ignore_merges, set_added_tokens and add_special_tokens    *)
(* leave it as apply_added_token_overwrites promises.                      *)
THEOREM ShortCachePure == Spec => []ShortAnswers
<1>1. IInv => ShortAnswers
  BY DEF IInv, TypeOK, ShortAnswers, AtRest, Unsettled, Good, Faithful
<1>2. QED
  BY <1>1, Inductive, PTL

(* A worker forked from an instance at rest agrees with it on every short  *)
(* pretoken (fork_sized).                                                  *)
THEOREM ParentAndForkAgree == Spec => []ForkAgrees
<1>1. ASSUME IInv
      PROVE  ForkAgrees
  <2> SUFFICES ASSUME NEW i \in Instances, AtRest(i), NEW c \in Short
               PROVE  Answer(Forked(tok[i]), c) = Answer(tok[i], c)
    BY DEF ForkAgrees
  <2>1. Good(tok[i], {})
    BY <1>1 DEF IInv, AtRest, Unsettled
  <2>2. Good(Forked(tok[i]), {})
    BY <2>1, ForkedGood DEF Good, Tokenizer
  <2>3. Answer(tok[i], c) = Intended(tok[i], c)
    BY <2>1 DEF Good, Faithful
  <2>4. Answer(Forked(tok[i]), c) = Intended(Forked(tok[i]), c)
    BY <2>2 DEF Good, Faithful
  <2>5. Intended(Forked(tok[i]), c) = Intended(tok[i], c)
    BY DEF Intended, Forked, With, Resolved
  <2>6. QED
    BY <2>3, <2>4, <2>5
<1>2. QED
  BY <1>1, Inductive, PTL

-----------------------------------------------------------------------------

(* A miss does not change what any byte string is answered. *)
LEMMA FilledSame ==
  ASSUME NEW t, NEW c \in Contents, NEW open, Good(t, open),
         Entry(t, c) = Absent, NEW d \in Contents
  PROVE  Answer(Filled(t, c), d) = Answer(t, d)
<1> DEFINE f == Filled(t, c)
<1>1. t \in Tokenizer /\ t.vocab_inv \in [Contents -> Ids \cup {NoId}]
      /\ DOMAIN t.pretoken_cache = Short /\ DOMAIN t.pretoken_cache_long = Long
  BY DEF Good, Tokenizer
<1>2. /\ f.vocab_inv = t.vocab_inv /\ f.ignore_merges = t.ignore_merges
      /\ f.pretoken_cache = Stored(t.pretoken_cache, c, Seed(t, c))
      /\ f.pretoken_cache_long = Stored(t.pretoken_cache_long, c, Seed(t, c))
  BY DEF Filled, With
<1>3. Seed(f, d) = Seed(t, d) /\ Seed(t, c) # Absent
  BY <1>1, <1>2, SeedType, AnswerPresent DEF Seed, Resolved
<1>4. Entry(f, d) = IF d = c THEN Seed(t, c) ELSE Entry(t, d)
  <2>1. CASE d \in Short
    BY <2>1, <1>1, <1>2 DEF Entry, Stored
  <2>2. CASE d \notin Short
    BY <2>2, <1>1, <1>2 DEF Entry, Stored, Long
  <2>3. QED
    BY <2>1, <2>2
<1>5. QED
  BY <1>3, <1>4 DEF Answer

(* Same caches and same seed values, same answers. *)
LEMMA SameAnswer ==
  ASSUME NEW f, NEW t, NEW c, f.vocab_inv = t.vocab_inv,
         f.ignore_merges = t.ignore_merges, Entry(f, c) = Entry(t, c)
  PROVE  Answer(f, c) = Answer(t, c)
BY DEF Answer, Seed, Resolved

(* Encoding, forking and mutations of the prototype never change what an   *)
(* instance answers while its own settings stand.                          *)
THEOREM AnswersNeverDrift == Spec => AnswersStable
<1>1. ASSUME IInv, IInv', [Next]_vars, NEW i \in built,
             Settings(i)' = Settings(i), NEW c \in Contents
      PROVE  Answer(tok'[i], c) = Answer(tok[i], c)
  <2>0. /\ i \in Instances /\ tok \in [Instances -> Tokenizer]
        /\ \A j \in Instances : Good(tok[j], Unsettled(j))
        /\ Good(tok'[i], IF i = Proto THEN pending' ELSE {})
    BY <1>1 DEF IInv, TypeOK, Unsettled, Good, Faithful, Indexed, Tokenizer,
                Answer, Entry, Seed, Intended, Resolved
  <2>1. /\ tok'[i].vocab_inv = tok[i].vocab_inv
        /\ tok'[i].added_tokens = tok[i].added_tokens
        /\ tok'[i].ignore_merges = tok[i].ignore_merges
        /\ i = Proto => pending' = pending
    BY <1>1 DEF Settings
  <2>2. ASSUME tok'[i] = tok[i] PROVE Answer(tok'[i], c) = Answer(tok[i], c)
    BY <2>2
  <2>3. ASSUME NEW j \in Instances, NEW d \in Contents, EncodeMiss(j, d)
        PROVE  Answer(tok'[i], c) = Answer(tok[i], c)
    <3>1. CASE j = i
      BY <3>1, <2>0, <2>3, FilledSame DEF EncodeMiss
    <3>2. CASE j # i
      BY <3>2, <2>0, <2>2, <2>3 DEF EncodeMiss
    <3>3. QED
      BY <3>1, <3>2
  <2>4. ASSUME NEW w \in Workers, Fork(w)
        PROVE  Answer(tok'[i], c) = Answer(tok[i], c)
    BY <1>1, <2>0, <2>2, <2>4 DEF Fork
  <2>5. CASE i # Proto /\ \/ \E flag \in BOOLEAN : SetIgnoreMerges(flag)
                          \/ \E added \in SUBSET Contents : SetAddedTokens(added)
                          \/ \E d \in Contents, id \in Ids : AddSpecialToken(d, id)
                          \/ InstallSpecialTokens
    <3>1. \E t : tok' = [tok EXCEPT ![Proto] = t]
      BY <2>5 DEF SetIgnoreMerges, SetAddedTokens, AddSpecialToken,
                  InstallSpecialTokens
    <3>2. QED
      BY <3>1, <2>5, <2>0, <2>2
  <2>6. ASSUME i = Proto, NEW flag \in BOOLEAN, SetIgnoreMerges(flag)
        PROVE  FALSE
    <3>1. tok'[Proto] = WithFlag(tok[Proto], flag)
      BY <2>0, <2>6 DEF SetIgnoreMerges
    <3>2. tok'[Proto].ignore_merges = flag
      BY <3>1 DEF WithFlag, With
    <3>3. QED
      BY <3>2, <2>1, <2>6 DEF SetIgnoreMerges
  <2>7. ASSUME i = Proto, NEW added \in SUBSET Contents, SetAddedTokens(added)
        PROVE  Answer(tok'[i], c) = Answer(tok[i], c)
    <3>1. tok'[i] = WithAdded(tok[i], added) /\ pending = {} /\ pending' = {}
      BY <2>0, <2>7 DEF SetAddedTokens
    <3>2. CASE c \in Short
      <4>1. /\ Answer(tok'[i], c) = Intended(tok'[i], c)
            /\ Answer(tok[i], c) = Intended(tok[i], c)
        BY <3>1, <3>2, <2>0, <2>7 DEF Good, Faithful, Unsettled
      <4>2. Intended(tok'[i], c) = Intended(tok[i], c)
        BY <2>1 DEF Intended, Resolved
      <4>3. QED
        BY <4>1, <4>2
    <3>3. CASE c \notin Short
      <4>1. Entry(tok'[i], c) = Entry(tok[i], c)
        BY <3>1, <3>3 DEF Entry, WithAdded, With
      <4>2. QED
        BY <4>1, <2>1, SameAnswer
    <3>4. QED
      BY <3>2, <3>3
  <2>8. ASSUME i = Proto, NEW d \in Contents, NEW id \in Ids, AddSpecialToken(d, id)
        PROVE  Answer(tok'[i], c) = Answer(tok[i], c)
    <3>1. tok'[i] = WithEntry(tok[i], d, id)
      BY <2>0, <2>8 DEF AddSpecialToken
    <3>2. Entry(tok'[i], c) = Entry(tok[i], c)
      BY <3>1 DEF Entry, WithEntry, With
    <3>3. QED
      BY <3>2, <2>1, SameAnswer
  <2>9. ASSUME i = Proto, InstallSpecialTokens
        PROVE  FALSE
    BY <2>1, <2>9 DEF InstallSpecialTokens
  <2>10. ASSUME UNCHANGED vars
         PROVE  Answer(tok'[i], c) = Answer(tok[i], c)
    BY <2>10, <2>2 DEF vars
  <2>11. QED
    BY <1>1, <2>3, <2>4, <2>5, <2>6, <2>7, <2>8, <2>9, <2>10 DEF Next
<1>2. QED
  <2>1. IInv /\ IInv' /\ [Next]_vars =>
          [\A i \in built : Settings(i)' = Settings(i) =>
             \A c \in Contents : Answer(tok'[i], c) = Answer(tok[i], c)]_vars
    BY <1>1
  <2>2. QED
    BY <2>1, Inductive, PTL DEF Spec, AnswersStable
=============================================================================
