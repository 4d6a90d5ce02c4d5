---------------------------- MODULE MCMergeRules ----------------------------
(* The two users of merge rules: the loops that apply them and the trainer *)
(* that learns them.  They share no state, so each is explored while the   *)
(* other stays at an initial state of its own.                             *)
EXTENDS MergeCores, BpeTrainer, TLC

VARIABLE part

-----------------------------------------------------------------------------
(* The loops: small tables over two initial symbols.                       *)

(* One rule merges initial symbols into 2; the next may use 2, the last    *)
(* uses what is there and gives 3 again, as another way to the same bytes  *)
(* does, or 4.  Up to renaming 0 and 1 that is every table of three rules. *)
Rules ==
  {r \in (({0} \X {0, 1}) \X ((0 .. 2) \X (0 .. 2)) \X ((0 .. 3) \X (0 .. 3)) \X {3, 4}) :
     /\ r[2] # r[1] /\ r[3] # r[1] /\ r[3] # r[2]
     /\ r[4] = 3 => r[3][1] < 3 /\ r[3][2] < 3}

(* Lower ids first, or lower ids last, as explicit ranks allow. *)
TableOf(r, first) ==
  LET to(id) == [id |-> id, rank |-> IF first THEN id ELSE 5 - id]
  IN (r[1] :> to(2)) @@ (r[2] :> to(3)) @@ (r[3] :> to(r[4]))

(* A definition of its own, which TLC evaluates once. *)
AllTables == {TableOf(r, first) : r \in Rules, first \in BOOLEAN}
MCTables == AllTables

-----------------------------------------------------------------------------
(* The trainer: two words over two bytes, and one unit of both.            *)

Strings(longest) == UNION {[1 .. k -> Bytes] : k \in 1 .. longest}

(* HuggingFace's alphabet may number bytes in another order. *)
Reversed == [b \in Bytes |-> Cardinality(Bytes) - 1 - b]

(* A special token takes an id between the bytes and the merges. *)
MCSpecials == <<<<7, 0>>>>

CorpusOf(s, t, often) ==
  [words |-> <<[symbols |-> s, count |-> 1], [symbols |-> t, count |-> often]>>,
   units |-> <<[symbols |-> s \o t, count |-> 1]>>]

AllCorpora ==
  {CorpusOf(st[1], st[2], often) :
     st \in {st \in Strings(6) \X Strings(4) : st[1] # st[2]}, often \in {1, 2}}
MCCorpora == AllCorpora

ASSUME NoSpecialInText == SpecialsApart

-----------------------------------------------------------------------------

IdleLoops ==
  /\ core = "heap" /\ n = 0
  /\ table = CHOOSE t \in Tables : TRUE
  /\ CoreInit

IdleTrainer ==
  /\ rule = "HuggingFace"
  /\ words = (CHOOSE c \in Corpora : TRUE).words
  /\ units = (CHOOSE c \in Corpora : TRUE).units
  /\ Init

RulesInit ==
  \/ part = "loops" /\ IdleTrainer /\ CoreInit
  \/ part = "trainer" /\ IdleLoops /\ Init

RulesNext ==
  \/ part = "loops" /\ CoreNext /\ UNCHANGED <<part, vars>>
  \/ part = "trainer" /\ Next /\ UNCHANGED <<part, coreVars>>

RulesSpec == RulesInit /\ [][RulesNext]_<<part, coreVars, vars>>
=============================================================================
