------------------------------ MODULE MCWorkers ------------------------------
(* The workers of a batch from both sides: who holds them (WorkerPool), and *)
(* what they are forked from (TokenizerSeed).  The two share no variable,   *)
(* and no mutator runs during a batch (it borrows the tokenizer), so each   *)
(* is explored while the other stays as it began: the states are a sum.     *)
EXTENDS WorkerPool, TokenizerSeed

CONSTANTS short, long

VARIABLE part   \* "pool" or "seed"

(* Byte strings meet only where they compete for an id, so a short and a    *)
(* long one, over the ids of a small vocabulary, show every sequence.       *)
MCContents == {short, long}
MCShort == {short}
MCIds == 0 .. 2

EmptyVocabulary ==
  /\ tok = [i \in Instances |-> Constructed([id \in Ids |-> Unused])]
  /\ built = {Proto} /\ pending = {}

WorkersInit ==
  /\ PoolInit
  /\ \/ part = "pool" /\ EmptyVocabulary
     \/ part = "seed" /\ Init

WorkersNext ==
  \/ part = "pool" /\ PoolNext /\ UNCHANGED <<part, vars>>
  \/ part = "seed" /\ Next /\ UNCHANGED <<part, poolVars>>

WorkersSpec ==
  /\ WorkersInit /\ [][WorkersNext]_<<part, vars, poolVars>>
  /\ \A a \in Actors : WF_poolVars(Proceed(a))
==============================================================================
