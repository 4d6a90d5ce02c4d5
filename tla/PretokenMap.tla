----------------------------- MODULE PretokenMap -----------------------------
(***************************************************************************)
(* What ShortPretokenCache (src/src/bpe/pretoken_cache.rs) promises the    *)
(* encode loop: a finite map from packed pretoken keys to packed           *)
(* encodings, whose memory may move whenever an entry is put.              *)
(***************************************************************************)
EXTENDS Naturals

CONSTANTS
  Keys,         (* packed short pretokens                                   *)
  Values,       (* packed encodings                                         *)
  Missing,      (* answer of a lookup: the key is not in the map            *)
  Elsewhere,    (* answer of a probe: look the key up instead               *)
  Nothing       (* no answer is outstanding                                 *)

VARIABLES
  map,
  memory,       (* size of the allocation: it moves when this changes       *)
  answer        (* what the last call returned                              *)

Init ==
  /\ map = [k \in {} |-> Nothing]
  /\ memory \in Nat \ {0}
  /\ answer = Nothing

Lookup(k) ==
  /\ answer' = IF k \in DOMAIN map THEN map[k] ELSE Missing
  /\ UNCHANGED <<map, memory>>

(* The branchless probe looks at one bucket only: it may fail to see a key *)
(* but never answers for another one.                                      *)
Probe(k) ==
  /\ \/ answer' = Elsewhere
     \/ k \in DOMAIN map /\ answer' = map[k]
  /\ UNCHANGED <<map, memory>>

Put(k, v) ==
  /\ map' = [x \in DOMAIN map \cup {k} |-> IF x = k THEN v ELSE map[x]]
  /\ memory' \in {memory, 2 * memory}
  /\ answer' = Nothing

Next ==
  \E k \in Keys :
    \/ Lookup(k)
    \/ Probe(k)
    \/ \E v \in Values : Put(k, v)

Spec == Init /\ [][Next]_<<map, memory, answer>>

==============================================================================
