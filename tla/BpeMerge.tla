------------------------------ MODULE BpeMerge ------------------------------
(***************************************************************************)
(* What merging promises: as long as adjacent symbols merge, the pair with *)
(* the lowest rank is merged, the leftmost of them first.  A symbol stays  *)
(* at the position of its first initial symbol, so token maps positions to *)
(* symbols, and its domain shrinks.                                        *)
(***************************************************************************)
EXTENDS Integers

CONSTANTS
  Initial,   \* symbols a sequence is made of before any merge
  Tables,    \* merge tables: pairs of symbols to [id, rank]
  MaxLength  \* bound: symbols in a sequence

VARIABLES table, token

Pair(p, q) == <<token[p], token[q]>>

Adjacent(p, q) ==
  /\ p \in DOMAIN token /\ q \in DOMAIN token
  /\ p < q
  /\ \A r \in DOMAIN token : ~(p < r /\ r < q)

CanMerge(p, q) == Adjacent(p, q) /\ Pair(p, q) \in DOMAIN table

(* The pair at p, q goes before the pair at r, s. *)
Precedes(p, q, r, s) ==
  LET mine == table[Pair(p, q)].rank
      other == table[Pair(r, s)].rank
  IN mine < other \/ (mine = other /\ p <= r)

Merge(p, q) ==
  /\ CanMerge(p, q)
  /\ \A r, s \in DOMAIN token : CanMerge(r, s) => Precedes(p, q, r, s)
  /\ token' = [r \in DOMAIN token \ {q} |->
                 IF r = p THEN table[Pair(p, q)].id ELSE token[r]]
  /\ UNCHANGED table

Init ==
  /\ table \in Tables
  /\ \E n \in 0 .. MaxLength : token \in [0 .. n - 1 -> Initial]

Next == \E p, q \in DOMAIN token : Merge(p, q)

Spec == Init /\ [][Next]_<<table, token>>

(* Nothing is left to merge. *)
Merged == \A p, q \in DOMAIN token : ~CanMerge(p, q)
=============================================================================
