----------------------------- MODULE MergeCores -----------------------------
(***************************************************************************)
(* The merge loops of src/src/bpe/mod.rs: a min-heap with stale entries    *)
(* for long sequences, a scan over the ranks of all positions for short    *)
(* ones.  Both keep the survivors in a linked list over the positions and  *)
(* compact them in place when nothing merges any more.                     *)
(*                                                                         *)
(* The variants that take a merged id for its rank, those with explicit    *)
(* ranks, and the scalar and vector scans differ in what they pack, not in *)
(* what they do; a table gives each pair an id and a rank.  The code       *)
(* chooses a loop by the length; here either may meet any length.          *)
(***************************************************************************)
EXTENDS Integers, FiniteSets

CONSTANTS Initial, Tables, MaxLength,
  None,      \* the sentinels that end the list: NONE, n, u8::MAX
  NoMerge    \* u32::MAX: the pair does not merge

ASSUME TablesAssumption ==
  \A t \in Tables : \A p \in DOMAIN t : t[p].rank \in Nat /\ t[p] # NoMerge

ASSUME LengthAssumption == MaxLength \in Nat /\ None \notin Nat

VARIABLES
  core,      \* "heap" or "scan"
  table,
  n,
  syms, next, prev,
  live,      \* history: the positions that are still in the list
  heap,      \* heap: entries <<rank, position>>
  ranks,     \* scan: what the pair that starts at a position merges into
  phase,
  write, read

input == <<core, table, n>>
coreVars == <<input, syms, next, prev, live, heap, ranks, phase, write, read>>

Positions == 0 .. n - 1

-----------------------------------------------------------------------------

Rank(a, b) == IF <<a, b>> \in DOMAIN table THEN table[<<a, b>>] ELSE NoMerge

(* The entry of the pair of symbols a, b at position p, if it merges. *)
Entry(a, b, p) == IF Rank(a, b) = NoMerge THEN {} ELSE {<<Rank(a, b).rank, p>>}

CoreInit ==
  /\ core \in {"heap", "scan"}
  /\ table \in Tables
  /\ n \in 0 .. MaxLength
  /\ syms \in [Positions -> Initial]
  /\ next = [i \in Positions |-> IF i + 1 < n THEN i + 1 ELSE None]
  /\ prev = [i \in Positions |-> IF i > 0 THEN i - 1 ELSE None]
  /\ live = Positions
  /\ heap = IF core = "scan" THEN {}
            ELSE UNION {Entry(syms[i], syms[i + 1], i) : i \in 0 .. n - 2}
  /\ ranks = [i \in Positions |->
                IF core = "scan" /\ i + 1 < n
                THEN Rank(syms[i], syms[i + 1]) ELSE NoMerge]
  /\ phase = IF n < 2 THEN "done" ELSE "merge"
  /\ write = IF n < 2 THEN n ELSE 0
  /\ read = IF n < 2 THEN None ELSE 0

-----------------------------------------------------------------------------
(* The heap. *)

IsLeast(e) ==
  \A f \in heap : e[1] < f[1] \/ (e[1] = f[1] /\ e[2] <= f[2])

(* Mutant: any pair that merges will do.                                   *)
IsCurrent_AnyPair(e) ==
  /\ next[e[2]] # None
  /\ Rank(syms[e[2]], syms[next[e[2]]]) # NoMerge

(* An entry is stale when its position has gone or has another pair.       *)
IsCurrent(e) ==
  /\ next[e[2]] # None
  /\ LET m == Rank(syms[e[2]], syms[next[e[2]]])
     IN m # NoMerge /\ m.rank = e[1]

SkipStale(e) ==
  /\ core = "heap" /\ phase = "merge"
  /\ e \in heap /\ IsLeast(e)
  /\ ~IsCurrent(e)
  /\ heap' = heap \ {e}
  /\ UNCHANGED <<input, syms, next, prev, live, ranks, phase, write, read>>

(* The pair of a current entry is merged, and its neighbours are looked up *)
(* again.                                                                  *)
PopMerge(e) ==
  /\ core = "heap" /\ phase = "merge"
  /\ e \in heap /\ IsLeast(e)
  /\ IsCurrent(e)
  /\ LET pos == e[2]
         right == next[pos]
         beyond == next[right]
         left == prev[pos]
         m == Rank(syms[pos], syms[right]).id
     IN /\ syms' = [syms EXCEPT ![pos] = m]
        /\ next' = [next EXCEPT ![pos] = beyond, ![right] = None]
        /\ prev' = IF beyond = None THEN prev ELSE [prev EXCEPT ![beyond] = pos]
        /\ live' = live \ {right}
        /\ heap' = (heap \ {e})
             \cup (IF left = None THEN {} ELSE Entry(syms[left], m, left))
             \cup (IF beyond = None THEN {} ELSE Entry(m, syms[beyond], pos))
  /\ UNCHANGED <<input, ranks, phase, write, read>>

Drained ==
  /\ core = "heap" /\ phase = "merge"
  /\ heap = {}
  /\ phase' = "compact"
  /\ UNCHANGED <<input, syms, next, prev, live, heap, ranks, write, read>>

-----------------------------------------------------------------------------
(* The scan. *)

(* The pair at i has the lowest rank, and none before it has the same. *)
IsBest(i) ==
  /\ ranks[i] # NoMerge
  /\ \A j \in Positions :
       ranks[j] # NoMerge =>
         \/ ranks[i].rank < ranks[j].rank
         \/ ranks[i].rank = ranks[j].rank /\ i <= j

(* Mutant: the pair to the left keeps the rank it had.                     *)
ScanMerge_LeftKept(i) ==
  /\ core = "scan" /\ phase = "merge"
  /\ i \in Positions /\ IsBest(i)
  /\ LET dead == next[i]
         new_right == next[dead]
         merged == [syms EXCEPT ![i] = ranks[i].id]
     IN /\ syms' = merged
        /\ next' = [next EXCEPT ![i] = new_right]
        /\ prev' = IF new_right = None THEN prev ELSE [prev EXCEPT ![new_right] = i]
        /\ live' = live \ {dead}
        /\ ranks' = [j \in Positions |->
             CASE j = dead -> NoMerge
               [] j = i -> IF new_right = None THEN NoMerge
                           ELSE Rank(merged[i], merged[new_right])
               [] OTHER -> ranks[j]]
  /\ UNCHANGED <<input, heap, phase, write, read>>

ScanMerge(i) ==
  /\ core = "scan" /\ phase = "merge"
  /\ i \in Positions /\ IsBest(i)
  /\ LET dead == next[i]
         new_right == next[dead]
         left == prev[i]
         merged == [syms EXCEPT ![i] = ranks[i].id]
     IN /\ syms' = merged
        /\ next' = [next EXCEPT ![i] = new_right]
        /\ prev' = IF new_right = None THEN prev ELSE [prev EXCEPT ![new_right] = i]
        /\ live' = live \ {dead}
        /\ ranks' = [j \in Positions |->
             CASE j = dead -> NoMerge
               [] j = i -> IF new_right = None THEN NoMerge
                           ELSE Rank(merged[i], merged[new_right])
               [] j = left -> Rank(merged[left], merged[i])
               [] OTHER -> ranks[j]]
  /\ UNCHANGED <<input, heap, phase, write, read>>

NothingRanked ==
  /\ core = "scan" /\ phase = "merge"
  /\ \A i \in Positions : ranks[i] = NoMerge
  /\ phase' = "compact"
  /\ UNCHANGED <<input, syms, next, prev, live, heap, ranks, write, read>>

-----------------------------------------------------------------------------
(* The survivors move to the front of the sequence they are read from. *)

Compact ==
  /\ phase = "compact"
  /\ syms' = [syms EXCEPT ![write] = syms[read]]
  /\ write' = write + 1
  /\ read' = next[read]
  /\ phase' = IF next[read] = None THEN "done" ELSE "compact"
  /\ UNCHANGED <<input, next, prev, live, heap, ranks>>

CoreNext ==
  \/ \E e \in heap : SkipStale(e)
  \/ \E e \in heap : PopMerge(e)
  \/ Drained
  \/ \E i \in Positions : ScanMerge(i)
  \/ NothingRanked
  \/ Compact

CoreSpec == CoreInit /\ [][CoreNext]_coreVars

-----------------------------------------------------------------------------

TypeOK ==
  /\ core \in {"heap", "scan"} /\ table \in Tables /\ n \in 0 .. MaxLength
  /\ DOMAIN syms = Positions
  /\ next \in [Positions -> Positions \cup {None}]
  /\ prev \in [Positions -> Positions \cup {None}]
  /\ live \subseteq Positions
  /\ heap \subseteq Nat \X Positions
  /\ DOMAIN ranks = Positions
  /\ phase \in {"merge", "compact", "done"}
  /\ write \in 0 .. n /\ read \in Positions \cup {None}

(* The survivors: one that is copied is found as far from the front as     *)
(* there are survivors before it.                                          *)
Place(p) == Cardinality({q \in live : q < p})
Copied(p) == phase # "merge" /\ (read = None \/ p < read)
Token == [p \in live |-> syms[IF Copied(p) THEN Place(p) ELSE p]]

Merging == INSTANCE BpeMerge WITH token <- Token

(* Every step merges, among all adjacent pairs that merge, the leftmost of *)
(* lowest rank, and moving survivors to the front loses and changes none.  *)
MergeSpec == Merging!Spec

(* A loop that has run out of entries or ranks has left nothing to merge,  *)
(* and what is returned counts every survivor.                             *)
FullyMerged ==
  /\ phase # "merge" => Merging!Merged
  /\ phase = "done" => write = Cardinality(live)
=============================================================================
