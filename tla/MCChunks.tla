------------------------------- MODULE MCChunks -------------------------------
(* A chunk from both sides: how documents become chunks and chunks rows     *)
(* (BatchRows), and the loop that emits a chunk's tokens (EmitLoop), which  *)
(* is one step of the former.  Each is explored while the other stays as it *)
(* began: they share no variable, and the states are a sum.                 *)
EXTENDS EmitLoop, MCBatchRows

VARIABLE part   \* "emit" or "rows"

(* One pretoken of each kind: short ones with one, with all four and with   *)
(* more tokens than fit inline, a long one that is kept and one that is     *)
(* not, and their numbers of tokens.                                        *)
TokenCounts == [one |-> 1, four |-> 4, spilled |-> 5, long |-> 2, unkept |-> 6]

Kinds == DOMAIN TokenCounts

EncodeAll == [p \in Kinds |-> [x \in 1 .. TokenCounts[p] |-> <<p, x>>]]

TokensOfAll == UNION {{<<p, x>> : x \in 1 .. TokenCounts[p]} : p \in Kinds}

(* The instance keeps the promise of safe_split_ranges. *)
ASSUME SafeCuts == CutsAreSafe

NoRows ==
  /\ tokenizer = "grouping" /\ lpt = TRUE
  /\ docs = CHOOSE texts \in Batches["grouping"] : TRUE
  /\ RowsInit

ChunksInit ==
  \/ part = "emit" /\ Init /\ NoRows
  \/ part = "rows" /\ RowsInit /\ Init /\ place = CHOOSE p \in Places : TRUE

ChunksNext ==
  \/ part = "emit" /\ Next /\ UNCHANGED <<part, rowsVars>>
  \/ part = "rows" /\ RowsNext /\ UNCHANGED <<part, vars>>

ChunksSpec == ChunksInit /\ [][ChunksNext]_<<part, vars, rowsVars>>
===============================================================================
