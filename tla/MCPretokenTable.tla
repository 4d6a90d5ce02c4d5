--------------------------- MODULE MCPretokenTable ---------------------------
(***************************************************************************)
(* Small instances of PretokenTable.                                       *)
(***************************************************************************)
EXTENDS PretokenTable, TLC

Alike == Permutations(Keys) \cup Permutations(Values)

==============================================================================
