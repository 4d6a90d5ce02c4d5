---------------------------- MODULE OrderedGather ----------------------------
(***************************************************************************)
(* What a batch encode promises its caller, whatever runs underneath: the  *)
(* chunks may be encoded in any order and by anyone, each at most once;    *)
(* the caller gets back either one buffer with the tokens of every chunk   *)
(* in document order, or the panic of a chunk whose encode failed.         *)
(*                                                                         *)
(* This is the contract of encode_chunks_gathered in src/src/batch.rs.     *)
(* The position of a token in the serial concatenation names the token:    *)
(* chunk i holds the tokens start[i] .. start[i + 1] - 1, so the serial    *)
(* result is the identity function on 0 .. start[n] - 1.                   *)
(***************************************************************************)
EXTENDS Naturals

CONSTANT NoResult,   (* outcome while the call is running                  *)
         Panic       (* outcome of a call that resumed a worker's panic    *)

VARIABLES n,         (* number of chunks                                   *)
          start,     (* start[i] = tokens produced by chunks 0 .. i - 1    *)
          encoded,   (* chunks whose tokens exist                          *)
          failed,    (* chunks whose encode panicked                       *)
          outcome    (* NoResult, Panic, or the buffer handed back         *)

ogVars == <<n, start, encoded, failed, outcome>>

Chunks == 0 .. n - 1

Serial == [p \in 0 .. start[n] - 1 |-> p]

Init ==
  /\ encoded = {}
  /\ failed = {}
  /\ outcome = NoResult

Encode(i) ==
  /\ i \in Chunks \ (encoded \cup failed)
  /\ encoded' = encoded \cup {i}
  /\ UNCHANGED <<n, start, failed, outcome>>

Fail(i) ==
  /\ i \in Chunks \ (encoded \cup failed)
  /\ failed' = failed \cup {i}
  /\ UNCHANGED <<n, start, encoded, outcome>>

Deliver ==
  /\ outcome = NoResult
  /\ encoded = Chunks
  /\ outcome' = Serial
  /\ UNCHANGED <<n, start, encoded, failed>>

Abort ==
  /\ outcome = NoResult
  /\ failed # {}
  /\ outcome' = Panic
  /\ UNCHANGED <<n, start, encoded, failed>>

Next ==
  \/ \E i \in Chunks : Encode(i) \/ Fail(i)
  \/ Deliver
  \/ Abort

Spec == Init /\ [][Next]_ogVars

==============================================================================
