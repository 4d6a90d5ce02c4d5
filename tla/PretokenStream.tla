---------------------------- MODULE PretokenStream ----------------------------
(***************************************************************************)
(* What encoding through the caches promises (memoized_encode_flat in      *)
(* src/src/bpe/tiktoken.rs): of each chunk of pretokens the splitter       *)
(* hands out, the tokens of every pretoken are appended to the output,     *)
(* once and in turn, whatever is cached.                                   *)
(***************************************************************************)
EXTENDS Naturals, Sequences

CONSTANTS
  Pretokens,
  Encode        (* pretoken |-> its tokens                                  *)

VARIABLES
  out,
  batch,        (* the chunk                                                *)
  done          (* how many of its pretokens are in out                     *)

Init == out = <<>> /\ batch = <<>> /\ done = 0

(* The next chunk is read only when the last one is emitted to its end. *)
Read ==
  /\ done = Len(batch)
  /\ batch' \in Seq(Pretokens)
  /\ done' = 0
  /\ UNCHANGED out

Emit ==
  /\ done < Len(batch)
  /\ out' = out \o Encode[batch[done + 1]]
  /\ done' = done + 1
  /\ UNCHANGED batch

(* Between two chunks the caller takes the tokens or clears the buffer. *)
Take ==
  /\ done = Len(batch)
  /\ out' = <<>>
  /\ UNCHANGED <<batch, done>>

Next == Read \/ Emit \/ Take

Spec == Init /\ [][Next]_<<out, batch, done>>

==============================================================================
