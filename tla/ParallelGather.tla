--------------------------- MODULE ParallelGather ---------------------------
(***************************************************************************)
(* The parallel batch encode of src/src/batch.rs: one call of              *)
(* encode_chunks_gathered_with_cap.                                        *)
(*                                                                         *)
(* Tasks pull chunk indices from an atomic counter, encode them, and after *)
(* every chunk try to copy the longest encoded prefix into a flat buffer   *)
(* reserved before any size was known (Committer::advance).  When every    *)
(* task has returned the caller copies the rest (Committer::finish), or,   *)
(* when the reservation was refused or overrun, gathers everything into a  *)
(* fresh buffer (gather_flat).                                             *)
(*                                                                         *)
(* Tokens are named by their position in the serial concatenation (see     *)
(* OrderedGather).  The buffer is a function whose domain is the set of    *)
(* positions written so far, so a write past the reservation, a gap and a  *)
(* write of the wrong token are all visible.                               *)
(***************************************************************************)
EXTENDS Naturals, FiniteSets

CONSTANTS
  ChunkCounts,  (* numbers of chunks a call may have                        *)
  MaxTokens,    (* bound: most tokens a call produces                       *)
  MaxPanics,    (* bound: most chunks whose encode panics                   *)
  Caps,         (* reservation sizes, in tokens (total_bytes in the code)   *)
  Threads,      (* rayon::current_num_threads()                             *)
  MaxDrain,     (* Committer::MAX_DRAIN                                     *)
  NoTask,       (* the commit lock is free                                  *)
  NoResult,     (* the call is running                                      *)
  Panic         (* the call resumed a worker's panic                        *)

ASSUME GatherAssumption ==
  /\ ChunkCounts \subseteq Nat
  /\ MaxTokens \in Nat
  /\ Caps \subseteq Nat
  /\ Threads \in Nat \ {0}
  /\ MaxDrain \in Nat
  /\ NoTask \notin Nat

VARIABLES
  (* the call's input, fixed by Init *)
  n,            (* chunks.len()                                             *)
  start,        (* start[i] = tokens produced by chunks 0 .. i - 1          *)
  bad,          (* chunks whose encode panics                               *)
  cap,          (* cap_tokens                                               *)
  reserved,     (* Committer::try_new returned Some                         *)
  (* shared by the tasks *)
  nextIndex,    (* the AtomicUsize the tasks pull from                      *)
  encoded,      (* {i : outs[i] is set}                                     *)
  holder,       (* task holding Committer.cursor, or NoTask                 *)
  cursor,       (* CommitCursor                                             *)
  flat,         (* the buffer: position |-> token, on the written positions *)
  (* per task *)
  pc,
  idx,          (* the index the task pulled last                           *)
  drained,      (* chunks committed by the running advance                  *)
  (* the caller *)
  phase,
  plan,         (* first chunk without an offset, the running offset, and   *)
                (* the capacity of the buffer being filled                  *)
  pending,      (* chunk |-> offset of the copies not yet done              *)
  result

input      == <<n, start, bad, cap, reserved>>
taskVars   == <<pc, idx, drained>>
callerVars == <<phase, plan, pending, result>>
vars == <<input, nextIndex, encoded, holder, cursor, flat, taskVars, callerVars>>

Chunks == 0 .. n - 1
LenOf(i) == start[i + 1] - start[i]
Total  == start[n]

Tasks == 1 .. Threads
(* One pulling task per rayon thread, at most one per chunk. *)
Spawned == {t \in Tasks : t <= n}

(* Token counts: every way the chunks can share at most MaxTokens tokens. *)
Layouts(k) ==
  {s \in [0 .. k -> 0 .. MaxTokens] :
     /\ s[0] = 0
     /\ \A i, j \in 0 .. k : i <= j => s[i] <= s[j]}

(* The buffer after chunk i's ids are copied to offset off. *)
Copied(buffer, i, off) ==
  [p \in DOMAIN buffer \cup (off .. off + LenOf(i) - 1) |->
     IF p \in off .. off + LenOf(i) - 1 THEN start[i] + (p - off) ELSE buffer[p]]

Empty == [p \in {} |-> 0]

------------------------------------------------------------------------------

Init ==
  /\ n \in ChunkCounts
  /\ start \in Layouts(n)
  /\ bad \in {b \in SUBSET Chunks : Cardinality(b) <= MaxPanics}
  /\ cap \in Caps
  /\ reserved \in BOOLEAN
  /\ cap = 0 => ~reserved
  /\ nextIndex = 0
  /\ encoded = {}
  /\ holder = NoTask
  /\ cursor = [next |-> 0, offset |-> 0, overflowed |-> FALSE]
  /\ flat = Empty
  /\ pc = [t \in Tasks |-> "idle"]
  /\ idx = [t \in Tasks |-> 0]
  /\ drained = [t \in Tasks |-> 0]
  /\ phase = "start"
  /\ plan = [next |-> 0, offset |-> 0, room |-> 0]
  /\ pending = Empty
  /\ result = NoResult

------------------------------------------------------------------------------
(* The caller, before the tasks run. *)

(* At most one chunk: no fan-out, the caller encodes it itself. *)
EncodeInline ==
  /\ phase = "start"
  /\ n <= 1
  /\ IF bad = {}
     THEN phase' = "inline" /\ encoded' = Chunks
     ELSE phase' = "unwind" /\ UNCHANGED encoded
  /\ UNCHANGED <<input, nextIndex, holder, cursor, flat, taskVars, plan, pending,
                 result>>

(* The lone chunk's id buffer is the flat result, without a copy. *)
ReturnInline ==
  /\ phase = "inline"
  /\ phase' = "returned"
  /\ result' = [p \in 0 .. Total - 1 |-> p]
  /\ UNCHANGED <<input, nextIndex, encoded, holder, cursor, flat, taskVars, plan,
                 pending>>

FanOut ==
  /\ phase = "start"
  /\ n > 1
  /\ phase' = "scope"
  /\ pc' = [t \in Tasks |-> IF t \in Spawned THEN "claim" ELSE "idle"]
  /\ UNCHANGED <<input, nextIndex, encoded, holder, cursor, flat, idx, drained,
                 plan, pending, result>>

------------------------------------------------------------------------------
(* A task. *)

Goto(t, l) == pc' = [pc EXCEPT ![t] = l]

(* Where the task's loop goes after its advance. *)
AfterAdvance(t) == Goto(t, IF idx[t] < n THEN "claim" ELSE "done")

(* next.fetch_add(1); an index past the end means a last advance. *)
Claim(t) ==
  /\ pc[t] = "claim"
  /\ idx' = [idx EXCEPT ![t] = nextIndex]
  /\ nextIndex' = nextIndex + 1
  /\ Goto(t, IF nextIndex < n THEN "encode"
             ELSE IF reserved THEN "lock" ELSE "done")
  /\ UNCHANGED <<input, encoded, holder, cursor, flat, drained, callerVars>>

(* encode, and the set of outs[i]. *)
Encode(t) ==
  /\ pc[t] = "encode"
  /\ idx[t] \notin bad
  /\ encoded' = encoded \cup {idx[t]}
  /\ Goto(t, IF reserved THEN "lock" ELSE "claim")
  /\ UNCHANGED <<input, nextIndex, holder, cursor, flat, idx, drained, callerVars>>

(* Mutant of EncodePanics: the panic is caught and the task ends quietly.  *)
PanicSwallowed(t) ==
  /\ pc[t] = "encode"
  /\ idx[t] \in bad
  /\ Goto(t, "done")
  /\ UNCHANGED <<input, nextIndex, encoded, holder, cursor, flat, idx, drained,
                 callerVars>>

(* The panic unwinds the task; rayon keeps it until the scope joins. *)
EncodePanics(t) ==
  /\ pc[t] = "encode"
  /\ idx[t] \in bad
  /\ Goto(t, "dead")
  /\ UNCHANGED <<input, nextIndex, encoded, holder, cursor, flat, idx, drained,
                 callerVars>>

(* cursor.try_lock() *)
TryLock(t) ==
  /\ pc[t] = "lock"
  /\ \/ /\ holder = NoTask
        /\ holder' = t
        /\ drained' = [drained EXCEPT ![t] = 0]
        /\ Goto(t, "drain")
     \/ /\ holder # NoTask
        /\ AfterAdvance(t)
        /\ UNCHANGED <<holder, drained>>
  /\ UNCHANGED <<input, nextIndex, encoded, cursor, flat, idx, callerVars>>

(* Mutant of CommitReady: one chunk too many per advance. *)
CommitReadyOffByOne(t) ==
  /\ drained[t] <= MaxDrain
  /\ ~cursor.overflowed
  /\ cursor.next \in encoded

(* The conditions under which advance's loop may look at one more chunk. *)
CommitReady(t) ==
  /\ drained[t] < MaxDrain
  /\ ~cursor.overflowed
  /\ cursor.next \in encoded

(* Mutants of Fits: the bound is not checked; a full buffer is refused. *)
FitsUnchecked == TRUE
FitsStrictly == LenOf(cursor.next) < cap - cursor.offset

Fits == LenOf(cursor.next) <= cap - cursor.offset

DrainCopy(t) ==
  /\ pc[t] = "drain"
  /\ CommitReady(t)
  /\ Fits
  /\ flat' = Copied(flat, cursor.next, cursor.offset)
  /\ Goto(t, "bump")
  /\ UNCHANGED <<input, nextIndex, encoded, holder, cursor, idx, drained, callerVars>>

(* Mutant of DrainBump: the offset stays behind. *)
DrainBumpIndexOnly(t) ==
  /\ pc[t] = "bump"
  /\ cursor' = [cursor EXCEPT !.next = @ + 1]
  /\ drained' = [drained EXCEPT ![t] = @ + 1]
  /\ Goto(t, "drain")
  /\ UNCHANGED <<input, nextIndex, encoded, holder, flat, idx, callerVars>>

(* The cursor moves past the copied chunk: a step of its own, so that what *)
(* another task could see in between is not hidden by the model.           *)
DrainBump(t) ==
  /\ pc[t] = "bump"
  /\ cursor' = [next |-> cursor.next + 1, offset |-> cursor.offset + LenOf(cursor.next),
                overflowed |-> cursor.overflowed]
  /\ drained' = [drained EXCEPT ![t] = @ + 1]
  /\ Goto(t, "drain")
  /\ UNCHANGED <<input, nextIndex, encoded, holder, flat, idx, callerVars>>

DrainOverflow(t) ==
  /\ pc[t] = "drain"
  /\ CommitReady(t)
  /\ ~Fits
  /\ cursor' = [next |-> cursor.next, offset |-> cursor.offset, overflowed |-> TRUE]
  /\ Goto(t, "unlock")
  /\ UNCHANGED <<input, nextIndex, encoded, holder, flat, idx, drained, callerVars>>

(* advance returns; a chunk set from here to the unlock is left behind. *)
DrainStop(t) ==
  /\ pc[t] = "drain"
  /\ ~CommitReady(t)
  /\ Goto(t, "unlock")
  /\ UNCHANGED <<input, nextIndex, encoded, holder, cursor, flat, idx, drained,
                 callerVars>>

Unlock(t) ==
  /\ pc[t] = "unlock"
  /\ holder' = NoTask
  /\ AfterAdvance(t)
  /\ UNCHANGED <<input, nextIndex, encoded, cursor, flat, idx, drained, callerVars>>

Task(t) ==
  \/ Claim(t)
  \/ Encode(t)
  \/ EncodePanics(t)
  \/ TryLock(t)
  \/ DrainCopy(t)
  \/ DrainBump(t)
  \/ DrainOverflow(t)
  \/ DrainStop(t)
  \/ Unlock(t)

------------------------------------------------------------------------------
(* The caller, after the scope has joined. *)

(* Mutants of Joined: one task is enough; one task per thread is awaited   *)
(* although at most one per chunk was spawned.                             *)
JoinedAny == \E t \in Spawned : pc[t] \in {"done", "dead"}
JoinedThreads == \A t \in Tasks : pc[t] \in {"done", "dead"}

Joined == \A t \in Spawned : pc[t] \in {"done", "dead"}

(* rayon::scope resumes the panic of a task once all have returned. *)
ResumePanic ==
  /\ \/ phase = "unwind"
     \/ /\ phase = "scope"
        /\ Joined
        /\ \E t \in Spawned : pc[t] = "dead"
  /\ phase' = "panicked"
  /\ result' = Panic
  /\ UNCHANGED <<input, nextIndex, encoded, holder, cursor, flat, taskVars,
                 plan, pending>>

CanFinish == reserved /\ ~cursor.overflowed /\ Total <= cap

(* finish keeps the committed prefix; otherwise gather_flat starts afresh. *)
BeginGather ==
  /\ phase = "scope"
  /\ Joined
  /\ \A t \in Spawned : pc[t] # "dead"
  /\ phase' = "plan"
  /\ IF CanFinish
     THEN /\ plan' = [next |-> cursor.next, offset |-> cursor.offset, room |-> cap]
          /\ UNCHANGED flat
     ELSE /\ plan' = [next |-> 0, offset |-> 0, room |-> Total]
          /\ flat' = Empty
  /\ UNCHANGED <<input, nextIndex, encoded, holder, cursor, taskVars, pending,
                 result>>

(* Mutant of PlanCopy: the running offset is not advanced. *)
PlanCopyInPlace ==
  /\ phase = "plan"
  /\ plan.next < n
  /\ pending' = [i \in DOMAIN pending \cup {plan.next} |->
                   IF i = plan.next THEN plan.offset ELSE pending[i]]
  /\ plan' = [plan EXCEPT !.next = @ + 1]
  /\ UNCHANGED <<input, nextIndex, encoded, holder, cursor, flat, taskVars,
                 phase, result>>

(* One turn of the loop that hands every remaining chunk its offset. *)
PlanCopy ==
  /\ phase = "plan"
  /\ plan.next < n
  /\ pending' = [i \in DOMAIN pending \cup {plan.next} |->
                   IF i = plan.next THEN plan.offset ELSE pending[i]]
  /\ plan' = [next |-> plan.next + 1, offset |-> plan.offset + LenOf(plan.next),
              room |-> plan.room]
  /\ UNCHANGED <<input, nextIndex, encoded, holder, cursor, flat, taskVars,
                 phase, result>>

BeginCopy ==
  /\ phase = "plan"
  /\ plan.next = n
  /\ phase' = "copy"
  /\ UNCHANGED <<input, nextIndex, encoded, holder, cursor, flat, taskVars,
                 plan, pending, result>>

(* The copies run in parallel: any order, no lock. *)
CopyRest(i) ==
  /\ phase = "copy"
  /\ i \in DOMAIN pending
  /\ flat' = Copied(flat, i, pending[i])
  /\ pending' = [j \in DOMAIN pending \ {i} |-> pending[j]]
  /\ UNCHANGED <<input, nextIndex, encoded, holder, cursor, taskVars, phase,
                 plan, result>>

(* set_len(total): the buffer becomes the result. *)
Return ==
  /\ phase = "copy"
  /\ DOMAIN pending = {}
  /\ phase' = "returned"
  /\ result' = flat
  /\ UNCHANGED <<input, nextIndex, encoded, holder, cursor, flat, taskVars,
                 plan, pending>>

Caller ==
  \/ EncodeInline
  \/ ReturnInline
  \/ FanOut
  \/ ResumePanic
  \/ BeginGather
  \/ PlanCopy
  \/ BeginCopy
  \/ \E i \in Chunks : CopyRest(i)
  \/ Return

Next ==
  \/ Caller
  \/ \E t \in Tasks : Task(t)

Spec == Init /\ [][Next]_vars

(* Every spawned task and every copy task gets a thread in the end, and so *)
(* does the caller: no task ever waits for a lock.                         *)
FairSpec ==
  /\ Spec
  /\ WF_vars(Caller)
  /\ \A t \in Tasks : WF_vars(Task(t))

------------------------------------------------------------------------------
(* Properties. *)

TypeOK ==
  /\ n \in ChunkCounts
  /\ start \in Layouts(n)
  /\ bad \subseteq Chunks
  /\ cap \in Caps
  /\ reserved \in BOOLEAN
  /\ nextIndex \in Nat
  /\ encoded \subseteq Chunks
  /\ holder \in Tasks \cup {NoTask}
  /\ cursor \in [next : 0 .. n, offset : Nat, overflowed : BOOLEAN]
  /\ pc \in [Tasks -> {"idle", "claim", "encode", "lock", "drain", "bump", "unlock",
                       "done", "dead"}]
  /\ idx \in [Tasks -> Nat]
  /\ drained \in [Tasks -> 0 .. MaxDrain]
  /\ phase \in {"start", "inline", "unwind", "scope", "plan", "copy", "returned",
               "panicked"}
  /\ plan \in [next : 0 .. n, offset : Nat, room : Nat]
  /\ DOMAIN pending \subseteq Chunks

(***************************************************************************)
(* While the tasks run, the buffer holds exactly the committed prefix:     *)
(* offset is the sum of the sizes of the chunks below next (the doc of     *)
(* CommitCursor::offset), every position below it holds the right token,   *)
(* and nothing was written past it except the one chunk being committed by *)
(* the lock holder, never past the reservation.                            *)
(***************************************************************************)
Filled ==
  IF holder # NoTask /\ pc[holder] = "bump" THEN start[cursor.next + 1]
                                            ELSE start[cursor.next]

CommittedPrefix ==
  phase = "scope" =>
    /\ 0 .. cursor.next - 1 \subseteq encoded
    /\ cursor.offset = start[cursor.next]
    /\ flat = [p \in 0 .. Filled - 1 |-> p]
    /\ Filled <= cap

(***************************************************************************)
(* A chunk is encoded by one task only: the slot outs[i] a task is about   *)
(* to set is empty and no other task is encoding it ("each index is        *)
(* claimed exactly once, so set cannot already be filled").                *)
(***************************************************************************)
ClaimedOnce ==
  \A t \in Tasks : pc[t] = "encode" =>
    /\ idx[t] \in Chunks \ encoded
    /\ \A u \in Tasks \ {t} : pc[u] = "encode" => idx[u] # idx[t]

(***************************************************************************)
(* "every claimed chunk was encoded": once the scope has joined without a  *)
(* panic, no slot of outs is empty.                                        *)
(***************************************************************************)
NoChunkLost ==
  phase \in {"plan", "copy", "returned"} => encoded = Chunks

(***************************************************************************)
(* The lock-free copies of finish and gather_flat write ranges that are    *)
(* disjoint from each other and from what is already written, and stay in  *)
(* the capacity of the buffer: the SAFETY comment of Committer::finish.    *)
(***************************************************************************)
CopiesDisjoint ==
  phase = "copy" =>
    \A i \in DOMAIN pending :
      LET range(c) == pending[c] .. pending[c] + LenOf(c) - 1 IN
      /\ range(i) \subseteq 0 .. plan.room - 1
      /\ range(i) \cap DOMAIN flat = {}
      /\ \A j \in DOMAIN pending \ {i} : range(i) \cap range(j) = {}

(***************************************************************************)
(* A returned call hands back the serial concatenation of its chunks,      *)
(* whatever the schedule, the drain limit, and the escape taken.           *)
(***************************************************************************)
DeliveredIsSerial ==
  phase = "returned" => result = [p \in 0 .. Total - 1 |-> p]

(***************************************************************************)
(* The call fails exactly when a chunk's encode panicked: a panic is never *)
(* swallowed into a short result, and never invented.                      *)
(***************************************************************************)
PanicsReported ==
  /\ phase = "panicked" => bad # {}
  /\ phase = "returned" => bad = {}

(***************************************************************************)
(* Committing stops for good only when the output really does not fit the  *)
(* reservation; otherwise the overlapped copy is never thrown away.        *)
(***************************************************************************)
OverflowIsReal == cursor.overflowed => Total > cap

(* Every call ends: returned or panicked. *)
CallEnds == <>(phase \in {"returned", "panicked"})

(* The call implements the contract of OrderedGather. *)
Failed ==
  {idx[t] : t \in {u \in Tasks : pc[u] = "dead"}}
    \cup (IF n <= 1 /\ phase \in {"unwind", "panicked"} THEN bad ELSE {})

Ordered == INSTANCE OrderedGather WITH failed <- Failed, outcome <- result

OrderedSpec == Ordered!Spec

==============================================================================
