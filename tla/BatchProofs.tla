---------------------------- MODULE BatchProofs -----------------------------
(***************************************************************************)
(* Proofs about the components of src/batch.rs: ParallelGather, for        *)
(* every number of chunks, tasks and tokens, every reservation and every   *)
(* drain limit; WorkerPool, for every number of threads, uses and panics;  *)
(* and BatchRows, for all tokenizers, batches and chunk sizes for which    *)
(* the places where documents are cut keep the tokens.                     *)
(***************************************************************************)
EXTENDS ParallelGather, WorkerPool, BatchRows, FiniteSetTheorems, SequenceTheorems,
        WellFoundedInduction, TLAPS

------------------------------------------------------------------------------
(* ParallelGather. *)

Stages == {"idle", "claim", "encode", "lock", "drain", "bump", "unlock", "done",
           "dead"}
Active == {"claim", "encode", "lock", "drain", "bump", "unlock"}

(* Only spawned tasks run, and only while the scope is open. *)
Scheduling ==
  /\ phase \in {"start", "inline", "unwind"} => \A t \in Tasks : pc[t] = "idle"
  /\ phase # "scope" => \A t \in Tasks : pc[t] \notin Active
  /\ phase = "scope" => n > 1
  /\ phase \in {"inline", "unwind"} => n <= 1
  /\ phase = "scope" => \A t \in Spawned : pc[t] # "idle"
  /\ \A t \in Tasks \ Spawned : pc[t] = "idle"
  /\ phase = "inline" => encoded = Chunks /\ bad = {}
  /\ phase \in {"unwind", "panicked"} => bad # {}

(* The stages between try_lock and unlock belong to the holder. *)
Locking ==
  \A t \in Tasks : pc[t] \in {"drain", "bump", "unlock"} <=> holder = t

(* Every index below the counter is encoded, or in the hands of one task.  *)
Claims ==
  /\ \A t \in Tasks : pc[t] \notin {"idle", "claim"} => idx[t] < nextIndex
  /\ \A t \in Tasks : pc[t] = "done" => n <= idx[t]
  /\ \A t \in Tasks : pc[t] \in {"encode", "dead"} => idx[t] \in Chunks \ encoded
  /\ \A t, u \in Tasks :
       t # u /\ pc[t] \in {"encode", "dead"} /\ pc[u] \in {"encode", "dead"}
         => idx[t] # idx[u]
  /\ \A t \in Tasks : pc[t] = "dead" => idx[t] \in bad
  /\ phase = "start" => nextIndex = 0 /\ encoded = {}
  /\ phase = "scope" => \A i \in encoded : i < nextIndex
  /\ phase = "scope" => \A i \in Chunks :
       i < nextIndex => \/ i \in encoded
                        \/ \E t \in Tasks : idx[t] = i /\ pc[t] \in {"encode", "dead"}
  /\ encoded \cap bad = {}

Commits ==
  /\ CommittedPrefix
  /\ \A t \in Tasks : pc[t] = "bump" => cursor.next \in encoded /\ drained[t] < MaxDrain
  /\ phase = "start" => flat = Empty /\ cursor = [next |-> 0, offset |-> 0, overflowed |-> FALSE]
  /\ OverflowIsReal

(* What is written, what is pending and what is not planned yet make up    *)
(* the whole output, without overlap.                                      *)
Plans ==
  /\ phase \in {"start", "scope"} => DOMAIN pending = {}
  /\ phase \in {"plan", "copy"} =>
       /\ encoded = Chunks
       /\ plan.offset = start[plan.next]
       /\ Total <= plan.room
       /\ flat = [p \in DOMAIN flat |-> p]
       /\ \A p \in DOMAIN flat : p \in Nat /\ p < start[plan.next]
       /\ \A i \in DOMAIN pending : pending[i] = start[i] /\ i < plan.next
       /\ \A i \in DOMAIN pending, p \in DOMAIN flat : ~(start[i] <= p /\ p < start[i + 1])
       /\ \A p \in Nat : p < start[plan.next] =>
            \/ p \in DOMAIN flat
            \/ \E i \in DOMAIN pending : start[i] <= p /\ p < start[i + 1]
  /\ phase = "copy" => plan.next = n
  /\ phase = "returned" => bad = {} /\ encoded = Chunks

Results ==
  /\ phase \notin {"returned", "panicked"} => result = NoResult
  /\ phase = "panicked" => result = Panic
  /\ DeliveredIsSerial

IInv == TypeOK /\ Scheduling /\ Locking /\ Claims /\ Commits /\ Plans /\ Results

------------------------------------------------------------------------------
(* The token layout of the input: counts grow along the chunks. *)
LEMMA LayoutFacts ==
  ASSUME TypeOK
  PROVE  /\ n \in Nat
         /\ MaxTokens \in Nat
         /\ cap \in Nat
         /\ start \in [0 .. n -> Nat]
         /\ start[0] = 0
         /\ Total \in Nat
         /\ \A i, j \in 0 .. n : i <= j => start[i] <= start[j]
         /\ \A i \in Chunks : i + 1 \in 0 .. n /\ i \in 0 .. n /\ LenOf(i) \in Nat
         /\ \A i \in Chunks : LenOf(i) = start[i + 1] - start[i] /\ start[i + 1] <= Total
  <1>1. n \in Nat /\ MaxTokens \in Nat /\ cap \in Nat
    BY GatherAssumption DEF TypeOK
  <1>2. /\ start \in [0 .. n -> 0 .. MaxTokens]
        /\ start[0] = 0
        /\ \A i, j \in 0 .. n : i <= j => start[i] <= start[j]
    BY DEF TypeOK, Layouts
  <1>3. \A i \in 0 .. n : start[i] \in Nat
    BY <1>1, <1>2
  <1>4. start \in [0 .. n -> Nat]
    BY <1>2, <1>3
  <1>5. Total \in Nat
    BY <1>1, <1>3 DEF Total
  <1>6. ASSUME NEW i \in Chunks
        PROVE  /\ i \in 0 .. n /\ i + 1 \in 0 .. n /\ LenOf(i) \in Nat
               /\ LenOf(i) = start[i + 1] - start[i] /\ start[i + 1] <= Total
    <2>1. i \in 0 .. n /\ i + 1 \in 0 .. n /\ n \in 0 .. n
      BY <1>1, <1>6 DEF Chunks
    <2>2. start[i] <= start[i + 1] /\ start[i + 1] <= start[n]
      BY <1>1, <1>2, <2>1
    <2>. QED
      BY <1>3, <2>1, <2>2 DEF LenOf, Total
  <1>. QED
    BY <1>1, <1>2, <1>4, <1>5, <1>6

(* A chunk's tokens lie between two positions. *)
LEMMA Bounds ==
  ASSUME TypeOK, NEW i \in Chunks
  PROVE  /\ i \in Nat
         /\ start[i] \in Nat
         /\ start[i + 1] \in Nat
         /\ start[i] + LenOf(i) = start[i + 1]
  <1>1. /\ i \in 0 .. n /\ i + 1 \in 0 .. n /\ start \in [0 .. n -> Nat]
        /\ LenOf(i) = start[i + 1] - start[i] /\ n \in Nat
    BY LayoutFacts
  <1>2. i \in Nat /\ start[i] \in Nat /\ start[i + 1] \in Nat
    BY <1>1
  <1>. QED
    BY <1>1, <1>2

(* The tokens of two chunks do not overlap. *)
LEMMA ChunksApart ==
  ASSUME TypeOK, NEW i \in Chunks, NEW j \in Chunks, i # j
  PROVE  start[j + 1] <= start[i] \/ start[i + 1] <= start[j]
  <1>1. /\ i \in 0 .. n /\ i + 1 \in 0 .. n
        /\ j \in 0 .. n /\ j + 1 \in 0 .. n
        /\ \A k, l \in 0 .. n : k <= l => start[k] <= start[l]
    BY LayoutFacts
  <1>2. j + 1 <= i \/ i + 1 <= j
    BY Bounds
  <1>. QED
    BY <1>1, <1>2

(* Init and every step keep the variables in their types. *)
LEMMA TypeInit == Init => TypeOK
  <1> SUFFICES ASSUME Init PROVE TypeOK
    OBVIOUS
  <1>1. n \in Nat
    BY GatherAssumption DEF Init
  <1>. QED
    BY <1>1, GatherAssumption DEF Init, TypeOK, Tasks, Empty, Chunks, Layouts

LEMMA TypeStep == IInv /\ [Next]_vars => TypeOK'
  <1> SUFFICES ASSUME IInv, [Next]_vars PROVE TypeOK'
    OBVIOUS
  <1> USE DEF IInv
  <1>0. /\ n \in Nat /\ cap \in Nat /\ Total \in Nat
        /\ \A i \in Chunks : i + 1 \in 0 .. n /\ LenOf(i) \in Nat
    BY LayoutFacts
  <1> USE GatherAssumption, <1>0
      DEF input, taskVars, callerVars, Chunks, Goto, AfterAdvance
  <1>1. CASE EncodeInline
    BY <1>1 DEF EncodeInline, TypeOK
  <1>2. CASE ReturnInline
    BY <1>2 DEF ReturnInline, TypeOK
  <1>3. CASE FanOut
    BY <1>3 DEF FanOut, TypeOK
  <1>4. CASE ResumePanic
    BY <1>4 DEF ResumePanic, TypeOK
  <1>5. CASE BeginGather
    BY <1>5 DEF BeginGather, TypeOK
  <1>6. CASE PlanCopy
    BY <1>6 DEF PlanCopy, TypeOK
  <1>7. CASE BeginCopy
    BY <1>7 DEF BeginCopy, TypeOK
  <1>8. ASSUME NEW i \in Chunks, CopyRest(i) PROVE TypeOK'
    BY <1>8 DEF CopyRest, TypeOK
  <1>9. CASE Return
    BY <1>9 DEF Return, TypeOK
  <1>10. ASSUME NEW t \in Tasks, Claim(t) PROVE TypeOK'
    BY <1>10 DEF Claim, TypeOK
  <1>11. ASSUME NEW t \in Tasks, Encode(t) PROVE TypeOK'
    <2>1. idx[t] \in Chunks
      BY <1>11 DEF Encode, Claims
    <2>2. encoded' = encoded \cup {idx[t]} /\ n' = n /\ encoded \subseteq Chunks
      BY <1>11 DEF Encode, TypeOK
    <2>3. encoded' \subseteq Chunks'
      BY <2>1, <2>2
    <2>4. pc' \in [Tasks -> Stages]
      BY <1>11 DEF Encode, TypeOK, Stages
    <2>. QED
      BY <1>11, <2>3, <2>4 DEF Encode, TypeOK, Stages
  <1>12. ASSUME NEW t \in Tasks, EncodePanics(t) PROVE TypeOK'
    BY <1>12 DEF EncodePanics, TypeOK
  <1>13. ASSUME NEW t \in Tasks, TryLock(t) PROVE TypeOK'
    BY <1>13 DEF TryLock, TypeOK
  <1>14. ASSUME NEW t \in Tasks, DrainCopy(t) PROVE TypeOK'
    BY <1>14 DEF DrainCopy, CommitReady, TypeOK
  <1>15. ASSUME NEW t \in Tasks, DrainBump(t) PROVE TypeOK'
    BY <1>15 DEF DrainBump, TypeOK, Commits
  <1>16. ASSUME NEW t \in Tasks, DrainOverflow(t) PROVE TypeOK'
    BY <1>16 DEF DrainOverflow, TypeOK
  <1>17. ASSUME NEW t \in Tasks, DrainStop(t) PROVE TypeOK'
    BY <1>17 DEF DrainStop, TypeOK
  <1>18. ASSUME NEW t \in Tasks, Unlock(t) PROVE TypeOK'
    BY <1>18 DEF Unlock, TypeOK
  <1>19. CASE UNCHANGED vars
    BY <1>19 DEF vars, TypeOK
  <1>. QED
    BY <1>1, <1>2, <1>3, <1>4, <1>5, <1>6, <1>7, <1>8, <1>9, <1>10, <1>11, <1>12,
       <1>13, <1>14, <1>15, <1>16, <1>17, <1>18, <1>19
    DEF Next, Caller, Task

(* Tasks run inside the scope only. *)
LEMMA SchedulingStep == IInv /\ [Next]_vars => Scheduling'
  <1> SUFFICES ASSUME IInv, [Next]_vars PROVE Scheduling'
    OBVIOUS
  <1>0. n \in Nat /\ TypeOK /\ Scheduling
    BY LayoutFacts DEF IInv
  <1> USE GatherAssumption, <1>0
      DEF input, taskVars, callerVars, Goto, AfterAdvance, Active, Spawned
  <1>1. CASE EncodeInline
    BY <1>1 DEF EncodeInline, Scheduling, TypeOK, Chunks
  <1>2. CASE ReturnInline
    BY <1>2 DEF ReturnInline, Scheduling, TypeOK
  <1>3. CASE FanOut
    BY <1>3 DEF FanOut, Scheduling, TypeOK
  <1>4. CASE ResumePanic
    BY <1>4 DEF ResumePanic, Scheduling, TypeOK, Joined, Claims, IInv
  <1>5. CASE BeginGather
    BY <1>5 DEF BeginGather, Scheduling, TypeOK, Joined
  <1>6. CASE PlanCopy
    BY <1>6 DEF PlanCopy, Scheduling, TypeOK
  <1>7. CASE BeginCopy
    BY <1>7 DEF BeginCopy, Scheduling, TypeOK
  <1>8. ASSUME NEW i \in Chunks, CopyRest(i) PROVE Scheduling'
    BY <1>8 DEF CopyRest, Scheduling, TypeOK
  <1>9. CASE Return
    BY <1>9 DEF Return, Scheduling, TypeOK
  <1>10. ASSUME NEW t \in Tasks, Claim(t) PROVE Scheduling'
    BY <1>10 DEF Claim, Scheduling, TypeOK
  <1>11. ASSUME NEW t \in Tasks, Encode(t) PROVE Scheduling'
    BY <1>11 DEF Encode, Scheduling, TypeOK
  <1>12. ASSUME NEW t \in Tasks, EncodePanics(t) PROVE Scheduling'
    BY <1>12 DEF EncodePanics, Scheduling, TypeOK
  <1>13. ASSUME NEW t \in Tasks, TryLock(t) PROVE Scheduling'
    BY <1>13 DEF TryLock, Scheduling, TypeOK
  <1>14. ASSUME NEW t \in Tasks, DrainCopy(t) PROVE Scheduling'
    BY <1>14 DEF DrainCopy, Scheduling, TypeOK, CommitReady
  <1>15. ASSUME NEW t \in Tasks, DrainBump(t) PROVE Scheduling'
    BY <1>15 DEF DrainBump, Scheduling, TypeOK
  <1>16. ASSUME NEW t \in Tasks, DrainOverflow(t) PROVE Scheduling'
    BY <1>16 DEF DrainOverflow, Scheduling, TypeOK
  <1>17. ASSUME NEW t \in Tasks, DrainStop(t) PROVE Scheduling'
    BY <1>17 DEF DrainStop, Scheduling, TypeOK
  <1>18. ASSUME NEW t \in Tasks, Unlock(t) PROVE Scheduling'
    BY <1>18 DEF Unlock, Scheduling, TypeOK
  <1>19. CASE UNCHANGED vars
    BY <1>19 DEF vars, Scheduling, TypeOK, Chunks
  <1>. QED
    BY <1>1, <1>2, <1>3, <1>4, <1>5, <1>6, <1>7, <1>8, <1>9, <1>10, <1>11, <1>12, <1>13, <1>14, <1>15, <1>16, <1>17, <1>18, <1>19
    DEF Next, Caller, Task

(* The commit lock has one holder, the task between try_lock and unlock. *)
LEMMA LockingStep == IInv /\ [Next]_vars => Locking'
  <1> SUFFICES ASSUME IInv, [Next]_vars PROVE Locking'
    OBVIOUS
  <1>0. TypeOK /\ Locking /\ Scheduling
    BY DEF IInv
  <1> USE GatherAssumption, <1>0
      DEF input, taskVars, callerVars, Goto, AfterAdvance, Tasks
  <1>1. CASE EncodeInline
    BY <1>1 DEF EncodeInline, Locking, TypeOK
  <1>2. CASE ReturnInline
    BY <1>2 DEF ReturnInline, Locking, TypeOK
  <1>3. CASE FanOut
    BY <1>3 DEF FanOut, Locking, TypeOK, Scheduling, Active
  <1>4. CASE ResumePanic
    BY <1>4 DEF ResumePanic, Locking, TypeOK
  <1>5. CASE BeginGather
    BY <1>5 DEF BeginGather, Locking, TypeOK
  <1>6. CASE PlanCopy
    BY <1>6 DEF PlanCopy, Locking, TypeOK
  <1>7. CASE BeginCopy
    BY <1>7 DEF BeginCopy, Locking, TypeOK
  <1>8. ASSUME NEW i \in Chunks, CopyRest(i) PROVE Locking'
    BY <1>8 DEF CopyRest, Locking, TypeOK
  <1>9. CASE Return
    BY <1>9 DEF Return, Locking, TypeOK
  <1>10. ASSUME NEW t \in Tasks, Claim(t) PROVE Locking'
    BY <1>10 DEF Claim, Locking, TypeOK
  <1>11. ASSUME NEW t \in Tasks, Encode(t) PROVE Locking'
    BY <1>11 DEF Encode, Locking, TypeOK
  <1>12. ASSUME NEW t \in Tasks, EncodePanics(t) PROVE Locking'
    BY <1>12 DEF EncodePanics, Locking, TypeOK
  <1>13. ASSUME NEW t \in Tasks, TryLock(t) PROVE Locking'
    <2>1. CASE holder = NoTask
      <3>1. \A u \in Tasks : u # NoTask
        OBVIOUS
      <3>2. \A u \in Tasks : pc[u] \notin {"drain", "bump", "unlock"}
        BY <2>1, <3>1 DEF Locking
      <3>3. holder' = t /\ pc' = [pc EXCEPT ![t] = "drain"]
        BY <1>13, <2>1 DEF TryLock
      <3>. QED
        BY <3>2, <3>3 DEF Locking, TypeOK
    <2>2. CASE holder # NoTask
      BY <1>13, <2>2 DEF TryLock, Locking, TypeOK
    <2>. QED
      BY <2>1, <2>2
  <1>14. ASSUME NEW t \in Tasks, DrainCopy(t) PROVE Locking'
    BY <1>14 DEF DrainCopy, Locking, TypeOK
  <1>15. ASSUME NEW t \in Tasks, DrainBump(t) PROVE Locking'
    BY <1>15 DEF DrainBump, Locking, TypeOK
  <1>16. ASSUME NEW t \in Tasks, DrainOverflow(t) PROVE Locking'
    BY <1>16 DEF DrainOverflow, Locking, TypeOK
  <1>17. ASSUME NEW t \in Tasks, DrainStop(t) PROVE Locking'
    BY <1>17 DEF DrainStop, Locking, TypeOK
  <1>18. ASSUME NEW t \in Tasks, Unlock(t) PROVE Locking'
    <2>1. /\ pc[t] = "unlock" /\ holder' = NoTask
          /\ pc'[t] \in {"claim", "done"}
          /\ \A u \in Tasks \ {t} : pc'[u] = pc[u]
      BY <1>18 DEF Unlock, TypeOK
    <2>2. holder = t
      BY <2>1 DEF Locking
    <2>3. \A u \in Tasks \ {t} : pc[u] \notin {"drain", "bump", "unlock"}
      BY <2>2 DEF Locking
    <2>4. \A u \in Tasks : u # NoTask
      OBVIOUS
    <2>. QED
      BY <2>1, <2>3, <2>4 DEF Locking
  <1>19. CASE UNCHANGED vars
    BY <1>19 DEF vars, Locking, TypeOK
  <1>. QED
    BY <1>1, <1>2, <1>3, <1>4, <1>5, <1>6, <1>7, <1>8, <1>9, <1>10, <1>11, <1>12, <1>13, <1>14, <1>15, <1>16, <1>17, <1>18, <1>19
    DEF Next, Caller, Task

(* Every claimed index is encoded, or held by exactly one task. *)
LEMMA ClaimsStep == IInv /\ [Next]_vars => Claims'
  <1> SUFFICES ASSUME IInv, [Next]_vars PROVE Claims'
    OBVIOUS
  <1>0. TypeOK /\ Claims /\ Scheduling /\ n \in Nat
    BY LayoutFacts DEF IInv
  <1> USE GatherAssumption, <1>0
      DEF input, taskVars, callerVars, Goto, AfterAdvance, Chunks
  <1>1. CASE EncodeInline
    BY <1>1 DEF EncodeInline, Claims, TypeOK, Scheduling
  <1>2. CASE ReturnInline
    BY <1>2 DEF ReturnInline, Claims, TypeOK
  <1>3. CASE FanOut
    BY <1>3 DEF FanOut, Claims, TypeOK, Scheduling
  <1>4. CASE ResumePanic
    BY <1>4 DEF ResumePanic, Claims, TypeOK
  <1>5. CASE BeginGather
    BY <1>5 DEF BeginGather, Claims, TypeOK
  <1>6. CASE PlanCopy
    BY <1>6 DEF PlanCopy, Claims, TypeOK
  <1>7. CASE BeginCopy
    BY <1>7 DEF BeginCopy, Claims, TypeOK
  <1>8. ASSUME NEW i \in Chunks, CopyRest(i) PROVE Claims'
    BY <1>8 DEF CopyRest, Claims, TypeOK
  <1>9. CASE Return
    BY <1>9 DEF Return, Claims, TypeOK
  <1>10. ASSUME NEW t \in Tasks, Claim(t) PROVE Claims'
    <2>0. t \in Tasks /\ pc[t] = "claim" /\ phase = "scope" /\ phase' = phase
      BY <1>10 DEF Claim, Scheduling, Active
    <2>1. /\ idx' = [idx EXCEPT ![t] = nextIndex]
          /\ nextIndex' = nextIndex + 1
          /\ pc'[t] \in {"encode", "lock", "done"}
          /\ pc'[t] = "encode" <=> nextIndex < n
          /\ \A u \in Tasks \ {t} : pc'[u] = pc[u]
          /\ UNCHANGED <<n, bad, encoded>>
      BY <1>10 DEF Claim, TypeOK
    <2>2. \A u \in Tasks : pc'[u] \notin {"idle", "claim"} => idx'[u] < nextIndex'
      BY <2>0, <2>1 DEF Claims, TypeOK
    <2>3. \A u \in Tasks : pc'[u] = "done" => n' <= idx'[u]
      BY <2>0, <2>1 DEF Claims, TypeOK
    <2>4. \A u \in Tasks : pc'[u] \in {"encode", "dead"} => idx'[u] \in Chunks' \ encoded'
      BY <2>0, <2>1 DEF Claims, TypeOK
    <2>5. \A u, v \in Tasks :
            u # v /\ pc'[u] \in {"encode", "dead"} /\ pc'[v] \in {"encode", "dead"}
              => idx'[u] # idx'[v]
      BY <2>0, <2>1 DEF Claims, TypeOK
    <2>6. \A u \in Tasks : pc'[u] = "dead" => idx'[u] \in bad'
      BY <2>0, <2>1 DEF Claims, TypeOK
    <2>7. \A i \in encoded' : i < nextIndex'
      BY <2>0, <2>1 DEF Claims, TypeOK
    <2>8. ASSUME NEW i \in Chunks', i < nextIndex'
          PROVE  \/ i \in encoded'
                 \/ \E u \in Tasks : idx'[u] = i /\ pc'[u] \in {"encode", "dead"}
      <3>1. CASE i = nextIndex
        BY <2>0, <2>1, <3>1 DEF TypeOK
      <3>2. CASE i < nextIndex
        <4>1. \/ i \in encoded
              \/ \E u \in Tasks : idx[u] = i /\ pc[u] \in {"encode", "dead"}
          BY <2>0, <2>1, <2>8, <3>2 DEF Claims
        <4>. QED
          BY <2>0, <2>1, <4>1 DEF TypeOK
      <3>. QED
        BY <2>1, <2>8, <3>1, <3>2 DEF TypeOK
    <2>. QED
      BY <2>0, <2>1, <2>2, <2>3, <2>4, <2>5, <2>6, <2>7, <2>8 DEF Claims
  <1>11. ASSUME NEW t \in Tasks, Encode(t) PROVE Claims'
    <2>0. t \in Tasks /\ pc[t] = "encode" /\ phase = "scope" /\ phase' = phase
      BY <1>11 DEF Encode, Scheduling, Active
    <2>1. /\ encoded' = encoded \cup {idx[t]}
          /\ idx[t] \notin bad
          /\ pc'[t] \in {"lock", "claim"}
          /\ \A u \in Tasks \ {t} : pc'[u] = pc[u]
          /\ UNCHANGED <<n, bad, idx, nextIndex>>
      BY <1>11 DEF Encode, TypeOK
    <2>2. \A u \in Tasks : pc'[u] \notin {"idle", "claim"} => idx'[u] < nextIndex'
      BY <2>0, <2>1 DEF Claims, TypeOK
    <2>3. \A u \in Tasks : pc'[u] = "done" => n' <= idx'[u]
      BY <2>0, <2>1 DEF Claims, TypeOK
    <2>4. \A u \in Tasks : pc'[u] \in {"encode", "dead"} => idx'[u] \in Chunks' \ encoded'
      BY <2>0, <2>1 DEF Claims, TypeOK
    <2>5. \A u, v \in Tasks :
            u # v /\ pc'[u] \in {"encode", "dead"} /\ pc'[v] \in {"encode", "dead"}
              => idx'[u] # idx'[v]
      BY <2>0, <2>1 DEF Claims, TypeOK
    <2>6. \A u \in Tasks : pc'[u] = "dead" => idx'[u] \in bad'
      BY <2>0, <2>1 DEF Claims, TypeOK
    <2>7. \A i \in encoded' : i < nextIndex'
      BY <2>0, <2>1 DEF Claims, TypeOK
    <2>8. ASSUME NEW i \in Chunks', i < nextIndex'
          PROVE  \/ i \in encoded'
                 \/ \E u \in Tasks : idx'[u] = i /\ pc'[u] \in {"encode", "dead"}
      <3>1. \/ i \in encoded
            \/ \E u \in Tasks : idx[u] = i /\ pc[u] \in {"encode", "dead"}
        BY <2>0, <2>1, <2>8 DEF Claims
      <3>. QED
        BY <2>0, <2>1, <3>1
    <2>9. encoded' \cap bad' = {}
      BY <2>1 DEF Claims
    <2>. QED
      BY <2>0, <2>1, <2>2, <2>3, <2>4, <2>5, <2>6, <2>7, <2>8, <2>9 DEF Claims
  <1>12. ASSUME NEW t \in Tasks, EncodePanics(t) PROVE Claims'
    BY <1>12 DEF EncodePanics, Claims, TypeOK
  <1>13. ASSUME NEW t \in Tasks, TryLock(t) PROVE Claims'
    BY <1>13 DEF TryLock, Claims, TypeOK
  <1>14. ASSUME NEW t \in Tasks, DrainCopy(t) PROVE Claims'
    BY <1>14 DEF DrainCopy, Claims, TypeOK
  <1>15. ASSUME NEW t \in Tasks, DrainBump(t) PROVE Claims'
    BY <1>15 DEF DrainBump, Claims, TypeOK
  <1>16. ASSUME NEW t \in Tasks, DrainOverflow(t) PROVE Claims'
    BY <1>16 DEF DrainOverflow, Claims, TypeOK
  <1>17. ASSUME NEW t \in Tasks, DrainStop(t) PROVE Claims'
    BY <1>17 DEF DrainStop, Claims, TypeOK
  <1>18. ASSUME NEW t \in Tasks, Unlock(t) PROVE Claims'
    BY <1>18 DEF Unlock, Claims, TypeOK
  <1>19. CASE UNCHANGED vars
    BY <1>19 DEF vars, Claims, TypeOK
  <1>. QED
    BY <1>1, <1>2, <1>3, <1>4, <1>5, <1>6, <1>7, <1>8, <1>9, <1>10, <1>11, <1>12, <1>13, <1>14, <1>15, <1>16, <1>17, <1>18, <1>19
    DEF Next, Caller, Task

(* Steps that neither write the buffer nor move the cursor. *)
LEMMA CommitsFrame ==
  ASSUME IInv,
         UNCHANGED <<n, start, cap, cursor>>,
         encoded \subseteq encoded',
         phase' = "scope" => phase = "scope" /\ flat' = flat /\ Filled' = Filled,
         phase' # "start",
         \A t \in Tasks : pc'[t] = "bump" => pc[t] = "bump" /\ drained'[t] = drained[t]
  PROVE  Commits'
  <1>1. CommittedPrefix'
    BY DEF IInv, Commits, CommittedPrefix
  <1>2. OverflowIsReal'
    BY DEF IInv, Commits, OverflowIsReal, Total
  <1>3. \A t \in Tasks : pc'[t] = "bump" => cursor'.next \in encoded' /\ drained'[t] < MaxDrain
    BY DEF IInv, Commits
  <1>. QED
    BY <1>1, <1>2, <1>3 DEF Commits

(* The buffer holds the committed prefix after every step of the scope. *)
LEMMA CommitsStep == IInv /\ [Next]_vars => Commits'
  <1> SUFFICES ASSUME IInv, [Next]_vars PROVE Commits'
    OBVIOUS
  <1>0. TypeOK /\ Claims /\ Scheduling /\ Commits /\ Locking
    BY DEF IInv
  <1>facts. /\ n \in Nat /\ cap \in Nat /\ Total \in Nat
            /\ start \in [0 .. n -> Nat] /\ start[0] = 0
            /\ \A i \in Chunks : /\ i + 1 \in 0 .. n /\ i \in 0 .. n /\ LenOf(i) \in Nat
                                /\ start[i + 1] <= Total /\ LenOf(i) = start[i + 1] - start[i]
    BY <1>0, LayoutFacts
  <1> USE GatherAssumption, <1>0
      DEF input, taskVars, callerVars, Goto, AfterAdvance
  <1>1. CASE EncodeInline
    BY <1>1, CommitsFrame DEF EncodeInline, Scheduling, TypeOK
  <1>2. CASE ReturnInline
    BY <1>2, CommitsFrame DEF ReturnInline
  <1>3. CASE FanOut
    <2>1. /\ cursor' = [next |-> 0, offset |-> 0, overflowed |-> FALSE]
          /\ flat' = Empty
          /\ UNCHANGED <<n, start, cap, encoded, holder>>
          /\ phase' = "scope"
      BY <1>3 DEF FanOut, Commits
    <2>2. \A t \in Tasks : pc'[t] \in {"claim", "idle"}
      BY <1>3 DEF FanOut
    <2>3. Filled' = 0
      <3>1. holder' = NoTask \/ holder' \in Tasks
        BY <2>1 DEF TypeOK
      <3>2. ~(holder' # NoTask /\ pc'[holder'] = "bump")
        BY <2>2, <3>1
      <3>. QED
        BY <2>1, <3>2, <1>facts DEF Filled
    <2>4. flat' = [p \in 0 .. Filled' - 1 |-> p]
      BY <2>1, <2>3 DEF Empty
    <2>5. CommittedPrefix'
      BY <2>1, <2>3, <2>4, <1>facts DEF CommittedPrefix
    <2>. QED
      BY <2>1, <2>2, <2>5 DEF Commits, OverflowIsReal
  <1>4. CASE ResumePanic
    BY <1>4, CommitsFrame DEF ResumePanic
  <1>5. CASE BeginGather
    BY <1>5, CommitsFrame DEF BeginGather
  <1>6. CASE PlanCopy
    BY <1>6, CommitsFrame DEF PlanCopy
  <1>7. CASE BeginCopy
    BY <1>7, CommitsFrame DEF BeginCopy
  <1>8. ASSUME NEW i \in Chunks, CopyRest(i) PROVE Commits'
    BY <1>8, CommitsFrame DEF CopyRest
  <1>9. CASE Return
    BY <1>9, CommitsFrame DEF Return
  <1>10. ASSUME NEW t \in Tasks, Claim(t) PROVE Commits'
    <2>1. phase = "scope" /\ phase' = phase /\ pc[t] # "bump" /\ pc'[t] # "bump"
      BY <1>10 DEF Claim, Scheduling, Active, TypeOK
    <2>2. \A u \in Tasks : pc'[u] = "bump" <=> pc[u] = "bump"
      BY <1>10, <2>1 DEF Claim, TypeOK
    <2>3. Filled' = Filled
      BY <1>10, <2>2 DEF Claim, Filled, TypeOK
    <2>. QED
      BY <1>10, <2>1, <2>2, <2>3, CommitsFrame DEF Claim
  <1>11. ASSUME NEW t \in Tasks, Encode(t) PROVE Commits'
    <2>1. phase = "scope" /\ phase' = phase /\ pc[t] # "bump" /\ pc'[t] # "bump"
      BY <1>11 DEF Encode, Scheduling, Active, TypeOK
    <2>2. \A u \in Tasks : pc'[u] = "bump" <=> pc[u] = "bump"
      BY <1>11, <2>1 DEF Encode, TypeOK
    <2>3. Filled' = Filled
      BY <1>11, <2>2 DEF Encode, Filled, TypeOK
    <2>. QED
      BY <1>11, <2>1, <2>2, <2>3, CommitsFrame DEF Encode
  <1>12. ASSUME NEW t \in Tasks, EncodePanics(t) PROVE Commits'
    <2>1. phase = "scope" /\ phase' = phase /\ pc[t] # "bump" /\ pc'[t] # "bump"
      BY <1>12 DEF EncodePanics, Scheduling, Active, TypeOK
    <2>2. \A u \in Tasks : pc'[u] = "bump" <=> pc[u] = "bump"
      BY <1>12, <2>1 DEF EncodePanics, TypeOK
    <2>3. Filled' = Filled
      BY <1>12, <2>2 DEF EncodePanics, Filled, TypeOK
    <2>. QED
      BY <1>12, <2>1, <2>2, <2>3, CommitsFrame DEF EncodePanics
  <1>13. ASSUME NEW t \in Tasks, TryLock(t) PROVE Commits'
    <2>1. phase = "scope" /\ phase' = phase /\ pc[t] # "bump" /\ pc'[t] # "bump"
      BY <1>13 DEF TryLock, Scheduling, Active, TypeOK
    <2>2. /\ \A u \in Tasks : pc'[u] = "bump" <=> pc[u] = "bump"
          /\ \A u \in Tasks : u # t => drained'[u] = drained[u]
      BY <1>13, <2>1 DEF TryLock, TypeOK
    <2>3. Filled' = Filled
      <3>1. CASE holder = NoTask
        BY <1>13, <2>1, <3>1 DEF TryLock, Filled, TypeOK
      <3>2. CASE holder # NoTask
        BY <1>13, <2>2, <3>2 DEF TryLock, Filled, TypeOK
      <3>. QED
        BY <3>1, <3>2
    <2>. QED
      BY <1>13, <2>1, <2>2, <2>3, CommitsFrame DEF TryLock
  <1>14. ASSUME NEW t \in Tasks, DrainCopy(t) PROVE Commits'
    <2>1. /\ phase = "scope" /\ phase' = phase
          /\ cursor.next \in encoded /\ cursor.next \in Chunks
          /\ drained[t] < MaxDrain
          /\ holder = t /\ pc'[t] = "bump"
          /\ \A u \in Tasks \ {t} : pc'[u] = pc[u]
          /\ UNCHANGED <<n, start, cap, cursor, encoded, holder, drained>>
      BY <1>14 DEF DrainCopy, CommitReady, Scheduling, Active, TypeOK, Locking
    <2>2. t # NoTask
      BY DEF Tasks
    <2>3. Filled = start[cursor.next] /\ Filled' = start[cursor.next + 1]
      BY <1>14, <2>1, <2>2 DEF DrainCopy, Filled
    <2>4. /\ cursor.offset = start[cursor.next]
          /\ flat = [p \in 0 .. cursor.offset - 1 |-> p]
          /\ 0 .. cursor.next - 1 \subseteq encoded
      BY <2>1, <2>3 DEF Commits, CommittedPrefix
    <2>5. start[cursor.next + 1] <= cap /\ start[cursor.next] <= start[cursor.next + 1]
      <3>1. LenOf(cursor.next) <= cap - cursor.offset
        BY <1>14 DEF DrainCopy, Fits
      <3>2. /\ start[cursor.next] \in Nat /\ start[cursor.next + 1] \in Nat
            /\ LenOf(cursor.next) \in Nat
            /\ start[cursor.next] + LenOf(cursor.next) = start[cursor.next + 1]
        BY <2>1, Bounds, <1>facts
      <3>. QED
        BY <2>4, <3>1, <3>2, <1>facts
    <2>6. flat' = [p \in 0 .. Filled' - 1 |-> p]
      <3>1. flat' = Copied(flat, cursor.next, cursor.offset)
        BY <1>14 DEF DrainCopy
      <3>2. cursor.offset + LenOf(cursor.next) = start[cursor.next + 1]
        BY <2>1, <2>4, <1>facts
      <3>3. /\ cursor.offset \in Nat /\ start[cursor.next + 1] \in Nat
            /\ LenOf(cursor.next) \in Nat
            /\ cursor.offset <= start[cursor.next + 1]
        BY <2>1, <2>4, <2>5, <1>facts
      <3>dom. /\ DOMAIN flat = 0 .. cursor.offset - 1
            /\ \A p \in 0 .. cursor.offset - 1 : flat[p] = p
        BY <2>4
      <3>4. DOMAIN flat \cup (cursor.offset .. cursor.offset + LenOf(cursor.next) - 1)
              = 0 .. start[cursor.next + 1] - 1
        BY <3>2, <3>3, <3>dom
      <3>5. \A p \in 0 .. start[cursor.next + 1] - 1 :
              (IF p \in cursor.offset .. cursor.offset + LenOf(cursor.next) - 1
                 THEN start[cursor.next] + (p - cursor.offset) ELSE flat[p]) = p
        <4> TAKE p \in 0 .. start[cursor.next + 1] - 1
        <4>1. CASE p < cursor.offset
          BY <3>3, <3>dom, <4>1
        <4>2. CASE p >= cursor.offset
          <5>1. start[cursor.next] + (p - cursor.offset) = p
            BY <2>4, <3>3, <4>2
          <5>2. p \in cursor.offset .. cursor.offset + LenOf(cursor.next) - 1
            BY <3>2, <3>3, <4>2
          <5>. QED
            BY <5>1, <5>2
        <4>. QED
          BY <3>3, <4>1, <4>2
      <3>. QED
        BY <2>3, <3>1, <3>4, <3>5 DEF Copied
    <2>7. CommittedPrefix'
      BY <2>1, <2>3, <2>4, <2>5, <2>6 DEF CommittedPrefix
    <2>8. OverflowIsReal'
      BY <2>1 DEF Commits, OverflowIsReal, Total
    <2>9. \A u \in Tasks : pc'[u] = "bump" => cursor'.next \in encoded' /\ drained'[u] < MaxDrain
      BY <2>1 DEF Commits
    <2>. QED
      BY <2>1, <2>7, <2>8, <2>9 DEF Commits
  <1>15. ASSUME NEW t \in Tasks, DrainBump(t) PROVE Commits'
    <2>1. /\ phase = "scope" /\ phase' = phase
          /\ cursor.next \in encoded /\ cursor.next \in Chunks
          /\ holder = t /\ pc[t] = "bump" /\ pc'[t] = "drain"
          /\ cursor'.next = cursor.next + 1
          /\ cursor'.offset = cursor.offset + LenOf(cursor.next)
          /\ cursor'.overflowed = cursor.overflowed
          /\ UNCHANGED <<n, start, cap, encoded, flat, holder>>
      BY <1>15 DEF DrainBump, Scheduling, Active, TypeOK, Locking, Commits
    <2>2. t # NoTask
      BY DEF Tasks
    <2>3. Filled = start[cursor.next + 1] /\ Filled' = start[cursor.next + 1]
      BY <2>1, <2>2 DEF Filled
    <2>4. /\ 0 .. cursor'.next - 1 \subseteq encoded'
          /\ cursor'.offset = start'[cursor'.next]
      <3>1. /\ 0 .. cursor.next - 1 \subseteq encoded
            /\ cursor.offset = start[cursor.next]
            /\ cursor.next \in Nat
        BY <2>1, <1>facts DEF Commits, CommittedPrefix, TypeOK
      <3>2. cursor.offset + LenOf(cursor.next) = start[cursor.next + 1]
        BY <2>1, <3>1, <1>facts
      <3>3. 0 .. cursor.next \subseteq encoded
        BY <2>1, <3>1
      <3>. QED
        BY <2>1, <3>1, <3>2, <3>3
    <2>5. CommittedPrefix'
      BY <2>1, <2>3, <2>4 DEF Commits, CommittedPrefix
    <2>6. OverflowIsReal'
      BY <2>1 DEF Commits, OverflowIsReal, Total
    <2>7. \A u \in Tasks : pc'[u] # "bump"
      BY <1>15, <2>1 DEF DrainBump, Locking, TypeOK
    <2>. QED
      BY <2>1, <2>5, <2>6, <2>7 DEF Commits
  <1>16. ASSUME NEW t \in Tasks, DrainOverflow(t) PROVE Commits'
    <2>1. /\ phase = "scope" /\ phase' = phase
          /\ cursor.next \in Chunks
          /\ pc[t] = "drain" /\ pc'[t] = "unlock" /\ holder = t
          /\ cursor'.next = cursor.next /\ cursor'.offset = cursor.offset
          /\ UNCHANGED <<n, start, cap, encoded, flat, holder, drained>>
      BY <1>16 DEF DrainOverflow, CommitReady, Scheduling, Active, TypeOK, Locking
    <2>2. \A u \in Tasks : pc'[u] = "bump" <=> pc[u] = "bump"
      BY <1>16, <2>1 DEF DrainOverflow, TypeOK
    <2>3. Filled' = Filled
      BY <2>1, <2>2 DEF Filled
    <2>4. Total > cap
      <3>1. cursor.offset = start[cursor.next] /\ cursor.offset \in Nat
        BY <2>1 DEF Commits, CommittedPrefix, TypeOK
      <3>2. ~(LenOf(cursor.next) <= cap - cursor.offset)
        BY <1>16 DEF DrainOverflow, Fits
      <3>. QED
        BY <2>1, <3>1, <3>2, <1>facts
    <2>5. CommittedPrefix'
      BY <2>1, <2>3 DEF Commits, CommittedPrefix
    <2>6. OverflowIsReal'
      BY <2>1, <2>4 DEF OverflowIsReal, Total
    <2>7. \A u \in Tasks : pc'[u] = "bump" => cursor'.next \in encoded' /\ drained'[u] < MaxDrain
      BY <2>1, <2>2 DEF Commits
    <2>. QED
      BY <2>1, <2>5, <2>6, <2>7 DEF Commits
  <1>17. ASSUME NEW t \in Tasks, DrainStop(t) PROVE Commits'
    <2>1. phase = "scope" /\ phase' = phase /\ pc[t] # "bump" /\ pc'[t] # "bump"
      BY <1>17 DEF DrainStop, Scheduling, Active, TypeOK
    <2>2. \A u \in Tasks : pc'[u] = "bump" <=> pc[u] = "bump"
      BY <1>17, <2>1 DEF DrainStop, TypeOK
    <2>3. Filled' = Filled
      BY <1>17, <2>2 DEF DrainStop, Filled, TypeOK
    <2>. QED
      BY <1>17, <2>1, <2>2, <2>3, CommitsFrame DEF DrainStop
  <1>18. ASSUME NEW t \in Tasks, Unlock(t) PROVE Commits'
    <2>1. /\ phase = "scope" /\ phase' = phase /\ pc[t] # "bump" /\ pc'[t] # "bump"
          /\ holder = t
      BY <1>18 DEF Unlock, Scheduling, Active, TypeOK, Locking
    <2>2. \A u \in Tasks : pc'[u] = "bump" <=> pc[u] = "bump"
      BY <1>18, <2>1 DEF Unlock, TypeOK
    <2>3. Filled' = Filled
      BY <1>18, <2>1 DEF Unlock, Filled
    <2>. QED
      BY <1>18, <2>1, <2>2, <2>3, CommitsFrame DEF Unlock
  <1>19. CASE UNCHANGED vars
    BY <1>19 DEF vars, Commits, CommittedPrefix, Filled, OverflowIsReal, Total
  <1>. QED
    BY <1>1, <1>2, <1>3, <1>4, <1>5, <1>6, <1>7, <1>8, <1>9, <1>10, <1>11, <1>12,
       <1>13, <1>14, <1>15, <1>16, <1>17, <1>18, <1>19
    DEF Next, Caller, Task

(* Outside the planning and the copying nothing is pending or in flight.   *)
LEMMA PlansFrame ==
  ASSUME IInv,
         phase' \notin {"plan", "copy"},
         pending' = pending,
         phase' \in {"start", "scope"} => phase \in {"start", "scope"},
         phase' = "returned" => bad' = {} /\ encoded' = Chunks'
  PROVE  Plans'
  BY DEF IInv, Plans

(* A task's step leaves the caller in the scope. *)
LEMMA PlansTask ==
  ASSUME IInv, NEW t \in Tasks, Task(t)
  PROVE  Plans'
  <1>1. pc[t] \in Active
    BY DEF Task, Claim, Encode, EncodePanics, TryLock, DrainCopy, DrainBump,
           DrainOverflow, DrainStop, Unlock, Active
  <1>2. phase = "scope"
    BY <1>1 DEF IInv, Scheduling
  <1>3. UNCHANGED callerVars
    BY DEF Task, Claim, Encode, EncodePanics, TryLock, DrainCopy, DrainBump,
           DrainOverflow, DrainStop, Unlock
  <1>. QED
    BY <1>2, <1>3, PlansFrame DEF callerVars

(* Once every task is done, every chunk is encoded. *)
LEMMA JoinedEncodedAll ==
  ASSUME IInv, phase = "scope", Joined, \A t \in Spawned : pc[t] # "dead"
  PROVE  encoded = Chunks /\ bad = {}
  <1>1. TypeOK /\ Claims /\ Scheduling /\ n \in Nat
    BY LayoutFacts DEF IInv
  <1>2. 1 \in Spawned /\ 1 \in Tasks
    BY <1>1, GatherAssumption DEF Spawned, Tasks, Scheduling
  <1>3. \A t \in Tasks : pc[t] \in {"idle", "done"}
    BY <1>1 DEF Joined, Scheduling
  <1>4. n <= idx[1] /\ idx[1] < nextIndex
    BY <1>1, <1>2 DEF Joined, Claims
  <1>5. \A i \in Chunks : i < nextIndex
    BY <1>1, <1>2, <1>4 DEF Chunks, TypeOK
  <1>6. Chunks \subseteq encoded
    BY <1>1, <1>3, <1>5 DEF Claims
  <1>. QED
    BY <1>1, <1>6 DEF Claims, TypeOK

(* The pending copies, the written positions and the unplanned rest always *)
(* tile the output.                                                        *)
LEMMA PlansStep == IInv /\ [Next]_vars => Plans'
  <1> SUFFICES ASSUME IInv, [Next]_vars PROVE Plans'
    OBVIOUS
  <1>0. TypeOK /\ Claims /\ Scheduling /\ Commits /\ Locking /\ Plans
    BY DEF IInv
  <1>facts. /\ n \in Nat /\ cap \in Nat /\ Total \in Nat
            /\ start \in [0 .. n -> Nat] /\ start[0] = 0
            /\ \A i, j \in 0 .. n : i <= j => start[i] <= start[j]
            /\ \A i \in Chunks : /\ i + 1 \in 0 .. n /\ i \in 0 .. n /\ LenOf(i) \in Nat
                                /\ start[i + 1] <= Total /\ LenOf(i) = start[i + 1] - start[i]
    BY <1>0, LayoutFacts
  <1> USE GatherAssumption, <1>0 DEF input, taskVars, callerVars
  <1>1. CASE EncodeInline
    BY <1>1, PlansFrame DEF EncodeInline
  <1>2. CASE ReturnInline
    BY <1>2, PlansFrame DEF ReturnInline, Scheduling, Chunks
  <1>3. CASE FanOut
    BY <1>3, PlansFrame DEF FanOut
  <1>4. CASE ResumePanic
    BY <1>4, PlansFrame DEF ResumePanic
  <1>5. CASE BeginGather
    <2>1. /\ encoded' = Chunks' /\ phase' = "plan" /\ pending' = pending
          /\ DOMAIN pending = {} /\ start' = start /\ n' = n
      BY <1>5, JoinedEncodedAll DEF BeginGather, Chunks, Plans
    <2>2. CASE CanFinish
      <3>1. plan' = [next |-> cursor.next, offset |-> cursor.offset, room |-> cap] /\ flat' = flat
        BY <1>5, <2>2 DEF BeginGather
      <3>2. ~\E t \in Tasks : pc[t] \in {"drain", "bump", "unlock"}
        BY <1>5 DEF BeginGather, Joined, Scheduling
      <3>3. Filled = start[cursor.next]
        BY <3>2 DEF Filled, Locking, TypeOK
      <3>4. /\ cursor.next \in 0 .. n /\ start[cursor.next] \in Nat
            /\ cursor.offset = start[cursor.next]
            /\ flat = [p \in 0 .. start[cursor.next] - 1 |-> p]
        BY <1>5, <3>3, <1>facts DEF BeginGather, Commits, CommittedPrefix, TypeOK
      <3>5. Total' <= plan'.room
        BY <2>1, <2>2, <3>1 DEF CanFinish, Total
      <3>6. /\ DOMAIN flat' = 0 .. start[cursor.next] - 1
            /\ flat' = [p \in DOMAIN flat' |-> p]
        BY <3>1, <3>4
      <3>7. /\ \A p \in DOMAIN flat' : p \in Nat /\ p < start'[plan'.next]
            /\ \A p \in Nat : p < start'[plan'.next] => p \in DOMAIN flat'
        BY <2>1, <3>1, <3>4, <3>6
      <3>. QED
        BY <2>1, <3>1, <3>4, <3>5, <3>6, <3>7 DEF Plans
    <2>3. CASE ~CanFinish
      <3>1. plan' = [next |-> 0, offset |-> 0, room |-> Total] /\ flat' = Empty
        BY <1>5, <2>3 DEF BeginGather
      <3>2. DOMAIN flat' = {} /\ flat' = [p \in DOMAIN flat' |-> p]
        BY <3>1 DEF Empty
      <3>3. Total' <= plan'.room
        BY <2>1, <3>1, <1>facts DEF Total
      <3>. QED
        BY <2>1, <3>1, <3>2, <3>3, <1>facts DEF Plans
    <2>. QED
      BY <2>2, <2>3
  <1>6. CASE PlanCopy
    <2> DEFINE k == plan.next
    <2>1. /\ k \in Chunks /\ phase = "plan" /\ phase' = phase
          /\ UNCHANGED <<n, start, flat, encoded>>
          /\ plan'.next = k + 1 /\ plan'.room = plan.room
          /\ plan'.offset = start[k] + LenOf(k)
          /\ DOMAIN pending' = DOMAIN pending \cup {k}
          /\ pending'[k] = start[k]
          /\ \A i \in DOMAIN pending : i # k => pending'[i] = pending[i]
      BY <1>6, <1>facts DEF PlanCopy, Chunks, TypeOK, Plans
    <2>2. plan'.offset = start[k + 1] /\ start[k] <= start[k + 1] /\ start[k] \in Nat
          /\ start[k + 1] \in Nat /\ k \in Nat
      <3>1. k \in Nat /\ k \in 0 .. n /\ k + 1 \in 0 .. n /\ k <= k + 1
        BY <2>1, <1>facts DEF Chunks
      <3>2. start[k] \in Nat /\ start[k + 1] \in Nat
        BY <1>facts, <3>1
      <3>3. start[k] <= start[k + 1]
        BY <1>facts, <3>1
      <3>4. plan'.offset = start[k] + (start[k + 1] - start[k])
        BY <2>1 DEF LenOf
      <3>. HIDE DEF k
      <3>. QED BY ONLY <3>1, <3>2, <3>3, <3>4
    <2>3. \A i \in DOMAIN pending' : pending'[i] = start[i] /\ i < k + 1
      <3>1. ASSUME NEW i \in DOMAIN pending
            PROVE  pending[i] = start[i] /\ i < k /\ i \in Nat
        BY <2>1 DEF Plans, TypeOK, Chunks
      <3>2. \A i \in Nat : i < k => i # k /\ i < k + 1
        BY <2>2
      <3>. QED
        BY <2>1, <2>2, <3>1, <3>2
    <2>4. \A p \in DOMAIN flat : p \in Nat /\ p < start[k + 1]
      BY <2>1, <2>2 DEF Plans
    <2>5. \A i \in DOMAIN pending', p \in DOMAIN flat : ~(start[i] <= p /\ p < start[i + 1])
      BY <2>1, <2>2 DEF Plans
    <2>6. ASSUME NEW p \in Nat, p < start[k + 1]
          PROVE  \/ p \in DOMAIN flat
                 \/ \E i \in DOMAIN pending' : start[i] <= p /\ p < start[i + 1]
      <3>1. CASE p < start[k]
        BY <2>1, <3>1 DEF Plans
      <3>2. CASE start[k] <= p
        BY <2>1, <2>6, <3>2
      <3>. QED
        BY <2>2, <3>1, <3>2
    <2>7. Total' <= plan'.room /\ encoded' = Chunks' /\ flat' = [p \in DOMAIN flat' |-> p]
      BY <2>1 DEF Plans, Total, Chunks
    <2>. QED
      BY <2>1, <2>2, <2>3, <2>4, <2>5, <2>6, <2>7 DEF Plans
  <1>7. CASE BeginCopy
    BY <1>7 DEF BeginCopy, Plans, Total, Chunks
  <1>8. ASSUME NEW i \in Chunks, CopyRest(i) PROVE Plans'
    <2> DEFINE R == start[i] .. start[i + 1] - 1
    <2>1. /\ phase = "copy" /\ phase' = phase /\ i \in DOMAIN pending
          /\ UNCHANGED <<n, start, encoded, plan>>
          /\ DOMAIN pending' = DOMAIN pending \ {i}
          /\ \A j \in DOMAIN pending' : pending'[j] = pending[j]
          /\ pending[i] = start[i] /\ i < plan.next
      BY <1>8 DEF CopyRest, Plans
    <2>2. /\ start[i] \in Nat /\ start[i + 1] \in Nat /\ LenOf(i) = start[i + 1] - start[i]
          /\ LenOf(i) \in Nat /\ plan.next \in 0 .. n /\ i + 1 <= plan.next
          /\ start[i + 1] <= start[plan.next]
      <3>1. plan.next \in 0 .. n
        BY DEF TypeOK
      <3>2. i \in 0 .. n /\ i + 1 \in 0 .. n /\ i + 1 <= plan.next
        BY <2>1, <3>1, <1>facts
      <3>. QED
        BY <3>1, <3>2, <1>facts
    <2>3. pending[i] .. pending[i] + LenOf(i) - 1 = R
      BY <2>1, <2>2
    <2>4. flat' = [p \in DOMAIN flat \cup R |-> IF p \in R THEN start[i] + (p - start[i]) ELSE flat[p]]
      BY <1>8, <2>1, <2>3 DEF CopyRest, Copied
    <2>5. DOMAIN flat' = DOMAIN flat \cup R
      BY <2>4
    <2>6. \A p \in DOMAIN flat' : flat'[p] = p
      <3>1. \A p \in DOMAIN flat : flat[p] = p
        BY <2>1 DEF Plans
      <3>2. \A p \in R : start[i] + (p - start[i]) = p
        BY <2>2
      <3>. QED
        BY <2>4, <2>5, <3>1, <3>2
    <2>7. flat' = [p \in DOMAIN flat' |-> p]
      BY <2>4, <2>5, <2>6
    <2>8. \A p \in DOMAIN flat' : p \in Nat /\ p < start[plan.next]
      <3>1. \A p \in DOMAIN flat : p \in Nat /\ p < start[plan.next]
        BY <2>1 DEF Plans
      <3>2. start[plan.next] \in Nat
        BY <2>2, <1>facts
      <3>3. \A p \in R : p \in Nat /\ p < start[plan.next]
        BY <2>2, <3>2
      <3>. QED
        BY <2>5, <3>1, <3>3
    <2>9. ASSUME NEW j \in DOMAIN pending', NEW p \in DOMAIN flat'
          PROVE  ~(start[j] <= p /\ p < start[j + 1])
      <3>1. CASE p \in DOMAIN flat
        BY <2>1, <2>9, <3>1 DEF Plans
      <3>2. CASE p \in R
        <4>1. j \in Chunks /\ j # i
          BY <2>1, <2>9 DEF TypeOK
        <4>2. start[j + 1] <= start[i] \/ start[i + 1] <= start[j]
          BY <4>1, ChunksApart
        <4>3. start[j] \in Nat /\ start[j + 1] \in Nat
          BY <4>1, Bounds
        <4>4. p \in Nat /\ start[i] <= p /\ p < start[i + 1]
          <5>1. \A a, b \in Nat : p \in a .. b - 1 => p \in Nat /\ a <= p /\ p < b
            OBVIOUS
          <5>2. start[i] \in Nat /\ start[i + 1] \in Nat /\ p \in start[i] .. start[i + 1] - 1
            BY <3>2, <2>2
          <5>. QED
            BY <5>1, <5>2
        <4>. QED
          BY <4>2, <4>3, <4>4, <2>2
      <3>. QED
        BY <2>5, <3>1, <3>2
    <2>10. ASSUME NEW p \in Nat, p < start[plan.next]
           PROVE  \/ p \in DOMAIN flat'
                  \/ \E j \in DOMAIN pending' : start[j] <= p /\ p < start[j + 1]
      <3>1. \/ p \in DOMAIN flat
            \/ \E j \in DOMAIN pending : start[j] <= p /\ p < start[j + 1]
        BY <2>1, <2>10 DEF Plans
      <3>2. start[i] <= p /\ p < start[i + 1] => p \in R
        BY <2>2
      <3>. QED
        BY <2>1, <2>5, <3>1, <3>2
    <2>11. Total' <= plan'.room /\ encoded' = Chunks'
      BY <2>1 DEF Plans, Total, Chunks
    <2>. QED
      BY <2>1, <2>7, <2>8, <2>9, <2>10, <2>11 DEF Plans
  <1>9. CASE Return
    <2>1. encoded' = Chunks' /\ bad' = {}
      BY <1>9 DEF Return, Plans, Chunks, Claims, TypeOK
    <2>. QED
      BY <1>9, <2>1, PlansFrame DEF Return
  <1>10. ASSUME NEW t \in Tasks, Task(t) PROVE Plans'
    BY <1>10, PlansTask
  <1>11. CASE UNCHANGED vars
    BY <1>11 DEF vars, Plans, Total, Chunks
  <1>. QED
    BY <1>1, <1>2, <1>3, <1>4, <1>5, <1>6, <1>7, <1>8, <1>9, <1>10, <1>11
    DEF Next, Caller

(* What the caller gets back, and when. *)
LEMMA ResultsStep == IInv /\ [Next]_vars => Results'
  <1> SUFFICES ASSUME IInv, [Next]_vars PROVE Results'
    OBVIOUS
  <1>0. TypeOK /\ Results /\ Scheduling /\ Plans /\ n \in Nat /\ Total \in Nat
    BY LayoutFacts DEF IInv
  <1> USE <1>0 DEF input, taskVars, callerVars, Results, DeliveredIsSerial, Total
  <1>1. CASE EncodeInline
    BY <1>1 DEF EncodeInline
  <1>2. CASE ReturnInline
    BY <1>2 DEF ReturnInline
  <1>3. CASE FanOut
    BY <1>3 DEF FanOut
  <1>4. CASE ResumePanic
    BY <1>4 DEF ResumePanic
  <1>5. CASE BeginGather
    BY <1>5 DEF BeginGather
  <1>6. CASE PlanCopy
    BY <1>6 DEF PlanCopy
  <1>7. CASE BeginCopy
    BY <1>7 DEF BeginCopy
  <1>8. ASSUME NEW i \in Chunks, CopyRest(i) PROVE Results'
    BY <1>8 DEF CopyRest
  <1>9. CASE Return
    <2>1. /\ result' = flat /\ phase' = "returned" /\ start' = start /\ n' = n
          /\ phase = "copy" /\ DOMAIN pending = {} /\ plan.next = n
      BY <1>9 DEF Return, Plans
    <2>2. DOMAIN flat = 0 .. Total - 1
      <3>1. \A p \in DOMAIN flat : p \in 0 .. Total - 1
        BY <2>1 DEF Plans
      <3>2. \A p \in 0 .. Total - 1 : p \in DOMAIN flat
        BY <2>1 DEF Plans
      <3>. QED
        BY <3>1, <3>2
    <2>3. flat = [p \in 0 .. Total - 1 |-> p]
      BY <2>1, <2>2 DEF Plans
    <2>. QED
      BY <2>1, <2>3
  <1>10. ASSUME NEW t \in Tasks, Task(t) PROVE Results'
    <2>1. UNCHANGED <<callerVars, input>>
      BY <1>10 DEF Task, Claim, Encode, EncodePanics, TryLock, DrainCopy, DrainBump,
                   DrainOverflow, DrainStop, Unlock
    <2>. QED
      BY <2>1
  <1>11. CASE UNCHANGED vars
    BY <1>11 DEF vars
  <1>. QED
    BY <1>1, <1>2, <1>3, <1>4, <1>5, <1>6, <1>7, <1>8, <1>9, <1>10, <1>11
    DEF Next, Caller

LEMMA IInvInit == Init => IInv
  <1> SUFFICES ASSUME Init PROVE IInv
    OBVIOUS
  <1>1. TypeOK
    BY TypeInit
  <1>2. \A t \in Tasks : t # NoTask
    BY GatherAssumption DEF Tasks
  <1>3. Scheduling /\ Locking
    BY <1>1, <1>2 DEF Init, Scheduling, Locking, Active
  <1>4. Claims
    BY <1>1 DEF Init, Claims
  <1>5. Commits
    BY <1>1 DEF Init, Commits, CommittedPrefix, OverflowIsReal
  <1>6. Plans /\ Results
    BY <1>1 DEF Init, Plans, Results, DeliveredIsSerial, Empty
  <1>. QED
    BY <1>1, <1>3, <1>4, <1>5, <1>6 DEF IInv

LEMMA IInvStep == IInv /\ [Next]_vars => IInv'
  BY TypeStep, SchedulingStep, LockingStep, ClaimsStep, CommitsStep, PlansStep,
     ResultsStep DEF IInv

(* The inductive invariant holds in every reachable state. *)
THEOREM Inductive == Spec => []IInv
  BY IInvInit, IInvStep, PTL DEF Spec

------------------------------------------------------------------------------
(* Every variable keeps its type, for any number of chunks and tasks. *)
THEOREM TypeCorrect == Spec => []TypeOK
  <1>1. IInv => TypeOK
    BY DEF IInv
  <1>. QED
    BY <1>1, Inductive, PTL

(* Committer: the shared buffer holds exactly the committed prefix, within *)
(* the reservation, whatever the tasks' interleaving and the drain limit.  *)
THEOREM CommitsArePrefix == Spec => []CommittedPrefix
  <1>1. IInv => CommittedPrefix
    BY DEF IInv, Commits
  <1>. QED
    BY <1>1, Inductive, PTL

(* Handout: no two tasks ever hold the same chunk, and none is encoded     *)
(* twice.                                                                  *)
THEOREM ClaimsAreUnique == Spec => []ClaimedOnce
  <1>1. IInv => ClaimedOnce
    BY DEF IInv, Claims, ClaimedOnce
  <1>. QED
    BY <1>1, Inductive, PTL

(* encode_chunks_gathered: a call that returns hands back the serial       *)
(* concatenation, on the overlapped path and on both fallbacks.            *)
THEOREM ReturnsSerial == Spec => []DeliveredIsSerial
  <1>1. IInv => DeliveredIsSerial
    BY DEF IInv, Results
  <1>. QED
    BY <1>1, Inductive, PTL

(* The scope's join: no chunk is missing when the gather begins.           *)
THEOREM NothingLost == Spec => []NoChunkLost
  <1>1. IInv => NoChunkLost
    BY DEF IInv, Plans, NoChunkLost
  <1>. QED
    BY <1>1, Inductive, PTL

(* The overflow escape is taken only by outputs that exceed the            *)
(* reservation, whatever was committed before it.                          *)
THEOREM OverflowsAreReal == Spec => []OverflowIsReal
  <1>1. IInv => OverflowIsReal
    BY DEF IInv, Commits
  <1>. QED
    BY <1>1, Inductive, PTL

(* The call panics only if the encode of a chunk did, and returns only if  *)
(* none did.                                                               *)
THEOREM PanicsAreReported == Spec => []PanicsReported
  <1>1. IInv => PanicsReported
    BY DEF IInv, Plans, Scheduling, PanicsReported
  <1>. QED
    BY <1>1, Inductive, PTL

(* finish and gather_flat: the copies that run without a lock write        *)
(* disjoint, unwritten, in-bounds ranges.                                  *)
THEOREM CopiesNeverOverlap == Spec => []CopiesDisjoint
  <1>1. IInv => CopiesDisjoint
    <2> SUFFICES ASSUME IInv, phase = "copy", NEW i \in DOMAIN pending
                 PROVE  LET range(c) == pending[c] .. pending[c] + LenOf(c) - 1 IN
                        /\ range(i) \subseteq 0 .. plan.room - 1
                        /\ range(i) \cap DOMAIN flat = {}
                        /\ \A j \in DOMAIN pending \ {i} : range(i) \cap range(j) = {}
      BY DEF CopiesDisjoint
    <2>1. /\ n \in Nat /\ Total \in Nat /\ plan.room \in Nat /\ Total <= plan.room
          /\ DOMAIN pending \subseteq Chunks
          /\ start \in [0 .. n -> Nat]
          /\ \A j, k \in 0 .. n : j <= k => start[j] <= start[k]
          /\ \A j \in Chunks : /\ j + 1 \in 0 .. n /\ j \in 0 .. n /\ LenOf(j) \in Nat
                              /\ start[j + 1] <= Total /\ LenOf(j) = start[j + 1] - start[j]
      BY LayoutFacts DEF IInv, TypeOK, Plans
    <2>2. \A j \in DOMAIN pending : pending[j] .. pending[j] + LenOf(j) - 1 = start[j] .. start[j + 1] - 1
      <3>1. \A j \in DOMAIN pending : pending[j] = start[j]
        BY DEF IInv, Plans
      <3>2. ASSUME NEW j \in DOMAIN pending
            PROVE  start[j] + LenOf(j) - 1 = start[j + 1] - 1
        <4>1. j \in Chunks /\ TypeOK
          BY <2>1 DEF IInv
        <4>2. start[j] \in Nat /\ start[j + 1] \in Nat /\ start[j] + LenOf(j) = start[j + 1]
          BY <4>1, Bounds
        <4>3. LenOf(j) \in Nat
          BY <2>1, <4>1
        <4>. QED
          BY <4>2, <4>3
      <3>. QED
        BY <3>1, <3>2
    <2>3. (start[i] .. start[i + 1] - 1) \subseteq 0 .. plan.room - 1
      BY <2>1
    <2>4. (start[i] .. start[i + 1] - 1) \cap DOMAIN flat = {}
      BY <2>1 DEF IInv, Plans
    <2>5. ASSUME NEW j \in DOMAIN pending \ {i}
          PROVE  (start[i] .. start[i + 1] - 1) \cap (start[j] .. start[j + 1] - 1) = {}
      <3>1. i \in Chunks /\ j \in Chunks /\ i # j
        BY <2>1
      <3>2. start[j + 1] <= start[i] \/ start[i + 1] <= start[j]
        BY <3>1, ChunksApart DEF IInv
      <3>3. /\ start[i] \in Nat /\ start[i + 1] \in Nat
            /\ start[j] \in Nat /\ start[j + 1] \in Nat
        BY <3>1, Bounds DEF IInv
      <3>. QED
        BY <3>2, <3>3
    <2>. QED
      BY <2>2, <2>3, <2>4, <2>5
  <1>. QED
    BY <1>1, Inductive, PTL

------------------------------------------------------------------------------
(* Refinement: every step of the call is a step of OrderedGather or leaves *)
(* its variables alone.                                                    *)
LEMMA OrderedInit == Init => Ordered!Init
  <1> SUFFICES ASSUME Init PROVE Ordered!Init
    OBVIOUS
  <1>1. Failed = {}
    BY DEF Init, Failed
  <1>. QED
    BY <1>1 DEF Init, Ordered!Init

LEMMA OrderedStep == IInv /\ IInv' /\ [Next]_vars => [Ordered!Next]_(Ordered!ogVars)
  <1> SUFFICES ASSUME IInv, IInv', [Next]_vars
               PROVE  [Ordered!Next]_(Ordered!ogVars)
    OBVIOUS
  <1>0. TypeOK /\ Claims /\ Scheduling /\ Results /\ Plans /\ n \in Nat
    BY LayoutFacts DEF IInv
  <1> USE <1>0 DEF input, taskVars, callerVars, Goto, AfterAdvance
  <1> DEFINE Dead == {idx[t] : t \in {u \in Tasks : pc[u] = "dead"}}
  <1>stay. ASSUME UNCHANGED <<n, start, encoded, result, pc, idx, bad>>,
                  phase \notin {"unwind", "panicked"} \/ n > 1,
                  phase' \notin {"unwind", "panicked"} \/ n > 1
           PROVE  UNCHANGED (Ordered!ogVars)
    BY <1>stay DEF Failed, Ordered!ogVars
  <1>1. CASE EncodeInline
    <2>1. Dead = {} /\ Dead' = {}
      BY <1>1 DEF EncodeInline, Scheduling
    <2>2. CASE n = 0
      <3>1. bad = {} /\ encoded = {} /\ Chunks = {}
        BY <2>2 DEF TypeOK, Chunks
      <3>. QED
        BY <1>1, <2>1, <3>1 DEF EncodeInline, Failed, Ordered!ogVars
    <2>3. CASE n = 1
      <3>1. Chunks = {0} /\ encoded = {} /\ Failed = {}
        BY <1>1, <2>1, <2>3 DEF Chunks, EncodeInline, Claims, Failed
      <3>2. CASE bad = {}
        <4>1. encoded' = encoded \cup {0} /\ Failed' = Failed
              /\ UNCHANGED <<n, start, result>>
          BY <1>1, <2>1, <3>1, <3>2 DEF EncodeInline, Failed
        <4>2. Ordered!Encode(0)
          BY <2>3, <3>1, <4>1 DEF Ordered!Encode, Ordered!Chunks
        <4>. QED
          BY <3>1, <4>2, <2>3 DEF Ordered!Next, Ordered!Chunks
      <3>3. CASE bad # {}
        <4>1. bad = {0}
          BY <3>1, <3>3 DEF TypeOK
        <4>2. encoded' = encoded /\ Failed' = Failed \cup {0}
              /\ UNCHANGED <<n, start, result>>
          BY <1>1, <2>1, <2>3, <3>1, <4>1 DEF EncodeInline, Failed
        <4>3. Ordered!Fail(0)
          BY <2>3, <3>1, <4>2 DEF Ordered!Fail, Ordered!Chunks
        <4>. QED
          BY <4>3, <2>3 DEF Ordered!Next, Ordered!Chunks
      <3>. QED
        BY <3>2, <3>3
    <2>. QED
      BY <1>1, <2>2, <2>3 DEF EncodeInline
  <1>2. CASE ReturnInline
    <2>1. Failed' = Failed /\ UNCHANGED <<n, start, encoded>>
      BY <1>2 DEF ReturnInline, Failed
    <2>2. result = NoResult /\ result' = [p \in 0 .. start[n] - 1 |-> p] /\ encoded = Chunks
      BY <1>2 DEF ReturnInline, Results, Scheduling, Total
    <2>3. Ordered!Deliver
      BY <2>1, <2>2 DEF Ordered!Deliver, Ordered!Chunks, Ordered!Serial, Chunks
    <2>. QED
      BY <2>3 DEF Ordered!Next
  <1>3. CASE FanOut
    <2>1. Failed = {} /\ Failed' = {}
      BY <1>3 DEF FanOut, Failed, Scheduling
    <2>. QED
      BY <1>3, <2>1 DEF FanOut, Ordered!ogVars
  <1>4. CASE ResumePanic
    <2>1. result = NoResult /\ result' = Panic
          /\ UNCHANGED <<n, start, encoded, idx, pc, bad>> /\ phase' = "panicked"
      BY <1>4 DEF ResumePanic, Results
    <2>2. CASE phase = "unwind"
      <3>1. Failed' = Failed
        BY <2>1, <2>2 DEF Failed
      <3>2. n <= 1 /\ bad # {} /\ bad \subseteq Failed
        BY <2>2 DEF Scheduling, Failed
      <3>3. Ordered!Abort
        BY <2>1, <3>1, <3>2 DEF Ordered!Abort
      <3>. QED
        BY <3>3 DEF Ordered!Next
    <2>3. CASE phase # "unwind"
      <3>1. n > 1 /\ \E t \in Tasks : pc[t] = "dead"
        BY <1>4, <2>3 DEF ResumePanic, Scheduling, Spawned
      <3>2. Failed' = Failed /\ Failed # {}
        BY <2>1, <3>1 DEF Failed
      <3>3. Ordered!Abort
        BY <2>1, <3>2 DEF Ordered!Abort
      <3>. QED
        BY <3>3 DEF Ordered!Next
    <2>. QED
      BY <2>2, <2>3
  <1>5. CASE BeginGather
    BY <1>5, <1>stay DEF BeginGather
  <1>6. CASE PlanCopy
    BY <1>6, <1>stay DEF PlanCopy
  <1>7. CASE BeginCopy
    BY <1>7, <1>stay DEF BeginCopy
  <1>8. ASSUME NEW i \in Chunks, CopyRest(i) PROVE UNCHANGED (Ordered!ogVars)
    BY <1>8, <1>stay DEF CopyRest
  <1>9. CASE Return
    <2>1. Failed' = Failed /\ UNCHANGED <<n, start, encoded>> /\ encoded = Chunks
      BY <1>9 DEF Return, Failed, Plans
    <2>2. result = NoResult /\ result' = [p \in 0 .. start[n] - 1 |-> p]
      BY <1>9, <2>1 DEF Return, Results, DeliveredIsSerial, IInv, Total
    <2>3. Ordered!Deliver
      BY <2>1, <2>2 DEF Ordered!Deliver, Ordered!Chunks, Ordered!Serial, Chunks
    <2>. QED
      BY <2>3 DEF Ordered!Next
  <1>10. ASSUME NEW t \in Tasks, Encode(t) PROVE Ordered!Next
    <2>1. phase = "scope" /\ phase' = phase /\ n > 1
      BY <1>10 DEF Encode, Scheduling, Active
    <2>2. Dead' = Dead
      BY <1>10 DEF Encode, TypeOK
    <2>3. Failed = Dead /\ Failed' = Failed
      BY <1>10, <2>1, <2>2 DEF Failed, Encode
    <2>4. idx[t] \in Chunks \ (encoded \cup Dead)
      BY <1>10 DEF Encode, Claims
    <2>5. Ordered!Encode(idx[t])
      BY <1>10, <2>3, <2>4 DEF Encode, Ordered!Encode, Ordered!Chunks, Chunks
    <2>. QED
      BY <2>4, <2>5 DEF Ordered!Next, Ordered!Chunks, Chunks
  <1>11. ASSUME NEW t \in Tasks, EncodePanics(t) PROVE Ordered!Next
    <2>1. phase = "scope" /\ phase' = phase /\ n > 1
      BY <1>11 DEF EncodePanics, Scheduling, Active
    <2>2. Dead' = Dead \cup {idx[t]}
      BY <1>11 DEF EncodePanics, TypeOK
    <2>3. Failed = Dead /\ Failed' = Dead'
      BY <1>11, <2>1 DEF Failed, EncodePanics
    <2>4. idx[t] \in Chunks \ (encoded \cup Dead)
      BY <1>11 DEF EncodePanics, Claims
    <2>5. Ordered!Fail(idx[t])
      BY <1>11, <2>2, <2>3, <2>4 DEF EncodePanics, Ordered!Fail, Ordered!Chunks, Chunks
    <2>. QED
      BY <2>4, <2>5 DEF Ordered!Next, Ordered!Chunks, Chunks
  <1>12. ASSUME NEW t \in Tasks,
                \/ Claim(t) \/ TryLock(t) \/ DrainCopy(t) \/ DrainBump(t)
                \/ DrainOverflow(t) \/ DrainStop(t) \/ Unlock(t)
         PROVE  UNCHANGED (Ordered!ogVars)
    <2>1. pc[t] \in Active \ {"encode"}
      BY <1>12 DEF Claim, TryLock, DrainCopy, DrainBump, DrainOverflow, DrainStop,
                   Unlock, Active
    <2>2. /\ UNCHANGED <<n, start, encoded, result, phase, bad>>
          /\ phase = "scope" /\ n > 1
      BY <1>12, <2>1 DEF Claim, TryLock, DrainCopy, DrainBump, DrainOverflow,
                   DrainStop, Unlock, Scheduling
    <2>3. /\ \A u \in Tasks : pc'[u] = "dead" <=> pc[u] = "dead"
          /\ \A u \in Tasks : pc[u] = "dead" => idx'[u] = idx[u]
      BY <1>12, <2>1 DEF Claim, TryLock, DrainCopy, DrainBump, DrainOverflow,
                   DrainStop, Unlock, Active, TypeOK
    <2>4. Failed' = Failed
      BY <2>2, <2>3 DEF Failed
    <2>. QED
      BY <2>2, <2>4 DEF Ordered!ogVars
  <1>13. CASE UNCHANGED vars
    BY <1>13 DEF vars, Failed, Ordered!ogVars
  <1>. QED
    BY <1>1, <1>2, <1>3, <1>4, <1>5, <1>6, <1>7, <1>8, <1>9, <1>10, <1>11, <1>12, <1>13
    DEF Next, Caller, Task

(* The parallel call implements the contract of OrderedGather. *)
THEOREM ImplementsOrdered == Spec => OrderedSpec
  <1>. QED
    BY Inductive, OrderedInit, OrderedStep, PTL DEF Spec, OrderedSpec, Ordered!Spec

------------------------------------------------------------------------------
(* WorkerPool. *)

(* The number of slots. *)
N == Cardinality(Rayon)

(* A mutex is held by the thread that is inside its slot, and only then.   *)
Ownership ==
  /\ \A a \in Actors : Holding(a) => owner[at[a]] = a
  /\ \A s \in Guards :
       owner[s] # Nobody => Holding(owner[s]) /\ at[owner[s]] = s
  /\ \A a \in Actors : step[a] = "wait" => at[a] = Serial

(* A worker that is neither in use nor behind a poison is consistent. *)
Soundness ==
  /\ \A s \in Guards :
       owner[s] = Nobody /\ ~poisoned[s] /\ worker[s] # NoWorker => worker[s].sound
  /\ \A a \in Actors :
       step[a] = "fork" /\ worker[at[a]] # NoWorker => worker[at[a]].sound
  /\ \A a \in Actors : step[a] = "encode" => worker[at[a]] # NoWorker

(* The threads at slot k or beyond, trying or holding it. *)
Ahead(k) ==
  {a \in Actors : step[a] \in {"try", "fork", "encode"} /\ k <= at[a]}

(***************************************************************************)
(* Why a scan cannot fail: at slot k and beyond there are never more       *)
(* threads than slots.  A thread moves on from slot k only when another    *)
(* one holds it, and that one stays behind.                                *)
(***************************************************************************)
Crowding ==
  ~contended =>
    /\ \A a \in Outsiders : step[a] \notin {"try", "yield"} /\ at[a] = Serial
    /\ \A a \in Actors : step[a] # "yield"
    /\ \A k \in Slots : Cardinality(Ahead(k)) <= N - k + 1

PoolInv == PoolTypeOK /\ Ownership /\ Soundness /\ Crowding

------------------------------------------------------------------------------
(* Facts. *)

LEMMA SlotsFact ==
  /\ N \in Nat \ {0}
  /\ Slots = 1 .. N
  /\ Slots \subseteq Guards
  /\ Serial \in Guards
  /\ Serial \notin Slots
  /\ 1 \in Slots
  /\ \A s \in Slots : s \in Nat /\ s <= N /\ (s + 1 \in Slots <=> s # N)
  /\ \A a \in Actors : a # Nobody
  /\ \A a \in Rayon : a \in Actors
<1>1. N \in Nat
  BY PoolAssumption, FS_CardinalityType DEF PoolAssumption, N
<1>2. N # 0
  BY PoolAssumption, FS_EmptySet DEF PoolAssumption, N
<1> QED
  BY <1>1, <1>2, PoolAssumption DEF PoolAssumption, Slots, Guards, Serial, N, Actors

(* What stays the same when an action leaves a set of threads alone. *)
LEMMA AheadIsFinite ==
  ASSUME PoolTypeOK, Crowding, ~contended, NEW k \in Slots
  PROVE  Ahead(k) \subseteq Rayon /\ IsFiniteSet(Ahead(k))
<1>1. \A a \in Ahead(k) : a \in Rayon
  BY SlotsFact DEF Ahead, Crowding, Actors, Serial
<1> QED
  BY <1>1, PoolAssumption, FS_Subset DEF PoolAssumption

(* Threads may leave the crowd freely. *)
LEMMA CrowdShrinks ==
  ASSUME PoolTypeOK, Crowding, ~contended,
         NEW k \in Slots, NEW S, S \subseteq Ahead(k)
  PROVE  Cardinality(S) <= N - k + 1
<1>1. IsFiniteSet(Ahead(k)) /\ IsFiniteSet(S)
  BY AheadIsFinite, FS_Subset
<1>2. Cardinality(S) <= Cardinality(Ahead(k))
  BY <1>1, FS_Subset
<1>3. /\ Cardinality(S) \in Nat
      /\ Cardinality(Ahead(k)) \in Nat
      /\ N \in Nat
      /\ k \in Nat
  BY <1>1, FS_CardinalityType, SlotsFact
<1> QED
  BY <1>2, <1>3 DEF Crowding

------------------------------------------------------------------------------
(* The steps, one part of the invariant at a time. *)

LEMMA PoolInitHolds == PoolInit => PoolInv
  <1> SUFFICES ASSUME PoolInit PROVE PoolInv
    OBVIOUS
  <1> USE SlotsFact
  <1>1. PoolTypeOK
    <2>1. 0 \in 0 .. MaxUses /\ 0 \in 0 .. MaxPoolPanics /\ 0 \in Guards
      BY PoolAssumption DEF PoolAssumption, Serial
    <2>2. uses \in [Actors -> 0 .. MaxUses] /\ panics \in 0 .. MaxPoolPanics
      BY <2>1 DEF PoolInit
    <2>3. at \in [Actors -> Guards] /\ forks \in [Guards -> Nat]
      BY <2>1 DEF PoolInit, Serial
    <2> QED
      BY <2>2, <2>3 DEF PoolInit, PoolTypeOK
  <1>2. Ownership
    BY DEF PoolInit, Ownership, Holding
  <1>3. Soundness
    BY DEF PoolInit, Soundness
  <1>4. Crowding
    <2>1. ASSUME NEW k \in Slots PROVE Cardinality(Ahead(k)) <= N - k + 1
      <3>1. Ahead(k) = {}
        BY DEF PoolInit, Ahead
      <3>2. Cardinality(Ahead(k)) = 0
        BY <3>1, FS_EmptySet
      <3> QED
        BY <3>2
    <2> QED
      BY <2>1 DEF PoolInit, Crowding, Actors
  <1> QED
    BY <1>1, <1>2, <1>3, <1>4 DEF PoolInv

LEMMA AtFact ==
  ASSUME PoolTypeOK, NEW a \in Actors
  PROVE  /\ at[a] \in Guards
         /\ forks[at[a]] \in Nat
         /\ forks[at[a]] + 1 \in Nat
         /\ worker[at[a]] \in [id : Nat, sound : BOOLEAN] \cup {NoWorker}
  <1>1. at \in [Actors -> Guards] /\ forks \in [Guards -> Nat]
    BY DEF PoolTypeOK
  <1>2. worker \in [Guards -> [id : Nat, sound : BOOLEAN] \cup {NoWorker}]
    BY DEF PoolTypeOK
  <1>3. at[a] \in Guards
    BY <1>1
  <1>4. forks[at[a]] \in Nat
    BY <1>1, <1>3
  <1> QED
    BY <1>2, <1>3, <1>4

LEMMA UsesFact ==
  ASSUME PoolTypeOK, NEW a \in Actors, uses[a] < MaxUses
  PROVE  [uses EXCEPT ![a] = @ + 1] \in [Actors -> 0 .. MaxUses]
  BY PoolAssumption DEF PoolTypeOK, PoolAssumption

LEMMA PoolTypeStep == PoolTypeOK /\ Ownership /\ Soundness /\ [PoolNext]_poolVars => PoolTypeOK'
  <1> SUFFICES ASSUME PoolTypeOK, Ownership, Soundness, [PoolNext]_poolVars PROVE PoolTypeOK'
    OBVIOUS
  <1> USE SlotsFact DEF PoolTypeOK, Reach
  <1>1. ASSUME NEW a \in Actors, Enter(a) PROVE PoolTypeOK'
    <2>1. uses' \in [Actors -> 0 .. MaxUses]
      BY <1>1, UsesFact DEF Enter
    <2>2. contended' \in BOOLEAN
      BY <1>1 DEF Enter
    <2> QED
      BY <1>1, <2>1, <2>2 DEF Enter
  <1>2. ASSUME NEW a \in Actors, EnterSerial(a) PROVE PoolTypeOK'
    <2>1. uses' \in [Actors -> 0 .. MaxUses]
      BY <1>2, UsesFact DEF EnterSerial
    <2>2. contended' \in BOOLEAN
      BY <1>2 DEF EnterSerial
    <2> QED
      BY <1>2, <2>1, <2>2 DEF EnterSerial
  <1>3. ASSUME NEW a \in Actors, TrySlot(a) PROVE PoolTypeOK'
    BY <1>3 DEF TrySlot, Acquire, Discard
  <1>4. ASSUME NEW a \in Actors, SlotBusy(a) PROVE PoolTypeOK'
    <2>1. /\ step[a] = "try" /\ at[a] \in Slots
          /\ UNCHANGED <<owner, poisoned, worker, forks, panics, uses, contended>>
      BY <1>4 DEF SlotBusy
    <2>2. CASE at[a] + 1 \in Slots
      <3>1. at' = [at EXCEPT ![a] = at[a] + 1] /\ step' = step
        BY <1>4, <2>2 DEF SlotBusy
      <3> QED
        BY <2>1, <2>2, <3>1
    <2>3. CASE at[a] + 1 \notin Slots
      <3>1. at' = at /\ step' = [step EXCEPT ![a] = "yield"]
        BY <1>4, <2>3 DEF SlotBusy
      <3> QED
        BY <2>1, <3>1
    <2> QED
      BY <2>2, <2>3
  <1>5. ASSUME NEW a \in Actors, Yield(a) PROVE PoolTypeOK'
    BY <1>5 DEF Yield
  <1>6. ASSUME NEW a \in Actors, LockSerial(a) PROVE PoolTypeOK'
    BY <1>6 DEF LockSerial, Acquire, Discard
  <1>7. ASSUME NEW a \in Actors, ForkAndStart(a) PROVE PoolTypeOK'
    <2>1. at[a] \in Guards /\ forks[at[a]] + 1 \in Nat
      BY AtFact
    <2>2. forks' \in [Guards -> Nat]
      <3>1. \/ forks' = forks
            \/ forks' = [forks EXCEPT ![at[a]] = forks[at[a]] + 1]
        BY <1>7 DEF ForkAndStart
      <3>2. forks \in [Guards -> Nat]
        OBVIOUS
      <3> HIDE DEF PoolTypeOK
      <3> QED
        BY <2>1, <3>1, <3>2
    <2>3. CASE worker[at[a]] = NoWorker
      <3>1. worker' = [worker EXCEPT ![at[a]] = [id |-> forks[at[a]] + 1, sound |-> FALSE]]
        BY <1>7, <2>3 DEF ForkAndStart
      <3>2. [id |-> forks[at[a]] + 1, sound |-> FALSE] \in [id : Nat, sound : BOOLEAN]
        BY <2>1
      <3>3. worker' \in [Guards -> [id : Nat, sound : BOOLEAN] \cup {NoWorker}]
        BY <2>1, <3>1, <3>2
      <3> QED
        BY <1>7, <2>2, <3>3 DEF ForkAndStart
    <2>4. CASE worker[at[a]] # NoWorker
      <3>1. worker' = [worker EXCEPT ![at[a]] = [id |-> worker[at[a]].id, sound |-> FALSE]]
        BY <1>7, <2>4 DEF ForkAndStart
      <3>2. [id |-> worker[at[a]].id, sound |-> FALSE] \in [id : Nat, sound : BOOLEAN]
        BY <2>1, <2>4
      <3>3. worker' \in [Guards -> [id : Nat, sound : BOOLEAN] \cup {NoWorker}]
        BY <2>1, <3>1, <3>2
      <3> QED
        BY <1>7, <2>2, <3>3 DEF ForkAndStart
    <2> QED
      BY <2>3, <2>4
  <1>8. ASSUME NEW a \in Actors, Finish(a) PROVE PoolTypeOK'
    BY <1>8 DEF Finish, Soundness
  <1>9. ASSUME NEW a \in Actors, Panics(a) PROVE PoolTypeOK'
    <2>1. panics' \in 0 .. MaxPoolPanics
      BY <1>9, PoolAssumption DEF Panics, PoolAssumption
    <2> QED
      BY <1>9, <2>1 DEF Panics
  <1>10. CASE UNCHANGED poolVars
    BY <1>10 DEF poolVars
  <1> QED
    BY <1>1, <1>2, <1>3, <1>4, <1>5, <1>6, <1>7, <1>8, <1>9, <1>10
    DEF PoolNext, Start, Proceed

LEMMA OwnershipStep == PoolTypeOK /\ Ownership /\ [PoolNext]_poolVars => Ownership'
  <1> SUFFICES ASSUME PoolTypeOK, Ownership, [PoolNext]_poolVars PROVE Ownership'
    OBVIOUS
  <1> USE SlotsFact DEF PoolTypeOK, Ownership, Holding, Reach
  <1>1. ASSUME NEW a \in Actors, Enter(a) PROVE Ownership'
    BY <1>1 DEF Enter
  <1>2. ASSUME NEW a \in Actors, EnterSerial(a) PROVE Ownership'
    BY <1>2 DEF EnterSerial
  <1>3. ASSUME NEW a \in Actors, TrySlot(a) PROVE Ownership'
    BY <1>3 DEF TrySlot, Acquire
  <1>4. ASSUME NEW a \in Actors, SlotBusy(a) PROVE Ownership'
    <2>1. /\ step[a] = "try" /\ step'[a] \in {"try", "yield"}
          /\ UNCHANGED owner
          /\ \A b \in Actors \ {a} : at'[b] = at[b] /\ step'[b] = step[b]
      BY <1>4 DEF SlotBusy
    <2>2. \A b \in Actors : Holding(b)' => b # a /\ Holding(b) /\ at'[b] = at[b]
      BY <2>1 DEF Holding
    <2>3. \A s \in Guards : owner[s] # Nobody => owner[s] \in Actors \ {a}
      BY <2>1
    <2>4. \A b \in Actors : step[b] = "wait" \/ Holding(b) => b # a
      BY <2>1 DEF Holding
    <2>5. \A s \in Guards :
            owner'[s] # Nobody =>
              step'[owner'[s]] \in {"fork", "encode"} /\ at'[owner'[s]] = s
      BY <2>1, <2>3, <2>4 DEF Holding
    <2>6. \A b \in Actors : Holding(b)' => owner'[at'[b]] = b
      BY <2>1, <2>2
    <2>7. \A b \in Actors : step'[b] = "wait" => at'[b] = Serial
      BY <2>1
    <2> QED
      BY <2>5, <2>6, <2>7
  <1>5. ASSUME NEW a \in Actors, Yield(a) PROVE Ownership'
    BY <1>5 DEF Yield
  <1>6. ASSUME NEW a \in Actors, LockSerial(a) PROVE Ownership'
    BY <1>6 DEF LockSerial, Acquire
  <1>7. ASSUME NEW a \in Actors, ForkAndStart(a) PROVE Ownership'
    BY <1>7 DEF ForkAndStart
  <1>8. ASSUME NEW a \in Actors, Finish(a) PROVE Ownership'
    BY <1>8 DEF Finish
  <1>9. ASSUME NEW a \in Actors, Panics(a) PROVE Ownership'
    BY <1>9 DEF Panics
  <1>10. CASE UNCHANGED poolVars
    BY <1>10 DEF poolVars
  <1> QED
    BY <1>1, <1>2, <1>3, <1>4, <1>5, <1>6, <1>7, <1>8, <1>9, <1>10
    DEF PoolNext, Start, Proceed

(* Nobody else is inside the slot that an action of a touches. *)
LEMMA Alone ==
  ASSUME Ownership, NEW a \in Actors, NEW b \in Actors, Holding(a), Holding(b),
         a # b
  PROVE  at[a] # at[b]
  BY DEF Ownership

LEMMA SoundnessStep ==
    PoolTypeOK /\ Ownership /\ Soundness /\ [PoolNext]_poolVars => Soundness'
  <1> SUFFICES ASSUME PoolTypeOK, Ownership, Soundness, [PoolNext]_poolVars PROVE Soundness'
    OBVIOUS
  <1> USE SlotsFact DEF PoolTypeOK, Soundness, Reach
  <1>1. ASSUME NEW a \in Actors, Enter(a) PROVE Soundness'
    BY <1>1 DEF Enter
  <1>2. ASSUME NEW a \in Actors, EnterSerial(a) PROVE Soundness'
    BY <1>2 DEF EnterSerial
  <1>3. ASSUME NEW a \in Actors, TrySlot(a) PROVE Soundness'
    BY <1>3 DEF TrySlot, Acquire, Discard, Ownership, Holding
  <1>4. ASSUME NEW a \in Actors, SlotBusy(a) PROVE Soundness'
    <2>1. /\ step[a] = "try" /\ step'[a] \in {"try", "yield"}
          /\ UNCHANGED <<owner, poisoned, worker>>
          /\ \A b \in Actors \ {a} : at'[b] = at[b] /\ step'[b] = step[b]
      BY <1>4 DEF SlotBusy
    <2> QED
      BY <2>1
  <1>5. ASSUME NEW a \in Actors, Yield(a) PROVE Soundness'
    BY <1>5 DEF Yield
  <1>6. ASSUME NEW a \in Actors, LockSerial(a) PROVE Soundness'
    BY <1>6 DEF LockSerial, Acquire, Discard, Ownership, Holding
  <1>7. ASSUME NEW a \in Actors, ForkAndStart(a) PROVE Soundness'
    <2>1. /\ step[a] = "fork" /\ at[a] \in Guards /\ owner[at[a]] = a
          /\ UNCHANGED <<owner, poisoned, at>>
          /\ step' = [step EXCEPT ![a] = "encode"]
      BY <1>7 DEF ForkAndStart, Ownership, Holding
    <2>2. /\ worker'[at[a]] \in [id : Nat, sound : BOOLEAN]
          /\ \A s \in Guards \ {at[a]} : worker'[s] = worker[s]
      <3>1. [id |-> forks[at[a]] + 1, sound |-> FALSE] \in [id : Nat, sound : BOOLEAN]
        BY AtFact
      <3>2. worker[at[a]] # NoWorker =>
              [id |-> worker[at[a]].id, sound |-> FALSE] \in [id : Nat, sound : BOOLEAN]
        BY AtFact
      <3>3. \/ /\ worker[at[a]] = NoWorker
               /\ worker' = [worker EXCEPT ![at[a]] =
                               [id |-> forks[at[a]] + 1, sound |-> FALSE]]
            \/ /\ worker[at[a]] # NoWorker
               /\ worker' = [worker EXCEPT ![at[a]] =
                               [id |-> worker[at[a]].id, sound |-> FALSE]]
        BY <1>7 DEF ForkAndStart
      <3> QED
        BY <2>1, <3>1, <3>2, <3>3
    <2>3. worker'[at[a]] # NoWorker
      BY <2>2, PoolAssumption DEF PoolAssumption
    <2> QED
      <3>1. \A s \in Guards \ {at[a]} :
              owner[s] = Nobody /\ ~poisoned[s] /\ worker'[s] # NoWorker
                => worker'[s].sound
        BY <2>2
      <3>2. owner'[at[a]] # Nobody
        BY <2>1
      <3>3. \A b \in Actors \ {a} :
              step'[b] \in {"fork", "encode"} =>
                step'[b] = step[b] /\ at[b] \in Guards \ {at[a]}
        BY <2>1, Alone DEF Holding
      <3>4. step'[a] = "encode"
        BY <2>1
      <3>5. \A s \in Guards :
              owner'[s] = Nobody /\ ~poisoned'[s] /\ worker'[s] # NoWorker
                => worker'[s].sound
        BY <2>1, <3>1, <3>2
      <3>6. \A b \in Actors :
              step'[b] = "fork" /\ worker'[at'[b]] # NoWorker => worker'[at'[b]].sound
        BY <2>1, <2>2, <3>3, <3>4
      <3>7. \A b \in Actors : step'[b] = "encode" => worker'[at'[b]] # NoWorker
        <4>1. worker'[at'[a]] # NoWorker
          BY <2>1, <2>3
        <4>2. ASSUME NEW b \in Actors \ {a}, step'[b] = "encode"
              PROVE  worker'[at'[b]] # NoWorker
          <5>1. step[b] = "encode" /\ at[b] \in Guards \ {at[a]} /\ at'[b] = at[b]
            BY <2>1, <3>3, <4>2
          <5>2. worker[at[b]] # NoWorker
            BY <5>1
          <5> QED
            BY <2>2, <5>1, <5>2
        <4> QED
          BY <4>1, <4>2
      <3> QED
        BY <3>5, <3>6, <3>7
  <1>8. ASSUME NEW a \in Actors, Finish(a) PROVE Soundness'
    BY <1>8 DEF Finish, Ownership, Holding
  <1>9. ASSUME NEW a \in Actors, Panics(a) PROVE Soundness'
    BY <1>9 DEF Panics, Ownership, Holding
  <1>10. CASE UNCHANGED poolVars
    BY <1>10 DEF poolVars
  <1> QED
    BY <1>1, <1>2, <1>3, <1>4, <1>5, <1>6, <1>7, <1>8, <1>9, <1>10
    DEF PoolNext, Start, Proceed

(* Every action but SlotBusy leaves the crowd at each slot as it is, or     *)
(* lets a thread out of it.                                                *)
LEMMA CrowdingKept ==
  ASSUME PoolTypeOK, Crowding, [PoolNext]_poolVars,
         ~contended' => ~contended,
         ~contended' => \A a \in Outsiders :
           step'[a] \notin {"try", "yield"} /\ at'[a] = Serial,
         \A a \in Actors : step'[a] = "yield" => step[a] = "yield",
         \A k \in Slots : k # 1 => Ahead(k)' \subseteq Ahead(k),
         Ahead(1)' \subseteq Actors
  PROVE  Crowding'
  <1> SUFFICES ASSUME ~contended' PROVE
        /\ \A a \in Outsiders : step'[a] \notin {"try", "yield"} /\ at'[a] = Serial
        /\ \A a \in Actors : step'[a] # "yield"
        /\ \A k \in Slots : Cardinality(Ahead(k)') <= N - k + 1
    BY DEF Crowding
  <1>1. \A a \in Actors : step'[a] # "yield"
    BY DEF Crowding
  <1>2. ASSUME NEW k \in Slots, k # 1 PROVE Cardinality(Ahead(k)') <= N - k + 1
    BY <1>2, CrowdShrinks
  <1>3. Cardinality(Ahead(1)') <= N - 1 + 1
    <2>1. Ahead(1)' \subseteq Rayon
      BY SlotsFact DEF Ahead, Actors, Serial
    <2>2. Cardinality(Ahead(1)') <= Cardinality(Rayon)
      BY <2>1, PoolAssumption, FS_Subset DEF PoolAssumption
    <2> QED
      BY <2>2, SlotsFact DEF N
  <1> QED
    BY <1>1, <1>2, <1>3

LEMMA CrowdingStep == PoolTypeOK /\ Ownership /\ Crowding /\ [PoolNext]_poolVars => Crowding'
  <1> SUFFICES ASSUME PoolTypeOK, Ownership, Crowding, [PoolNext]_poolVars PROVE Crowding'
    OBVIOUS
  <1> USE SlotsFact DEF PoolTypeOK, Reach
  <1>1. ASSUME NEW a \in Actors, Enter(a) PROVE Crowding'
    <2>1. ~contended' => ~contended /\ a \notin Outsiders
      BY <1>1 DEF Enter
    <2>2. /\ step' = [step EXCEPT ![a] = "try"]
          /\ at' = [at EXCEPT ![a] = 1]
      BY <1>1 DEF Enter
    <2>3. ~contended' => \A b \in Outsiders :
            step'[b] \notin {"try", "yield"} /\ at'[b] = Serial
      BY <2>1, <2>2 DEF Crowding, Actors
    <2>4. \A k \in Slots : k # 1 => Ahead(k)' \subseteq Ahead(k)
      BY <2>2 DEF Ahead, Slots
    <2>5. Ahead(1)' \subseteq Actors
      BY DEF Ahead
    <2>6. \A b \in Actors : step'[b] = "yield" => step[b] = "yield"
      BY <2>2
    <2> QED
      BY <2>1, <2>3, <2>4, <2>5, <2>6, CrowdingKept
  <1>2. ASSUME NEW a \in Actors, EnterSerial(a) PROVE Crowding'
    <2>1. /\ step' = [step EXCEPT ![a] = "wait"]
          /\ at' = [at EXCEPT ![a] = Serial]
          /\ contended' = contended
      BY <1>2 DEF EnterSerial
    <2>2. contended = contended' /\ (~contended' => \A b \in Outsiders :
            step'[b] \notin {"try", "yield"} /\ at'[b] = Serial)
      BY <2>1 DEF Crowding, Actors
    <2>3. \A k \in Slots : Ahead(k)' \subseteq Ahead(k)
      BY <2>1 DEF Ahead
    <2>4. Ahead(1)' \subseteq Actors
      BY DEF Ahead
    <2>5. \A b \in Actors : step'[b] = "yield" => step[b] = "yield"
      BY <2>1
    <2> QED
      BY <2>2, <2>3, <2>4, <2>5, CrowdingKept
  <1>3. ASSUME NEW a \in Actors,
               \/ TrySlot(a) \/ LockSerial(a) \/ ForkAndStart(a)
               \/ Finish(a) \/ Panics(a)
        PROVE  Crowding'
    <2>1. /\ step[a] \in {"try", "wait", "fork", "encode"}
          /\ \/ step' = [step EXCEPT ![a] = "fork"] /\ step[a] \in {"try", "wait"}
             \/ step' = [step EXCEPT ![a] = "encode"] /\ step[a] = "fork"
             \/ step' = [step EXCEPT ![a] = "idle"]
          /\ at' = at
          /\ contended' = contended
      BY <1>3 DEF TrySlot, LockSerial, Acquire, ForkAndStart, Finish, Panics
    <2>2. step[a] = "wait" => at[a] = Serial
      BY DEF Ownership
    <2>3. contended = contended' /\ (~contended' => \A b \in Outsiders :
            step'[b] \notin {"try", "yield"} /\ at'[b] = Serial)
      BY <2>1 DEF Crowding, Actors
    <2>4. \A k \in Slots : Ahead(k)' \subseteq Ahead(k)
      BY <2>1, <2>2 DEF Ahead, Serial
    <2>5. Ahead(1)' \subseteq Actors
      BY DEF Ahead
    <2>6. \A b \in Actors : step'[b] = "yield" => step[b] = "yield"
      BY <2>1
    <2> QED
      BY <2>3, <2>4, <2>5, <2>6, CrowdingKept
  <1>4. ASSUME NEW a \in Actors, SlotBusy(a) PROVE Crowding'
    <2> SUFFICES ASSUME ~contended PROVE Crowding'
      BY <1>4 DEF SlotBusy, Crowding
    <2> DEFINE k == at[a]
               b == owner[k]
    <2>1. /\ step[a] = "try" /\ k \in Slots
          /\ b # Nobody /\ b \in Actors /\ Holding(b) /\ at[b] = k
      BY <1>4 DEF SlotBusy, Ownership
    <2>2. a # b /\ a \in Ahead(k) /\ b \in Ahead(k)
      BY <2>1 DEF Holding, Ahead
    <2>3. a \notin Outsiders
      BY <2>1 DEF Crowding
    <2>4. Cardinality(Ahead(k) \ {b}) <= N - k
      <3>1. IsFiniteSet(Ahead(k))
        BY <2>1, AheadIsFinite
      <3>2. Cardinality(Ahead(k) \ {b}) = Cardinality(Ahead(k)) - 1
        BY <2>2, <3>1, FS_RemoveElement
      <3>3. Cardinality(Ahead(k)) \in Nat /\ Cardinality(Ahead(k)) <= N - k + 1
        BY <2>1, <3>1, FS_CardinalityType DEF Crowding
      <3>4. N \in Nat /\ k \in Nat
        BY <2>1
      <3> QED
        BY <3>2, <3>3, <3>4
    (* With a thread in the last slot and one trying it, there would be    *)
    (* two where there is room for one.                                    *)
    <2>5. k # N
      <3>1. IsFiniteSet(Ahead(k) \ {b}) /\ a \in Ahead(k) \ {b}
        BY <2>1, <2>2, AheadIsFinite, FS_RemoveElement
      <3>2. /\ Cardinality(Ahead(k) \ {b}) \in Nat
            /\ Cardinality(Ahead(k) \ {b}) # 0
        BY <3>1, FS_CardinalityType, FS_EmptySet
      <3>3. N \in Nat /\ k \in Nat
        BY <2>1
      <3> QED
        BY <2>4, <3>2, <3>3
    <2>6. k + 1 \in Slots /\ k \in Nat /\ N \in Nat
      BY <2>1, <2>5
    <2>7. /\ at' = [at EXCEPT ![a] = k + 1]
          /\ UNCHANGED <<step, contended>>
      BY <1>4, <2>6 DEF SlotBusy
    <2>8. \A c \in Outsiders : step'[c] \notin {"try", "yield"} /\ at'[c] = Serial
      BY <2>3, <2>7 DEF Crowding, Actors
    <2>9. ASSUME NEW j \in Slots PROVE Cardinality(Ahead(j)') <= N - j + 1
      <3>1. CASE j = k + 1
        <4>1. \A c \in Ahead(j)' : c \in Ahead(k) \ {b}
          <5> SUFFICES ASSUME NEW c \in Ahead(j)', c # a
                       PROVE  c \in Ahead(k) \ {b}
            BY <2>2
          <5>1. /\ c \in Actors /\ step[c] \in {"try", "fork", "encode"}
                /\ at'[c] = at[c] /\ j <= at'[c]
            BY <2>7 DEF Ahead
          <5>2. at[c] \in Nat
            BY <5>1 DEF Guards, Slots, Serial
          <5>3. k + 1 <= at[c] /\ k <= at[c] /\ at[c] # k
            BY <2>6, <3>1, <5>1, <5>2
          <5>4. c # b
            BY <2>1, <5>3
          <5> QED
            BY <5>1, <5>3, <5>4 DEF Ahead
        <4>2. IsFiniteSet(Ahead(k) \ {b})
          BY <2>1, AheadIsFinite, FS_RemoveElement
        <4>3. Cardinality(Ahead(j)') <= Cardinality(Ahead(k) \ {b})
          BY <4>1, <4>2, FS_Subset
        <4>4. /\ Cardinality(Ahead(j)') \in Nat
              /\ Cardinality(Ahead(k) \ {b}) \in Nat
          BY <4>1, <4>2, FS_Subset, FS_CardinalityType
        <4>5. \A x, y \in Nat :
                x <= y /\ y <= N - k => x <= N - (k + 1) + 1
          BY <2>6
        <4> QED
          BY <2>4, <3>1, <4>3, <4>4, <4>5
      <3>2. CASE j # k + 1
        <4>1. Ahead(j)' \subseteq Ahead(j)
          BY <2>1, <2>6, <2>7, <3>2 DEF Ahead, Slots, Guards, Serial
        <4> QED
          BY <4>1, CrowdShrinks
      <3> QED
        BY <3>1, <3>2
    <2> QED
      BY <2>7, <2>8, <2>9 DEF Crowding
  <1>5. ASSUME NEW a \in Actors, Yield(a) PROVE Crowding'
    BY <1>5 DEF Yield, Crowding
  <1>6. CASE UNCHANGED poolVars
    BY <1>6 DEF poolVars, Crowding, Ahead
  <1> QED
    BY <1>1, <1>2, <1>3, <1>4, <1>5, <1>6 DEF PoolNext, Start, Proceed

------------------------------------------------------------------------------
(* Theorems. *)

(* Every reachable state of the pool satisfies the inductive invariant.    *)
THEOREM PoolInductive == PoolSpec => []PoolInv
  <1>1. PoolInv /\ [PoolNext]_poolVars => PoolInv'
    BY PoolTypeStep, OwnershipStep, SoundnessStep, CrowdingStep DEF PoolInv
  <1> QED
    BY PoolInitHolds, <1>1, PTL DEF PoolSpec

(* The variables keep their types.                                         *)
THEOREM PoolTypeCorrect == PoolSpec => []PoolTypeOK
  <1>1. PoolInv => PoolTypeOK
    BY DEF PoolInv
  <1> QED
    BY PoolInductive, <1>1, PTL

(* Mutual exclusion of with_worker: no two threads use one worker.         *)
THEOREM Exclusive == PoolSpec => []ExclusiveWorker
  <1>1. PoolInv => ExclusiveWorker
    BY DEF PoolInv, ExclusiveWorker, Ownership
  <1> QED
    BY PoolInductive, <1>1, PTL

(* A worker that a panic left half-way is never used again.                *)
THEOREM BrokenNeverUsed == PoolSpec => []NoBrokenWorker
  <1>1. PoolInv => NoBrokenWorker
    BY DEF PoolInv, NoBrokenWorker, Soundness
  <1> QED
    BY PoolInductive, <1>1, PTL

(* However many rayon threads there are, one scan is enough for each while *)
(* no other thread has used the slots.                                     *)
THEOREM OneScanIsEnough == PoolSpec => []RayonNeverSpins
  <1>1. PoolInv => RayonNeverSpins
    BY DEF PoolInv, RayonNeverSpins, Crowding
  <1> QED
    BY PoolInductive, <1>1, PTL

(* Only a poison makes the pool throw a worker away.                       *)
THEOREM ReplacedOnlyAfterPanic == PoolSpec => ReplacedAfterPanic
  <1> DEFINE Kept == \A s \in Slots :
        worker[s] # NoWorker /\ ~poisoned[s] =>
          worker'[s] # NoWorker /\ worker'[s].id = worker[s].id
  <1>1. PoolTypeOK /\ Ownership /\ PoolNext => Kept
    <2> SUFFICES ASSUME PoolTypeOK, Ownership, PoolNext, NEW s \in Slots,
                        worker[s] # NoWorker, ~poisoned[s]
                 PROVE  worker'[s] # NoWorker /\ worker'[s].id = worker[s].id
      OBVIOUS
    <2>1. /\ s \in Guards /\ worker \in [Guards -> [id : Nat, sound : BOOLEAN] \cup {NoWorker}]
          /\ worker[s] \in [id : Nat, sound : BOOLEAN]
          /\ worker[s].id \in Nat
      BY SlotsFact DEF PoolTypeOK
    <2>2. ASSUME NEW b \in BOOLEAN
          PROVE  /\ [id |-> worker[s].id, sound |-> b] # NoWorker
                 /\ [id |-> worker[s].id, sound |-> b].id = worker[s].id
      <3>1. [id |-> worker[s].id, sound |-> b] \in [id : Nat, sound : BOOLEAN]
        BY <2>1
      <3> QED
        BY <3>1, PoolAssumption DEF PoolAssumption
    <2>3. ASSUME NEW a \in Actors, NEW t \in Guards, Acquire(a, t)
          PROVE  worker'[s] = worker[s]
      BY <2>1, <2>3 DEF Acquire, Discard
    <2>4. ASSUME NEW a \in Actors, TrySlot(a) \/ LockSerial(a)
          PROVE  worker'[s] = worker[s]
      BY <2>3, <2>4, AtFact, SlotsFact DEF TrySlot, LockSerial
    <2>5. ASSUME NEW a \in Actors, ForkAndStart(a) \/ Finish(a)
          PROVE  \/ worker'[s] = worker[s]
                 \/ worker'[s] = [id |-> worker[s].id, sound |-> TRUE]
                 \/ worker'[s] = [id |-> worker[s].id, sound |-> FALSE]
      BY <2>1, <2>5, AtFact DEF ForkAndStart, Finish
    <2>6. ASSUME NEW a \in Actors,
                 \/ Enter(a) \/ EnterSerial(a) \/ SlotBusy(a) \/ Yield(a)
                 \/ Panics(a)
          PROVE  worker'[s] = worker[s]
      BY <2>6 DEF Enter, EnterSerial, SlotBusy, Yield, Panics
    <2> QED
      BY <2>2, <2>4, <2>5, <2>6 DEF PoolNext, Start, Proceed
  <1>2. PoolInv /\ [PoolNext]_poolVars => [Kept]_poolVars
    BY <1>1 DEF PoolInv
  <1> QED
    BY PoolInductive, <1>2, PTL DEF PoolSpec, ReplacedAfterPanic

------------------------------------------------------------------------------
(* BatchRows.  Documents are grouped, cut and joined by lists of texts:    *)
(* what is needed of lists and of what they flatten to comes first.        *)

(* Sets of numbers have a least element; induction below is by the least   *)
(* counterexample.                                                         *)
LEMMA LeastNumber ==
  ASSUME NEW S \in SUBSET Nat, S # {}
  PROVE  \E m \in S : \A k \in S : m <= k
<1>. DEFINE R == OpToRel(<, Nat)
<1>1. IsWellFoundedOn(R, Nat)
  BY NatLessThanWellFounded
<1>2. \A k, m \in Nat : k < m => <<k, m>> \in R
  BY DEF OpToRel
<1>. HIDE DEF R
<1>3. PICK m \in S : \A k \in S : ~(<<k, m>> \in R)
  BY <1>1, WFMin
<1>4. \A k \in S : ~(k < m)
  BY <1>2, <1>3
<1>5. \A k \in S : k \in Nat /\ m \in Nat
  OBVIOUS
<1>. QED
  BY <1>4, <1>5

LEMMA MinOfNumbers ==
  ASSUME NEW S \in SUBSET Nat, S # {}
  PROVE  Min(S) \in S /\ \A k \in S : Min(S) <= k
BY LeastNumber DEF Min

Increasing(s) == \A i, j \in 1 .. Len(s) : i < j => s[i] < s[j]
UpTo(S, x) == {y \in S : y <= x}

LEMMA RankExists ==
  ASSUME NEW S, \A x \in S : x \in Nat, IsFiniteSet(S), NEW j \in 1 .. Cardinality(S)
  PROVE  \E x \in S : Cardinality(UpTo(S, x)) = j
<1>0. \A x \in S : x \in Nat
  OBVIOUS
<1>1. Cardinality(S) \in Nat
  BY FS_CardinalityType
<1>. DEFINE Bad == {k \in 1 .. Cardinality(S) :
                      ~ \E x \in S : Cardinality(UpTo(S, x)) = k}
<1>2. SUFFICES ASSUME Bad # {} PROVE FALSE
  OBVIOUS
<1>3. PICK m \in Bad : \A k \in Bad : m <= k
  <2>1. Bad \in SUBSET Nat
    OBVIOUS
  <2>. HIDE DEF Bad
  <2>. QED BY <1>2, <2>1, LeastNumber
<1>4. m \in Nat /\ 1 <= m /\ m <= Cardinality(S)
      /\ ~ \E x \in S : Cardinality(UpTo(S, x)) = m
  BY <1>1
<1>5. CASE m = 1
  <2>1. S # {}
    BY <1>4, FS_EmptySet
  <2>2. PICK x \in S : \A k \in S : x <= k
    BY <2>1, LeastNumber
  <2>3. UpTo(S, x) = {x}
    BY <1>0, <2>2 DEF UpTo
  <2>. QED BY <2>3, <1>4, <1>5, FS_Singleton
<1>6. CASE m > 1
  <2>1. m - 1 \in 1 .. Cardinality(S) /\ m - 1 \notin Bad
    <3>. HIDE DEF Bad
    <3>. QED BY <1>1, <1>3, <1>4, <1>6
  <2>2. PICK x \in S : Cardinality(UpTo(S, x)) = m - 1
    BY <2>1
  <2>. DEFINE T == UpTo(S, x)
  <2>3. T \subseteq S
    BY DEF UpTo
  <2>4. S \ T # {}
    BY <1>4, <2>2, <2>3
  <2>5. PICK z \in S \ T : \A k \in S \ T : z <= k
    BY <2>4, LeastNumber
  <2>6. UpTo(S, z) = T \cup {z} /\ z \notin T
    BY <1>0, <2>5 DEF UpTo
  <2>7. IsFiniteSet(T)
    BY <2>3, FS_Subset
  <2>8. Cardinality(T \cup {z}) = Cardinality(T) + 1
    <3>. HIDE DEF T
    <3>. QED BY <2>6, <2>7, FS_AddElement
  <2>. QED BY <2>2, <2>6, <2>8, <1>4
<1>. QED BY <1>4, <1>5, <1>6

(* InOrder lists a finite set of numbers from the least up.                *)
LEMMA InOrderLists ==
  ASSUME NEW S, \A x \in S : x \in Nat, IsFiniteSet(S)
  PROVE  /\ InOrder(S) \in Seq(Nat)
         /\ Len(InOrder(S)) = Cardinality(S)
         /\ Increasing(InOrder(S))
         /\ \A x : x \in S <=> \E i \in 1 .. Len(InOrder(S)) : InOrder(S)[i] = x
<1>. DEFINE s == InOrder(S)
            total == Cardinality(S)
<1>0. \A x \in S : x \in Nat
  OBVIOUS
<1>1. total \in Nat
  BY FS_CardinalityType
<1>2. \A j \in 1 .. total : s[j] \in S /\ Cardinality(UpTo(S, s[j])) = j
  <2>. TAKE j \in 1 .. total
  <2>1. s[j] = CHOOSE x \in S : Cardinality(UpTo(S, x)) = j
    BY DEF InOrder, UpTo
  <2>2. \E x \in S : Cardinality(UpTo(S, x)) = j
    BY RankExists
  <2>. QED BY <2>1, <2>2
<1>3. s \in Seq(Nat) /\ Len(s) = total
  <2>1. s = [j \in 1 .. total |-> s[j]]
    BY DEF InOrder
  <2>. HIDE DEF s
  <2>2. \A j \in 1 .. total : s[j] \in Nat
    BY <1>2
  <2>. QED BY <1>1, <2>1, <2>2
<1>. HIDE DEF s
<1>4. \A x \in S : IsFiniteSet(UpTo(S, x)) /\ UpTo(S, x) \subseteq S
  BY FS_Subset DEF UpTo
<1>5. ASSUME NEW i \in 1 .. total, NEW j \in 1 .. total, i < j
      PROVE  s[i] < s[j]
  <2>1. SUFFICES ASSUME s[j] <= s[i] PROVE FALSE
    BY <1>0, <1>2
  <2>2. UpTo(S, s[j]) \subseteq UpTo(S, s[i])
    <3>1. s[i] \in Nat /\ s[j] \in Nat
      BY <1>0, <1>2
    <3>2. \A y \in S : y <= s[j] => y <= s[i]
      BY <1>0, <2>1, <3>1
    <3>. QED BY <3>2 DEF UpTo
  <2>3. Cardinality(UpTo(S, s[j])) <= Cardinality(UpTo(S, s[i]))
    BY <1>2, <1>4, <2>2, FS_Subset
  <2>. QED BY <1>2, <1>5, <2>3
<1>6. ASSUME NEW x \in S PROVE \E i \in 1 .. total : s[i] = x
  <2>. DEFINE j == Cardinality(UpTo(S, x))
  <2>1. j \in 1 .. total
    <3>1. j <= total
      BY <1>4, FS_Subset
    <3>2. j \in Nat /\ j # 0
      <4>1. x \in UpTo(S, x)
        BY DEF UpTo
      <4>2. j # 0
        BY <4>1, <1>4, FS_EmptySet
      <4>. QED BY <4>2, <1>4, FS_CardinalityType
    <3>. QED BY <3>1, <3>2, <1>1
  <2>2. s[j] \in S /\ Cardinality(UpTo(S, s[j])) = j
    BY <1>2, <2>1
  <2>3. s[j] = x
    <3>1. CASE s[j] < x
      <4>1. UpTo(S, s[j]) \in SUBSET UpTo(S, x) /\ x \notin UpTo(S, s[j])
            /\ x \in UpTo(S, x)
        BY <1>0, <2>2, <3>1 DEF UpTo
      <4>2. UpTo(S, x) = UpTo(S, s[j])
        BY <4>1, <2>2, <1>4, FS_Subset
      <4>. QED BY <4>1, <4>2
    <3>2. CASE x < s[j]
      <4>1. UpTo(S, x) \in SUBSET UpTo(S, s[j]) /\ s[j] \notin UpTo(S, x)
            /\ s[j] \in UpTo(S, s[j])
        BY <1>0, <2>2, <3>2 DEF UpTo
      <4>2. UpTo(S, x) = UpTo(S, s[j])
        BY <4>1, <2>2, <1>4, FS_Subset
      <4>. QED BY <4>1, <4>2
    <3>. QED BY <1>0, <3>1, <3>2, <2>2
  <2>. QED BY <2>1, <2>3
<1>7. Increasing(s)
  BY <1>3, <1>5 DEF Increasing
<1>8. \A x : x \in S <=> \E i \in 1 .. Len(s) : s[i] = x
  BY <1>2, <1>3, <1>6
<1>. QED BY <1>3, <1>7, <1>8 DEF s

LEMMA ConcatFacts ==
  ASSUME NEW S, NEW a \in Seq(S), NEW b \in Seq(S)
  PROVE  /\ a \o b \in Seq(S) /\ Len(a \o b) = Len(a) + Len(b)
         /\ Len(a) \in Nat /\ Len(b) \in Nat
         /\ \A k \in 1 .. Len(a) + Len(b) :
              (a \o b)[k] = IF k <= Len(a) THEN a[k] ELSE b[k - Len(a)]
OBVIOUS

LEMMA LastFacts ==
  ASSUME NEW S, NEW s \in Seq(S), Len(s) > 0
  PROVE  \E f \in Seq(S), x \in S : s = Append(f, x) /\ Len(f) < Len(s)
<1>1. s # <<>>
  OBVIOUS
<1>2. PICK f \in Seq(S), x \in S : s = Append(f, x)
  BY <1>1, SequenceEmptyOrAppend
<1>3. Len(s) = Len(f) + 1 /\ Len(f) \in Nat
  BY <1>2
<1>. QED BY <1>2, <1>3

LEMMA ConcatAppend ==
  ASSUME NEW S, NEW a \in Seq(S), NEW b \in Seq(S), NEW x \in S
  PROVE  a \o Append(b, x) = Append(a \o b, x)
<1>. DEFINE v == <<x>>
<1>1. v \in Seq(S)
  OBVIOUS
<1>2. Append(b, x) = b \o v
  BY AppendIsConcat
<1>. DEFINE c == a \o b
<1>3. c \in Seq(S)
  BY ConcatFacts
<1>. HIDE DEF v, c
<1>4. Append(c, x) = c \o v
  BY <1>3, AppendIsConcat DEF v
<1>5. c \o v = a \o (b \o v)
  BY <1>1, ConcatAssociative DEF c
<1>. QED BY <1>2, <1>4, <1>5 DEF c

LEMMA ShortestSeq ==
  ASSUME NEW S, NEW B \in SUBSET Seq(S), B # {}
  PROVE  \E s \in B : \A u \in B : Len(s) <= Len(u)
<1>. DEFINE sizes == {Len(s) : s \in B}
<1>0. \A s \in B : Len(s) \in Nat
  OBVIOUS
<1>1. sizes \in SUBSET Nat /\ sizes # {}
  BY <1>0
<1>. HIDE DEF sizes
<1>2. PICK c \in sizes : \A k \in sizes : c <= k
  BY <1>1, LeastNumber
<1>. QED BY <1>2 DEF sizes

(* A set of sequences that is closed under appending has all of them.      *)
LEMMA AllByAppending ==
  ASSUME NEW M, NEW G \in SUBSET Seq(M), <<>> \in G,
         \A f \in G : \A x \in M : Append(f, x) \in G
  PROVE  \A s \in Seq(M) : s \in G
<1>. DEFINE Bad == {s \in Seq(M) : s \notin G}
<1>1. SUFFICES ASSUME Bad # {} PROVE FALSE
  OBVIOUS
<1>2. Bad \in SUBSET Seq(M)
  OBVIOUS
<1>3. PICK s \in Bad : \A u \in Bad : Len(s) <= Len(u)
  <2>. HIDE DEF Bad
  <2>. QED BY <1>1, <1>2, ShortestSeq
<1>4. s \in Seq(M) /\ s \notin G /\ Len(s) \in Nat
  OBVIOUS
<1>5. Len(s) > 0
  BY <1>4
<1>6. PICK f \in Seq(M), x \in M : s = Append(f, x) /\ Len(f) < Len(s)
  BY <1>4, <1>5, LastFacts
<1>7. f \notin Bad
  <2>1. Len(f) \in Nat
    OBVIOUS
  <2>. HIDE DEF Bad
  <2>. QED BY <1>3, <1>4, <1>6, <2>1
<1>8. f \in G
  BY <1>7
<1>. QED BY <1>4, <1>6, <1>8

(* g has what the first elements of q come to, up to a number of them.     *)
IsFlat(g, q, total) == g = [i \in 1 .. total |-> IF i = 1 THEN q[i] ELSE g[i - 1] \o q[i]]

LEMMA FlatsExist ==
  ASSUME NEW q, NEW total \in Nat
  PROVE  \E g : IsFlat(g, q, total)
<1>. DEFINE part(g, i) == IF i = 1 THEN q[i] ELSE g[i - 1] \o q[i]
            Bad == {m \in Nat : ~ \E g : IsFlat(g, q, m)}
<1>1. SUFFICES ASSUME total \in Bad PROVE FALSE
  OBVIOUS
<1>. HIDE DEF Bad
<1>2. PICK m \in Bad : \A k \in Bad : m <= k
  <2>1. Bad \in SUBSET Nat
    BY DEF Bad
  <2>. QED BY <1>1, <2>1, LeastNumber
<1>3. m \in Nat /\ ~ \E g : IsFlat(g, q, m)
  BY <1>2 DEF Bad
<1>4. \A g, k : IsFlat(g, q, k) <=> g = [i \in 1 .. k |-> part(g, i)]
  BY DEF IsFlat
<1>5. CASE m = 0
  <2>. DEFINE h == [i \in 1 .. 0 |-> <<>>]
  <2>1. \A i \in 1 .. 0 : FALSE
    OBVIOUS
  <2>. HIDE DEF part
  <2>2. h = [i \in 1 .. 0 |-> part(h, i)]
    <3>. DEFINE hh == h
    <3>1. hh = [i \in 1 .. 0 |-> <<>>]
      OBVIOUS
    <3>. HIDE DEF hh
    <3>2. hh = [i \in 1 .. 0 |-> part(hh, i)]
      BY <2>1, <3>1
    <3>. QED BY <3>2 DEF hh
  <2>. HIDE DEF h
  <2>3. IsFlat(h, q, 0)
    BY <2>2, <1>4
  <2>. QED BY <2>3, <1>3, <1>5
<1>6. CASE m > 0
  <2>1. m - 1 \in Nat /\ m - 1 \notin Bad
    BY <1>2, <1>3, <1>6
  <2>2. PICK g : IsFlat(g, q, m - 1)
    BY <2>1 DEF Bad
  <2>3. g = [i \in 1 .. m - 1 |-> part(g, i)]
    BY <2>2, <1>4
  <2>. DEFINE h == [i \in 1 .. m |-> part(g, i)]
  <2>4. \A i \in 1 .. m - 1 : h[i] = g[i]
    <3>. HIDE DEF part
    <3>. TAKE i \in 1 .. m - 1
    <3>1. i \in 1 .. m
      BY <1>3
    <3>2. g[i] = part(g, i)
      BY <2>3
    <3>. QED BY <3>1, <3>2
  <2>5. \A i \in 1 .. m : part(g, i) = part(h, i)
    <3>. HIDE DEF h
    <3>. TAKE i \in 1 .. m
    <3>1. i = 1 \/ i - 1 \in 1 .. m - 1
      BY <1>3
    <3>2. i = 1 \/ h[i - 1] = g[i - 1]
      BY <2>4, <3>1
    <3>. QED BY <3>2
  <2>6. h = [i \in 1 .. m |-> part(h, i)]
    <3>. DEFINE hh == h
    <3>1. hh = [i \in 1 .. m |-> part(g, i)]
      OBVIOUS
    <3>2. \A i \in 1 .. m : part(g, i) = part(hh, i)
      BY <2>5
    <3>. HIDE DEF hh, part
    <3>3. hh = [i \in 1 .. m |-> part(hh, i)]
      BY <3>1, <3>2
    <3>. QED BY <3>3 DEF hh
  <2>. HIDE DEF h
  <2>7. IsFlat(h, q, m)
    BY <2>6, <1>4
  <2>. QED BY <2>7, <1>3
<1>. QED BY <1>3, <1>5, <1>6

LEMMA FlattenIs ==
  ASSUME NEW S, NEW q \in Seq(Seq(S))
  PROVE  /\ Len(q) = 0 => FlattenSeq(q) = <<>>
         /\ \E g : IsFlat(g, q, Len(q)) /\ (Len(q) > 0 => FlattenSeq(q) = g[Len(q)])
<1>. DEFINE c == CHOOSE g : IsFlat(g, q, Len(q))
<1>0. Len(q) \in Nat
  OBVIOUS
<1>1. Len(q) = 0 => FlattenSeq(q) = <<>>
  <2>1. Len(q) = 0 => q = <<>>
    OBVIOUS
  <2>. QED BY <2>1 DEF FlattenSeq
<1>2. IsFlat(c, q, Len(q))
  BY <1>0, FlatsExist
<1>3. Len(q) > 0 => FlattenSeq(q) = c[Len(q)]
  <2>1. SUFFICES ASSUME Len(q) > 0 PROVE FlattenSeq(q) = c[Len(q)]
    OBVIOUS
  <2>2. ~(Len(q) = 0)
    BY <1>0, <2>1
  <2>. QED BY <2>2 DEF FlattenSeq, IsFlat
<1>. QED BY <1>1, <1>2, <1>3

LEMMA FlattenAppend ==
  ASSUME NEW S, NEW q \in Seq(Seq(S)), NEW x \in Seq(S)
  PROVE  FlattenSeq(Append(q, x)) = FlattenSeq(q) \o x
<1>. DEFINE total == Len(q)
            r == Append(q, x)
<1>1. total \in Nat /\ r \in Seq(Seq(S)) /\ Len(r) = total + 1 /\ r[total + 1] = x /\ \A i \in 1 .. total : r[i] = q[i]
  OBVIOUS
<1>2. PICK g : IsFlat(g, q, total) /\ (total > 0 => FlattenSeq(q) = g[total])
  BY FlattenIs
<1>. HIDE DEF r
<1>3. PICK h : IsFlat(h, r, Len(r)) /\ (Len(r) > 0 => FlattenSeq(r) = h[Len(r)])
  BY <1>1, FlattenIs
<1>4. total = 0 => FlattenSeq(q) = <<>>
  BY FlattenIs
<1>. HIDE DEF total
<1>5. \A i \in 1 .. total : g[i] = IF i = 1 THEN q[i] ELSE g[i - 1] \o q[i]
  BY <1>2 DEF IsFlat
<1>6. \A i \in 1 .. total + 1 : h[i] = IF i = 1 THEN r[i] ELSE h[i - 1] \o r[i]
  BY <1>1, <1>3 DEF IsFlat
<1>. DEFINE Bad == {i \in Nat : i \in 1 .. total /\ h[i] # g[i]}
<1>7. Bad = {}
  <2>1. SUFFICES ASSUME Bad # {} PROVE FALSE
    OBVIOUS
  <2>2. Bad \in SUBSET Nat
    OBVIOUS
  <2>3. PICK i \in Bad : \A k \in Bad : i <= k
    <3>. HIDE DEF Bad
    <3>. QED BY <2>1, <2>2, LeastNumber
  <2>4. i \in Nat /\ i \in 1 .. total /\ h[i] # g[i]
    OBVIOUS
  <2>5. i # 1 => h[i - 1] = g[i - 1]
    <3>1. i # 1 => i - 1 \in Nat /\ i - 1 \in 1 .. total /\ ~(i <= i - 1)
      BY <1>1, <2>4
    <3>2. i # 1 => i - 1 \notin Bad
      <4>. HIDE DEF Bad
      <4>. QED BY <2>3, <3>1
    <3>. QED BY <3>1, <3>2
  <2>6. i \in 1 .. total + 1
    BY <1>1, <2>4
  <2>7. h[i] = IF i = 1 THEN r[i] ELSE h[i - 1] \o r[i]
    BY <1>6, <2>6
  <2>8. g[i] = IF i = 1 THEN q[i] ELSE g[i - 1] \o q[i]
    BY <1>5, <2>4
  <2>9. r[i] = q[i]
    BY <1>1, <2>4
  <2>. HIDE DEF Bad
  <2>. QED BY <2>4, <2>5, <2>7, <2>8, <2>9
<1>8. total + 1 \in 1 .. total + 1 /\ (total + 1) - 1 = total /\ total + 1 > 0
  BY <1>1
<1>9. FlattenSeq(r) = h[total + 1]
  BY <1>1, <1>3, <1>8
<1>10. h[total + 1] = IF total + 1 = 1 THEN x ELSE h[total] \o x
  BY <1>1, <1>6, <1>8
<1>11. CASE total = 0
  <2>1. <<>> \o x = x
    OBVIOUS
  <2>2. total + 1 = 1
    BY <1>11
  <2>. QED BY <1>4, <1>9, <1>10, <1>11, <2>1, <2>2 DEF r
<1>12. CASE total > 0
  <2>1. total \in Nat /\ total \in 1 .. total /\ total + 1 # 1
    BY <1>1, <1>12
  <2>2. h[total] = g[total]
    BY <1>7, <2>1
  <2>. QED BY <1>2, <1>9, <1>10, <1>12, <2>1, <2>2 DEF r
<1>. QED BY <1>1, <1>11, <1>12

LEMMA FlattenEmpty == FlattenSeq(<<>>) = <<>>
BY DEF FlattenSeq

LEMMA FlattenType ==
  ASSUME NEW S, NEW q \in Seq(Seq(S))
  PROVE  FlattenSeq(q) \in Seq(S)
<1>. DEFINE M == Seq(S)
            G == {r \in Seq(M) : FlattenSeq(r) \in M}
<1>1. <<>> \in G
  <2>1. <<>> \in Seq(M) /\ <<>> \in M
    OBVIOUS
  <2>. QED BY <2>1, FlattenEmpty
<1>2. ASSUME NEW r \in G, NEW x \in M PROVE Append(r, x) \in G
  <2>1. r \in Seq(M) /\ FlattenSeq(r) \in M
    OBVIOUS
  <2>2. FlattenSeq(Append(r, x)) = FlattenSeq(r) \o x
    BY <2>1, FlattenAppend
  <2>3. Append(r, x) \in Seq(M)
    BY <2>1
  <2>4. FlattenSeq(r) \o x \in M
    BY <2>1, ConcatFacts
  <2>. QED BY <2>2, <2>3, <2>4
<1>3. G \in SUBSET Seq(M)
  OBVIOUS
<1>. HIDE DEF G, M
<1>4. \A r \in Seq(M) : r \in G
  BY <1>1, <1>2, <1>3, AllByAppending
<1>. QED BY <1>4 DEF G, M

LEMMA FlattenOne ==
  ASSUME NEW S, NEW x \in Seq(S)
  PROVE  FlattenSeq(<<x>>) = x
<1>1. Append(<<>>, x) = <<x>> /\ <<>> \o x = x /\ <<>> \in Seq(Seq(S))
  OBVIOUS
<1>2. FlattenSeq(Append(<<>>, x)) = FlattenSeq(<<>>) \o x
  BY <1>1, FlattenAppend
<1>. QED BY <1>1, <1>2, FlattenEmpty

LEMMA FlattenConcat ==
  ASSUME NEW S, NEW a \in Seq(Seq(S)), NEW b \in Seq(Seq(S))
  PROVE  FlattenSeq(a \o b) = FlattenSeq(a) \o FlattenSeq(b)
<1>. DEFINE M == Seq(S)
            G == {r \in Seq(M) : FlattenSeq(a \o r) = FlattenSeq(a) \o FlattenSeq(r)}
<1>0. FlattenSeq(a) \in M
  BY FlattenType
<1>1. <<>> \in G
  <2>1. <<>> \in Seq(M) /\ a \o <<>> = a /\ FlattenSeq(a) \o <<>> = FlattenSeq(a)
    BY <1>0
  <2>. QED BY <2>1, FlattenEmpty
<1>2. ASSUME NEW r \in G, NEW x \in M PROVE Append(r, x) \in G
  <2>. DEFINE c == a \o r
              f == FlattenSeq(a)
              g == FlattenSeq(r)
  <2>1. r \in Seq(M) /\ FlattenSeq(a \o r) = f \o g
    OBVIOUS
  <2>2. a \o Append(r, x) = Append(c, x)
    BY <2>1, ConcatAppend
  <2>3. c \in Seq(M)
    BY <2>1, ConcatFacts
  <2>4. FlattenSeq(Append(r, x)) = g \o x
    BY <2>1, FlattenAppend
  <2>5. g \in M /\ f \in M
    BY <1>0, <2>1, FlattenType
  <2>. HIDE DEF c
  <2>6. FlattenSeq(Append(c, x)) = FlattenSeq(c) \o x
    BY <2>3, FlattenAppend
  <2>7. FlattenSeq(c) = f \o g
    BY <2>1 DEF c
  <2>8. Append(r, x) \in Seq(M)
    BY <2>1
  <2>. HIDE DEF f, g
  <2>9. (f \o g) \o x = f \o (g \o x)
    BY <2>5, ConcatAssociative, SMTT(60)
  <2>10. FlattenSeq(a \o Append(r, x)) = f \o FlattenSeq(Append(r, x))
    BY <2>2, <2>4, <2>6, <2>7, <2>9
  <2>. QED BY <2>8, <2>10 DEF f
<1>3. G \in SUBSET Seq(M)
  OBVIOUS
<1>. HIDE DEF G, M
<1>4. \A r \in Seq(M) : r \in G
  BY <1>1, <1>2, <1>3, AllByAppending
<1>. QED BY <1>4 DEF G, M

(* e gives a row of M to every text of T: what it encodes to, or how many  *)
(* tokens that is.                                                         *)
Encodes(e, T, M) == e \in [T -> M]

(* What the texts ts encode to with e, each and together.                  *)
RowsOf(e, ts) == [i \in DOMAIN ts |-> e[ts[i]]]
TokensOf(e, ts) == FlattenSeq(RowsOf(e, ts))

LEMMA RowsLen ==
  ASSUME NEW e, NEW T, NEW ts \in Seq(T)
  PROVE  Len(RowsOf(e, ts)) = Len(ts) /\ DOMAIN RowsOf(e, ts) = 1 .. Len(ts)
<1>. DEFINE total == Len(ts)
            f(i) == e[ts[i]]
<1>1. total \in Nat /\ DOMAIN ts = 1 .. total
  OBVIOUS
<1>2. RowsOf(e, ts) = [i \in 1 .. total |-> f(i)]
  BY <1>1 DEF RowsOf
<1>. HIDE DEF total, f
<1>3. Len([i \in 1 .. total |-> f(i)]) = total
  BY <1>1
<1>. QED BY <1>2, <1>3 DEF total

LEMMA RowsEntry ==
  ASSUME NEW e, NEW T, NEW ts \in Seq(T), NEW i \in 1 .. Len(ts)
  PROVE  RowsOf(e, ts)[i] = e[ts[i]]
BY DEF RowsOf

LEMMA RowsType ==
  ASSUME NEW M, NEW T, NEW e, Encodes(e, T, M), NEW ts \in Seq(T)
  PROVE  RowsOf(e, ts) \in Seq(M)
<1>. DEFINE total == Len(ts)
            f(i) == e[ts[i]]
<1>1. total \in Nat /\ DOMAIN ts = 1 .. total /\ \A i \in 1 .. total : ts[i] \in T
  OBVIOUS
<1>2. \A t \in T : e[t] \in M
  BY DEF Encodes
<1>3. RowsOf(e, ts) = [i \in 1 .. total |-> f(i)]
  BY <1>1 DEF RowsOf
<1>4. \A i \in 1 .. total : f(i) \in M
  BY <1>1, <1>2
<1>. HIDE DEF total, f
<1>5. [i \in 1 .. total |-> f(i)] \in Seq(M)
  BY <1>1, <1>4
<1>. QED BY <1>3, <1>5

LEMMA TokensType ==
  ASSUME NEW S, NEW T, NEW e, Encodes(e, T, Seq(S)), NEW ts \in Seq(T)
  PROVE  TokensOf(e, ts) \in Seq(S)
<1>1. RowsOf(e, ts) \in Seq(Seq(S))
  BY RowsType
<1>. QED BY <1>1, FlattenType DEF TokensOf

LEMMA RowsAppend ==
  ASSUME NEW M, NEW T, NEW e, Encodes(e, T, M), NEW ts \in Seq(T), NEW t \in T
  PROVE  RowsOf(e, Append(ts, t)) = Append(RowsOf(e, ts), e[t])
<1>. DEFINE total == Len(ts)
            us == Append(ts, t)
            r == RowsOf(e, ts)
            v == Append(r, e[t])
            w == RowsOf(e, us)
<1>1. us \in Seq(T) /\ Len(us) = total + 1 /\ us[total + 1] = t /\ total \in Nat /\ \A i \in 1 .. total : us[i] = ts[i]
  OBVIOUS
<1>2. r \in Seq(M)
  BY RowsType
<1>2a. Len(r) = total
  BY RowsLen
<1>2b. \A i \in 1 .. total : r[i] = e[ts[i]]
  BY RowsEntry
<1>. HIDE DEF us
<1>1a. us \in Seq(T)
  BY <1>1
<1>3. w \in Seq(M)
  BY ONLY <1>1a, Encodes(e, T, M), RowsType
<1>3a. Len(w) = Len(us)
  BY ONLY <1>1a, RowsLen
<1>3b. \A i \in 1 .. Len(us) : w[i] = e[us[i]]
  BY ONLY <1>1a, RowsEntry
<1>. HIDE DEF r, w
<1>4. e[t] \in M
  BY DEF Encodes
<1>. HIDE DEF total
<1>5. v \in Seq(M) /\ Len(v) = total + 1 /\ v[total + 1] = e[t] /\ \A i \in 1 .. total : v[i] = r[i]
  BY <1>1, <1>2, <1>2a, <1>4
<1>. HIDE DEF v
<1>6. \A i \in 1 .. total + 1 : i = total + 1 \/ i \in 1 .. total
  BY <1>1
<1>7. ASSUME NEW i \in 1 .. total + 1 PROVE v[i] = w[i]
  <2>1. w[i] = e[us[i]]
    BY <1>1, <1>3b
  <2>2. CASE i = total + 1
    BY <1>1, <1>5, <2>1, <2>2
  <2>3. CASE i \in 1 .. total
    <3>1. us[i] = ts[i]
      BY <1>1, <2>3
    <3>2. v[i] = r[i]
      BY <1>5, <2>3
    <3>3. r[i] = e[ts[i]]
      BY <1>2b, <2>3
    <3>. QED BY <2>1, <3>1, <3>2, <3>3
  <2>. QED BY <1>6, <2>2, <2>3
<1>8. v = w
  <2>. HIDE DEF v, w
  <2>1. Len(v) = Len(w) /\ \A i \in 1 .. Len(v) : v[i] = w[i]
    BY <1>1, <1>3a, <1>5, <1>7
  <2>2. v \in Seq(M) /\ w \in Seq(M)
    BY <1>3, <1>5
  <2>. QED BY ONLY <2>1, <2>2, SeqEqual
<1>. QED BY <1>8 DEF v, w, r, us

LEMMA TokensAppend ==
  ASSUME NEW S, NEW T, NEW e, Encodes(e, T, Seq(S)), NEW ts \in Seq(T), NEW t \in T
  PROVE  TokensOf(e, Append(ts, t)) = TokensOf(e, ts) \o e[t]
<1>0. RowsOf(e, ts) \in Seq(Seq(S))
  BY RowsType
<1>1. RowsOf(e, ts) \in Seq(Seq(S)) /\ e[t] \in Seq(S)
  BY <1>0 DEF Encodes
<1>2. FlattenSeq(Append(RowsOf(e, ts), e[t])) = FlattenSeq(RowsOf(e, ts)) \o e[t]
  BY <1>1, FlattenAppend
<1>3. RowsOf(e, Append(ts, t)) = Append(RowsOf(e, ts), e[t])
  BY RowsAppend
<1>. QED BY <1>2, <1>3 DEF TokensOf

LEMMA RowsConcat ==
  ASSUME NEW M, NEW T, NEW e, Encodes(e, T, M), NEW a \in Seq(T), NEW b \in Seq(T)
  PROVE  RowsOf(e, a \o b) = RowsOf(e, a) \o RowsOf(e, b)
<1>. DEFINE c == a \o b
            ra == RowsOf(e, a)
            rb == RowsOf(e, b)
            v == ra \o rb
            w == RowsOf(e, c)
<1>1. /\ c \in Seq(T) /\ Len(c) = Len(a) + Len(b) /\ Len(a) \in Nat /\ Len(b) \in Nat
      /\ \A k \in 1 .. Len(a) + Len(b) : c[k] = IF k <= Len(a) THEN a[k] ELSE b[k - Len(a)]
  BY ConcatFacts
<1>2a. ra \in Seq(M)
  BY RowsType
<1>2b. Len(ra) = Len(a)
  BY RowsLen
<1>2. \A i \in 1 .. Len(a) : ra[i] = e[a[i]]
  BY RowsEntry
<1>3a. rb \in Seq(M)
  BY RowsType
<1>3b. Len(rb) = Len(b)
  BY RowsLen
<1>3. \A i \in 1 .. Len(b) : rb[i] = e[b[i]]
  BY RowsEntry
<1>. HIDE DEF c, ra, rb
<1>1a. c \in Seq(T)
  BY <1>1
<1>4b. w \in Seq(M)
  BY ONLY <1>1a, Encodes(e, T, M), RowsType
<1>4c. Len(w) = Len(c)
  BY ONLY <1>1a, RowsLen
<1>4. \A i \in 1 .. Len(c) : w[i] = e[c[i]]
  BY ONLY <1>1a, RowsEntry
<1>5. /\ v \in Seq(M) /\ Len(v) = Len(a) + Len(b)
      /\ \A k \in 1 .. Len(a) + Len(b) : v[k] = IF k <= Len(a) THEN ra[k] ELSE rb[k - Len(a)]
  <2>1. /\ ra \o rb \in Seq(M) /\ Len(ra \o rb) = Len(ra) + Len(rb)
        /\ \A k \in 1 .. Len(ra) + Len(rb) :
             (ra \o rb)[k] = IF k <= Len(ra) THEN ra[k] ELSE rb[k - Len(ra)]
    BY ONLY <1>2a, <1>3a, ConcatFacts
  <2>. QED BY <2>1, <1>2b, <1>3b
<1>. HIDE DEF v, w
<1>6. \A k \in 1 .. Len(a) + Len(b) : IF k <= Len(a) THEN k \in 1 .. Len(a) ELSE k - Len(a) \in 1 .. Len(b)
  BY <1>1
<1>7. ASSUME NEW k \in 1 .. Len(a) + Len(b) PROVE v[k] = w[k]
  <2>1. CASE k <= Len(a)
    BY <1>1, <1>2, <1>4, <1>5, <1>6, <2>1
  <2>2. CASE ~(k <= Len(a))
    BY <1>1, <1>3, <1>4, <1>5, <1>6, <2>2
  <2>. QED BY <2>1, <2>2
<1>8. v = w
  <2>1. Len(v) = Len(w) /\ \A i \in 1 .. Len(v) : v[i] = w[i]
    BY <1>1, <1>4c, <1>5, <1>7
  <2>. QED BY <1>4b, <1>5, <2>1, SeqEqual
<1>. QED BY <1>8 DEF v, w, ra, rb, c

LEMMA TokensConcat ==
  ASSUME NEW S, NEW T, NEW e, Encodes(e, T, Seq(S)), NEW a \in Seq(T), NEW b \in Seq(T)
  PROVE  TokensOf(e, a \o b) = TokensOf(e, a) \o TokensOf(e, b)
<1>0. RowsOf(e, a) \in Seq(Seq(S))
  BY RowsType
<1>1. RowsOf(e, b) \in Seq(Seq(S))
  BY RowsType
<1>2. FlattenSeq(RowsOf(e, a) \o RowsOf(e, b)) = FlattenSeq(RowsOf(e, a)) \o FlattenSeq(RowsOf(e, b))
  BY ONLY <1>0, <1>1, FlattenConcat
<1>3. RowsOf(e, a \o b) = RowsOf(e, a) \o RowsOf(e, b)
  BY RowsConcat
<1>. QED BY <1>2, <1>3 DEF TokensOf

LEMMA RowsNone ==
  ASSUME NEW e
  PROVE  RowsOf(e, <<>>) = <<>> /\ TokensOf(e, <<>>) = <<>>
<1>1. RowsOf(e, <<>>) = <<>>
  BY DEF RowsOf
<1>. QED BY <1>1, FlattenEmpty DEF TokensOf

LEMMA RowsOne ==
  ASSUME NEW S, NEW T, NEW e, Encodes(e, T, Seq(S)), NEW t \in T
  PROVE  RowsOf(e, <<t>>) = <<e[t]>> /\ TokensOf(e, <<t>>) = e[t]
<1>1. RowsOf(e, <<t>>) = <<e[t]>>
  BY DEF RowsOf
<1>2. e[t] \in Seq(S)
  BY DEF Encodes
<1>3. FlattenSeq(<<e[t]>>) = e[t]
  BY ONLY <1>2, FlattenOne
<1>. QED BY <1>1, <1>3 DEF TokensOf

(* Texts in groups encode to what the groups encode to.                    *)
LEMMA TokensNested ==
  ASSUME NEW S, NEW T, NEW e, Encodes(e, T, Seq(S)), NEW q \in Seq(Seq(T))
  PROVE  TokensOf(e, FlattenSeq(q)) = FlattenSeq([i \in DOMAIN q |-> TokensOf(e, q[i])])
<1>. DEFINE M == Seq(T)
            g == [y \in M |-> TokensOf(e, y)]
            G == {r \in Seq(M) : TokensOf(e, FlattenSeq(r)) = TokensOf(g, r)}
<1>0. \A a, b \in Seq(T) : TokensOf(e, a \o b) = TokensOf(e, a) \o TokensOf(e, b)
  BY TokensConcat
<1>1. Encodes(g, M, Seq(S))
  <2>1. \A y \in M : TokensOf(e, y) \in Seq(S)
    BY TokensType
  <2>. QED BY <2>1 DEF Encodes
<1>2. \A y \in M : g[y] = TokensOf(e, y)
  OBVIOUS
<1>. HIDE DEF g
<1>3. <<>> \in G
  <2>1. <<>> \in Seq(M)
    OBVIOUS
  <2>. QED BY <2>1, FlattenEmpty, RowsNone
<1>4. ASSUME NEW r \in G, NEW x \in M PROVE Append(r, x) \in G
  <2>1. r \in Seq(M) /\ TokensOf(e, FlattenSeq(r)) = TokensOf(g, r)
    OBVIOUS
  <2>2. FlattenSeq(Append(r, x)) = FlattenSeq(r) \o x
    BY <2>1, FlattenAppend
  <2>3. FlattenSeq(r) \in M
    BY <2>1, FlattenType
  <2>4. TokensOf(e, FlattenSeq(r) \o x) = TokensOf(e, FlattenSeq(r)) \o TokensOf(e, x)
    <3>1. x \in Seq(T)
      BY DEF M
    <3>2. FlattenSeq(r) \in Seq(T)
      BY <2>3 DEF M
    <3>. QED BY ONLY <3>1, <3>2, <1>0
  <2>5. TokensOf(g, Append(r, x)) = TokensOf(g, r) \o g[x]
    <3>1. r \in Seq(M)
      BY <2>1
    <3>. HIDE DEF M
    <3>. QED BY ONLY <1>1, <3>1, x \in M, TokensAppend
  <2>6. Append(r, x) \in Seq(M)
    BY <2>1
  <2>. QED BY <1>2, <2>1, <2>2, <2>4, <2>5, <2>6
<1>5. G \in SUBSET Seq(M)
  OBVIOUS
<1>. HIDE DEF G, M
<1>6. \A r \in Seq(M) : r \in G
  BY <1>3, <1>4, <1>5, AllByAppending
<1>7. q \in G
  BY <1>6 DEF M
<1>8. TokensOf(e, FlattenSeq(q)) = TokensOf(g, q)
  BY <1>7 DEF G
<1>9. RowsOf(g, q) = [i \in DOMAIN q |-> TokensOf(e, q[i])]
  BY <1>2 DEF RowsOf, M
<1>. QED BY <1>8, <1>9 DEF TokensOf

(* b lists cut places of t from its beginning to its end.                  *)
Cutting(b, t, added) ==
  /\ b \in Seq(Nat) /\ Len(b) > 1
  /\ b[1] = 0 /\ b[Len(b)] = Len(t) /\ Increasing(b)
  /\ \A i \in 1 .. Len(b) : b[i] \in CutPlaces(t, added)

(* The places safe_split_ranges collects are cut places, both ends         *)
(* included.                                                               *)
LEMMA SplitBounds ==
  ASSUME NEW t \in Seq(STRING), Len(t) > 0, NEW target \in Nat \ {0}, NEW added
  PROVE  \E b : safe_split_ranges(t, target, added) = Consecutive(b) /\ Cutting(b, t, added)
<1>. DEFINE total == Len(t)
            places == CutPlaces(t, added)
            after(s) == Min({total} \cup {p \in s + target .. total - 2 : MayCut(t, p, added)})
            turn(f) == [s \in 0 .. total |-> {s} \cup IF s = total THEN {} ELSE f[after(s)]]
            c == CHOOSE f : f = turn(f)
<1>0. total \in Nat /\ total > 0
  OBVIOUS
<1>1. safe_split_ranges(t, target, added) = Consecutive(InOrder(c[0]))
  BY DEF safe_split_ranges
<1>2. \A p \in places : p \in 0 .. total
  BY <1>0 DEF CutPlaces
<1>3. 0 \in places /\ total \in places /\ places \in SUBSET (0 .. total)
  BY <1>0, <1>2 DEF CutPlaces
<1>4. ASSUME NEW s \in 0 .. total, s # total
      PROVE  after(s) \in places /\ s < after(s) /\ after(s) \in 0 .. total
  <2>. DEFINE X == {total} \cup {p \in s + target .. total - 2 : MayCut(t, p, added)}
  <2>1. X \in SUBSET Nat /\ X # {} /\ \A p \in X : s < p
    BY <1>0, <1>4
  <2>2. \A p \in X : p \in places
    <3>1. \A p \in s + target .. total - 2 : p \in 1 .. total - 2
      BY <1>0
    <3>. QED BY <3>1 DEF CutPlaces
  <2>3. after(s) = Min(X)
    OBVIOUS
  <2>. HIDE DEF X, after
  <2>4. Min(X) \in X
    BY ONLY <2>1, MinOfNumbers
  <2>. QED BY <1>2, <2>1, <2>2, <2>3, <2>4
<1>. HIDE DEF after
<1>5. c = turn(c)
  <2>. DEFINE Closed(X) == \A x \in X : x # total => after(x) \in X
              R(s) == {y \in 0 .. total : \A X \in SUBSET (0 .. total) : s \in X /\ Closed(X) => y \in X}
              g == [s \in 0 .. total |-> R(s)]
  <2>1. ASSUME NEW s \in 0 .. total, s # total PROVE R(s) = {s} \cup R(after(s))
    <3>1. after(s) \in 0 .. total
      BY <1>4, <2>1
    <3>. DEFINE X == {s} \cup R(after(s))
    <3>2. X \in SUBSET (0 .. total) /\ s \in X
      OBVIOUS
    <3>3. Closed(X)
      <4>. SUFFICES ASSUME NEW x \in X, x # total PROVE after(x) \in R(after(s))
        OBVIOUS
      <4>1. CASE x = s
        BY <3>1, <4>1
      <4>2. CASE x \in R(after(s))
        <5>1. after(x) \in 0 .. total
          BY <1>4, <4>2
        <5>2. ASSUME NEW Y \in SUBSET (0 .. total), after(s) \in Y, Closed(Y) PROVE after(x) \in Y
          <6>1. x \in Y
            BY <4>2, <5>2
          <6>. QED BY <5>2, <6>1
        <5>. QED BY <5>1, <5>2
      <4>. QED BY <4>1, <4>2
    <3>4. \A y \in R(s) : y \in X
      <4>. SUFFICES ASSUME NEW y \in R(s) PROVE y \in X
        OBVIOUS
      <4>. HIDE DEF X, Closed
      <4>. QED BY <3>2, <3>3
    <3>5. \A y \in X : y \in R(s)
      <4>. SUFFICES ASSUME NEW y \in X, NEW Y \in SUBSET (0 .. total), s \in Y, Closed(Y) PROVE y \in Y
        BY <3>2
      <4>1. CASE y = s
        BY <4>1
      <4>2. CASE y \in R(after(s))
        <5>1. after(s) \in Y
          BY <2>1
        <5>. QED BY <4>2, <5>1
      <4>. QED BY <4>1, <4>2
    <3>. QED BY <3>4, <3>5
  <2>2. R(total) = {total}
    <3>1. {total} \in SUBSET (0 .. total) /\ total \in {total} /\ Closed({total})
      BY <1>0
    <3>2. \A y \in R(total) : y \in {total}
      BY <3>1
    <3>3. total \in R(total)
      BY <1>0
    <3>. QED BY <3>2, <3>3
  <2>. HIDE DEF R
  <2>3. \A s \in 0 .. total : s # total => g[after(s)] = R(after(s))
    BY <1>4
  <2>4. \A s \in 0 .. total : g[s] = {s} \cup IF s = total THEN {} ELSE g[after(s)]
    BY <2>1, <2>2, <2>3
  <2>5. g = [s \in 0 .. total |-> g[s]]
    OBVIOUS
  <2>. HIDE DEF g
  <2>6. g = turn(g)
    BY <2>4, <2>5
  <2>. HIDE DEF turn
  <2>. QED BY <2>6
<1>6. \A s \in 0 .. total : c[s] = {s} \cup IF s = total THEN {} ELSE c[after(s)]
  BY <1>5
<1>. HIDE DEF c
<1>7. \A s \in places : c[s] \in SUBSET places /\ total \in c[s]
  <2>. DEFINE Bad == {k \in Nat : \E s \in places : k = total - s /\ ~ (c[s] \in SUBSET places /\ total \in c[s])}
  <2>1. SUFFICES ASSUME Bad # {} PROVE FALSE
    <3>1. \A s \in places : total - s \in Nat
      BY <1>0, <1>2
    <3>. QED BY <3>1
  <2>2. PICK k \in Bad : \A m \in Bad : k <= m
    <3>1. Bad \in SUBSET Nat
      OBVIOUS
    <3>. HIDE DEF Bad
    <3>. QED BY ONLY <2>1, <3>1, LeastNumber
  <2>3. PICK s \in places : k = total - s /\ ~ (c[s] \in SUBSET places /\ total \in c[s])
    OBVIOUS
  <2>4. s \in 0 .. total
    BY <1>2
  <2>5. s # total
    BY <1>3, <1>6, <2>3, <2>4
  <2>6. after(s) \in places /\ s < after(s) /\ after(s) \in 0 .. total
    BY <1>4, <2>4, <2>5
  <2>7. c[after(s)] \in SUBSET places /\ total \in c[after(s)]
    <3>1. total - after(s) \in Nat /\ total - after(s) < k /\ k \in Nat
      BY <1>0, <2>3, <2>4, <2>6
    <3>2. total - after(s) \notin Bad
      BY <2>2, <3>1
    <3>. QED BY <2>6, <3>1, <3>2
  <2>8. c[s] = {s} \cup c[after(s)]
    BY <1>6, <2>4, <2>5
  <2>. QED BY <2>3, <2>7, <2>8
<1>8. c[0] \in SUBSET places /\ total \in c[0] /\ 0 \in c[0]
  BY <1>0, <1>3, <1>6, <1>7
<1>. DEFINE all == c[0]
            b == InOrder(all)
<1>9. (\A x \in all : x \in Nat) /\ IsFiniteSet(all)
  <2>1. IsFiniteSet(0 .. total)
    BY <1>0, FS_Interval
  <2>2. all \in SUBSET (0 .. total)
    BY <1>3, <1>8
  <2>. QED BY <2>1, <2>2, FS_Subset
<1>10. total \in all /\ 0 \in all /\ all \in SUBSET places
  BY <1>8
<1>. HIDE DEF all
<1>11. /\ b \in Seq(Nat) /\ Len(b) = Cardinality(all) /\ Increasing(b)
       /\ \A x : x \in all <=> \E i \in 1 .. Len(b) : b[i] = x
  BY ONLY <1>9, InOrderLists
<1>. HIDE DEF b
<1>12. Len(b) \in Nat /\ \A i \in 1 .. Len(b) : b[i] \in places /\ b[i] \in 0 .. total
  BY <1>10, <1>11, <1>2
<1>13. PICK i \in 1 .. Len(b) : b[i] = 0
  BY <1>10, <1>11
<1>14. PICK j \in 1 .. Len(b) : b[j] = total
  BY <1>10, <1>11
<1>15. i = 1
  <2>. SUFFICES ASSUME 1 < i PROVE FALSE
    BY <1>12
  <2>1. b[1] < b[i] /\ b[1] \in 0 .. total
    BY <1>11, <1>12 DEF Increasing
  <2>. QED BY <1>13, <2>1
<1>16. j = Len(b)
  <2>. SUFFICES ASSUME j < Len(b) PROVE FALSE
    BY <1>12
  <2>1. b[j] < b[Len(b)] /\ b[Len(b)] \in 0 .. total
    BY <1>11, <1>12 DEF Increasing
  <2>. QED BY <1>14, <2>1, <1>0
<1>17. Len(b) > 1
  BY <1>0, <1>12, <1>13, <1>14, <1>15, <1>16
<1>18. safe_split_ranges(t, target, added) = Consecutive(b)
  BY <1>1 DEF b, all
<1>19. Cutting(b, t, added)
  BY <1>11, <1>12, <1>13, <1>14, <1>15, <1>16, <1>17 DEF Cutting
<1>. QED BY <1>18, <1>19

Tokens == Seq(STRING)

(* The texts a tokenizer gives tokens for, and what it gives.              *)
Encodable(tok, two_level) ==
  {t \in Seq(STRING) : EncodeDocument(tok, two_level, "code", t) \in Seq(Tokens)}
Encoder(tok, two_level) ==
  [t \in Encodable(tok, two_level) |-> EncodeDocument(tok, two_level, "code", t)]

LEMMA EncoderEncodes ==
  ASSUME NEW tok, NEW two_level
  PROVE  Encodes(Encoder(tok, two_level), Encodable(tok, two_level), Seq(Tokens))
BY DEF Encodes, Encoder, Encodable

LEMMA SliceType ==
  ASSUME NEW t \in Seq(STRING), NEW lo \in 0 .. Len(t), NEW hi \in 0 .. Len(t), lo < hi
  PROVE  Slice(t, lo, hi) \in Seq(STRING) /\ Len(Slice(t, lo, hi)) = hi - lo
BY DEF Slice

LEMMA SliceAll ==
  ASSUME NEW t \in Seq(STRING)
  PROVE  Slice(t, 0, Len(t)) = t
BY DEF Slice

LEMMA SubSeqAppend ==
  ASSUME NEW M, NEW s \in Seq(M), NEW k \in 0 .. Len(s) - 1
  PROVE  SubSeq(s, 1, k + 1) = Append(SubSeq(s, 1, k), s[k + 1])
<1>. DEFINE a == SubSeq(s, 1, k)
            x == s[k + 1]
            v == Append(a, x)
            w == SubSeq(s, 1, k + 1)
<1>1. x \in M /\ a \in Seq(M) /\ Len(a) = k /\ \A i \in 1 .. k : a[i] = s[i]
  OBVIOUS
<1>2. w \in Seq(M) /\ Len(w) = k + 1 /\ \A i \in 1 .. k + 1 : w[i] = s[i]
  OBVIOUS
<1>. HIDE DEF a, w
<1>3. v \in Seq(M) /\ Len(v) = k + 1 /\ v[k + 1] = x /\ \A i \in 1 .. k : v[i] = a[i]
  BY <1>1
<1>. HIDE DEF v
<1>4. \A i \in 1 .. k + 1 : i = k + 1 \/ i \in 1 .. k
  OBVIOUS
<1>5. Len(v) = Len(w) /\ \A i \in 1 .. Len(v) : v[i] = w[i]
  BY <1>1, <1>2, <1>3, <1>4
<1>6. v \in Seq(M) /\ w \in Seq(M)
  BY <1>2, <1>3
<1>7. v = w
  BY ONLY <1>5, <1>6, SeqEqual
<1>. QED BY <1>7 DEF v, w, a

LEMMA SubSeqAll ==
  ASSUME NEW M, NEW s \in Seq(M)
  PROVE  SubSeq(s, 1, Len(s)) = s
OBVIOUS

LEMMA SubSeqNone ==
  ASSUME NEW M, NEW s \in Seq(M)
  PROVE  SubSeq(s, 1, 0) = <<>>
OBVIOUS

(* parts are what lies between the places of b in t.                       *)
PartsAlong(parts, t, b) ==
  /\ parts \in Seq(Seq(STRING)) /\ Len(parts) = Len(b) - 1
  /\ \A i \in 1 .. Len(b) - 1 : parts[i] = Slice(t, b[i], b[i + 1])

(* The parts of a text between the places of b encode to what the text     *)
(* does.                                                                   *)
LEMMA CutsTelescope ==
  ASSUME NEW tok, NEW two_level, NEW t \in Encodable(tok, two_level),
         CutsKeepTokens(tok, two_level, t),
         NEW b, Cutting(b, t, tok.added), NEW parts, PartsAlong(parts, t, b)
  PROVE  /\ parts \in Seq(Encodable(tok, two_level))
         /\ TokensOf(Encoder(tok, two_level), parts) = Encoder(tok, two_level)[t]
<1>. DEFINE m == Len(parts)
            T == Encodable(tok, two_level)
            e == Encoder(tok, two_level)
            E(x) == EncodeDocument(tok, two_level, "code", x)
            upto(k) == TokensOf(e, SubSeq(parts, 1, k))
<1>0a. /\ b \in Seq(Nat) /\ Len(b) > 1
       /\ b[1] = 0 /\ b[Len(b)] = Len(t) /\ Increasing(b)
  BY DEF Cutting
<1>0b. \A i \in 1 .. Len(b) : b[i] \in CutPlaces(t, tok.added)
  BY DEF Cutting
<1>0c. parts \in Seq(Seq(STRING)) /\ Len(parts) = Len(b) - 1
  BY DEF PartsAlong
<1>0d. \A i \in 1 .. Len(b) - 1 : parts[i] = Slice(t, b[i], b[i + 1])
  BY DEF PartsAlong
<1>. USE <1>0a, <1>0b, <1>0c, <1>0d
<1>1. m \in Nat /\ m > 0 /\ m = Len(b) - 1
  OBVIOUS
<1>1a. t \in Seq(STRING)
  BY DEF Encodable
<1>2. \A i \in 1 .. m : /\ b[i] \in CutPlaces(t, tok.added) /\ b[i + 1] \in CutPlaces(t, tok.added)
                        /\ b[i] < b[i + 1] /\ b[i] \in Nat /\ b[i + 1] \in Nat
  BY <1>1, SMTT(60) DEF Increasing
<1>2a. \A i \in 1 .. m : b[i + 1] <= Len(t)
  <2>. TAKE i \in 1 .. m
  <2>1. Len(b) \in 1 .. Len(b) /\ i + 1 \in 1 .. Len(b) /\ Len(t) \in Nat
    BY <1>1, <1>1a
  <2>2. CASE i + 1 = Len(b)
    BY <2>1, <2>2
  <2>3. CASE i + 1 # Len(b)
    <3>1. i + 1 < Len(b)
      BY <1>1, <2>1, <2>3
    <3>2. b[i + 1] < b[Len(b)]
      BY <2>1, <3>1 DEF Increasing
    <3>. QED BY <1>2, <2>1, <3>2
  <2>. QED BY <2>2, <2>3
<1>3. \A i \in 1 .. m : i > 1 => 0 < b[i]
  <2>1. 1 \in 1 .. Len(b) /\ \A i \in 1 .. m : i \in 1 .. Len(b)
    BY <1>1
  <2>. QED BY <2>1 DEF Increasing
<1>4. \A lo, hi \in CutPlaces(t, tok.added) : lo < hi =>
        /\ E(Slice(t, lo, hi)) \in Seq(Tokens)
        /\ 0 < lo => E(Slice(t, 0, hi)) = E(Slice(t, 0, lo)) \o E(Slice(t, lo, hi))
  BY DEF CutsKeepTokens, Tokens
<1>. HIDE DEF E
<1>5. \A i \in 1 .. m : parts[i] \in T /\ e[parts[i]] = E(Slice(t, b[i], b[i + 1]))
  <2>. TAKE i \in 1 .. m
  <2>1. parts[i] = Slice(t, b[i], b[i + 1])
    BY <1>1
  <2>2. parts[i] \in Seq(STRING)
    BY <1>1
  <2>3. E(parts[i]) \in Seq(Tokens)
    BY <1>2, <1>4, <2>1
  <2>4. parts[i] \in T
    BY <2>2, <2>3 DEF E, Encodable
  <2>5. e[parts[i]] = E(parts[i])
    BY <2>4 DEF E, Encoder
  <2>. QED BY <2>1, <2>4, <2>5
<1>6. parts \in Seq(T)
  <2>1. parts = [i \in 1 .. m |-> parts[i]]
    BY <1>1
  <2>. HIDE DEF T
  <2>2. [i \in 1 .. m |-> parts[i]] \in Seq(T)
    BY <1>1, <1>5
  <2>. QED BY <2>1, <2>2
<1>7. Encodes(e, T, Seq(Tokens))
  BY EncoderEncodes
<1>. HIDE DEF T, e
<1>8. \A k \in 0 .. m - 1 : upto(k + 1) = upto(k) \o e[parts[k + 1]]
  <2>. TAKE k \in 0 .. m - 1
  <2>1. SubSeq(parts, 1, k + 1) = Append(SubSeq(parts, 1, k), parts[k + 1])
    BY <1>6, SubSeqAppend
  <2>. DEFINE a == SubSeq(parts, 1, k)
              x == parts[k + 1]
  <2>2. a \in Seq(T)
    BY <1>1, <1>6
  <2>3. x \in T
    BY <1>1, <1>5
  <2>. HIDE DEF a, x
  <2>4. TokensOf(e, Append(a, x)) = TokensOf(e, a) \o e[x]
    BY ONLY <1>7, <2>2, <2>3, TokensAppend
  <2>. QED BY <2>1, <2>4 DEF a, x
<1>9. upto(0) = <<>>
  <2>1. SubSeq(parts, 1, 0) = <<>>
    BY <1>6, SubSeqNone
  <2>. QED BY <2>1, RowsNone
<1>. HIDE DEF upto
<1>10. \A k \in 1 .. m : upto(k) = E(Slice(t, 0, b[k + 1]))
  <2>. DEFINE Bad == {k \in 1 .. m : upto(k) # E(Slice(t, 0, b[k + 1]))}
  <2>1. SUFFICES ASSUME Bad # {} PROVE FALSE
    OBVIOUS
  <2>2. PICK k \in Bad : \A i \in Bad : k <= i
    <3>1. Bad \in SUBSET Nat
      BY <1>1
    <3>. HIDE DEF Bad
    <3>. QED BY ONLY <2>1, <3>1, LeastNumber
  <2>3. k \in 1 .. m /\ upto(k) # E(Slice(t, 0, b[k + 1]))
    OBVIOUS
  <2>4. k - 1 \in 0 .. m - 1 /\ (k - 1) + 1 = k
    BY <1>1, <2>3
  <2>5. upto(k) = upto(k - 1) \o e[parts[k]]
    BY <1>8, <2>4
  <2>6. CASE k = 1
    <3>0. k - 1 = 0
      BY <2>6
    <3>1. upto(1) = <<>> \o e[parts[1]]
      BY <1>9, <2>5, <2>6, <3>0
    <3>2. e[parts[1]] = E(Slice(t, 0, b[2]))
      BY <1>1, <1>5, SMTT(60)
    <3>3. e[parts[1]] \in Seq(Tokens)
      BY <1>1, <1>5, <1>7 DEF Encodes
    <3>4. <<>> \o e[parts[1]] = e[parts[1]]
      BY <3>3
    <3>. QED BY <2>3, <2>6, <3>1, <3>2, <3>4
  <2>7. CASE k > 1
    <3>1. k - 1 \in 1 .. m /\ k - 1 < k
      BY <1>1, <2>3, <2>7
    <3>2. upto(k - 1) = E(Slice(t, 0, b[k]))
      <4>1. k - 1 \notin Bad
        <5>1. k \in Int /\ ~ (k <= k - 1)
          BY <1>1, <2>3
        <5>. HIDE DEF Bad
        <5>. QED BY <2>2, <5>1
      <4>. QED BY <3>1, <2>4, <4>1
    <3>3. E(Slice(t, 0, b[k + 1])) = E(Slice(t, 0, b[k])) \o E(Slice(t, b[k], b[k + 1]))
      BY <1>2, <1>3, <1>4, <2>3, <2>7
    <3>4. e[parts[k]] = E(Slice(t, b[k], b[k + 1]))
      BY <1>5, <2>3
    <3>. QED BY <2>3, <2>5, <3>2, <3>3, <3>4
  <2>. QED BY <2>3, <2>6, <2>7
<1>11. upto(m) = E(t)
  <2>1. m \in 1 .. m /\ m + 1 = Len(b)
    BY <1>1
  <2>2. upto(m) = E(Slice(t, 0, Len(t)))
    BY <1>10, <2>1
  <2>3. Slice(t, 0, Len(t)) = t
    BY <1>1a, SliceAll
  <2>. QED BY <2>2, <2>3
<1>12. SubSeq(parts, 1, m) = parts
  BY <1>6, SubSeqAll
<1>13. E(t) = e[t]
  BY DEF E, e, Encoder
<1>14. TokensOf(e, parts) = e[t]
  BY <1>11, <1>12, <1>13 DEF upto
<1>. QED BY <1>6, <1>14 DEF T, e

PartsOf(t, ranges) == [i \in DOMAIN ranges |-> Slice(t, ranges[i][1], ranges[i][2])]

(* The ranges r of t run from a cut place to a later one, and the parts    *)
(* encode to what t does.                                                  *)
KeepTokens(tok, two_level, t, r, total, parts) ==
  /\ total \in Nat \ {0} /\ DOMAIN r = 1 .. total /\ Len(r) = total
  /\ \A i \in 1 .. total : \E lo, hi \in CutPlaces(t, tok.added) : lo < hi /\ r[i] = <<lo, hi>>
  /\ parts = PartsOf(t, r)
  /\ parts \in Seq(Encodable(tok, two_level)) /\ Len(parts) = total
  /\ TokensOf(Encoder(tok, two_level), parts) = Encoder(tok, two_level)[t]

LEMMA SplitRanges ==
  ASSUME NEW tok, NEW two_level, NEW t \in Encodable(tok, two_level), Len(t) > 0,
         NEW target \in Nat \ {0}, CutsKeepTokens(tok, two_level, t),
         NEW r, r = safe_split_ranges(t, target, tok.added)
  PROVE  \E total, parts : KeepTokens(tok, two_level, t, r, total, parts)
<1>0. t \in Seq(STRING)
  BY DEF Encodable
<1>1a. PICK b : safe_split_ranges(t, target, tok.added) = Consecutive(b) /\ Cutting(b, t, tok.added)
  BY <1>0, SplitBounds
<1>1. /\ safe_split_ranges(t, target, tok.added) = Consecutive(b)
      /\ b \in Seq(Nat) /\ Len(b) > 1 /\ Increasing(b)
      /\ \A i \in 1 .. Len(b) : b[i] \in CutPlaces(t, tok.added)
  BY <1>1a DEF Cutting
<1>. DEFINE total == Len(b) - 1
            parts == PartsOf(t, r)
<1>2. total \in Nat \ {0} /\ Len(b) \in Nat
  BY <1>1
<1>3. r = [i \in 1 .. total |-> <<b[i], b[i + 1]>>]
  BY <1>1, r = safe_split_ranges(t, target, tok.added) DEF Consecutive
<1>4. DOMAIN r = 1 .. total /\ Len(r) = total
  <2>. HIDE DEF total
  <2>. QED BY <1>2, <1>3
<1>5. \A i \in 1 .. total : r[i] = <<b[i], b[i + 1]>> /\ r[i][1] = b[i] /\ r[i][2] = b[i + 1]
  BY <1>3
<1>6. \A i \in 1 .. total : /\ b[i] \in CutPlaces(t, tok.added) /\ b[i + 1] \in CutPlaces(t, tok.added)
                        /\ b[i] < b[i + 1] /\ b[i] \in Nat /\ b[i + 1] \in Nat
  BY <1>1, <1>2 DEF Increasing
<1>7. \A p \in CutPlaces(t, tok.added) : p \in 0 .. Len(t)
  BY <1>0 DEF CutPlaces
<1>. HIDE DEF total
<1>8. parts = [i \in 1 .. total |-> Slice(t, b[i], b[i + 1])]
  BY <1>4, <1>5 DEF PartsOf
<1>9. \A i \in 1 .. total : Slice(t, b[i], b[i + 1]) \in Seq(STRING)
  BY <1>0, <1>6, <1>7, SliceType
<1>10. /\ parts \in Seq(Seq(STRING)) /\ Len(parts) = total
       /\ \A i \in 1 .. total : parts[i] = Slice(t, b[i], b[i + 1])
  <2>. DEFINE f(i) == Slice(t, b[i], b[i + 1])
              M == Seq(STRING)
  <2>1. \A i \in 1 .. total : f(i) \in M
    BY <1>9
  <2>2. parts = [i \in 1 .. total |-> f(i)]
    BY <1>8
  <2>. HIDE DEF f, M, parts
  <2>3. [i \in 1 .. total |-> f(i)] \in Seq(M) /\ Len([i \in 1 .. total |-> f(i)]) = total
    BY <1>2, <2>1
  <2>4. \A i \in 1 .. total : parts[i] = f(i)
    BY <2>2
  <2>. QED BY <2>2, <2>3, <2>4 DEF f, M
<1>. HIDE DEF parts
<1>11. PartsAlong(parts, t, b)
  BY <1>10 DEF PartsAlong, total
<1>12. /\ parts \in Seq(Encodable(tok, two_level))
       /\ TokensOf(Encoder(tok, two_level), parts) = Encoder(tok, two_level)[t]
  BY <1>1a, <1>11, CutsTelescope
<1>13. \A i \in 1 .. total : \E lo, hi \in CutPlaces(t, tok.added) : lo < hi /\ r[i] = <<lo, hi>>
  BY <1>5, <1>6
<1>14. parts = PartsOf(t, r)
  BY DEF parts
<1>. HIDE DEF parts
<1>15. KeepTokens(tok, two_level, t, r, total, parts)
  BY ONLY <1>2, <1>4, <1>10, <1>12, <1>13, <1>14 DEF KeepTokens
<1>. QED BY <1>15

LEMMA FlattenNonEmpty ==
  ASSUME NEW S, NEW q \in Seq(Seq(S)), Len(q) > 0, \A i \in 1 .. Len(q) : Len(q[i]) > 0
  PROVE  Len(FlattenSeq(q)) > 0
<1>. DEFINE M == Seq(S)
<1>1. q \in Seq(M)
  OBVIOUS
<1>2. PICK f \in Seq(M), x \in M : q = Append(f, x)
  <2>. HIDE DEF M
  <2>1. \E f \in Seq(M), x \in M : q = Append(f, x) /\ Len(f) < Len(q)
    BY ONLY <1>1, Len(q) > 0, LastFacts
  <2>. QED BY <2>1
<1>3. q[Len(q)] = x /\ Len(q) \in 1 .. Len(q)
  BY <1>2
<1>4. Len(x) > 0
  BY <1>3
<1>5. FlattenSeq(q) = FlattenSeq(f) \o x
  BY <1>2, FlattenAppend
<1>6. FlattenSeq(f) \in Seq(S)
  BY <1>2, FlattenType
<1>7. Len(FlattenSeq(f) \o x) = Len(FlattenSeq(f)) + Len(x) /\ Len(FlattenSeq(f)) \in Nat
  <2>. DEFINE g == FlattenSeq(f)
  <2>1. g \in Seq(S) /\ x \in Seq(S)
    BY <1>6
  <2>. HIDE DEF g
  <2>2. Len(g \o x) = Len(g) + Len(x) /\ Len(g) \in Nat
    BY <2>1
  <2>. QED BY <2>2 DEF g
<1>8. Len(x) \in Nat
  OBVIOUS
<1>. QED BY <1>4, <1>5, <1>7, <1>8

LEMMA SizesArePositive == Sizes.frag_big \in Nat \ {0} /\ Sizes.tail_target \in Nat \ {0}
<1>. DEFINE q == Target \div 4
            m == Max({q, MIN_CHUNK_BYTES})
<1>1. q \in Nat /\ Target \in Nat \ {0} /\ MIN_CHUNK_BYTES \in Nat \ {0}
  BY BatchAssumption
<1>. HIDE DEF q
<1>2. m \in {q, MIN_CHUNK_BYTES} /\ m >= MIN_CHUNK_BYTES
  <2>1. \E x \in {q, MIN_CHUNK_BYTES} : \A y \in {q, MIN_CHUNK_BYTES} : x >= y
    BY <1>1
  <2>. QED BY <2>1 DEF Max
<1>3. m \in Nat \ {0} /\ 2 * Target \in Nat \ {0}
  BY <1>1, <1>2
<1>4. Sizes.frag_big \in {2 * Target, Target} /\ Sizes.tail_target \in {m, Target}
  BY DEF Sizes, q
<1>. QED BY <1>1, <1>3, <1>4

(* What CutsAreSafe says of a document that may be cut.                    *)
SafelyCut(tok, two_level, doc) ==
  /\ CutsKeepTokens(tok, two_level, doc)
  /\ \A lo, hi \in CutPlaces(doc, tok.added) : lo < hi =>
       CutsKeepTokens(tok, two_level, Slice(doc, lo, hi))

(* The fragments of a document, cut once or twice, encode to what it does. *)
LEMMA FragmentsKeepTokens ==
  ASSUME NEW two_level, NEW doc \in Encodable(Tok, two_level), Len(doc) > 0,
         SafelyCut(Tok, two_level, doc), NEW head_len
  PROVE  \E parts \in Seq(Encodable(Tok, two_level)) :
           /\ push_fragment_chunks(doc, head_len) = FragmentChunks(parts)
           /\ Len(parts) > 0
           /\ TokensOf(Encoder(Tok, two_level), parts) = Encoder(Tok, two_level)[doc]
<1>. DEFINE T == Encodable(Tok, two_level)
            e == Encoder(Tok, two_level)
            r == safe_split_ranges(doc, Sizes.frag_big, Tok.added)
            cut(x) == PartsOf(x, safe_split_ranges(x, Sizes.tail_target, Tok.added))
            whole(p) == p[1] < head_len \/ p[2] - p[1] <= Sizes.tail_target
            part(p) == IF whole(p) THEN <<Slice(doc, p[1], p[2])>> ELSE cut(Slice(doc, p[1], p[2]))
            parts == FlattenSeq([i \in DOMAIN r |-> part(r[i])])
<1>1. push_fragment_chunks(doc, head_len) = FragmentChunks(parts)
  BY DEF push_fragment_chunks, PartsOf
<1>2. doc \in Seq(STRING)
  BY DEF Encodable
<1>3a. PICK total, firsts : KeepTokens(Tok, two_level, doc, r, total, firsts)
  <2>1. CutsKeepTokens(Tok, two_level, doc)
    BY DEF SafelyCut
  <2>2. Sizes.frag_big \in Nat \ {0}
    BY SizesArePositive
  <2>3. r = safe_split_ranges(doc, Sizes.frag_big, Tok.added)
    OBVIOUS
  <2>. HIDE DEF r
  <2>. QED BY <2>1, <2>2, <2>3, SplitRanges
<1>. HIDE DEF r
<1>3. /\ total \in Nat \ {0} /\ DOMAIN r = 1 .. total /\ Len(r) = total
      /\ \A i \in 1 .. total : \E lo, hi \in CutPlaces(doc, Tok.added) : lo < hi /\ r[i] = <<lo, hi>>
      /\ firsts = PartsOf(doc, r)
      /\ firsts \in Seq(T) /\ Len(firsts) = total
      /\ TokensOf(e, firsts) = e[doc]
  BY <1>3a DEF KeepTokens
<1>4. \A i \in 1 .. total : firsts[i] = Slice(doc, r[i][1], r[i][2]) /\ firsts[i] \in T
  <2>1. \A i \in 1 .. total : firsts[i] = Slice(doc, r[i][1], r[i][2])
    BY <1>3 DEF PartsOf
  <2>2. \A i \in 1 .. total : firsts[i] \in T
    <3>. HIDE DEF T
    <3>. QED BY <1>3
  <2>. QED BY <2>1, <2>2
<1>5. \A p \in CutPlaces(doc, Tok.added) : p \in 0 .. Len(doc)
  BY <1>2 DEF CutPlaces
<1>6. ASSUME NEW i \in 1 .. total
      PROVE  /\ part(r[i]) \in Seq(T) /\ Len(part(r[i])) > 0
             /\ TokensOf(e, part(r[i])) = e[firsts[i]]
  <2>. DEFINE x == firsts[i]
              y == part(r[i])
  <2>1. x \in T /\ x = Slice(doc, r[i][1], r[i][2])
    BY <1>4
  <2>2. y = IF whole(r[i]) THEN <<x>> ELSE cut(x)
    BY <2>1
  <2>3. Len(x) > 0 /\ CutsKeepTokens(Tok, two_level, x)
    <3>1. PICK lo \in CutPlaces(doc, Tok.added), hi \in CutPlaces(doc, Tok.added) :
            lo < hi /\ r[i] = <<lo, hi>>
      BY <1>3
    <3>2. x = Slice(doc, lo, hi)
      BY <2>1, <3>1
    <3>3. lo \in 0 .. Len(doc) /\ hi \in 0 .. Len(doc)
      BY <1>5
    <3>4. Len(Slice(doc, lo, hi)) = hi - lo
      BY <1>2, <3>1, <3>3, SliceType
    <3>5. CutsKeepTokens(Tok, two_level, Slice(doc, lo, hi))
      BY <3>1 DEF SafelyCut
    <3>6. hi - lo > 0
      BY <1>2, <3>1, <3>3
    <3>. QED BY <3>2, <3>4, <3>5, <3>6
  <2>4. Encodes(e, T, Seq(Tokens))
    BY EncoderEncodes
  <2>5. CASE whole(r[i])
    <3>1. y = <<x>>
      BY <2>2, <2>5
    <3>. HIDE DEF x, y
    <3>2. TokensOf(e, <<x>>) = e[x]
      <4>. HIDE DEF e, T
      <4>1. x \in T
        BY <2>1
      <4>2. RowsOf(e, <<x>>) = <<e[x]>> /\ TokensOf(e, <<x>>) = e[x]
        BY ONLY <2>4, <4>1, RowsOne
      <4>. QED BY <4>2
    <3>3. <<x>> \in Seq(T) /\ Len(<<x>>) > 0
      BY <2>1
    <3>4. y \in Seq(T) /\ Len(y) > 0 /\ TokensOf(e, y) = e[x]
      BY <3>1, <3>2, <3>3
    <3>. QED BY <3>4 DEF x, y
  <2>6. CASE ~ whole(r[i])
    <3>. DEFINE s == safe_split_ranges(x, Sizes.tail_target, Tok.added)
    <3>1. y = PartsOf(x, s)
      BY <2>2, <2>6
    <3>2. Sizes.tail_target \in Nat \ {0}
      BY SizesArePositive
    <3>3. s = safe_split_ranges(x, Sizes.tail_target, Tok.added)
      OBVIOUS
    <3>. HIDE DEF x, y, s
    <3>4. PICK m, seconds : KeepTokens(Tok, two_level, x, s, m, seconds)
      BY <2>1, <2>3, <3>2, <3>3, SplitRanges
    <3>5. y = seconds
      BY <3>1, <3>4 DEF KeepTokens
    <3>6. y \in Seq(T) /\ Len(y) > 0 /\ TokensOf(e, y) = e[x]
      BY <3>4, <3>5 DEF KeepTokens
    <3>. QED BY <3>6 DEF x, y
  <2>. QED BY <2>5, <2>6
<1>. HIDE DEF part
<1>. DEFINE f(i) == part(r[i])
            M == Seq(T)
            q == [i \in 1 .. total |-> f(i)]
<1>7. q \in Seq(M) /\ Len(q) = total /\ DOMAIN q = 1 .. total /\ \A i \in 1 .. total : q[i] = f(i)
  <2>1. \A i \in 1 .. total : f(i) \in M
    BY <1>6
  <2>2. total \in Nat
    BY <1>3
  <2>. HIDE DEF f, M
  <2>. QED BY <2>1, <2>2
<1>8. parts = FlattenSeq(q)
  BY <1>3
<1>. HIDE DEF parts, q
<1>9. \A i \in 1 .. total : q[i] \in Seq(T) /\ Len(q[i]) > 0 /\ TokensOf(e, q[i]) = e[firsts[i]]
  BY <1>6, <1>7
<1>. HIDE DEF f, e, T
<1>10. q \in Seq(Seq(T))
  BY <1>7
<1>10a. Len(q) > 0 /\ \A i \in 1 .. Len(q) : Len(q[i]) > 0
  BY <1>3, <1>7, <1>9
<1>11. Len(FlattenSeq(q)) > 0
  BY ONLY <1>10, <1>10a, FlattenNonEmpty
<1>12. FlattenSeq(q) \in Seq(T)
  BY ONLY <1>10, FlattenType
<1>13. TokensOf(e, FlattenSeq(q)) = FlattenSeq([i \in DOMAIN q |-> TokensOf(e, q[i])])
  <2>1. Encodes(e, T, Seq(Tokens))
    BY EncoderEncodes DEF e, T
  <2>. QED BY ONLY <1>10, <2>1, TokensNested
<1>14. [i \in DOMAIN q |-> TokensOf(e, q[i])] = RowsOf(e, firsts)
  <2>1. DOMAIN firsts = 1 .. total
    BY <1>3
  <2>. QED BY <1>7, <1>9, <2>1 DEF RowsOf
<1>15. TokensOf(e, parts) = e[doc]
  BY <1>3, <1>8, <1>13, <1>14 DEF TokensOf
<1>16. parts \in Seq(T) /\ Len(parts) > 0
  BY <1>8, <1>11, <1>12
<1>. QED BY <1>1, <1>15, <1>16 DEF e, T

(* How many tokens a text encodes to.                                      *)
Lengths(e, T) == [t \in T |-> Len(e[t])]

LEMMA LengthsEncode ==
  ASSUME NEW e, NEW T, NEW S, Encodes(e, T, Seq(S))
  PROVE  Encodes(Lengths(e, T), T, Nat)
BY DEF Encodes, Lengths

(* The rows once those of one more chunk are joined to c, and g[k] those   *)
(* of the first k of the chunks cs behind g[0].                            *)
WithRows(c, lens, continues) ==
  IF continues THEN [c EXCEPT ![Len(c)] = @ + Head(lens)] \o Tail(lens) ELSE c \o lens
Continues(chunk) == chunk.fragment /\ ~chunk.first
StepsOf(l, cs, g) ==
  \A k \in 1 .. Len(cs) :
    /\ g[k] \in Seq(Nat)
    /\ g[k] = WithRows(g[k - 1], RowsOf(l, cs[k].docs), Continues(cs[k]))
JoinsOf(l, cs, g) == g[0] = <<>> /\ StepsOf(l, cs, g)

LEMMA JoinsType ==
  ASSUME NEW l, NEW C, NEW cs \in Seq(C), NEW g, JoinsOf(l, cs, g), NEW k \in 0 .. Len(cs)
  PROVE  g[k] \in Seq(Nat)
<1>1. CASE k = 0
  <2>1. g[0] = <<>>
    BY DEF JoinsOf
  <2>2. <<>> \in Seq(Nat)
    OBVIOUS
  <2>. QED BY <1>1, <2>1, <2>2
<1>2. CASE k # 0
  <2>1. k \in 1 .. Len(cs)
    BY <1>2
  <2>. QED BY <2>1 DEF JoinsOf, StepsOf
<1>. QED BY <1>1, <1>2

LEMMA JoinsConcat ==
  ASSUME NEW l, NEW C, NEW cs \in Seq(C), NEW ds \in Seq(C), NEW g, JoinsOf(l, cs, g),
         NEW h, h[0] = g[Len(cs)], StepsOf(l, ds, h)
  PROVE  \E f : JoinsOf(l, cs \o ds, f) /\ f[Len(cs \o ds)] = h[Len(ds)]
<1>. DEFINE total == Len(cs)
            m == Len(ds)
            all == cs \o ds
            f == [k \in 0 .. total + m |-> IF k <= total THEN g[k] ELSE h[k - total]]
            turn(g0, k, c) == WithRows(g0[k - 1], RowsOf(l, c.docs), Continues(c))
<1>1. /\ total \in Nat /\ m \in Nat /\ Len(all) = total + m
      /\ \A k \in 1 .. total + m : all[k] = IF k <= total THEN cs[k] ELSE ds[k - total]
  BY ConcatFacts
<1>2. g[0] = <<>> /\ \A k \in 1 .. total : g[k] \in Seq(Nat) /\ g[k] = turn(g, k, cs[k])
  BY DEF JoinsOf, StepsOf
<1>3. \A k \in 1 .. m : h[k] \in Seq(Nat) /\ h[k] = turn(h, k, ds[k])
  BY DEF StepsOf
<1>4. h[0] = g[total]
  OBVIOUS
<1>. HIDE DEF total, m, all
<1>5. f[0] = <<>>
  BY <1>1, <1>2
<1>6. f[total + m] = h[m]
  <2>1. CASE m = 0
    BY <1>1, <1>4, <2>1
  <2>2. CASE m # 0
    <3>1. total + m \in 0 .. total + m /\ ~ (total + m <= total) /\ (total + m) - total = m
      BY <1>1, <2>2
    <3>. QED BY <3>1
  <2>. QED BY <2>1, <2>2
<1>7. ASSUME NEW k \in 1 .. total + m PROVE f[k] \in Seq(Nat) /\ f[k] = turn(f, k, all[k])
  <2>1. CASE k <= total
    <3>1. k \in 1 .. total /\ k - 1 \in 0 .. total + m /\ k - 1 <= total /\ k \in 0 .. total + m
      BY <1>1, <2>1
    <3>2. f[k] = g[k] /\ f[k - 1] = g[k - 1] /\ all[k] = cs[k]
      BY <1>1, <2>1, <3>1
    <3>. HIDE DEF f
    <3>. QED BY <1>2, <3>1, <3>2
  <2>2. CASE ~ (k <= total)
    <3>1. k - total \in 1 .. m /\ k \in 0 .. total + m /\ k - 1 \in 0 .. total + m
      BY <1>1, <2>2
    <3>2. f[k] = h[k - total] /\ all[k] = ds[k - total]
      BY <1>1, <2>2, <3>1
    <3>3. f[k - 1] = h[(k - total) - 1]
      <4>1. CASE k - 1 <= total
        <5>1. k - 1 = total /\ (k - total) - 1 = 0
          BY <1>1, <2>2, <4>1
        <5>2. f[k - 1] = g[total]
          BY <3>1, <5>1
        <5>. QED BY <1>4, <5>1, <5>2
      <4>2. CASE ~ (k - 1 <= total)
        <5>1. (k - 1) - total = (k - total) - 1
          BY <1>1
        <5>. QED BY <3>1, <4>2, <5>1
      <4>. QED BY <4>1, <4>2
    <3>. HIDE DEF f
    <3>. QED BY <1>3, <3>1, <3>2, <3>3
  <2>. QED BY <2>1, <2>2
<1>. HIDE DEF f
<1>8. StepsOf(l, all, f)
  BY <1>1, <1>7 DEF StepsOf
<1>9. JoinsOf(l, all, f)
  BY <1>5, <1>8 DEF JoinsOf
<1>10. f[Len(all)] = h[m]
  BY <1>1, <1>6
<1>. QED BY <1>9, <1>10 DEF all, m

LEMMA JoinsDocs ==
  ASSUME NEW l, NEW T, Encodes(l, T, Nat), NEW C, NEW cs \in Seq(C), NEW g, JoinsOf(l, cs, g),
         NEW texts \in Seq(T), DocsChunk(texts) \in C
  PROVE  \E f : /\ JoinsOf(l, Append(cs, DocsChunk(texts)), f)
                /\ f[Len(cs) + 1] = g[Len(cs)] \o RowsOf(l, texts)
<1>. DEFINE x == DocsChunk(texts)
            ds == <<x>>
            c == g[Len(cs)]
            r == RowsOf(l, texts)
            h == [k \in 0 .. 1 |-> IF k = 0 THEN c ELSE c \o r]
<1>1. x.docs = texts /\ ~ Continues(x)
  BY DEF DocsChunk, Continues
<1>2. r \in Seq(Nat)
  BY RowsType
<1>3. c \in Seq(Nat)
  <2>1. Len(cs) \in 0 .. Len(cs)
    OBVIOUS
  <2>. QED BY <2>1, JoinsType
<1>4. x \in C
  OBVIOUS
<1>. HIDE DEF x, c, r
<1>5. ds \in Seq(C) /\ Len(ds) = 1 /\ ds[1] = x /\ cs \o ds = Append(cs, x) /\ Len(cs \o ds) = Len(cs) + 1
  BY <1>4
<1>6. h[0] = c /\ h[1] = c \o r
  OBVIOUS
<1>7. c \o r \in Seq(Nat)
  BY <1>2, <1>3, ConcatFacts
<1>. HIDE DEF ds, h
<1>8. StepsOf(l, ds, h)
  <2>1. \A k \in 1 .. 1 : k = 1 /\ k - 1 = 0
    OBVIOUS
  <2>2. RowsOf(l, x.docs) = r
    BY <1>1 DEF r
  <2>. QED BY <1>1, <1>5, <1>6, <1>7, <2>1, <2>2 DEF StepsOf, WithRows
<1>9. h[0] = g[Len(cs)]
  BY <1>6 DEF c
<1>10. \E f : JoinsOf(l, cs \o ds, f) /\ f[Len(cs \o ds)] = h[Len(ds)]
  <2>1. ds \in Seq(C)
    BY <1>5
  <2>. QED BY ONLY cs \in Seq(C), JoinsOf(l, cs, g), <2>1, <1>8, <1>9, JoinsConcat
<1>. QED BY <1>5, <1>6, <1>10 DEF x, c, r

(* Every fragment but the first adds its tokens to the row of the first.   *)
LEMMA JoinsFragments ==
  ASSUME NEW e, NEW T, NEW S, Encodes(e, T, Seq(S)), NEW C, NEW cs \in Seq(C), NEW g,
         JoinsOf(Lengths(e, T), cs, g),
         NEW parts \in Seq(T), Len(parts) > 0, FragmentChunks(parts) \in Seq(C)
  PROVE  \E f : /\ JoinsOf(Lengths(e, T), cs \o FragmentChunks(parts), f)
                /\ f[Len(cs \o FragmentChunks(parts))] = g[Len(cs)] \o <<Len(TokensOf(e, parts))>>
<1>. DEFINE l == Lengths(e, T)
            m == Len(parts)
            ds == FragmentChunks(parts)
            c == g[Len(cs)]
            upto(k) == TokensOf(e, SubSeq(parts, 1, k))
            size(k) == Len(upto(k))
            h == [k \in 0 .. m |-> IF k = 0 THEN c ELSE Append(c, size(k))]
<1>1. m \in Nat /\ m > 0 /\ DOMAIN parts = 1 .. m /\ \A k \in 1 .. m : parts[k] \in T
  OBVIOUS
<1>2. c \in Seq(Nat)
  <2>1. Len(cs) \in 0 .. Len(cs)
    OBVIOUS
  <2>. HIDE DEF l
  <2>2. JoinsOf(l, cs, g)
    BY DEF l
  <2>. QED BY <2>1, <2>2, JoinsType
<1>3. ASSUME NEW k \in 1 .. m
      PROVE  ds[k].docs = <<parts[k]>> /\ ds[k].fragment /\ (ds[k].first <=> k = 1)
  <2>. DEFINE z == k = 1
  <2>1. ds[k] = [docs |-> <<parts[k]>>, fragment |-> TRUE, first |-> z]
    BY <1>1 DEF FragmentChunks
  <2>. HIDE DEF ds, z
  <2>2. ds[k].docs = <<parts[k]>>
    BY <2>1
  <2>3. ds[k].fragment = TRUE
    BY <2>1
  <2>4. ds[k].first = z
    BY <2>1
  <2>. QED BY <2>2, <2>3, <2>4 DEF z
<1>4. DOMAIN ds = 1 .. m /\ Len(ds) = m
  <2>1. DOMAIN ds = 1 .. m
    BY <1>1 DEF FragmentChunks
  <2>. HIDE DEF ds
  <2>. QED BY <1>1, <2>1
<1>5. \A k \in 1 .. m : RowsOf(l, ds[k].docs) = <<Len(e[parts[k]])>>
  <2>. TAKE k \in 1 .. m
  <2>1. ds[k].docs = <<parts[k]>>
    BY <1>3
  <2>2. RowsOf(l, <<parts[k]>>) = <<l[parts[k]]>>
    BY DEF RowsOf
  <2>3. l[parts[k]] = Len(e[parts[k]])
    BY <1>1 DEF Lengths
  <2>. QED BY <2>1, <2>2, <2>3
<1>6. \A k \in 1 .. m : Continues(ds[k]) <=> k # 1
  BY <1>3 DEF Continues
<1>7. \A k \in 0 .. m : upto(k) \in Seq(S)
  <2>. TAKE k \in 0 .. m
  <2>. DEFINE a == SubSeq(parts, 1, k)
  <2>1. a \in Seq(T)
    BY <1>1
  <2>. HIDE DEF a
  <2>2. TokensOf(e, a) \in Seq(S)
    BY ONLY <2>1, Encodes(e, T, Seq(S)), TokensType
  <2>. QED BY <2>2 DEF a
<1>8. \A k \in 0 .. m - 1 : upto(k + 1) = upto(k) \o e[parts[k + 1]]
  <2>. TAKE k \in 0 .. m - 1
  <2>1. SubSeq(parts, 1, k + 1) = Append(SubSeq(parts, 1, k), parts[k + 1])
    BY SubSeqAppend
  <2>. DEFINE a == SubSeq(parts, 1, k)
              x == parts[k + 1]
  <2>2. a \in Seq(T)
    BY <1>1
  <2>3. x \in T
    BY <1>1
  <2>. HIDE DEF a, x
  <2>4. TokensOf(e, Append(a, x)) = TokensOf(e, a) \o e[x]
    BY ONLY Encodes(e, T, Seq(S)), <2>2, <2>3, TokensAppend
  <2>. QED BY <2>1, <2>4 DEF a, x
<1>9. upto(0) = <<>>
  <2>1. SubSeq(parts, 1, 0) = <<>>
    BY SubSeqNone
  <2>. QED BY <2>1, RowsNone
<1>10. upto(m) = TokensOf(e, parts)
  BY SubSeqAll
<1>. HIDE DEF upto
<1>11. \A k \in 1 .. m : e[parts[k]] \in Seq(S) /\ Len(e[parts[k]]) \in Nat
  BY <1>1 DEF Encodes
<1>12. \A k \in 0 .. m : size(k) \in Nat
  BY <1>7
<1>13. ASSUME NEW k \in 1 .. m PROVE size(k) = size(k - 1) + Len(e[parts[k]])
  <2>1. k - 1 \in 0 .. m - 1 /\ k - 1 \in 0 .. m /\ (k - 1) + 1 = k
    BY <1>1
  <2>2. upto(k) = upto(k - 1) \o e[parts[k]]
    BY <1>8, <2>1
  <2>. DEFINE a == upto(k - 1)
              b == e[parts[k]]
  <2>3. a \in Seq(S) /\ b \in Seq(S)
    BY <1>7, <1>11, <2>1
  <2>. HIDE DEF a, b
  <2>4. Len(a \o b) = Len(a) + Len(b)
    BY <2>3
  <2>. QED BY <2>2, <2>4 DEF a, b
<1>14. size(0) = 0
  BY <1>9
<1>. HIDE DEF size, c
<1>15. h[0] = c /\ \A k \in 1 .. m : h[k] = Append(c, size(k)) /\ h[k] \in Seq(Nat)
  BY <1>1, <1>2, <1>12
<1>. HIDE DEF h, ds, l
<1>16. ASSUME NEW k \in 1 .. m
       PROVE  h[k] = WithRows(h[k - 1], RowsOf(l, ds[k].docs), Continues(ds[k]))
  <2>. DEFINE y == Len(e[parts[k]])
              z == size(k - 1)
  <2>1. RowsOf(l, ds[k].docs) = <<y>> /\ y \in Nat
    BY <1>5, <1>11
  <2>2. k - 1 \in 0 .. m /\ z \in Nat
    BY <1>1, <1>12
  <2>3. size(k) = z + y
    BY <1>13
  <2>. HIDE DEF y, z
  <2>4. CASE k = 1
    <3>1. k - 1 = 0
      BY <2>4
    <3>2. z = 0
      BY <1>14, <3>1 DEF z
    <3>3. WithRows(h[k - 1], RowsOf(l, ds[k].docs), Continues(ds[k])) = h[0] \o <<y>>
      BY <1>6, <2>1, <2>4, <3>1 DEF WithRows
    <3>4. h[k] = Append(c, y)
      BY <1>15, <2>1, <2>3, <3>2
    <3>5. c \o <<y>> = Append(c, y)
      BY <1>2, <2>1
    <3>. QED BY <1>15, <3>3, <3>4, <3>5
  <2>5. CASE k # 1
    <3>1. k - 1 \in 1 .. m
      BY <1>1, <2>5
    <3>2. h[k - 1] = Append(c, z)
      BY <1>15, <3>1 DEF z
    <3>3. h[k] = Append(c, z + y)
      BY <1>15, <2>3
    <3>. DEFINE u == Append(c, z)
    <3>4. WithRows(h[k - 1], RowsOf(l, ds[k].docs), Continues(ds[k]))
            = [u EXCEPT ![Len(u)] = @ + Head(<<y>>)] \o Tail(<<y>>)
      BY <1>6, <2>1, <2>5, <3>2 DEF WithRows
    <3>5. Head(<<y>>) = y /\ Tail(<<y>>) = <<>>
      BY <2>1
    <3>6. u \in Seq(Nat) /\ Len(u) = Len(c) + 1 /\ u[Len(c) + 1] = z /\ \A i \in 1 .. Len(c) : u[i] = c[i]
      BY <1>2, <2>2
    <3>7. [u EXCEPT ![Len(u)] = @ + y] = Append(c, z + y)
      <4>. DEFINE v == [u EXCEPT ![Len(u)] = @ + y]
                  w == Append(c, z + y)
      <4>0. Len(c) \in Nat
        BY <1>2
      <4>1. w \in Seq(Nat) /\ Len(w) = Len(c) + 1 /\ w[Len(c) + 1] = z + y /\ \A i \in 1 .. Len(c) : w[i] = c[i]
        BY <1>2, <2>1, <2>2
      <4>. HIDE DEF u, w
      <4>2. v \in Seq(Nat) /\ Len(v) = Len(c) + 1 /\ v[Len(c) + 1] = z + y /\ \A i \in 1 .. Len(c) : v[i] = u[i]
        BY <3>6, <2>1, <2>2, <4>0
      <4>. HIDE DEF v
      <4>3. \A i \in 1 .. Len(c) + 1 : i = Len(c) + 1 \/ i \in 1 .. Len(c)
        BY <4>0
      <4>4. Len(v) = Len(w) /\ \A i \in 1 .. Len(v) : v[i] = w[i]
        BY <3>6, <4>1, <4>2, <4>3
      <4>5. v \in Seq(Nat) /\ w \in Seq(Nat)
        BY <4>1, <4>2
      <4>6. v = w
        BY ONLY <4>4, <4>5, SeqEqual
      <4>. QED BY <4>6 DEF v, w
    <3>8. Append(c, z + y) \o <<>> = Append(c, z + y)
      BY <1>2, <2>1, <2>2
    <3>. HIDE DEF u
    <3>. QED BY <3>3, <3>4, <3>5, <3>7, <3>8
  <2>. QED BY <2>4, <2>5
<1>17. StepsOf(l, ds, h)
  BY <1>4, <1>15, <1>16 DEF StepsOf
<1>18. h[0] = g[Len(cs)]
  BY <1>15 DEF c
<1>19. JoinsOf(l, cs, g) /\ ds \in Seq(C)
  BY DEF l, ds
<1>20. \E f : JoinsOf(l, cs \o ds, f) /\ f[Len(cs \o ds)] = h[Len(ds)]
  BY <1>17, <1>18, <1>19, JoinsConcat
<1>21. h[Len(ds)] = c \o <<Len(TokensOf(e, parts))>>
  <2>1. m \in 1 .. m /\ m \in 0 .. m
    BY <1>1
  <2>2. h[m] = Append(c, size(m)) /\ size(m) \in Nat
    BY <1>12, <1>15, <2>1
  <2>3. Append(c, size(m)) = c \o <<size(m)>>
    BY <1>2, <2>2
  <2>. QED BY <1>4, <1>10, <2>2, <2>3 DEF size
<1>. QED BY <1>20, <1>21 DEF l, ds, c

ChunkOf(T) == [docs : Seq(T), fragment : BOOLEAN, first : BOOLEAN]
ChunkEncoder(e, T) == [c \in ChunkOf(T) |-> TokensOf(e, c.docs)]

LEMMA ChunkEncoderEncodes ==
  ASSUME NEW e, NEW T, NEW S, Encodes(e, T, Seq(S))
  PROVE  Encodes(ChunkEncoder(e, T), ChunkOf(T), Seq(S))
<1>1. \A c \in ChunkOf(T) : c.docs \in Seq(T)
  BY DEF ChunkOf
<1>2. \A c \in ChunkOf(T) : TokensOf(e, c.docs) \in Seq(S)
  BY <1>1, TokensType
<1>. QED BY <1>2 DEF Encodes, ChunkEncoder

LEMMA DocsChunkType ==
  ASSUME NEW T, NEW texts \in Seq(T)
  PROVE  DocsChunk(texts) \in ChunkOf(T)
BY DEF DocsChunk, ChunkOf

LEMMA FragmentType ==
  ASSUME NEW T, NEW parts \in Seq(T)
  PROVE  FragmentChunks(parts) \in Seq(ChunkOf(T))
<1>. DEFINE total == Len(parts)
            f(i) == [docs |-> <<parts[i]>>, fragment |-> TRUE, first |-> i = 1]
            M == ChunkOf(T)
<1>1. total \in Nat /\ DOMAIN parts = 1 .. total /\ \A i \in 1 .. total : parts[i] \in T
  OBVIOUS
<1>2. ASSUME NEW i \in 1 .. total PROVE f(i) \in M
  <2>. DEFINE b == i = 1
              d == <<parts[i]>>
  <2>1. b \in BOOLEAN
    OBVIOUS
  <2>2. d \in Seq(T)
    BY <1>1
  <2>. HIDE DEF b, d
  <2>3. [docs |-> d, fragment |-> TRUE, first |-> b] \in M
    BY <2>1, <2>2 DEF ChunkOf
  <2>. QED BY <2>3 DEF b, d
<1>3. FragmentChunks(parts) = [i \in 1 .. total |-> f(i)]
  BY <1>1 DEF FragmentChunks
<1>. HIDE DEF f, total, M
<1>4. [i \in 1 .. total |-> f(i)] \in Seq(M)
  BY <1>1, <1>2
<1>. QED BY <1>3, <1>4 DEF M

(* The chunks cs and the texts left behind them encode to what the first   *)
(* documents of all do, up to a number of them, and with the joins g their *)
(* rows are the rows of those.                                             *)
KeptBy(e, T, all, g, cs, left, total) ==
  /\ cs \in Seq(ChunkOf(T)) /\ left \in Seq(T)
  /\ TokensOf(ChunkEncoder(e, T), cs) \o TokensOf(e, left) = TokensOf(e, SubSeq(all, 1, total))
  /\ JoinsOf(Lengths(e, T), cs, g)
  /\ g[Len(cs)] \o RowsOf(Lengths(e, T), left) = RowsOf(Lengths(e, T), SubSeq(all, 1, total))

LEMMA NothingKept ==
  ASSUME NEW e, NEW T, NEW M, NEW all \in Seq(M), NEW g, g[0] = <<>>
  PROVE  KeptBy(e, T, all, g, <<>>, <<>>, 0)
<1>1. SubSeq(all, 1, 0) = <<>>
  BY SubSeqNone
<1>2. Len(<<>>) = 0 /\ <<>> \o <<>> = <<>> /\ <<>> \in Seq(ChunkOf(T)) /\ <<>> \in Seq(T)
  OBVIOUS
<1>3. TokensOf(e, <<>>) = <<>>
  BY RowsNone
<1>4. TokensOf(ChunkEncoder(e, T), <<>>) = <<>>
  BY RowsNone
<1>5. RowsOf(Lengths(e, T), <<>>) = <<>>
  BY RowsNone
<1>6. \A k \in 1 .. 0 : FALSE
  OBVIOUS
<1>7. JoinsOf(Lengths(e, T), <<>>, g)
  BY <1>2, <1>6 DEF JoinsOf, StepsOf
<1>. QED BY <1>1, <1>2, <1>3, <1>4, <1>5, <1>7 DEF KeptBy

(* One more document in the group.                                         *)
LEMMA KeptDocument ==
  ASSUME NEW e, NEW T, NEW S, Encodes(e, T, Seq(S)), NEW all \in Seq(T), NEW total \in 0 .. Len(all) - 1,
         NEW g, NEW cs, NEW left, KeptBy(e, T, all, g, cs, left, total)
  PROVE  KeptBy(e, T, all, g, cs, Append(left, all[total + 1]), total + 1)
<1>. DEFINE l == Lengths(e, T)
            q == ChunkEncoder(e, T)
            x == all[total + 1]
            a == SubSeq(all, 1, total)
            more == Append(left, x)
<1>1. SubSeq(all, 1, total + 1) = Append(a, x)
  BY SubSeqAppend
<1>2. x \in T /\ a \in Seq(T)
  OBVIOUS
<1>3. cs \in Seq(ChunkOf(T)) /\ left \in Seq(T) /\ JoinsOf(l, cs, g)
  BY DEF KeptBy
<1>4. TokensOf(q, cs) \o TokensOf(e, left) = TokensOf(e, a)
  BY DEF KeptBy
<1>5. g[Len(cs)] \o RowsOf(l, left) = RowsOf(l, a)
  BY DEF KeptBy
<1>6. Encodes(l, T, Nat)
  BY LengthsEncode
<1>7. Encodes(q, ChunkOf(T), Seq(S))
  BY ChunkEncoderEncodes
<1>. HIDE DEF a, x, l, q
<1>8. TokensOf(e, Append(a, x)) = TokensOf(e, a) \o e[x]
  BY ONLY Encodes(e, T, Seq(S)), <1>2, TokensAppend
<1>9. left \in Seq(T) /\ cs \in Seq(ChunkOf(T))
  BY <1>3
<1>10. TokensOf(e, Append(left, x)) = TokensOf(e, left) \o e[x]
  BY ONLY Encodes(e, T, Seq(S)), <1>2, <1>9, TokensAppend
<1>11. RowsOf(l, Append(a, x)) = Append(RowsOf(l, a), l[x])
  BY ONLY <1>6, <1>2, RowsAppend
<1>12. RowsOf(l, Append(left, x)) = Append(RowsOf(l, left), l[x])
  BY ONLY <1>6, <1>2, <1>9, RowsAppend
<1>13. TokensOf(q, cs) \in Seq(S)
  BY ONLY <1>7, <1>9, TokensType
<1>14. TokensOf(e, left) \in Seq(S)
  BY ONLY Encodes(e, T, Seq(S)), <1>9, TokensType
<1>15. e[x] \in Seq(S)
  BY <1>2 DEF Encodes
<1>16. RowsOf(l, left) \in Seq(Nat)
  BY ONLY <1>6, <1>9, RowsType
<1>17. g[Len(cs)] \in Seq(Nat)
  <2>1. Len(cs) \in 0 .. Len(cs)
    BY <1>9
  <2>. QED BY <1>3, <2>1, JoinsType
<1>18. l[x] \in Nat
  BY <1>2, <1>6 DEF Encodes
<1>19. TokensOf(q, cs) \o (TokensOf(e, left) \o e[x]) = (TokensOf(q, cs) \o TokensOf(e, left)) \o e[x]
  <2>. DEFINE u == TokensOf(q, cs)
              v == TokensOf(e, left)
              w == e[x]
  <2>1. u \in Seq(S) /\ v \in Seq(S) /\ w \in Seq(S)
    BY <1>13, <1>14, <1>15
  <2>. HIDE DEF u, v, w
  <2>2. (u \o v) \o w = u \o (v \o w)
    BY ONLY <2>1, ConcatAssociative
  <2>. QED BY <2>2 DEF u, v, w
<1>20. g[Len(cs)] \o Append(RowsOf(l, left), l[x]) = Append(g[Len(cs)] \o RowsOf(l, left), l[x])
  <2>. DEFINE u == g[Len(cs)]
              v == RowsOf(l, left)
              w == l[x]
  <2>1. u \in Seq(Nat) /\ v \in Seq(Nat) /\ w \in Nat
    BY <1>16, <1>17, <1>18
  <2>. HIDE DEF u, v, w
  <2>2. u \o Append(v, w) = Append(u \o v, w)
    BY ONLY <2>1, ConcatAppend
  <2>. QED BY <2>2 DEF u, v, w
<1>21. TokensOf(q, cs) \o TokensOf(e, more) = TokensOf(e, SubSeq(all, 1, total + 1))
  BY <1>1, <1>4, <1>8, <1>10, <1>19
<1>22. g[Len(cs)] \o RowsOf(l, more) = RowsOf(l, SubSeq(all, 1, total + 1))
  BY <1>1, <1>5, <1>11, <1>12, <1>20
<1>23. more \in Seq(T)
  BY <1>2, <1>9
<1>. HIDE DEF more
<1>24. KeptBy(e, T, all, g, cs, more, total + 1)
  BY <1>3, <1>21, <1>22, <1>23 DEF KeptBy, l, q
<1>. QED BY <1>24 DEF more, x

(* The texts that are left become a chunk.                                 *)
LEMMA KeptGroup ==
  ASSUME NEW e, NEW T, NEW S, Encodes(e, T, Seq(S)), NEW all, NEW total,
         NEW g, NEW cs, NEW left, KeptBy(e, T, all, g, cs, left, total)
  PROVE  \E f : f[0] = <<>> /\ KeptBy(e, T, all, f, Append(cs, DocsChunk(left)), <<>>, total)
<1>. DEFINE l == Lengths(e, T)
            q == ChunkEncoder(e, T)
            a == SubSeq(all, 1, total)
            x == DocsChunk(left)
            ds == Append(cs, x)
<1>1. cs \in Seq(ChunkOf(T)) /\ left \in Seq(T)
  BY DEF KeptBy
<1>1a. JoinsOf(l, cs, g)
  BY DEF KeptBy
<1>2. TokensOf(q, cs) \o TokensOf(e, left) = TokensOf(e, a)
  BY DEF KeptBy
<1>3. g[Len(cs)] \o RowsOf(l, left) = RowsOf(l, a)
  BY DEF KeptBy
<1>4. Encodes(l, T, Nat)
  BY LengthsEncode
<1>5. Encodes(q, ChunkOf(T), Seq(S))
  BY ChunkEncoderEncodes
<1>6. x \in ChunkOf(T)
  BY <1>1, DocsChunkType
<1>7. q[x] = TokensOf(e, left)
  <2>1. x.docs = left
    BY DEF DocsChunk
  <2>. HIDE DEF x
  <2>. QED BY <1>6, <2>1 DEF ChunkEncoder
<1>. HIDE DEF l, q, a
<1>8. \E f : JoinsOf(l, Append(cs, x), f) /\ f[Len(cs) + 1] = g[Len(cs)] \o RowsOf(l, left)
  BY ONLY <1>1, <1>1a, <1>4, <1>6, JoinsDocs
<1>9. PICK f : JoinsOf(l, ds, f) /\ f[Len(cs) + 1] = g[Len(cs)] \o RowsOf(l, left)
  BY <1>8
<1>. HIDE DEF x
<1>10. ds \in Seq(ChunkOf(T)) /\ Len(ds) = Len(cs) + 1
  BY <1>1, <1>6
<1>11. TokensOf(q, Append(cs, x)) = TokensOf(q, cs) \o q[x]
  BY ONLY <1>1, <1>5, <1>6, TokensAppend
<1>. HIDE DEF ds
<1>12. TokensOf(q, ds) \in Seq(S)
  BY ONLY <1>5, <1>10, TokensType
<1>13. TokensOf(e, <<>>) = <<>>
  BY RowsNone
<1>14. RowsOf(l, <<>>) = <<>>
  BY RowsNone
<1>15. TokensOf(q, ds) \o TokensOf(e, <<>>) = TokensOf(e, a)
  <2>1. TokensOf(q, ds) \o <<>> = TokensOf(q, ds)
    BY <1>12
  <2>. QED BY <1>2, <1>7, <1>11, <1>13, <2>1 DEF ds
<1>16. f[Len(ds)] \in Seq(Nat)
  <2>1. Len(ds) \in 0 .. Len(ds)
    BY <1>10
  <2>. QED BY <1>9, <1>10, <2>1, JoinsType
<1>17. f[Len(ds)] \o RowsOf(l, <<>>) = RowsOf(l, a)
  <2>1. f[Len(ds)] \o <<>> = f[Len(ds)]
    BY <1>16
  <2>. QED BY <1>3, <1>9, <1>10, <1>14, <2>1
<1>18. <<>> \in Seq(T)
  OBVIOUS
<1>19. KeptBy(e, T, all, f, ds, <<>>, total)
  BY <1>9, <1>10, <1>15, <1>17, <1>18 DEF KeptBy, l, q, a
<1>20. f[0] = <<>>
  BY <1>9 DEF JoinsOf
<1>. QED BY <1>19, <1>20 DEF ds, x

(* An oversized document becomes its fragments.                            *)
LEMMA KeptFragments ==
  ASSUME NEW e, NEW T, NEW S, Encodes(e, T, Seq(S)), NEW all \in Seq(T), NEW total \in 0 .. Len(all) - 1,
         NEW g, NEW cs, KeptBy(e, T, all, g, cs, <<>>, total),
         NEW parts \in Seq(T), Len(parts) > 0, TokensOf(e, parts) = e[all[total + 1]]
  PROVE  \E f : f[0] = <<>> /\ KeptBy(e, T, all, f, cs \o FragmentChunks(parts), <<>>, total + 1)
<1>. DEFINE l == Lengths(e, T)
            q == ChunkEncoder(e, T)
            x == all[total + 1]
            a == SubSeq(all, 1, total)
            fs == FragmentChunks(parts)
            ds == cs \o fs
<1>1. SubSeq(all, 1, total + 1) = Append(a, x)
  BY SubSeqAppend
<1>2. x \in T /\ a \in Seq(T)
  OBVIOUS
<1>3. cs \in Seq(ChunkOf(T))
  BY DEF KeptBy
<1>3a. JoinsOf(l, cs, g)
  BY DEF KeptBy
<1>4. TokensOf(q, cs) \o TokensOf(e, <<>>) = TokensOf(e, a)
  BY DEF KeptBy
<1>5. g[Len(cs)] \o RowsOf(l, <<>>) = RowsOf(l, a)
  BY DEF KeptBy
<1>6. Encodes(l, T, Nat)
  BY LengthsEncode
<1>7. Encodes(q, ChunkOf(T), Seq(S))
  BY ChunkEncoderEncodes
<1>8. fs \in Seq(ChunkOf(T))
  BY FragmentType
<1>9. \E f : JoinsOf(l, ds, f) /\ f[Len(ds)] = g[Len(cs)] \o <<Len(TokensOf(e, parts))>>
  BY <1>3, <1>3a, <1>8, JoinsFragments, SMTT(60)
<1>10. PICK f : JoinsOf(l, ds, f) /\ f[Len(ds)] = g[Len(cs)] \o <<Len(TokensOf(e, parts))>>
  BY <1>9
<1>11. TokensOf(q, fs) = TokensOf(e, parts)
  <2>1. DOMAIN fs = DOMAIN parts
    BY DEF FragmentChunks
  <2>2. ASSUME NEW i \in DOMAIN fs PROVE q[fs[i]] = e[parts[i]]
    <3>1. fs[i].docs = <<parts[i]>>
      <4>. DEFINE z == i = 1
      <4>1. fs[i] = [docs |-> <<parts[i]>>, fragment |-> TRUE, first |-> z]
        BY <2>1, <2>2 DEF FragmentChunks
      <4>. HIDE DEF fs, z
      <4>. QED BY <4>1
    <3>2. parts[i] \in T
      BY <2>1, <2>2
    <3>3. fs[i] \in ChunkOf(T)
      <4>. HIDE DEF fs
      <4>. QED BY <1>8, <2>2
    <3>. DEFINE y == parts[i]
    <3>. HIDE DEF y, fs
    <3>4. y \in T
      BY <3>2 DEF y
    <3>5. RowsOf(e, <<y>>) = <<e[y]>> /\ TokensOf(e, <<y>>) = e[y]
      BY ONLY Encodes(e, T, Seq(S)), <3>4, RowsOne
    <3>. QED BY <3>1, <3>3, <3>5 DEF ChunkEncoder, y
  <2>. HIDE DEF fs, q
  <2>3. RowsOf(q, fs) = RowsOf(e, parts)
    BY <2>1, <2>2 DEF RowsOf
  <2>. QED BY <2>3 DEF TokensOf
<1>. HIDE DEF l, q, a, x, fs
<1>12. TokensOf(q, cs \o fs) = TokensOf(q, cs) \o TokensOf(q, fs)
  BY ONLY <1>3, <1>7, <1>8, TokensConcat
<1>13. TokensOf(e, Append(a, x)) = TokensOf(e, a) \o e[x]
  BY ONLY Encodes(e, T, Seq(S)), <1>2, TokensAppend
<1>14. RowsOf(l, Append(a, x)) = Append(RowsOf(l, a), l[x])
  BY ONLY <1>6, <1>2, RowsAppend
<1>15. ds \in Seq(ChunkOf(T)) /\ Len(ds) = Len(cs) + Len(fs)
  BY <1>3, <1>8
<1>15a. TokensOf(q, cs) \in Seq(S)
  BY ONLY <1>3, <1>7, TokensType
<1>. HIDE DEF ds
<1>16. TokensOf(q, ds) \in Seq(S)
  BY ONLY <1>7, <1>15, TokensType
<1>17. TokensOf(e, <<>>) = <<>>
  BY RowsNone
<1>18. RowsOf(l, <<>>) = <<>>
  BY RowsNone
<1>19. f[Len(ds)] \in Seq(Nat)
  <2>1. Len(ds) \in 0 .. Len(ds)
    BY <1>15
  <2>. QED BY <1>10, <1>15, <2>1, JoinsType
<1>20. g[Len(cs)] \in Seq(Nat)
  <2>1. Len(cs) \in 0 .. Len(cs)
    BY <1>3
  <2>. QED BY <1>3, <1>3a, <2>1, JoinsType
<1>21. l[x] = Len(e[x]) /\ l[x] \in Nat
  <2>1. l[x] = Len(e[x])
    BY <1>2 DEF l, Lengths
  <2>2. l[x] \in Nat
    BY <1>2, <1>6 DEF Encodes
  <2>. QED BY <2>1, <2>2
<1>22. TokensOf(e, parts) = e[x]
  BY DEF x
<1>23. TokensOf(q, ds) \o TokensOf(e, <<>>) = TokensOf(e, SubSeq(all, 1, total + 1))
  <2>1. TokensOf(q, ds) \o <<>> = TokensOf(q, ds)
    BY <1>16
  <2>2. TokensOf(q, cs) \o <<>> = TokensOf(q, cs)
    BY <1>15a
  <2>3. TokensOf(q, cs) = TokensOf(e, a)
    BY <1>4, <1>17, <2>2
  <2>4. TokensOf(q, ds) = TokensOf(e, a) \o e[x]
    BY <1>11, <1>12, <1>22, <2>3 DEF ds
  <2>. QED BY <1>1, <1>13, <1>17, <2>1, <2>4
<1>24. f[Len(ds)] \o RowsOf(l, <<>>) = RowsOf(l, SubSeq(all, 1, total + 1))
  <2>1. f[Len(ds)] \o <<>> = f[Len(ds)]
    BY <1>19
  <2>2. g[Len(cs)] \o <<>> = g[Len(cs)]
    BY <1>20
  <2>3. g[Len(cs)] = RowsOf(l, a)
    BY <1>5, <1>18, <2>2
  <2>. DEFINE c == g[Len(cs)]
              y == l[x]
  <2>4. c \in Seq(Nat) /\ y \in Nat
    BY <1>20, <1>21
  <2>5. f[Len(ds)] = c \o <<y>>
    BY <1>10, <1>21, <1>22
  <2>. HIDE DEF c, y
  <2>6. c \o <<y>> = Append(c, y)
    BY <2>4
  <2>7. RowsOf(l, SubSeq(all, 1, total + 1)) = Append(c, y)
    BY <1>1, <1>14, <2>3 DEF c, y
  <2>. QED BY <1>18, <2>1, <2>5, <2>6, <2>7
<1>25. <<>> \in Seq(T)
  OBVIOUS
<1>26. KeptBy(e, T, all, f, ds, <<>>, total + 1)
  BY <1>10, <1>15, <1>23, <1>24, <1>25 DEF KeptBy, l, q
<1>27. f[0] = <<>>
  BY <1>10 DEF JoinsOf
<1>. QED BY <1>26, <1>27 DEF ds, fs

(* The texts the tokenizer gives tokens for, and the tokens it gives.      *)
Texts == Encodable(Tok, superword)
Enc == Encoder(Tok, superword)

Outs == [ids : Seq(Tokens), lens : Seq(Nat), continues : BOOLEAN]
OutOf(chunk) == ChunkTokens(RowsOf(Enc, chunk.docs), Continues(chunk))

(* The documents have tokens.                                              *)
GivenInv ==
  /\ tokenizer \in DOMAIN Tokenizers /\ superword = PlanOf(Tok) /\ docs \in Batches[tokenizer]
  /\ docs \in Seq(Texts)

(* The chunks and the group hold the documents pushed so far, and the rows *)
(* counted are those of the chunks joined.                                 *)
Left == IF stage = "group" THEN group ELSE <<>>
ChunksInv ==
  \E g : /\ g[0] = <<>> /\ counts = g[joined]
         /\ KeptBy(Enc, Texts, docs, g, chunks, Left, next)

(* A chunk's output is its documents' tokens.                              *)
OutsInv ==
  /\ outs \in Seq(Outs) /\ Len(outs) <= Len(chunks) /\ joined \in 0 .. Len(outs)
  /\ \A k \in 1 .. Len(outs) : outs[k] = OutOf(chunks[k])

StageInv ==
  /\ stage \in {"group", "encode", "join", "done"} /\ next \in 0 .. Len(docs)
  /\ stage = "group" => outs = <<>>
  /\ stage # "group" => next = Len(docs)
  /\ stage \in {"join", "done"} => Len(outs) = Len(chunks)
  /\ stage = "done" => joined = Len(outs)
  /\ stage = "done" => /\ serial.ids = TokensOf(Enc, docs)
                       /\ serial.lens = RowsOf(Lengths(Enc, Texts), docs)

RowsInv == GivenInv /\ ChunksInv /\ OutsInv /\ StageInv

LEMMA EncEncodes == Encodes(Enc, Texts, Seq(Tokens))
BY EncoderEncodes DEF Enc, Texts

(* What a chunk encodes to.                                                *)
LEMMA RowLengths ==
  ASSUME NEW ts \in Seq(Texts), NEW c
  PROVE  /\ ChunkTokens(RowsOf(Enc, ts), c).ids = TokensOf(Enc, ts)
         /\ ChunkTokens(RowsOf(Enc, ts), c).lens = RowsOf(Lengths(Enc, Texts), ts)
         /\ ChunkTokens(RowsOf(Enc, ts), c).continues = c
<1>. DEFINE rows == RowsOf(Enc, ts)
            x == FlattenSeq(rows)
            y == [i \in DOMAIN rows |-> Len(rows[i])]
<1>1. DOMAIN rows = DOMAIN ts /\ \A i \in DOMAIN ts : rows[i] = Enc[ts[i]]
  BY DEF RowsOf
<1>2. \A i \in DOMAIN ts : ts[i] \in Texts
  OBVIOUS
<1>3. y = RowsOf(Lengths(Enc, Texts), ts)
  BY <1>1, <1>2 DEF RowsOf, Lengths
<1>4. x = TokensOf(Enc, ts)
  BY DEF TokensOf
<1>5. ChunkTokens(rows, c) = [ids |-> x, lens |-> y, continues |-> c]
  BY DEF ChunkTokens
<1>. HIDE DEF rows, x, y
<1>6. ChunkTokens(rows, c).ids = x /\ ChunkTokens(rows, c).lens = y /\ ChunkTokens(rows, c).continues = c
  BY <1>5
<1>. QED BY <1>3, <1>4, <1>6 DEF rows

LEMMA OutType ==
  ASSUME NEW chunk \in ChunkOf(Texts)
  PROVE  OutOf(chunk) \in Outs
<1>. DEFINE ts == chunk.docs
            c == Continues(chunk)
            rows == RowsOf(Enc, ts)
            x == FlattenSeq(rows)
            y == [i \in DOMAIN rows |-> Len(rows[i])]
            out == ChunkTokens(rows, c)
<1>1. ts \in Seq(Texts)
  BY DEF ChunkOf
<1>2. out.ids = TokensOf(Enc, ts) /\ out.lens = RowsOf(Lengths(Enc, Texts), ts) /\ out.continues = c
  BY <1>1, RowLengths
<1>3. c \in BOOLEAN
  BY DEF Continues
<1>4. Encodes(Lengths(Enc, Texts), Texts, Nat)
  BY EncEncodes, LengthsEncode
<1>5. TokensOf(Enc, ts) \in Seq(Tokens)
  BY <1>1, EncEncodes, TokensType
<1>6. RowsOf(Lengths(Enc, Texts), ts) \in Seq(Nat)
  BY <1>1, <1>4, RowsType
<1>7. out = [ids |-> x, lens |-> y, continues |-> c]
  BY DEF ChunkTokens
<1>. HIDE DEF rows, x, y, c, ts
<1>8. out = [ids |-> out.ids, lens |-> out.lens, continues |-> out.continues]
  <2>. HIDE DEF out
  <2>. QED BY <1>7
<1>. HIDE DEF out
<1>9. out \in Outs
  BY <1>2, <1>3, <1>5, <1>6, <1>8 DEF Outs
<1>. QED BY <1>9 DEF OutOf, out, rows, ts, c

LEMMA RowsInit_Inv ==
  ASSUME CutsAreSafe, RowsInit
  PROVE  RowsInv
<1>1. GivenInv
  <2>1. tokenizer \in DOMAIN Tokenizers /\ superword = PlanOf(Tok) /\ docs \in Batches[tokenizer]
    BY DEF RowsInit, Tok
  <2>2. docs \in Seq(Seq(STRING))
    BY <2>1, BatchAssumption
  <2>3. \A i \in DOMAIN docs : docs[i] \in Texts
    <3>. TAKE i \in DOMAIN docs
    <3>1. EncodeDocument(Tok, PlanOf(Tok), "code", docs[i]) \in Seq(Seq(STRING))
      BY <2>1 DEF CutsAreSafe, Tok
    <3>2. docs[i] \in Seq(STRING)
      BY <2>2
    <3>. QED BY <2>1, <3>1, <3>2 DEF Texts, Encodable, Tokens
  <2>4. docs \in Seq(Texts)
    <3>. HIDE DEF Texts
    <3>. QED BY <2>2, <2>3
  <2>. QED BY <2>1, <2>4 DEF GivenInv
<1>2. ChunksInv
  <2>. DEFINE g == [k \in {0} |-> <<>>]
  <2>1. g[0] = <<>>
    OBVIOUS
  <2>2. docs \in Seq(Texts)
    BY <1>1 DEF GivenInv
  <2>3. chunks = <<>> /\ Left = <<>> /\ next = 0 /\ counts = <<>> /\ joined = 0
    BY DEF RowsInit, Left
  <2>. HIDE DEF g
  <2>4. KeptBy(Enc, Texts, docs, g, <<>>, <<>>, 0)
    BY <2>1, <2>2, NothingKept
  <2>. QED BY <2>1, <2>3, <2>4 DEF ChunksInv
<1>3. OutsInv
  BY DEF RowsInit, OutsInv
<1>4. StageInv
  <2>1. Len(docs) \in Nat
    BY <1>1 DEF GivenInv
  <2>. QED BY <2>1 DEF RowsInit, StageInv
<1>. QED BY <1>1, <1>2, <1>3, <1>4 DEF RowsInv

LEMMA GivenUnchanged ==
  ASSUME UNCHANGED given
  PROVE  /\ Enc' = Enc /\ Texts' = Texts /\ docs' = docs
         /\ GivenInv => GivenInv'
BY DEF given, Enc, Texts, Tok, GivenInv

(* While documents are grouped there are no rows yet.                      *)
LEMMA Grouping ==
  ASSUME RowsInv, stage = "group"
  PROVE  outs = <<>> /\ joined = 0 /\ counts = <<>> /\ Left = group
<1>1. outs = <<>>
  BY DEF RowsInv, StageInv
<1>2. joined = 0
  BY <1>1 DEF RowsInv, OutsInv
<1>3. counts = <<>>
  BY <1>2 DEF RowsInv, ChunksInv
<1>. QED BY <1>1, <1>2, <1>3 DEF Left

LEMMA PushDocumentKeepsRows ==
  ASSUME RowsInv, PushDocument
  PROVE  RowsInv'
<1>. DEFINE doc == docs[next + 1]
            more == Append(group, doc)
            size == acc + Len(doc)
            target == IF emitted < Sizes.head_bytes THEN Sizes.group_big ELSE Sizes.tail_target
            full == size >= target
<1>1. /\ stage = "group" /\ next < Len(docs) /\ UNCHANGED given /\ next' = next + 1
      /\ UNCHANGED <<outs, rest, stage>>
  BY DEF PushDocument
<1>2. /\ chunks' = IF full THEN Append(chunks, DocsChunk(more)) ELSE chunks
      /\ group' = IF full THEN <<>> ELSE more
  BY DEF PushDocument
<1>3. outs = <<>> /\ joined = 0 /\ counts = <<>> /\ Left = group
  BY <1>1, Grouping
<1>4. Enc' = Enc /\ Texts' = Texts /\ docs' = docs /\ GivenInv'
  BY <1>1, GivenUnchanged DEF RowsInv
<1>5. next \in 0 .. Len(docs) - 1 /\ Len(docs) \in Nat /\ docs \in Seq(Texts)
  BY <1>1 DEF RowsInv, StageInv, GivenInv
<1>6. PICK g : g[0] = <<>> /\ KeptBy(Enc, Texts, docs, g, chunks, group, next)
  BY <1>3 DEF RowsInv, ChunksInv
<1>7. KeptBy(Enc, Texts, docs, g, chunks, more, next + 1)
  BY <1>5, <1>6, EncEncodes, KeptDocument
<1>. HIDE DEF more, full
<1>8. \E f : f[0] = <<>> /\ KeptBy(Enc, Texts, docs, f, chunks', group', next + 1)
  <2>1. CASE full
    <3>1. \E f : f[0] = <<>> /\ KeptBy(Enc, Texts, docs, f, Append(chunks, DocsChunk(more)), <<>>, next + 1)
      BY <1>7, EncEncodes, KeptGroup
    <3>. QED BY <1>2, <2>1, <3>1
  <2>2. CASE ~ full
    BY <1>2, <1>6, <1>7, <2>2
  <2>. QED BY <2>1, <2>2
<1>9. ChunksInv'
  <2>1. joined' = 0 /\ counts' = <<>> /\ Left' = group' /\ next' = next + 1
    BY <1>1, <1>3 DEF rest, Left
  <2>. QED BY <1>4, <1>8, <2>1 DEF ChunksInv
<1>10. OutsInv'
  <2>1. chunks' \in Seq(ChunkOf(Texts))
    BY <1>8 DEF KeptBy
  <2>2. outs' = <<>> /\ joined' = 0
    BY <1>1, <1>3 DEF rest
  <2>. QED BY <2>1, <2>2 DEF OutsInv
<1>11. StageInv'
  BY <1>1, <1>3, <1>4, <1>5 DEF StageInv
<1>. QED BY <1>4, <1>9, <1>10, <1>11 DEF RowsInv

(* The group becomes a chunk unless it is empty.                           *)
LEMMA KeptNonEmpty ==
  ASSUME NEW g, g[0] = <<>>, KeptBy(Enc, Texts, docs, g, chunks, group, next)
  PROVE  \E f : f[0] = <<>> /\ KeptBy(Enc, Texts, docs, f, chunks \o NonEmpty(group), <<>>, next)
<1>1. chunks \in Seq(ChunkOf(Texts)) /\ group \in Seq(Texts)
  BY DEF KeptBy
<1>2. CASE group = <<>>
  <2>1. NonEmpty(group) = <<>>
    BY <1>2 DEF NonEmpty
  <2>2. chunks \o <<>> = chunks
    BY <1>1
  <2>. QED BY <1>2, <2>1, <2>2
<1>3. CASE group # <<>>
  <2>. DEFINE x == DocsChunk(group)
  <2>1. NonEmpty(group) = <<x>>
    BY <1>3 DEF NonEmpty
  <2>2. x \in ChunkOf(Texts)
    BY <1>1, DocsChunkType
  <2>. HIDE DEF x
  <2>3. chunks \o <<x>> = Append(chunks, x)
    BY <1>1, <2>2
  <2>4. \E f : f[0] = <<>> /\ KeptBy(Enc, Texts, docs, f, Append(chunks, x), <<>>, next)
    BY EncEncodes, KeptGroup DEF x
  <2>. QED BY <2>1, <2>3, <2>4
<1>. QED BY <1>2, <1>3

LEMMA FinishGroupsKeepsRows ==
  ASSUME RowsInv, FinishGroups
  PROVE  RowsInv'
<1>1. /\ stage = "group" /\ next = Len(docs) /\ UNCHANGED given /\ next' = next
      /\ UNCHANGED <<outs, rest>> /\ stage' = "encode" /\ chunks' = chunks \o NonEmpty(group)
  BY DEF FinishGroups
<1>2. outs = <<>> /\ joined = 0 /\ counts = <<>> /\ Left = group
  BY <1>1, Grouping
<1>3. Enc' = Enc /\ Texts' = Texts /\ docs' = docs /\ GivenInv'
  BY <1>1, GivenUnchanged DEF RowsInv
<1>4. PICK g : g[0] = <<>> /\ KeptBy(Enc, Texts, docs, g, chunks, group, next)
  BY <1>2 DEF RowsInv, ChunksInv
<1>5. \E f : f[0] = <<>> /\ KeptBy(Enc, Texts, docs, f, chunks', <<>>, next)
  BY <1>1, <1>4, KeptNonEmpty
<1>6. ChunksInv'
  <2>1. joined' = 0 /\ counts' = <<>> /\ Left' = <<>> /\ next' = next
    BY <1>1, <1>2 DEF rest, Left
  <2>. QED BY <1>3, <1>5, <2>1 DEF ChunksInv
<1>7. OutsInv'
  <2>1. chunks' \in Seq(ChunkOf(Texts))
    BY <1>5 DEF KeptBy
  <2>2. outs' = <<>> /\ joined' = 0
    BY <1>1, <1>2 DEF rest
  <2>. QED BY <2>1, <2>2 DEF OutsInv
<1>8. StageInv'
  BY <1>1, <1>3 DEF StageInv, RowsInv
<1>. QED BY <1>3, <1>6, <1>7, <1>8 DEF RowsInv

LEMMA PushFragmentsKeepsRows ==
  ASSUME CutsAreSafe, RowsInv, PushFragments
  PROVE  RowsInv'
<1>. DEFINE doc == docs[next + 1]
            before == emitted + acc
            head_len == IF lpt THEN Max({0, Sizes.head_bytes - before}) ELSE Len(doc)
            pushed == push_fragment_chunks(doc, head_len)
<1>1. /\ stage = "group" /\ next < Len(docs) /\ UNCHANGED given /\ next' = next + 1
      /\ UNCHANGED <<outs, rest, stage>> /\ group' = <<>>
      /\ can_fragment(Tok) /\ Len(doc) > 2 * Target
  BY DEF PushFragments, Oversized
<1>2. chunks' = chunks \o NonEmpty(group) \o pushed
  BY DEF PushFragments
<1>3. outs = <<>> /\ joined = 0 /\ counts = <<>> /\ Left = group
  BY <1>1, Grouping
<1>4. Enc' = Enc /\ Texts' = Texts /\ docs' = docs /\ GivenInv'
  BY <1>1, GivenUnchanged DEF RowsInv
<1>5. next \in 0 .. Len(docs) - 1 /\ Len(docs) \in Nat /\ docs \in Seq(Texts)
  BY <1>1 DEF RowsInv, StageInv, GivenInv
<1>6. next + 1 \in DOMAIN docs /\ doc \in Texts
  BY <1>5
<1>7. Len(doc) > 0
  <2>1. doc \in Seq(STRING)
    BY <1>6 DEF Texts, Encodable
  <2>2. Len(doc) \in Nat /\ Target \in Nat
    BY <2>1, BatchAssumption
  <2>. HIDE DEF doc
  <2>. QED BY <1>1, <2>2
<1>8. SafelyCut(Tok, superword, doc)
  <2>1. tokenizer \in DOMAIN Tokenizers /\ superword = PlanOf(Tok) /\ docs \in Batches[tokenizer]
    BY DEF RowsInv, GivenInv
  <2>. QED BY <1>1, <1>6, <2>1 DEF CutsAreSafe, SafelyCut, Tok
<1>. HIDE DEF doc, head_len
<1>9. doc \in Encodable(Tok, superword)
  BY <1>6 DEF Texts
<1>10. \E parts \in Seq(Encodable(Tok, superword)) :
           /\ push_fragment_chunks(doc, head_len) = FragmentChunks(parts)
           /\ Len(parts) > 0
           /\ TokensOf(Encoder(Tok, superword), parts) = Encoder(Tok, superword)[doc]
  BY <1>7, <1>8, <1>9, FragmentsKeepTokens
<1>11. PICK parts \in Seq(Texts) :
         pushed = FragmentChunks(parts) /\ Len(parts) > 0 /\ TokensOf(Enc, parts) = Enc[doc]
  BY <1>10 DEF Texts, Enc
<1>. HIDE DEF pushed
<1>12. PICK g : g[0] = <<>> /\ KeptBy(Enc, Texts, docs, g, chunks, group, next)
  BY <1>3 DEF RowsInv, ChunksInv
<1>. DEFINE cs == chunks \o NonEmpty(group)
<1>13. PICK h : h[0] = <<>> /\ KeptBy(Enc, Texts, docs, h, cs, <<>>, next)
  BY <1>12, KeptNonEmpty
<1>14. chunks' = cs \o FragmentChunks(parts)
  BY <1>2, <1>11
<1>. HIDE DEF cs
<1>15. TokensOf(Enc, parts) = Enc[docs[next + 1]]
  BY <1>11 DEF doc
<1>16. \E f : f[0] = <<>> /\ KeptBy(Enc, Texts, docs, f, cs \o FragmentChunks(parts), <<>>, next + 1)
  BY <1>5, <1>11, <1>13, <1>15, EncEncodes, KeptFragments
<1>17. ChunksInv'
  <2>1. joined' = 0 /\ counts' = <<>> /\ Left' = <<>> /\ next' = next + 1
    BY <1>1, <1>3 DEF rest, Left
  <2>. QED BY <1>4, <1>14, <1>16, <2>1 DEF ChunksInv
<1>18. OutsInv'
  <2>1. chunks' \in Seq(ChunkOf(Texts))
    BY <1>14, <1>16 DEF KeptBy
  <2>2. outs' = <<>> /\ joined' = 0
    BY <1>1, <1>3 DEF rest
  <2>. QED BY <2>1, <2>2 DEF OutsInv
<1>19. StageInv'
  BY <1>1, <1>3, <1>4, <1>5 DEF StageInv
<1>. QED BY <1>4, <1>17, <1>18, <1>19 DEF RowsInv

LEMMA EncodeTextsKeepsRows ==
  ASSUME RowsInv, EncodeTexts
  PROVE  RowsInv'
<1>1. UNCHANGED given /\ UNCHANGED grouping /\ UNCHANGED <<joined, counts>>
  BY DEF EncodeTexts
<1>2. Enc' = Enc /\ Texts' = Texts /\ docs' = docs /\ GivenInv'
  BY <1>1, GivenUnchanged DEF RowsInv
<1>3. group' = group /\ chunks' = chunks /\ next' = next /\ joined' = joined /\ counts' = counts
  BY <1>1 DEF grouping
<1>4. docs \in Seq(Texts)
  BY DEF RowsInv, GivenInv
<1>5. PICK g : g[0] = <<>> /\ counts = g[joined] /\ KeptBy(Enc, Texts, docs, g, chunks, Left, next)
  BY DEF RowsInv, ChunksInv
<1>6. chunks \in Seq(ChunkOf(Texts))
  BY <1>5 DEF KeptBy
<1>. DEFINE RowsBy(texts) ==
              [way \in IF Serially THEN {"code"} ELSE {"code", "definition"} |->
                 [i \in DOMAIN texts |-> EncodeDocument(Tok, superword, way, texts[i])]]
<1>7. ASSUME NEW texts \in Seq(Texts) PROVE RowsBy(texts)["code"] = RowsOf(Enc, texts)
  <2>1. \A i \in DOMAIN texts : texts[i] \in Texts
    BY <1>7
  <2>2. \A i \in DOMAIN texts : Enc[texts[i]] = EncodeDocument(Tok, superword, "code", texts[i])
    BY <2>1 DEF Enc, Encoder, Texts
  <2>3. RowsBy(texts)["code"] = [i \in DOMAIN texts |-> EncodeDocument(Tok, superword, "code", texts[i])]
    OBVIOUS
  <2>. HIDE DEF RowsBy
  <2>. QED BY <2>2, <2>3 DEF RowsOf
<1>8. CASE Serially
  <2>1. /\ serial' = ChunkTokens(RowsBy(docs)["code"], FALSE) /\ stage' = "done"
        /\ UNCHANGED <<outs, plain>>
    BY <1>8 DEF EncodeTexts
  <2>2. RowsBy(docs)["code"] = RowsOf(Enc, docs)
    BY <1>4, <1>7
  <2>. HIDE DEF RowsBy
  <2>3. stage = "join" /\ joined = Len(outs)
    BY <1>8 DEF Serially
  <2>4. outs' = outs /\ Left' = Left
    BY <2>1, <2>3 DEF Left
  <2>5. ChunksInv'
    BY <1>2, <1>3, <1>5, <2>4 DEF ChunksInv
  <2>6. OutsInv'
    BY <1>2, <1>3, <2>4 DEF OutsInv, OutOf, RowsInv
  <2>7. /\ ChunkTokens(RowsOf(Enc, docs), FALSE).ids = TokensOf(Enc, docs)
        /\ ChunkTokens(RowsOf(Enc, docs), FALSE).lens = RowsOf(Lengths(Enc, Texts), docs)
        /\ ChunkTokens(RowsOf(Enc, docs), FALSE).continues = FALSE
    BY <1>4, RowLengths
  <2>8. StageInv'
    BY <1>2, <1>3, <2>1, <2>2, <2>3, <2>4, <2>7 DEF StageInv, RowsInv
  <2>. QED BY <1>2, <2>5, <2>6, <2>8 DEF RowsInv
<1>9. CASE ~ Serially
  <2>. DEFINE total == Len(outs)
              chunk == chunks[total + 1]
  <2>1. stage = "encode" /\ total < Len(chunks)
    BY <1>9 DEF EncodeTexts
  <2>2. outs' = Append(outs, ChunkTokens(RowsBy(chunk.docs)["code"], chunk.fragment /\ ~ chunk.first))
        /\ UNCHANGED <<serial, stage>>
    <3>1. \E texts \in {IF Serially THEN docs ELSE chunk.docs} : \E rows \in {RowsBy(texts)} :
            \/ Serially
            \/ /\ outs' = Append(outs, ChunkTokens(rows["code"], chunk.fragment /\ ~ chunk.first))
               /\ UNCHANGED <<serial, stage>>
      BY Zenon DEF EncodeTexts
    <3>2. PICK texts \in {IF Serially THEN docs ELSE chunk.docs} : \E rows \in {RowsBy(texts)} :
            /\ outs' = Append(outs, ChunkTokens(rows["code"], chunk.fragment /\ ~ chunk.first))
            /\ UNCHANGED <<serial, stage>>
      BY ONLY <1>9, <3>1, Zenon
    <3>3. texts = chunk.docs
      BY <1>9
    <3>. HIDE DEF RowsBy, chunk
    <3>4. PICK rows \in {RowsBy(texts)} :
            /\ outs' = Append(outs, ChunkTokens(rows["code"], chunk.fragment /\ ~ chunk.first))
            /\ UNCHANGED <<serial, stage>>
      BY ONLY <3>2, Zenon
    <3>5. rows = RowsBy(chunk.docs)
      BY <3>3
    <3>. QED BY ONLY <3>4, <3>5, Zenon
  <2>3. total \in Nat /\ outs \in Seq(Outs) /\ total + 1 \in 1 .. Len(chunks)
    BY <1>6, <2>1 DEF RowsInv, OutsInv
  <2>4. chunk \in ChunkOf(Texts)
    BY <1>6, <2>3
  <2>5. chunk.docs \in Seq(Texts)
    BY <2>4 DEF ChunkOf
  <2>6. RowsBy(chunk.docs)["code"] = RowsOf(Enc, chunk.docs)
    BY <1>7, <2>5
  <2>. HIDE DEF RowsBy
  <2>7. outs' = Append(outs, OutOf(chunk))
    BY <2>2, <2>6 DEF OutOf, Continues
  <2>8. OutOf(chunk) \in Outs
    BY <2>4, OutType
  <2>9. Left' = Left
    BY <1>3, <2>2 DEF Left
  <2>10. ChunksInv'
    BY <1>2, <1>3, <1>5, <2>9 DEF ChunksInv
  <2>. DEFINE o == OutOf(chunk)
  <2>. HIDE DEF chunk
  <2>. HIDE DEF o
  <2>11. /\ outs' \in Seq(Outs) /\ Len(outs') = total + 1 /\ outs'[total + 1] = o
         /\ \A k \in 1 .. total : outs'[k] = outs[k]
    BY <2>3, <2>7, <2>8 DEF o
  <2>12. OutsInv'
    <3>1. \A k \in 1 .. total + 1 : k = total + 1 \/ k \in 1 .. total
      BY <2>3
    <3>3. \A k \in 1 .. total : outs[k] = OutOf(chunks[k])
      BY DEF RowsInv, OutsInv
    <3>4. \A k \in 1 .. total + 1 : outs'[k] = OutOf(chunks[k])
      BY <2>11, <3>1, <3>3 DEF o, chunk
    <3>5. joined \in 0 .. total + 1
      BY <2>3 DEF RowsInv, OutsInv
    <3>6. total + 1 <= Len(chunks)
      BY <2>3
    <3>7. \A k \in 1 .. Len(outs') : outs'[k] = ChunkTokens(RowsOf(Enc', chunks'[k].docs), Continues(chunks'[k]))
      BY <1>2, <1>3, <2>11, <3>4 DEF OutOf
    <3>. HIDE DEF total
    <3>. QED BY <1>3, <2>11, <3>5, <3>6, <3>7 DEF OutsInv, OutOf
  <2>13. StageInv'
    BY <1>2, <1>3, <2>1, <2>2 DEF StageInv, RowsInv
  <2>. QED BY <1>2, <2>10, <2>12, <2>13 DEF RowsInv
<1>. QED BY <1>8, <1>9

LEMMA FinishEncodingKeepsRows ==
  ASSUME RowsInv, FinishEncoding
  PROVE  RowsInv'
<1>1. /\ stage = "encode" /\ Len(outs) = Len(chunks) /\ stage' = "join"
      /\ UNCHANGED <<given, grouping, outs, plain, rest>>
  BY DEF FinishEncoding
<1>2. Enc' = Enc /\ Texts' = Texts /\ docs' = docs /\ GivenInv'
  BY <1>1, GivenUnchanged DEF RowsInv
<1>3. /\ group' = group /\ chunks' = chunks /\ next' = next /\ joined' = joined /\ counts' = counts
      /\ serial' = serial /\ outs' = outs
  BY <1>1 DEF grouping, rest
<1>4. Left' = Left
  BY <1>1 DEF Left
<1>5. ChunksInv'
  BY <1>2, <1>3, <1>4 DEF ChunksInv, RowsInv
<1>6. OutsInv'
  BY <1>2, <1>3 DEF OutsInv, OutOf, RowsInv
<1>7. StageInv'
  BY <1>1, <1>2, <1>3 DEF StageInv, RowsInv
<1>. QED BY <1>2, <1>5, <1>6, <1>7 DEF RowsInv

LEMMA JoinRowsKeepsRows ==
  ASSUME RowsInv, JoinRows
  PROVE  RowsInv'
<1>. DEFINE out == outs[joined + 1]
            chunk == chunks[joined + 1]
<1>1. /\ stage = "join" /\ joined < Len(outs) /\ joined' = joined + 1
      /\ UNCHANGED <<given, grouping, outs, plain, serial, stage>>
  BY DEF JoinRows
<1>2. counts' = WithRows(counts, out.lens, out.continues)
  BY DEF JoinRows, WithRows
<1>3. Enc' = Enc /\ Texts' = Texts /\ docs' = docs /\ GivenInv'
  BY <1>1, GivenUnchanged DEF RowsInv
<1>4. /\ group' = group /\ chunks' = chunks /\ next' = next
      /\ serial' = serial /\ outs' = outs /\ stage' = stage /\ Left' = Left
  BY <1>1 DEF grouping, Left
<1>5. PICK g : g[0] = <<>> /\ counts = g[joined] /\ KeptBy(Enc, Texts, docs, g, chunks, Left, next)
  BY DEF RowsInv, ChunksInv
<1>6. chunks \in Seq(ChunkOf(Texts)) /\ JoinsOf(Lengths(Enc, Texts), chunks, g)
  BY <1>5 DEF KeptBy
<1>7. outs \in Seq(Outs) /\ Len(outs) <= Len(chunks) /\ joined \in 0 .. Len(outs)
  BY DEF RowsInv, OutsInv
<1>8. joined + 1 \in 1 .. Len(chunks) /\ joined + 1 \in 1 .. Len(outs) /\ (joined + 1) - 1 = joined
  BY <1>1, <1>6, <1>7
<1>9. out = OutOf(chunk)
  BY <1>8 DEF RowsInv, OutsInv
<1>10. chunk \in ChunkOf(Texts)
  BY <1>6, <1>8
<1>11. chunk.docs \in Seq(Texts)
  BY <1>10 DEF ChunkOf
<1>12. out.lens = RowsOf(Lengths(Enc, Texts), chunk.docs) /\ out.continues = Continues(chunk)
  BY <1>9, <1>11, RowLengths DEF OutOf
<1>13. g[joined + 1] = WithRows(g[joined], RowsOf(Lengths(Enc, Texts), chunk.docs), Continues(chunk))
  BY <1>6, <1>8 DEF JoinsOf, StepsOf
<1>14. counts' = g[joined']
  <2>. HIDE DEF out, chunk
  <2>. QED BY <1>1, <1>2, <1>5, <1>12, <1>13
<1>15. ChunksInv'
  BY <1>3, <1>4, <1>5, <1>14 DEF ChunksInv
<1>16. OutsInv'
  BY <1>1, <1>3, <1>4, <1>7 DEF OutsInv, OutOf, RowsInv
<1>17. StageInv'
  BY <1>1, <1>3, <1>4 DEF StageInv, RowsInv
<1>. QED BY <1>3, <1>15, <1>16, <1>17 DEF RowsInv

LEMMA RowsStutter ==
  ASSUME RowsInv, UNCHANGED rowsVars
  PROVE  RowsInv'
<1>1. /\ tokenizer' = tokenizer /\ superword' = superword /\ docs' = docs /\ next' = next
      /\ group' = group /\ chunks' = chunks /\ outs' = outs /\ joined' = joined /\ counts' = counts
      /\ serial' = serial /\ stage' = stage /\ UNCHANGED given
  BY DEF rowsVars, given, grouping, rest
<1>2. Enc' = Enc /\ Texts' = Texts /\ GivenInv'
  BY <1>1, GivenUnchanged DEF RowsInv
<1>3. ChunksInv'
  BY <1>1, <1>2 DEF ChunksInv, RowsInv, Left
<1>4. OutsInv'
  BY <1>1, <1>2 DEF OutsInv, OutOf, RowsInv
<1>5. StageInv'
  BY <1>1, <1>2 DEF StageInv, RowsInv
<1>. QED BY <1>2, <1>3, <1>4, <1>5 DEF RowsInv

LEMMA RowsNext_Inv ==
  ASSUME CutsAreSafe, RowsInv, [RowsNext]_rowsVars
  PROVE  RowsInv'
<1>1. CASE PushFragments
  BY <1>1, PushFragmentsKeepsRows
<1>2. CASE PushDocument
  BY <1>2, PushDocumentKeepsRows
<1>3. CASE FinishGroups
  BY <1>3, FinishGroupsKeepsRows
<1>4. CASE EncodeTexts
  BY <1>4, EncodeTextsKeepsRows
<1>5. CASE FinishEncoding
  BY <1>5, FinishEncodingKeepsRows
<1>6. CASE JoinRows
  BY <1>6, JoinRowsKeepsRows
<1>7. CASE UNCHANGED rowsVars
  BY <1>7, RowsStutter
<1>. QED BY <1>1, <1>2, <1>3, <1>4, <1>5, <1>6, <1>7 DEF RowsNext

LEMMA RowsInvIsWhole ==
  ASSUME RowsInv
  PROVE  RowsAreWhole
<1>. SUFFICES ASSUME stage = "done"
              PROVE  /\ FlattenSeq([k \in DOMAIN outs |-> outs[k].ids]) = serial.ids
                     /\ counts = serial.lens
  BY DEF RowsAreWhole
<1>. DEFINE l == Lengths(Enc, Texts)
            q == ChunkEncoder(Enc, Texts)
<1>1. /\ serial.ids = TokensOf(Enc, docs) /\ serial.lens = RowsOf(l, docs)
      /\ Len(outs) = Len(chunks) /\ joined = Len(outs) /\ next = Len(docs)
  BY DEF RowsInv, StageInv
<1>2. Left = <<>>
  BY DEF Left
<1>3. PICK g : g[0] = <<>> /\ counts = g[joined] /\ KeptBy(Enc, Texts, docs, g, chunks, <<>>, next)
  BY <1>2 DEF RowsInv, ChunksInv
<1>4. docs \in Seq(Texts)
  BY DEF RowsInv, GivenInv
<1>5. SubSeq(docs, 1, next) = docs
  BY <1>1, <1>4, SubSeqAll
<1>6. chunks \in Seq(ChunkOf(Texts))
  BY <1>3 DEF KeptBy
<1>6a. JoinsOf(l, chunks, g)
  BY <1>3 DEF KeptBy
<1>7. TokensOf(q, chunks) \o TokensOf(Enc, <<>>) = TokensOf(Enc, docs)
  BY <1>3, <1>5 DEF KeptBy
<1>8. g[Len(chunks)] \o RowsOf(l, <<>>) = RowsOf(l, docs)
  BY <1>3, <1>5 DEF KeptBy
<1>9. TokensOf(Enc, <<>>) = <<>>
  BY RowsNone
<1>10. RowsOf(l, <<>>) = <<>>
  BY RowsNone
<1>11. outs \in Seq(Outs) /\ \A k \in 1 .. Len(outs) : outs[k] = OutOf(chunks[k])
  BY DEF RowsInv, OutsInv
<1>12. DOMAIN outs = DOMAIN chunks /\ DOMAIN chunks = 1 .. Len(outs)
  BY <1>1, <1>6, <1>11
<1>13. ASSUME NEW k \in DOMAIN chunks PROVE outs[k].ids = q[chunks[k]]
  <2>1. chunks[k] \in ChunkOf(Texts)
    BY <1>6
  <2>2. chunks[k].docs \in Seq(Texts)
    BY <2>1 DEF ChunkOf
  <2>3. OutOf(chunks[k]).ids = TokensOf(Enc, chunks[k].docs)
    BY <2>2, RowLengths DEF OutOf
  <2>4. q[chunks[k]] = TokensOf(Enc, chunks[k].docs)
    BY <2>1 DEF ChunkEncoder
  <2>. QED BY <1>11, <1>12, <2>3, <2>4
<1>. HIDE DEF l, q
<1>14. [k \in DOMAIN outs |-> outs[k].ids] = RowsOf(q, chunks)
  BY <1>12, <1>13 DEF RowsOf
<1>15. FlattenSeq([k \in DOMAIN outs |-> outs[k].ids]) = TokensOf(q, chunks)
  BY <1>14 DEF TokensOf
<1>16. Encodes(q, ChunkOf(Texts), Seq(Tokens))
  BY EncEncodes, ChunkEncoderEncodes DEF q
<1>17. TokensOf(q, chunks) \in Seq(Tokens)
  BY ONLY <1>6, <1>16, TokensType
<1>18. g[Len(chunks)] \in Seq(Nat)
  <2>1. Len(chunks) \in 0 .. Len(chunks)
    BY <1>6
  <2>. QED BY <1>6, <1>6a, <2>1, JoinsType
<1>19. TokensOf(q, chunks) \o <<>> = TokensOf(q, chunks)
  BY <1>17
<1>20. g[Len(chunks)] \o <<>> = g[Len(chunks)]
  BY <1>18
<1>21. TokensOf(q, chunks) = serial.ids
  BY <1>1, <1>7, <1>9, <1>19
<1>22. counts = serial.lens
  BY <1>1, <1>3, <1>8, <1>10, <1>20
<1>. QED BY <1>15, <1>21, <1>22

(* The rows of a batch that is over are whole (RowsAreWhole): joined from  *)
(* chunks of grouped and cut documents they are what the serial path of    *)
(* src/batch.rs gives, for every tokenizer and batch and whatever the      *)
(* chunk sizes are, if the places where safe_split_ranges may cut a text   *)
(* keep its tokens (CutsAreSafe).                                          *)
THEOREM RowsStayWhole ==
  ASSUME CutsAreSafe
  PROVE  RowsSpec => []RowsAreWhole
<1>1. RowsInit => RowsInv
  BY RowsInit_Inv
<1>2. RowsInv /\ [RowsNext]_rowsVars => RowsInv'
  BY RowsNext_Inv
<1>3. RowsInv => RowsAreWhole
  BY RowsInvIsWhole
<1>. QED BY <1>1, <1>2, <1>3, PTL DEF RowsSpec

==============================================================================
