----------------------------- MODULE WorkerPool -----------------------------
(***************************************************************************)
(* The pool of forked tokenizers behind every batch encode: WorkerPool of  *)
(* src/src/batch.rs.                                                       *)
(*                                                                         *)
(* One mutex-guarded slot per rayon thread.  with_worker scans the slots   *)
(* with try_lock, from the first one, and takes the first that is not held; *)
(* a pass that finds every slot held yields and starts again.  The serial  *)
(* paths block on a slot of their own.  A worker is forked from the         *)
(* prototype when its slot is empty and stays there.  An encode that panics *)
(* poisons its slot's mutex (std::sync::Mutex), and whoever meets a poison  *)
(* discards the worker and forks another.                                  *)
(*                                                                         *)
(* A worker is what it was forked as, and how it is now: its fork number,   *)
(* and whether its caches are consistent (an encode makes them so only     *)
(* when it ends).                                                          *)
(***************************************************************************)
EXTENDS Naturals, FiniteSets

CONSTANTS
  Rayon,      (* the rayon threads: they encode chunks of parallel calls    *)
  Outsiders,  (* other threads: they encode lone chunks and serial calls    *)
  MaxUses,    (* bound: encodes per thread                                  *)
  MaxPoolPanics,  (* bound: encodes that panic                              *)
  Nobody,     (* the mutex is not held                                      *)
  NoWorker    (* the slot is empty                                          *)

ASSUME PoolAssumption ==
  /\ IsFiniteSet(Rayon)
  /\ Rayon # {}
  /\ Rayon \cap Outsiders = {}
  /\ Nobody \notin Rayon \cup Outsiders
  /\ NoWorker \notin [id : Nat, sound : BOOLEAN]
  /\ MaxUses \in Nat
  /\ MaxPoolPanics \in Nat

Actors == Rayon \cup Outsiders

(* One slot per rayon thread; slot 0 is the field serial.                  *)
Slots  == 1 .. Cardinality(Rayon)
Serial == 0
Guards == {Serial} \cup Slots

VARIABLES
  owner,      (* owner[s] = the actor holding the mutex of slot s           *)
  poisoned,   (* the poison flag of the mutex of slot s                     *)
  worker,     (* what slot s holds                                          *)
  forks,      (* forks[s] = workers forked into slot s so far               *)
  panics,     (* encodes that have panicked                                 *)
  step,       (* where an actor is in with_worker or with_serial_worker    *)
  at,         (* the slot an actor tries or holds                           *)
  uses,       (* encodes begun by an actor                                  *)
  contended   (* an outsider has entered with_worker                        *)

poolVars == <<owner, poisoned, worker, forks, panics, step, at, uses, contended>>

PoolInit ==
  /\ owner = [s \in Guards |-> Nobody]
  /\ poisoned = [s \in Guards |-> FALSE]
  /\ worker = [s \in Guards |-> NoWorker]
  /\ forks = [s \in Guards |-> 0]
  /\ panics = 0
  /\ step = [a \in Actors |-> "idle"]
  /\ at = [a \in Actors |-> Serial]
  /\ uses = [a \in Actors |-> 0]
  /\ contended = FALSE

Reach(a, l) == step' = [step EXCEPT ![a] = l]

------------------------------------------------------------------------------

(* Mutant of Enter: the scan starts after the slot the thread had last.    *)
EnterAtNext(a) ==
  /\ step[a] = "idle"
  /\ uses[a] < MaxUses
  /\ uses' = [uses EXCEPT ![a] = @ + 1]
  /\ at' = [at EXCEPT ![a] = IF @ + 1 \in Slots THEN @ + 1 ELSE 1]
  /\ contended' = (contended \/ a \in Outsiders)
  /\ Reach(a, "try")
  /\ UNCHANGED <<owner, poisoned, worker, forks, panics>>

(* with_worker starts its scan at the first slot. *)
Enter(a) ==
  /\ step[a] = "idle"
  /\ uses[a] < MaxUses
  /\ uses' = [uses EXCEPT ![a] = @ + 1]
  /\ at' = [at EXCEPT ![a] = 1]
  /\ contended' = (contended \/ a \in Outsiders)
  /\ Reach(a, "try")
  /\ UNCHANGED <<owner, poisoned, worker, forks, panics>>

(* with_serial_worker waits for its own slot. *)
EnterSerial(a) ==
  /\ a \in Outsiders
  /\ step[a] = "idle"
  /\ uses[a] < MaxUses
  /\ uses' = [uses EXCEPT ![a] = @ + 1]
  /\ at' = [at EXCEPT ![a] = Serial]
  /\ Reach(a, "wait")
  /\ UNCHANGED <<owner, poisoned, worker, forks, panics, contended>>

(* Mutant of Discard: the poison is ignored. *)
KeepWorker(s) == worker[s]

(* What an acquired slot holds: a poisoned lock's worker is thrown away.   *)
Discard(s) == IF poisoned[s] THEN NoWorker ELSE worker[s]

(* Mutant of Acquire: the slot is entered without a lock. *)
AcquireUnlocked(a, s) ==
  /\ owner' = [owner EXCEPT ![s] = a]
  /\ worker' = [worker EXCEPT ![s] = Discard(s)]
  /\ Reach(a, "fork")

Acquire(a, s) ==
  /\ owner[s] = Nobody
  /\ owner' = [owner EXCEPT ![s] = a]
  /\ worker' = [worker EXCEPT ![s] = Discard(s)]
  /\ Reach(a, "fork")

(* try_lock is Ok or Poisoned. *)
TrySlot(a) ==
  /\ step[a] = "try"
  /\ Acquire(a, at[a])
  /\ UNCHANGED <<poisoned, forks, panics, at, uses, contended>>

(* Mutant of SlotBusy: the slot that is tried next is not the next one.    *)
SkipSlot(a) ==
  /\ step[a] = "try"
  /\ owner[at[a]] # Nobody
  /\ IF at[a] + 1 \in Slots
     THEN at' = [at EXCEPT ![a] = @ + 2] /\ UNCHANGED step
     ELSE Reach(a, "yield") /\ UNCHANGED at
  /\ UNCHANGED <<owner, poisoned, worker, forks, panics, uses, contended>>

(* try_lock is WouldBlock: the next slot, or the end of the pass. *)
SlotBusy(a) ==
  /\ step[a] = "try"
  /\ owner[at[a]] # Nobody
  /\ IF at[a] + 1 \in Slots
     THEN at' = [at EXCEPT ![a] = @ + 1] /\ UNCHANGED step
     ELSE Reach(a, "yield") /\ UNCHANGED at
  /\ UNCHANGED <<owner, poisoned, worker, forks, panics, uses, contended>>

(* yield_now, then the next pass. *)
Yield(a) ==
  /\ step[a] = "yield"
  /\ at' = [at EXCEPT ![a] = 1]
  /\ Reach(a, "try")
  /\ UNCHANGED <<owner, poisoned, worker, forks, panics, uses, contended>>

(* serial.lock() *)
LockSerial(a) ==
  /\ step[a] = "wait"
  /\ Acquire(a, Serial)
  /\ UNCHANGED <<poisoned, forks, panics, at, uses, contended>>

(* get_or_insert_with(fork_sized), and f starts: until it ends, the        *)
(* worker's caches are in between.                                         *)
ForkAndStart(a) ==
  /\ step[a] = "fork"
  /\ LET s == at[a] IN
     IF worker[s] = NoWorker
     THEN /\ forks' = [forks EXCEPT ![s] = @ + 1]
          /\ worker' = [worker EXCEPT ![s] = [id |-> forks[s] + 1, sound |-> FALSE]]
     ELSE /\ UNCHANGED forks
          /\ worker' = [worker EXCEPT ![s] = [id |-> worker[s].id, sound |-> FALSE]]
  /\ Reach(a, "encode")
  /\ UNCHANGED <<owner, poisoned, panics, at, uses, contended>>

(* f returns and the guard is dropped. *)
Finish(a) ==
  /\ step[a] = "encode"
  /\ LET s == at[a] IN
     /\ worker' = [worker EXCEPT ![s] = [id |-> worker[s].id, sound |-> TRUE]]
     /\ owner' = [owner EXCEPT ![s] = Nobody]
  /\ Reach(a, "idle")
  /\ UNCHANGED <<poisoned, forks, panics, at, uses, contended>>

(* Mutant of Panics: the guard is not dropped. *)
PanicsHolding(a) ==
  /\ step[a] = "encode"
  /\ panics < MaxPoolPanics
  /\ panics' = panics + 1
  /\ poisoned' = [poisoned EXCEPT ![at[a]] = TRUE]
  /\ Reach(a, "idle")
  /\ UNCHANGED <<owner, worker, forks, at, uses, contended>>

(* f panics: the guard is dropped while unwinding, which poisons the       *)
(* mutex.  Nothing in the code clears a poison.                            *)
Panics(a) ==
  /\ step[a] = "encode"
  /\ panics < MaxPoolPanics
  /\ panics' = panics + 1
  /\ poisoned' = [poisoned EXCEPT ![at[a]] = TRUE]
  /\ owner' = [owner EXCEPT ![at[a]] = Nobody]
  /\ Reach(a, "idle")
  /\ UNCHANGED <<worker, forks, at, uses, contended>>

Start(a) == Enter(a) \/ EnterSerial(a)

Proceed(a) ==
  \/ TrySlot(a)
  \/ SlotBusy(a)
  \/ Yield(a)
  \/ LockSerial(a)
  \/ ForkAndStart(a)
  \/ Finish(a)
  \/ Panics(a)

PoolNext == \E a \in Actors : Start(a) \/ Proceed(a)

PoolSpec == PoolInit /\ [][PoolNext]_poolVars

(* A thread that has entered goes on.  The blocking lock is held by one    *)
(* waiter after another: a waiter gets it in the end because each holder's *)
(* call is finite and uses is bounded.                                     *)
PoolFairSpec == PoolSpec /\ \A a \in Actors : WF_poolVars(Proceed(a))

------------------------------------------------------------------------------
(* Properties. *)

Holding(a) == step[a] \in {"fork", "encode"}

PoolTypeOK ==
  /\ owner \in [Guards -> Actors \cup {Nobody}]
  /\ poisoned \in [Guards -> BOOLEAN]
  /\ worker \in [Guards -> [id : Nat, sound : BOOLEAN] \cup {NoWorker}]
  /\ forks \in [Guards -> Nat]
  /\ panics \in 0 .. MaxPoolPanics
  /\ step \in [Actors -> {"idle", "try", "yield", "wait", "fork", "encode"}]
  /\ at \in [Actors -> Guards]
  /\ uses \in [Actors -> 0 .. MaxUses]
  /\ contended \in BOOLEAN
  /\ \A a \in Actors : step[a] = "try" => at[a] \in Slots

(***************************************************************************)
(* "Run f with exclusive access to a pooled worker": the threads inside    *)
(* with_worker and with_serial_worker hold different slots, and the mutex  *)
(* of the slot each one uses is its own.                                   *)
(***************************************************************************)
ExclusiveWorker ==
  \A a \in Actors : Holding(a) =>
    /\ owner[at[a]] = a
    /\ \A b \in Actors \ {a} : Holding(b) => at[b] # at[a]

(***************************************************************************)
(* "A worker panicked mid-encode; its cache may be inconsistent": no       *)
(* thread ever starts to encode with such a worker, on whichever slot, and *)
(* however many uses later it gets there.                                  *)
(***************************************************************************)
NoBrokenWorker ==
  \A a \in Actors :
    step[a] = "fork" /\ worker[at[a]] # NoWorker => worker[at[a]].sound

(***************************************************************************)
(* "A free slot always exists; the yield loop only spins when non-rayon    *)
(* threads encode at the same time": while only rayon threads have used    *)
(* the slots, no scan ends without a slot, although slots are given back   *)
(* and taken behind and ahead of it all the time.                          *)
(***************************************************************************)
RayonNeverSpins ==
  ~contended => \A a \in Actors : step[a] # "yield"

(***************************************************************************)
(* A worker leaves its slot only when the slot is poisoned: no other path  *)
(* throws a warm cache away.                                               *)
(***************************************************************************)
ReplacedAfterPanic ==
  [][\A s \in Slots :
       worker[s] # NoWorker /\ ~poisoned[s] =>
         worker'[s] # NoWorker /\ worker'[s].id = worker[s].id]_poolVars

(* Whoever asks for a worker gets one and gives it back. *)
EveryUseEnds == \A a \in Actors : (step[a] # "idle") ~> (step[a] = "idle")

==============================================================================
