---------------------------- MODULE PhaseBarrier ----------------------------
(***************************************************************************)
(* src/barrier.c: pthread_barrier_t built from a mutex, a condition        *)
(* variable, an arrival count and a phase number, for platforms without    *)
(* one.  Every access to the barrier happens with its mutex held, so the   *)
(* code between two points where the mutex is free is one action.          *)
(*                                                                         *)
(* The threads use the barrier as worker.c does: init_step creates it for  *)
(* exactly the threads that will wait at it, and each of them may come     *)
(* back for another episode while others are still leaving the last one.   *)
(***************************************************************************)
EXTENDS Naturals, FiniteSets

CONSTANTS
  Threads,    (* the threads sharing the barrier                            *)
  PhaseMod,   (* the phase is an unsigned long: 2^64 in the code            *)
  MaxCalls    (* bound: how often each thread calls pthread_barrier_wait    *)

ASSUME BarrierAssumption ==
  /\ IsFiniteSet(Threads)
  /\ Threads # {}
  /\ PhaseMod \in Nat
  /\ PhaseMod >= 2
  /\ MaxCalls \in Nat

VARIABLES
  count,    (* barrier->count                                               *)
  phase,    (* barrier->phase                                               *)
  cond,     (* the threads blocked in pthread_cond_wait                     *)
  saved,    (* the local variable `phase' of each thread's call             *)
  pc,       (* "out", "waiting" in the do-while loop, "opener" returning    *)
            (* PTHREAD_BARRIER_SERIAL_THREAD                                *)
  calls,    (* history: how many calls each thread has entered              *)
  passes,   (* history: how many of them have returned                      *)
  episode   (* history: how often the barrier has opened                    *)

vars == <<count, phase, cond, saved, pc, calls, passes, episode>>

(* init_step passes the number of participating threads. *)
Limit == Cardinality(Threads)

Init ==
  /\ count = 0
  /\ phase = 0
  /\ cond = {}
  /\ saved = [t \in Threads |-> 0]
  /\ pc = [t \in Threads |-> "out"]
  /\ calls = [t \in Threads |-> 0]
  /\ passes = [t \in Threads |-> 0]
  /\ episode = 0

-----------------------------------------------------------------------------
(* The caller's next use of the barrier, up to the bound. *)
Enter(t) ==
  /\ pc[t] = "out"
  /\ calls[t] < MaxCalls
  /\ calls' = [calls EXCEPT ![t] = @ + 1]

(* count++ stays below the limit: remember the phase and wait. *)
Block(t) ==
  /\ Enter(t)
  /\ count + 1 < Limit
  /\ count' = count + 1
  /\ saved' = [saved EXCEPT ![t] = phase]
  /\ cond' = cond \cup {t}
  /\ pc' = [pc EXCEPT ![t] = "waiting"]
  /\ UNCHANGED <<phase, passes, episode>>

(* Mutants of Open: the count is not reset; only one waiter is signalled;  *)
(* the phase is not advanced.                                              *)
OpenWithoutReset(t) ==
  /\ Enter(t)
  /\ count + 1 >= Limit
  /\ count' = count + 1
  /\ phase' = (phase + 1) % PhaseMod
  /\ cond' = {}
  /\ pc' = [pc EXCEPT ![t] = "opener"]
  /\ episode' = episode + 1
  /\ UNCHANGED <<saved, passes>>

OpenWithSignal(t) ==
  /\ Enter(t)
  /\ count + 1 >= Limit
  /\ count' = 0
  /\ phase' = (phase + 1) % PhaseMod
  /\ cond' \in {cond \ {u} : u \in cond}
  /\ pc' = [pc EXCEPT ![t] = "opener"]
  /\ episode' = episode + 1
  /\ UNCHANGED <<saved, passes>>

OpenSamePhase(t) ==
  /\ Enter(t)
  /\ count + 1 >= Limit
  /\ count' = 0
  /\ phase' = phase
  /\ cond' = {}
  /\ pc' = [pc EXCEPT ![t] = "opener"]
  /\ episode' = episode + 1
  /\ UNCHANGED <<saved, passes>>

(* count++ reaches the limit: next phase, broadcast, no waiting. *)
Open(t) ==
  /\ Enter(t)
  /\ count + 1 >= Limit
  /\ count' = 0
  /\ phase' = (phase + 1) % PhaseMod
  /\ cond' = {}
  /\ pc' = [pc EXCEPT ![t] = "opener"]
  /\ episode' = episode + 1
  /\ UNCHANGED <<saved, passes>>

(* pthread_cond_wait returns, but the phase has not changed. *)
WaitAgain(t) ==
  /\ pc[t] = "waiting"
  /\ t \notin cond
  /\ saved[t] = phase
  /\ cond' = cond \cup {t}
  /\ UNCHANGED <<count, phase, saved, pc, calls, passes, episode>>

(* The call of t may return: it opened the barrier, or it is awake and     *)
(* sees another phase than the one it entered in.                          *)
Released(t) ==
  \/ pc[t] = "opener"
  \/ pc[t] = "waiting" /\ saved[t] # phase

(* Mutant of Return: `if' instead of the do-while loop. *)
ReturnWhenWoken(t) ==
  /\ pc[t] # "out"
  /\ t \notin cond
  /\ pc' = [pc EXCEPT ![t] = "out"]
  /\ passes' = [passes EXCEPT ![t] = @ + 1]
  /\ UNCHANGED <<count, phase, cond, saved, calls, episode>>

Return(t) ==
  /\ Released(t)
  /\ t \notin cond
  /\ pc' = [pc EXCEPT ![t] = "out"]
  /\ passes' = [passes EXCEPT ![t] = @ + 1]
  /\ UNCHANGED <<count, phase, cond, saved, calls, episode>>

(* POSIX lets pthread_cond_wait return without a signal. *)
SpuriousWakeup(t) ==
  /\ t \in cond
  /\ cond' = cond \ {t}
  /\ UNCHANGED <<count, phase, saved, pc, calls, passes, episode>>

Step(t) == Block(t) \/ Open(t) \/ WaitAgain(t) \/ Return(t)

(* Every thread has made its last call. *)
Finished ==
  /\ \A t \in Threads : pc[t] = "out" /\ calls[t] = MaxCalls
  /\ UNCHANGED vars

Next ==
  \/ \E t \in Threads : Step(t) \/ SpuriousWakeup(t)
  \/ Finished

(* A thread that can run is eventually scheduled; nothing makes a wakeup   *)
(* without a signal happen.                                                *)
Fairness == \A t \in Threads : WF_vars(Step(t))

Spec == Init /\ [][Next]_vars

FairSpec == Spec /\ Fairness

-----------------------------------------------------------------------------
TypeOK ==
  /\ count \in 0 .. Limit - 1
  /\ phase \in 0 .. PhaseMod - 1
  /\ cond \in SUBSET Threads
  /\ saved \in [Threads -> 0 .. PhaseMod - 1]
  /\ pc \in [Threads -> {"out", "waiting", "opener"}]
  /\ calls \in [Threads -> Nat]
  /\ passes \in [Threads -> Nat]
  /\ episode \in Nat

(* No call returns before every thread has made as many calls: nobody gets *)
(* through pthread_barrier_wait for the k-th time before everybody has     *)
(* entered it for the k-th time (barrier.c:65-82), however often the       *)
(* phase number has wrapped around.                                        *)
NoEarlyLeave == \A t, u \in Threads : passes[t] <= calls[u]

(* No lost wakeup: a thread still blocked in pthread_cond_wait is one the  *)
(* barrier has not opened for yet, and the arrival count is the number of  *)
(* such threads, blocked or briefly awake (barrier.c:67-78).               *)
Waiting == {t \in Threads : pc[t] = "waiting" /\ saved[t] = phase}

SleepersAreCounted ==
  /\ cond \subseteq Waiting
  /\ count = Cardinality(Waiting)

(* Every call returns (barrier.c:76-80), given that the others keep coming *)
(* to the barrier.                                                         *)
EveryCallReturns == \A t \in Threads : (pc[t] # "out") ~> (pc[t] = "out")

(* barrier.c implements the barrier worker.c relies on. *)
Contract == INSTANCE Barrier
  WITH limit <- Limit, arrived <- Waiting,
       leaving <- {t \in Threads : Released(t)}

ContractSpec == Contract!Spec

=============================================================================
