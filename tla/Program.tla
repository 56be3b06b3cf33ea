------------------------------ MODULE Program ------------------------------
(***************************************************************************)
(* One execution from the checks of the cpusets to the end of main: main   *)
(* takes over the cpusets of the command line and checks them              *)
(* (main.cc:768-805), spawns the threads (Spawn), runs the rounds          *)
(* (Workers) and prints each round's rows (main.cc:262-284).               *)
(*                                                                         *)
(* The number of threads is a constant of Workers.  Every command line is  *)
(* followed through the checks; those that select other PUs than Cpuset    *)
(* are left there.                                                         *)
(***************************************************************************)
EXTENDS Spawn

CONSTANTS
  Lists      (* what a user may write after --cpuset-1 and --cpuset-2: sets *)
             (* of numbers, {} if the option is not given                   *)

VARIABLES
  stage,     (* "default", "check", "assert", "spawn"; "exited", "aborted"  *)
  cpuset1,   (* cpuset1 and ...                                             *)
  cpuset2    (* ... cpuset2 of main                                         *)

setup == <<stage, cpuset1, cpuset2>>
pvars == <<setup, svars, vars>>

ASSUME ProgramAssumption == {} \in Lists /\ \A l \in Lists : l \subseteq Nat

ProgramInit ==
  /\ stage = "default"
  /\ cpuset1 \in Lists
  /\ cpuset2 \in Lists
  /\ SpawnInit

-----------------------------------------------------------------------------
(* The default is the whole machine; the mutant has none. *)
NoDefault ==
  /\ stage = "default"
  /\ stage' = "check"
  /\ UNCHANGED <<cpuset1, cpuset2, svars, vars>>

TakeDefault ==
  /\ stage = "default"
  /\ cpuset1' = IF cpuset1 = {} THEN Cpus ELSE cpuset1
  /\ stage' = "check"
  /\ UNCHANGED <<cpuset2, svars, vars>>

CheckSets ==
  /\ stage = "check"
  /\ stage' = IF cpuset1 \subseteq Cpus /\ cpuset2 \subseteq Cpus THEN "assert" ELSE "exited"
  /\ UNCHANGED <<cpuset1, cpuset2, svars, vars>>

(* The policy and the second cpuset have to go together. *)
AssertPair ==
  /\ stage = "assert"
  /\ stage' = IF (Policy = "pair") <=> (cpuset2 # {}) THEN "spawn" ELSE "aborted"
  /\ UNCHANGED <<cpuset1, cpuset2, svars, vars>>

Runset == cpuset1 \cup cpuset2

(* main goes on with the PUs this instance is about. *)
Followed ==
  /\ stage = "spawn"
  /\ Runset = Cpuset
  /\ Policy = "pair" => cpuset1 = Set1

(* main in spawn_workers, and in the rounds when it has returned. *)
SpawnStep ==
  /\ Followed
  /\ NoObject \/ Skip \/ Prepare \/ Create \/ CreateFails \/ UseNull \/ Finish
  /\ UNCHANGED setup

RoundStep ==
  /\ Followed
  /\ spc = "returned"
  /\ MainStep
  /\ UNCHANGED <<setup, svars>>

(* Threads run from the moment they are created. *)
Running(t) == t \in created \/ (t = Dirigent /\ spc = "returned")

ThreadStep(t) ==
  /\ Running(t)
  /\ spc \notin {"exited", "crashed", "aborted"}
  /\ WorkerStep(t)
  /\ UNCHANGED <<setup, svars>>

Wakeup(t) ==
  /\ Running(t)
  /\ spc \notin {"exited", "crashed", "aborted"}
  /\ SpuriousWakeup(t)
  /\ UNCHANGED <<setup, svars>>

(* main has returned or the process is gone, or it is another instance's.  *)
Over ==
  \/ stage \in {"exited", "aborted"}
  \/ spc \in {"exited", "crashed", "aborted"}
  \/ mpc = "done" /\ \A t \in Threads : wpc[t] = "exited"
  \/ stage = "spawn" /\ ~Followed

Rest == Over /\ UNCHANGED pvars

MainProgress == TakeDefault \/ CheckSets \/ AssertPair \/ SpawnStep \/ RoundStep

ProgramNext ==
  \/ MainProgress
  \/ \E t \in Threads : ThreadStep(t) \/ Wakeup(t)
  \/ Rest

ProgramSpec ==
  /\ ProgramInit /\ [][ProgramNext]_pvars
  /\ WF_pvars(MainProgress)
  /\ \A t \in Threads : WF_pvars(ThreadStep(t))

-----------------------------------------------------------------------------
(* A type invariant. *)
ProgramTypeOK ==
  /\ stage \in {"default", "check", "assert", "spawn", "exited", "aborted"}
  /\ cpuset1 \in Lists \cup {Cpus}
  /\ cpuset2 \in Lists
  /\ SpawnTypeOK

(* Whatever the command line says, spawn_workers is called only with PUs   *)
(* of the machine and with at least one (main.cc:770-806): main dereferences *)
(* workers->threads[0] in each round (main.cc:310), and divides the work   *)
(* by the weight of that set.                                              *)
RunsetIsUsable == stage = "spawn" => Runset # {} /\ Runset \subseteq Cpus

(* result_print numbers the rows by walking over the bits of               *)
(* workers->cpuset.  Mutant: over those of the machine.                    *)
Ranked(set, t) == CHOOSE c \in set : Cardinality({d \in set : d < c}) = t
LabelOfMachine(t) == Ranked(Cpus, t)
Label(t) == Ranked(allocated, t)

(* When hwloc's order of the objects is that of the PUs' numbers, each row *)
(* is labelled with the PU its thread is bound to (main.cc:265-273), also  *)
(* when PUs in between are left out.  (In another order it is not: rows    *)
(* are in the order of the objects, labels in that of the numbers.)        *)
Ascending == \A t, u \in Threads : t < u => Home[t] < Home[u]

LabelsAreHome ==
  mpc = "print" /\ round \in 1 .. LastRound /\ Ascending /\ DoBinding =>
    \A x \in result : Label(x.row) = cpu[x.by]

(* main returns, exits or aborts: with threads created early, one of them  *)
(* failing to be created, and all rounds (main.cc:127-133, 807-841).       *)
ProgramEnds == <>Over

=============================================================================
