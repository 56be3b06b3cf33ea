------------------------------ MODULE Campaign ------------------------------
(***************************************************************************)
(* What hwvar promises its user (main.cc:810-841, the options --policy and *)
(* --iterations): the benchmarks run in order; each thread runs each of    *)
(* them the requested number of times and fills its own row of results;    *)
(* under "onebyone" the threads take turns; in the end every thread but    *)
(* the dirigent is told to stop, one after the other.                      *)
(*                                                                         *)
(* Slots, items, condition variables and barriers are means to this end    *)
(* and do not occur here.                                                  *)
(***************************************************************************)
EXTENDS Integers

CONSTANTS
  Threads,         (* 0 .. N-1; 0 is the dirigent                           *)
  LastRound,       (* rounds 1 .. LastRound measure; round 0 is the warm-up *)
  Repetitions(_),  (* calls per thread in a round                           *)
  Serial(_),       (* the threads take turns in a round                     *)
  Jobs(_, _)       (* the benchmarks a thread may be given in a round       *)

VARIABLES
  round,     (* the current round; LastRound + 1 stops the threads          *)
  calling,   (* the threads in a benchmark's call                           *)
  result,    (* what has been measured in this round                        *)
  running    (* the threads not yet told to stop                            *)

cvars == <<round, calling, result, running>>

StopRound == LastRound + 1

Calls(t) == {x.rep : x \in {y \in result : y.row = t}}
Complete(t) == Calls(t) = 0 .. Repetitions(round) - 1

Init ==
  /\ round = 0
  /\ calling = {}
  /\ result = {}
  /\ running = Threads

(* Thread t calls its benchmark once more. *)
StartCall(t) ==
  /\ t \notin calling
  /\ round # StopRound
  /\ ~Complete(t)
  /\ Serial(round) =>
       \A u \in Threads : u # t => u \notin calling /\ (u < t => Complete(u))
  /\ calling' = calling \cup {t}
  /\ UNCHANGED <<round, result, running>>

(* The call returns: the next entry of row t, of the row's benchmark. *)
EndCall(t) ==
  /\ t \in calling
  /\ round # StopRound
  /\ \E k \in 0 .. Repetitions(round) - 1, job \in Jobs(round, t) :
       /\ Calls(t) = 0 .. k - 1
       /\ \A x \in result : x.row = t => x.ops = job
       /\ result' = result \cup {[row |-> t, rep |-> k, by |-> t, ops |-> job]}
  /\ calling' = calling \ {t}
  /\ UNCHANGED <<round, running>>

(* The round is over once every row is complete. *)
NextRound ==
  /\ round # StopRound
  /\ calling = {}
  /\ \A t \in Threads : Complete(t)
  /\ round' = round + 1
  /\ result' = {}
  /\ UNCHANGED <<calling, running>>

(* Thread t is stopped, in the order of the threads. *)
StartStop(t) ==
  /\ round = StopRound
  /\ calling = {}
  /\ t \in running \ {0}
  /\ \A u \in running \ {0} : t <= u
  /\ calling' = {t}
  /\ UNCHANGED <<round, result, running>>

EndStop(t) ==
  /\ round = StopRound
  /\ t \in calling
  /\ calling' = calling \ {t}
  /\ running' = running \ {t}
  /\ UNCHANGED <<round, result>>

Next ==
  \/ \E t \in Threads : StartCall(t) \/ EndCall(t) \/ StartStop(t) \/ EndStop(t)
  \/ NextRound

Spec == Init /\ [][Next]_cvars

=============================================================================
