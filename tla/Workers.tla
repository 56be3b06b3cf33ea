------------------------------ MODULE Workers ------------------------------
(***************************************************************************)
(* The core of hwvar: the main thread (src/main.cc) hands work items to    *)
(* the worker threads (src/worker.c) through one slot per thread, guarded  *)
(* by a mutex and one condition variable that serves both directions.      *)
(*                                                                         *)
(* main goes through a sequence of rounds: synchronize_worker_init, one    *)
(* round per benchmark (per two benchmarks under the policy "pair"), and   *)
(* stop_workers.  A round allocates a step (a barrier and an array of work *)
(* items), queues items, collects them again and frees the step.  Thread 0 *)
(* is the dirigent: main itself calls worker() for it.                     *)
(*                                                                         *)
(* A critical section is one action; a thread blocked in pthread_cond_wait *)
(* is a member of the slot's `cv'.  The code's assertions are not guards:  *)
(* AssertionsHold states them, and a build without them goes on.           *)
(***************************************************************************)
EXTENDS Integers, FiniteSets

CONSTANTS
  N,           (* number of threads: the PUs in the cpuset                  *)
  Policy,      (* "parallel", "onebyone" or "pair"                          *)
  NBench,      (* number of selected benchmarks                             *)
  Iterations,  (* --iterations                                              *)
  Cpus,        (* the PUs of the machine                                    *)
  Home,        (* the PU spawn_workers picked for each thread               *)
  Set1,        (* --cpuset-1                                                *)
  DoBinding,   (* FALSE with --disable-binding                              *)
  NoWork       (* the null work_t pointer                                   *)

Threads == 0 .. N - 1
Dirigent == 0

(* What an item's ops points to: the null benchmark, a selected benchmark, *)
(* or the stop function.                                                   *)
NullOps == 0
StopOps == NBench + 1
AllOps == NullOps .. StopOps

(* The rounds of one execution. *)
LastRound == IF Policy = "pair" THEN (NBench + 1) \div 2 ELSE NBench
StopRound == LastRound + 1
AllRounds == 0 .. StopRound

Pointers == AllRounds \X Threads   (* &step->work[item], by round and item  *)
Items == [ops : AllOps, row : Threads, reps : Nat]
NoItem == [ops |-> NullOps, row |-> Dirigent, reps |-> 0]
Records == [row : Threads, rep : Nat, by : Threads, ops : AllOps]

ASSUME WorkersAssumption ==
  /\ N \in Nat \ {0}
  /\ Policy \in {"parallel", "onebyone", "pair"}
  /\ NBench \in Nat
  /\ Iterations \in Nat
  /\ Home \in [Threads -> Cpus]
  /\ DoBinding \in BOOLEAN
  /\ NoWork \notin Pointers

VARIABLES
  mpc,      (* where main is in the current round                           *)
  round,    (* the current round                                            *)
  idx,      (* main's loop counter over the threads                         *)
  alive,    (* the round's step is allocated                                *)
  items,    (* step->work                                                   *)
  s,        (* arg->s of each slot                                          *)
  work,     (* arg->work                                                    *)
  cv,       (* who is blocked on arg->cv: "main", "worker"                  *)
  run,      (* arg->run                                                     *)
  init,     (* arg->init                                                    *)
  cpu,      (* arg->cpu                                                     *)
  bound,    (* the operating system has bound the thread                    *)
  wpc,      (* where each thread is in worker()                             *)
  hold,     (* the local variable `work' of worker()                        *)
  rep,      (* the local variable `rep' of worker()                         *)
  result,   (* the entries written to the round's result array              *)
  limit, arrived, leaving   (* step->barrier                                *)

barrier == <<limit, arrived, leaving>>
mainvars == <<mpc, round, idx, alive, items>>
slots == <<s, work, cv>>
state == <<run, init, cpu, bound>>
local == <<wpc, hold, rep>>
vars == <<mainvars, slots, state, local, result, barrier>>

B == INSTANCE Barrier

Init ==
  /\ mpc = "start" /\ round = 0 /\ idx = 0
  /\ alive = FALSE /\ items = [i \in Threads |-> NoItem]
  /\ s = [t \in Threads |-> "IDLE"]
  /\ work = [t \in Threads |-> NoWork]
  /\ cv = [t \in Threads |-> {}]
  /\ run = [t \in Threads |-> TRUE]
  /\ init \in [Threads -> BOOLEAN]     \* malloc'ed, never assigned
  /\ cpu = Home
  /\ bound = [t \in Threads |-> FALSE]
  /\ wpc = [t \in Threads |-> IF t = Dirigent THEN "exited" ELSE "enter"]
  /\ hold = [t \in Threads |-> NoWork]
  /\ rep = [t \in Threads |-> 0]
  /\ result = {}
  /\ limit = 0 /\ arrived = {} /\ leaving = {}

-----------------------------------------------------------------------------
(* What each round does. *)

(* Rounds that give all threads work at once; the others hand item 0 to    *)
(* one thread after the other.                                             *)
Wide(r) == r = 0 \/ (r <= LastRound /\ Policy # "onebyone")
Item(r, t) == IF Wide(r) THEN t ELSE 0

(* The number of threads given to init_step, and a mutant. *)
BarrierOfOne(r) == 1
BarrierLimit(r) == IF Wide(r) THEN N ELSE 1

(* stop_workers skips the dirigent; the mutant does not. *)
FromTheFirst(r) == 0
FirstThread(r) == IF r = StopRound THEN 1 ELSE 0

Reps(r) == IF r \in {0, StopRound} THEN 1 ELSE Iterations

(* The benchmarks of a round of run_two_benchmarks; an odd one out is      *)
(* paired with itself, and the mutant reads past the last one.             *)
First(r) == 2 * r - 1
PastTheLast(r) == 2 * r
Second(r) == IF 2 * r <= NBench THEN 2 * r ELSE 2 * r - 1

Ops(r, c) ==
  IF r = 0 THEN NullOps
  ELSE IF r = StopRound THEN StopOps
  ELSE IF Policy # "pair" THEN r
  ELSE IF c \in Set1 THEN First(r) ELSE Second(r)

(* The row of the result array, and the thread to stop; the mutant counts  *)
(* rows from one.                                                          *)
RowFromOne(r, t) == t + 1
Row(r, t) == t

(* pthread_cond_signal wakes one of the blocked threads, if any; it is     *)
(* missing in the mutant.                                                  *)
NoSignal(t) == UNCHANGED cv
Signal(t) ==
  \/ cv[t] = {} /\ UNCHANGED cv
  \/ \E w \in cv[t] : cv' = [cv EXCEPT ![t] = @ \ {w}]

-----------------------------------------------------------------------------
(* main: the round's function allocates its step ... *)
BeginStep ==
  /\ mpc = "start"
  /\ alive' = TRUE
  /\ items' = [i \in Threads |-> NoItem]
  /\ B!Create(BarrierLimit(round))
  /\ idx' = FirstThread(round)
  /\ mpc' = IF idx' < N THEN "fill" ELSE "free"
  /\ UNCHANGED <<round, slots, state, local, result>>

(* ... fills in the next item ...  *)
FillItem ==
  /\ mpc = "fill"
  /\ items' = [items EXCEPT ![Item(round, idx)] =
       [ops |-> Ops(round, cpu[idx]), row |-> Row(round, idx), reps |-> Reps(round)]]
  /\ mpc' = "queue"
  /\ UNCHANGED <<round, idx, alive, slots, state, local, result, barrier>>

(* ... queues it (queue_work) and goes on to the next one; or, when it is  *)
(* the dirigent's turn, calls worker().                                    *)
CallDirigent ==
  /\ mpc' = "dirigent"
  /\ wpc' = [wpc EXCEPT ![Dirigent] = "enter"]
  /\ UNCHANGED idx

AfterQueue ==
  IF Wide(round)
  THEN IF idx < N - 1
       THEN mpc' = "fill" /\ idx' = idx + 1 /\ UNCHANGED wpc
       ELSE CallDirigent
  ELSE IF idx = Dirigent
       THEN CallDirigent
       ELSE mpc' = "collect" /\ UNCHANGED <<idx, wpc>>

QueueWork ==
  /\ mpc = "queue"
  /\ work' = [work EXCEPT ![idx] = <<round, Item(round, idx)>>]
  /\ s' = [s EXCEPT ![idx] = "QUEUED"]
  /\ Signal(idx)
  /\ AfterQueue
  /\ UNCHANGED <<round, alive, items, state, hold, rep, result, barrier>>

(* The first thread run_in_parallel and run_two_benchmarks wait for. *)
FirstCollected == IF round # 0 /\ Policy = "pair" THEN 1 ELSE 0

DirigentReturns ==
  /\ mpc = "dirigent"
  /\ wpc[Dirigent] = "exited"
  /\ idx' = IF Wide(round) THEN FirstCollected ELSE idx
  /\ mpc' = IF idx' < N THEN "collect" ELSE "free"
  /\ UNCHANGED <<round, alive, items, slots, state, local, result, barrier>>

(* wait_until_done: *)
MainAwake == mpc = "collect" /\ "main" \notin cv[idx]

SleepForDone ==
  /\ MainAwake
  /\ s[idx] # "DONE"
  /\ cv' = [cv EXCEPT ![idx] = @ \cup {"main"}]
  /\ UNCHANGED <<mainvars, s, work, state, local, result, barrier>>

(* The next thread, or free_step after the last one. *)
NextThread ==
  /\ idx' = idx + 1
  /\ mpc' = IF idx' = N THEN "free" ELSE IF Wide(round) THEN "collect" ELSE "fill"

(* Mutants of TakeDone: the slot keeps its state; nobody waits for DONE. *)
TakeWithoutReset ==
  /\ MainAwake
  /\ s[idx] = "DONE"
  /\ UNCHANGED <<work, s>>
  /\ IF round = StopRound THEN mpc' = "join" /\ UNCHANGED idx ELSE NextThread
  /\ UNCHANGED <<round, alive, items, cv, state, local, result, barrier>>

TakeAtOnce ==
  /\ MainAwake
  /\ work' = [work EXCEPT ![idx] = NoWork]
  /\ s' = [s EXCEPT ![idx] = "IDLE"]
  /\ IF round = StopRound THEN mpc' = "join" /\ UNCHANGED idx ELSE NextThread
  /\ UNCHANGED <<round, alive, items, cv, state, local, result, barrier>>

(* The item is back: empty the slot. *)
TakeDone ==
  /\ MainAwake
  /\ s[idx] = "DONE"
  /\ work' = [work EXCEPT ![idx] = NoWork]
  /\ s' = [s EXCEPT ![idx] = "IDLE"]
  /\ IF round = StopRound THEN mpc' = "join" /\ UNCHANGED idx ELSE NextThread
  /\ UNCHANGED <<round, alive, items, cv, state, local, result, barrier>>

(* pthread_join in stop_single_worker. *)
Join ==
  /\ mpc = "join"
  /\ wpc[idx] = "exited"
  /\ NextThread
  /\ UNCHANGED <<round, alive, items, slots, state, local, result, barrier>>

FreeStep ==
  /\ mpc = "free"
  /\ alive' = FALSE
  /\ mpc' = "print"
  /\ UNCHANGED <<round, idx, items, slots, state, local, result, barrier>>

(* The round's results are printed or dropped; the next round gets a new   *)
(* array.                                                                  *)
PrintResult ==
  /\ mpc = "print"
  /\ result' = {}
  /\ IF round = StopRound
       THEN mpc' = "done" /\ UNCHANGED round
       ELSE mpc' = "start" /\ round' = round + 1
  /\ UNCHANGED <<idx, alive, items, slots, state, local, barrier>>

-----------------------------------------------------------------------------
(* On its first call worker() binds the thread, or at least notes where it *)
(* runs.                                                                   *)
BindThread(t) ==
  IF DoBinding
  THEN bound' = [bound EXCEPT ![t] = TRUE] /\ UNCHANGED cpu
  ELSE (\E c \in Cpus : cpu' = [cpu EXCEPT ![t] = c]) /\ UNCHANGED bound

(* Mutants of Enter: arg->init is never set; arg->init is ignored. *)
NeverMarked(t) ==
  /\ wpc[t] = "enter"
  /\ run' = [run EXCEPT ![t] = TRUE]
  /\ IF init[t] THEN UNCHANGED <<cpu, bound>> ELSE BindThread(t)
  /\ wpc' = [wpc EXCEPT ![t] = "loop"]
  /\ UNCHANGED <<mainvars, slots, init, hold, rep, result, barrier>>

BindEveryTime(t) ==
  /\ wpc[t] = "enter"
  /\ run' = [run EXCEPT ![t] = TRUE]
  /\ BindThread(t)
  /\ init' = [init EXCEPT ![t] = TRUE]
  /\ wpc' = [wpc EXCEPT ![t] = "loop"]
  /\ UNCHANGED <<mainvars, slots, hold, rep, result, barrier>>

(* worker() is entered. *)
Enter(t) ==
  /\ wpc[t] = "enter"
  /\ run' = [run EXCEPT ![t] = TRUE]
  /\ IF init[t] THEN UNCHANGED <<cpu, bound>> ELSE BindThread(t)
  /\ init' = [init EXCEPT ![t] = TRUE]
  /\ wpc' = [wpc EXCEPT ![t] = "loop"]
  /\ UNCHANGED <<mainvars, slots, hold, rep, result, barrier>>

(* The loop's condition; stop_thread ends it by clearing run. *)
CheckRun(t) ==
  /\ wpc[t] = "loop"
  /\ wpc' = [wpc EXCEPT ![t] = IF run[t] THEN "fetch" ELSE "exited"]
  /\ UNCHANGED <<mainvars, slots, state, hold, rep, result, barrier>>

(* wait_for_work: *)
WorkerAwake(t) == wpc[t] = "fetch" /\ "worker" \notin cv[t]

SleepForWork(t) ==
  /\ WorkerAwake(t)
  /\ s[t] # "QUEUED"
  /\ cv' = [cv EXCEPT ![t] = @ \cup {"worker"}]
  /\ UNCHANGED <<mainvars, s, work, state, local, result, barrier>>

FetchWork(t) ==
  /\ WorkerAwake(t)
  /\ s[t] = "QUEUED"
  /\ hold' = [hold EXCEPT ![t] = work[t]]
  /\ work' = [work EXCEPT ![t] = NoWork]
  /\ s' = [s EXCEPT ![t] = "WORKING"]
  /\ wpc' = [wpc EXCEPT ![t] = "arrive"]
  /\ UNCHANGED <<mainvars, cv, state, rep, result, barrier>>

(* pthread_barrier_wait, in two steps. *)
Arrive(t) ==
  /\ wpc[t] = "arrive"
  /\ B!Arrive(t)
  /\ wpc' = [wpc EXCEPT ![t] = "barrier"]
  /\ UNCHANGED <<mainvars, slots, state, hold, rep, result>>

Depart(t) ==
  /\ wpc[t] = "barrier"
  /\ B!Leave(t)
  /\ wpc' = [wpc EXCEPT ![t] = "ready"]
  /\ rep' = [rep EXCEPT ![t] = 0]
  /\ UNCHANGED <<mainvars, slots, state, hold, result>>

(* The item worker() is working on, read through its pointer each time. *)
ItemOf(t) == items[hold[t][2]]

StartCall(t) ==
  /\ wpc[t] = "ready"
  /\ rep[t] < ItemOf(t).reps
  /\ wpc' = [wpc EXCEPT ![t] = "call"]
  /\ UNCHANGED <<mainvars, slots, state, hold, rep, result, barrier>>

(* ops->call returns and the result is stored; stop_thread has cleared run *)
(* and has no result.                                                      *)
EndCall(t) ==
  /\ wpc[t] = "call"
  /\ IF ItemOf(t).ops = StopOps
       THEN run' = [run EXCEPT ![ItemOf(t).row] = FALSE] /\ UNCHANGED result
       ELSE /\ result' = result \cup {[row |-> ItemOf(t).row, rep |-> rep[t],
                                       by |-> t, ops |-> ItemOf(t).ops]}
            /\ UNCHANGED run
  /\ rep' = [rep EXCEPT ![t] = @ + 1]
  /\ wpc' = [wpc EXCEPT ![t] = "ready"]
  /\ UNCHANGED <<mainvars, slots, init, cpu, bound, hold, barrier>>

(* return_finished_work; the dirigent leaves worker() at once. *)
ReturnWork(t) ==
  /\ wpc[t] = "ready"
  /\ rep[t] >= ItemOf(t).reps
  /\ work' = [work EXCEPT ![t] = hold[t]]
  /\ s' = [s EXCEPT ![t] = "DONE"]
  /\ Signal(t)
  /\ hold' = [hold EXCEPT ![t] = NoWork]
  /\ wpc' = [wpc EXCEPT ![t] = IF t = Dirigent THEN "exited" ELSE "loop"]
  /\ UNCHANGED <<mainvars, state, rep, result, barrier>>

-----------------------------------------------------------------------------
(* pthread_cond_wait may return without a signal. *)
SpuriousWakeup(t) ==
  /\ \E w \in cv[t] : cv' = [cv EXCEPT ![t] = @ \ {w}]
  /\ UNCHANGED <<mainvars, s, work, state, local, result, barrier>>

MainStep ==
  \/ BeginStep \/ FillItem \/ QueueWork \/ DirigentReturns \/ SleepForDone
  \/ TakeDone \/ Join \/ FreeStep \/ PrintResult

WorkerStep(t) ==
  \/ Enter(t) \/ CheckRun(t) \/ SleepForWork(t) \/ FetchWork(t) \/ Arrive(t)
  \/ Depart(t) \/ StartCall(t) \/ EndCall(t) \/ ReturnWork(t)

(* main has returned. *)
Finished == mpc = "done" /\ UNCHANGED vars

Next ==
  \/ MainStep
  \/ \E t \in Threads : WorkerStep(t) \/ SpuriousWakeup(t)
  \/ Finished

(* The scheduler runs every thread that can run; benchmarks return.        *)
Fairness == WF_vars(MainStep) /\ \A t \in Threads : WF_vars(WorkerStep(t))

Spec == Init /\ [][Next]_vars

FairSpec == Spec /\ Fairness

-----------------------------------------------------------------------------
TypeOK ==
  /\ mpc \in {"start", "fill", "queue", "dirigent", "collect", "join", "free",
              "print", "done"}
  /\ round \in AllRounds
  /\ idx \in 0 .. N
  /\ alive \in BOOLEAN
  /\ items \in [Threads -> Items]
  /\ s \in [Threads -> {"IDLE", "QUEUED", "WORKING", "DONE"}]
  /\ work \in [Threads -> Pointers \cup {NoWork}]
  /\ cv \in [Threads -> SUBSET {"main", "worker"}]
  /\ run \in [Threads -> BOOLEAN]
  /\ init \in [Threads -> BOOLEAN]
  /\ cpu \in [Threads -> Cpus]
  /\ bound \in [Threads -> BOOLEAN]
  /\ wpc \in [Threads -> {"enter", "loop", "fetch", "arrive", "barrier", "ready",
                          "call", "exited"}]
  /\ hold \in [Threads -> Pointers \cup {NoWork}]
  /\ rep \in [Threads -> Nat]
  /\ result \subseteq Records
  /\ limit \in Nat
  /\ arrived \subseteq Threads
  /\ leaving \subseteq Threads

(* The assertions of queue_work (worker.c:45-46), wait_for_work (68) and   *)
(* return_finished_work (82-83) hold whenever they are evaluated: no side  *)
(* of the hand-over ever finds its slot in the other side's possession.    *)
AssertionsHold ==
  /\ mpc = "queue" => work[idx] = NoWork /\ s[idx] = "IDLE"
  /\ \A t \in Threads :
       /\ WorkerAwake(t) => s[t] # "WORKING"
       /\ wpc[t] \in {"ready", "call"} => work[t] = NoWork /\ s[t] = "WORKING"

(* main and the worker share one condition variable and the code signals   *)
(* instead of broadcasting (worker.c:49,86).  Still no wakeup is lost or   *)
(* given to the wrong side: nobody sleeps on a condition that holds, and   *)
(* the two sides never sleep on the same slot at once.                     *)
NoLostWakeup ==
  \A t \in Threads :
    /\ "worker" \in cv[t] => s[t] # "QUEUED"
    /\ "main" \in cv[t] => s[t] # "DONE"
    /\ cv[t] # {"main", "worker"}

(* free_step (worker.c:37-41) comes after the last use of the step: every  *)
(* item queued or being worked on, and every thread inside the barrier,    *)
(* belongs to the step main still has allocated.                           *)
StepInUse ==
  \A t \in Threads :
    /\ hold[t] # NoWork => alive /\ hold[t][1] = round
    /\ s[t] = "QUEUED" => alive /\ work[t] # NoWork /\ work[t][1] = round
    /\ t \in B!Inside => alive

(* In a round that runs on all threads (main.cc:286-319, 372-413) no       *)
(* thread makes its first call before all have been given their item, have *)
(* fetched it, initialised their argument and come to the barrier.         *)
StartTogether ==
  \A t, u \in Threads :
    Wide(round) /\ wpc[t] \in {"ready", "call"} =>
      /\ mpc \in {"dirigent", "collect"}
      /\ s[u] # "QUEUED"
      /\ wpc[u] # "arrive"

(* Under the policy "onebyone" (main.cc:321-370) at most one thread is     *)
(* busy at a time: while one measures, all others sleep or wait for work.  *)
OneAtATime ==
  Policy = "onebyone" /\ round \in 1 .. LastRound =>
    \A t, u \in Threads :
      wpc[t] = "call" /\ wpc[u] \notin {"loop", "fetch", "exited"} => t = u

(* When a round's function returns (main.cc:318,369,412), each thread has  *)
(* filled exactly its row of the result array, once per iteration, with    *)
(* the benchmark due there: under "pair" the earlier of the two on the PUs *)
(* of cpuset-1 and the later one elsewhere.                                *)
Due(t) ==
  IF Policy # "pair" \/ cpu[t] \notin Set1
  THEN IF Policy = "pair" /\ 2 * round <= NBench THEN 2 * round
       ELSE IF Policy = "pair" THEN NBench ELSE round
  ELSE 2 * round - 1

MatrixComplete ==
  mpc = "print" /\ round \in 1 .. LastRound =>
    result = {[row |-> t, rep |-> k, by |-> t, ops |-> Due(t)] :
                t \in Threads, k \in 0 .. Iterations - 1}

(* main reads arg->cpu without the slot's lock to choose a thread's        *)
(* benchmark (main.cc:391-392), and worker() may write it under the lock   *)
(* (worker.c:217).  The round of synchronize_worker_init orders the two:   *)
(* later, no thread has its first entry into worker() ahead of it.         *)
CpuIsSettled ==
  round > 0 => \A t \in Threads : init[t] /\ (wpc[t] = "enter" => t = Dirigent)

(* ... and arg->cpu never changes again. *)
CpuKept == [][round > 0 => UNCHANGED cpu]_vars

(* worker.h:37 says of arg->init "thread binding has been done already".   *)
(* With binding enabled it should hold of every thread that measures; but  *)
(* spawn_workers leaves the flag unset (main.cc:101-116).                  *)
BoundWhenMeasuring ==
  \A t \in Threads : DoBinding /\ wpc[t] = "call" => bound[t]

(* main finishes, and every thread has left worker(): nobody waits for     *)
(* ever on a slot, the barrier or a join (worker.c:55,69,258, main.cc:227).*)
Terminates ==
  <>(mpc = "done" /\ \A t \in Threads : wpc[t] = "exited")

(* The threads, slots and barriers implement the campaign the user asked   *)
(* for (main.cc:810-841).  Under "pair" a thread gets either benchmark of  *)
(* the round; MatrixComplete says which.                                   *)
Jobs(r, t) ==
  IF r = 0 THEN {NullOps}
  ELSE IF Policy = "pair" THEN {2 * r - 1, 2 * r} \cap 1 .. NBench ELSE {r}

Promise == INSTANCE Campaign
  WITH Repetitions <- Reps,
       Serial <- LAMBDA r : ~Wide(r),
       calling <- {t \in Threads : wpc[t] = "call"},
       running <- {t \in Threads : run[t]}

CampaignSpec == Promise!Spec

=============================================================================
