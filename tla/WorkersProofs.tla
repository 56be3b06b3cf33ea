--------------------------- MODULE WorkersProofs ---------------------------
(***************************************************************************)
(* What holds of Workers for every number of threads, benchmarks and       *)
(* iterations, every cpuset and every policy, proved from one inductive    *)
(* invariant.                                                              *)
(***************************************************************************)
EXTENDS Workers, TLAPS

(* The threads whose item main has queued and not yet got back. *)
Pending(t) ==
  \/ mpc \in {"fill", "queue"} /\ Wide(round) /\ t < idx
  \/ mpc = "dirigent" /\ (Wide(round) \/ t = idx)
  \/ mpc = "collect" /\ (IF Wide(round) THEN t >= idx ELSE t = idx)

(* The four conditions a slot and its thread can be in together.  Under    *)
(* "pair" the dirigent's slot is never collected and stays DONE.           *)
Uncollected(t) ==
  Policy = "pair" /\ t = Dirigent /\ s[t] = "DONE" /\ work[t] # NoWork

Idle(t) ==
  /\ \/ s[t] = "IDLE" /\ work[t] = NoWork
     \/ Uncollected(t)
  /\ hold[t] = NoWork
  /\ wpc[t] \in {"enter", "loop", "fetch", "exited"}

Queued(t) ==
  /\ s[t] = "QUEUED"
  /\ work[t] = <<round, Item(round, t)>>
  /\ hold[t] = NoWork
  /\ \/ wpc[t] \in {"enter", "loop", "fetch"}
     \/ wpc[t] = "exited" /\ t = Dirigent /\ mpc # "dirigent"

Working(t) ==
  /\ s[t] = "WORKING"
  /\ work[t] = NoWork
  /\ hold[t] = <<round, Item(round, t)>>
  /\ wpc[t] \in {"arrive", "barrier", "ready", "call"}

Finishing(t) ==
  /\ s[t] = "DONE"
  /\ work[t] = <<round, Item(round, t)>>
  /\ hold[t] = NoWork
  /\ wpc[t] \in {"loop", "fetch", "exited"}
  /\ t = Dirigent => wpc[t] = "exited"

SlotInv ==
  \A t \in Threads :
    IF Pending(t) THEN Queued(t) \/ Working(t) \/ Finishing(t) ELSE Idle(t)

(* main's loop counter, and the step's lifetime. *)
MainInv ==
  /\ mpc \in {"fill", "queue", "dirigent", "collect", "join"} => idx < N
  /\ mpc = "dirigent" => round # StopRound
  /\ mpc = "dirigent" /\ ~Wide(round) => idx = Dirigent
  /\ mpc = "join" => round = StopRound
  /\ round = StopRound /\ mpc # "start" => idx > 0
  /\ alive <=> mpc \notin {"start", "print", "done"}

(* main runs worker() for the dirigent, and only in that state: until then *)
(* the dirigent's item stays queued.                                       *)
DirigentInv ==
  /\ mpc # "dirigent" => wpc[Dirigent] = "exited"
  /\ mpc \in {"fill", "queue"} /\ Wide(round) /\ idx > 0 => s[Dirigent] = "QUEUED"

(* Who sleeps on a condition variable, and on what. *)
CvInv ==
  \A t \in Threads :
    /\ "worker" \in cv[t] => wpc[t] = "fetch" /\ s[t] # "QUEUED"
    /\ "main" \in cv[t] => mpc = "collect" /\ idx = t /\ s[t] # "DONE"

(* The item a thread is about to get or is working on is its own. *)
ItemInv ==
  \A t \in Threads :
    (mpc = "queue" /\ t = idx) \/ s[t] = "QUEUED" \/ s[t] = "WORKING" =>
      /\ items[Item(round, t)].row = t
      /\ items[Item(round, t)].ops = StopOps => round = StopRound

(* A thread is told to stop once, in its turn of the last round, and       *)
(* leaves worker() only then.                                              *)
RunInv ==
  \A t \in Threads :
    /\ ~run[t] => /\ round = StopRound /\ mpc # "start" /\ t # Dirigent
                  /\ t < idx \/ (t = idx /\ mpc \in {"collect", "join"})
                  /\ s[t] # "QUEUED"
    /\ wpc[t] = "exited" /\ t # Dirigent => ~run[t]

(* Only threads in pthread_barrier_wait are inside the barrier. *)
BarrierInv ==
  /\ \A t \in B!Inside : wpc[t] = "barrier"
  /\ arrived \cap leaving = {}

IInv ==
  /\ TypeOK /\ MainInv /\ DirigentInv /\ SlotInv /\ CvInv /\ ItemInv /\ RunInv
  /\ BarrierInv

LEMMA ConstantFacts ==
  /\ StopRound \in Nat \ {0}
  /\ \A r \in AllRounds : r \in Nat /\ r <= StopRound
  /\ 0 \in Threads /\ N \in Nat /\ N > 0
  /\ \A t : t \in Threads <=> t \in Nat /\ t < N
  /\ \A r \in AllRounds : \A c : Ops(r, c) \in AllOps /\ (Ops(r, c) = StopOps => r = StopRound)
  /\ \A r, t : Item(r, t) = IF Wide(r) THEN t ELSE 0
  /\ \A r \in AllRounds : Reps(r) \in Nat /\ (Wide(r) => r # StopRound)
  /\ \A r : BarrierLimit(r) \in Nat /\ FirstThread(r) = IF r = StopRound THEN 1 ELSE 0
  /\ NoItem \in Items
<1>1. /\ LastRound \in Nat /\ LastRound <= NBench
      /\ Policy = "pair" => 2 * LastRound <= NBench + 1
  BY WorkersAssumption DEF LastRound
<1>2. ASSUME NEW r \in AllRounds, NEW c
      PROVE  Ops(r, c) \in AllOps /\ (Ops(r, c) = StopOps => r = StopRound)
  BY <1>1, WorkersAssumption
  DEF Ops, AllOps, AllRounds, StopOps, NullOps, StopRound, First, Second
<1> QED
  BY <1>1, <1>2, WorkersAssumption
  DEF StopRound, Threads, Item, Reps, AllRounds, Wide, BarrierLimit, FirstThread,
      NoItem, Items, AllOps, StopOps, NullOps, Dirigent

LEMMA QueueWorkStep == IInv /\ QueueWork => IInv'
<1> SUFFICES ASSUME IInv, QueueWork PROVE IInv'
  OBVIOUS
<1> USE ConstantFacts DEF IInv, QueueWork, CallDirigent, barrier, state, Dirigent
<1>1. TypeOK'
  <2>1. idx \in Threads
    BY DEF TypeOK, MainInv
  <2>2. /\ mpc' \in {"fill", "dirigent", "collect"}
        /\ idx' \in 0 .. N
        /\ wpc' \in [Threads -> {"enter", "loop", "fetch", "arrive", "barrier", "ready", "call", "exited"}]
    BY <2>1 DEF TypeOK, AfterQueue
  <2>3. cv' \in [Threads -> SUBSET {"main", "worker"}]
    BY <2>1 DEF TypeOK, Signal
  <2>4. work' \in [Threads -> Pointers \cup {NoWork}]
    BY <2>1 DEF TypeOK, Pointers
  <2>5. s' \in [Threads -> {"IDLE", "QUEUED", "WORKING", "DONE"}]
    BY <2>1 DEF TypeOK
  <2> QED
    BY <2>2, <2>3, <2>4, <2>5 DEF TypeOK
<1>2. MainInv'
  BY DEF TypeOK, MainInv, AfterQueue
<1>3. DirigentInv'
  BY DEF TypeOK, DirigentInv, AfterQueue
<1>4. SlotInv'
  <2> SUFFICES ASSUME NEW t \in Threads
               PROVE  IF Pending(t)' THEN Queued(t)' \/ Working(t)' \/ Finishing(t)'
                                     ELSE Idle(t)'
    BY DEF SlotInv
  <2>1. idx \in Threads
    BY DEF TypeOK, MainInv
  <2>2. Pending(t)' <=> Pending(t) \/ t = idx
    BY <2>1 DEF TypeOK, Pending, AfterQueue
  <2>3. CASE t = idx
    <3>0. ~Pending(t) /\ Idle(t)
      BY <2>1, <2>3 DEF SlotInv, Pending
    <3>1. wpc[t] \in {"enter", "loop", "fetch"} \/ (wpc[t] = "exited" /\ t = Dirigent)
      <4>1. t # Dirigent => run[t]
        BY <2>1, <2>3 DEF RunInv
      <4> QED
        BY <3>0, <4>1 DEF Idle, RunInv
    <3>2. Queued(t)'
      BY <2>1, <2>3, <3>1 DEF TypeOK, Queued, SlotInv, Pending, Idle, AfterQueue
    <3> QED
      BY <2>2, <2>3, <3>2
  <2>4. CASE t # idx
    <3>1. /\ s'[t] = s[t] /\ work'[t] = work[t] /\ hold'[t] = hold[t]
          /\ wpc'[t] = wpc[t] \/ (t = Dirigent /\ wpc'[t] = "enter" /\ mpc' = "dirigent")
      BY <2>1, <2>4 DEF TypeOK, AfterQueue
    <3>2. Pending(t) /\ t = Dirigent => Queued(t)
      BY <2>1, <2>4 DEF TypeOK, SlotInv, Pending, Working, Finishing, DirigentInv
    <3> QED
      BY <2>1, <2>2, <2>4, <3>1, <3>2
    DEF TypeOK, DirigentInv, SlotInv, Idle, Uncollected, Queued, Working, Finishing, AfterQueue
  <2> QED
    BY <2>3, <2>4
<1>5. CvInv'
  <2> SUFFICES ASSUME NEW t \in Threads
               PROVE  /\ "worker" \in cv'[t] => wpc'[t] = "fetch" /\ s'[t] # "QUEUED"
                      /\ "main" \notin cv'[t]
    BY DEF CvInv
  <2>1. idx \in Threads
    BY DEF TypeOK, MainInv
  <2>2. cv[t] \subseteq {"worker"} /\ cv'[t] \subseteq cv[t] /\ cv'[idx] = {}
    BY <2>1 DEF TypeOK, CvInv, Signal
  <2> QED
    BY <2>1, <2>2 DEF TypeOK, CvInv, DirigentInv, AfterQueue
<1>6. ItemInv'
  BY DEF TypeOK, MainInv, ItemInv, AfterQueue
<1>7. RunInv'
  BY DEF TypeOK, MainInv, RunInv, SlotInv, AfterQueue
<1>8. BarrierInv'
  BY DEF TypeOK, MainInv, BarrierInv, SlotInv, Idle, Pending, B!Inside, Queued, Working, Finishing, AfterQueue, DirigentInv
<1> QED
  BY <1>1, <1>2, <1>3, <1>4, <1>5, <1>6, <1>7, <1>8

LEMMA BeginStepStep == IInv /\ BeginStep => IInv'
<1> SUFFICES ASSUME IInv, BeginStep PROVE IInv'
  OBVIOUS
<1> USE ConstantFacts DEF IInv, BeginStep, B!Create, barrier, slots, state, local, Dirigent
<1>1. TypeOK'
  BY DEF TypeOK, MainInv
<1>2. MainInv'
  BY DEF TypeOK, MainInv
<1>3. DirigentInv'
  BY DEF TypeOK, DirigentInv, SlotInv, Pending, Queued, Working, Finishing
<1>4. SlotInv'
  BY DEF TypeOK, MainInv, DirigentInv, SlotInv, Pending, Idle, Uncollected, Queued, Working, Finishing
<1>5. CvInv'
  BY DEF TypeOK, MainInv, CvInv
<1>6. ItemInv'
  BY DEF TypeOK, ItemInv, SlotInv, Pending, Idle, Uncollected
<1>7. RunInv'
  BY DEF TypeOK, MainInv, RunInv
<1>8. BarrierInv'
  BY DEF BarrierInv, B!Inside
<1> QED
  BY <1>1, <1>2, <1>3, <1>4, <1>5, <1>6, <1>7, <1>8

LEMMA FillItemStep == IInv /\ FillItem => IInv'
<1> SUFFICES ASSUME IInv, FillItem PROVE IInv'
  OBVIOUS
<1> USE ConstantFacts DEF IInv, FillItem, barrier, slots, state, local, Dirigent
<1>1. TypeOK'
  <2>1. /\ idx \in Threads /\ Item(round, idx) \in Threads /\ Row(round, idx) \in Threads
        /\ Ops(round, cpu[idx]) \in AllOps /\ Reps(round) \in Nat
    BY DEF TypeOK, MainInv, Row
  <2>2. items' \in [Threads -> Items]
    BY <2>1 DEF TypeOK, Items
  <2> QED
    BY <2>2 DEF TypeOK
<1>2. MainInv'
  BY DEF TypeOK, MainInv
<1>3. DirigentInv'
  BY DEF TypeOK, DirigentInv, SlotInv, Pending, Queued, Working, Finishing
<1>4. SlotInv'
  BY DEF TypeOK, MainInv, DirigentInv, SlotInv, Pending, Idle, Uncollected, Queued, Working, Finishing
<1>5. CvInv'
  BY DEF TypeOK, MainInv, CvInv
<1>6. ItemInv'
  BY DEF TypeOK, MainInv, ItemInv, Row, SlotInv, Pending, Idle, Uncollected
<1>7. RunInv'
  BY DEF TypeOK, MainInv, RunInv
<1>8. BarrierInv'
  BY DEF BarrierInv, B!Inside
<1> QED
  BY <1>1, <1>2, <1>3, <1>4, <1>5, <1>6, <1>7, <1>8

LEMMA DirigentReturnsStep == IInv /\ DirigentReturns => IInv'
<1> SUFFICES ASSUME IInv, DirigentReturns PROVE IInv'
  OBVIOUS
<1> USE ConstantFacts DEF IInv, DirigentReturns, FirstCollected, barrier, slots, state, local, Dirigent
<1>1. TypeOK'
  BY DEF TypeOK, MainInv
<1>2. MainInv'
  BY DEF TypeOK, MainInv
<1>3. DirigentInv'
  BY DEF TypeOK, DirigentInv, SlotInv, Pending, Queued, Working, Finishing
<1>4. SlotInv'
  <2> SUFFICES ASSUME NEW t \in Threads
               PROVE  IF Pending(t)' THEN Queued(t)' \/ Working(t)' \/ Finishing(t)'
                                     ELSE Idle(t)'
    BY DEF SlotInv
  <2>1. CASE Pending(t) /\ Pending(t)'
    BY <2>1 DEF TypeOK, SlotInv, Queued, Working, Finishing, Pending
  <2>2. CASE Pending(t) /\ ~Pending(t)'
    <3>1. t = Dirigent /\ Policy = "pair"
      BY <2>2 DEF TypeOK, Pending, MainInv
    <3>2. Finishing(t)
      BY <2>2, <3>1 DEF SlotInv, Queued, Working
    <3> QED
      BY <2>2, <3>1, <3>2, WorkersAssumption DEF Idle, Uncollected, Finishing, Pointers, TypeOK
  <2>3. CASE ~Pending(t)
    BY <2>3 DEF TypeOK, SlotInv, Pending, Idle, Uncollected, MainInv
  <2> QED
    BY <2>1, <2>2, <2>3
<1>5. CvInv'
  BY DEF TypeOK, MainInv, CvInv
<1>6. ItemInv'
  BY DEF TypeOK, MainInv, ItemInv
<1>7. RunInv'
  BY DEF TypeOK, MainInv, RunInv
<1>8. BarrierInv'
  BY DEF BarrierInv, B!Inside
<1> QED
  BY <1>1, <1>2, <1>3, <1>4, <1>5, <1>6, <1>7, <1>8

LEMMA SleepForDoneStep == IInv /\ SleepForDone => IInv'
<1> SUFFICES ASSUME IInv, SleepForDone PROVE IInv'
  OBVIOUS
<1> USE ConstantFacts DEF IInv, SleepForDone, MainAwake, mainvars, barrier, slots, state, local, Dirigent
<1>1. TypeOK'
  BY DEF TypeOK, MainInv
<1>2. MainInv'
  BY DEF TypeOK, MainInv
<1>3. DirigentInv'
  BY DEF TypeOK, DirigentInv, SlotInv, Pending, Queued, Working, Finishing
<1>4. SlotInv'
  BY DEF TypeOK, MainInv, DirigentInv, SlotInv, Pending, Idle, Uncollected, Queued, Working, Finishing
<1>5. CvInv'
  BY DEF TypeOK, MainInv, CvInv
<1>6. ItemInv'
  BY DEF TypeOK, MainInv, ItemInv
<1>7. RunInv'
  BY DEF TypeOK, MainInv, RunInv
<1>8. BarrierInv'
  BY DEF BarrierInv, B!Inside
<1> QED
  BY <1>1, <1>2, <1>3, <1>4, <1>5, <1>6, <1>7, <1>8

LEMMA TakeDoneStep == IInv /\ TakeDone => IInv'
<1> SUFFICES ASSUME IInv, TakeDone PROVE IInv'
  OBVIOUS
<1> USE ConstantFacts DEF IInv, TakeDone, MainAwake, NextThread, barrier, slots, state, local, Dirigent
<1>1. TypeOK'
  BY DEF TypeOK, MainInv
<1>2. MainInv'
  BY DEF TypeOK, MainInv
<1>3. DirigentInv'
  BY DEF TypeOK, DirigentInv, SlotInv, Pending, Queued, Working, Finishing
<1>4. SlotInv'
  BY DEF TypeOK, MainInv, DirigentInv, SlotInv, Pending, Idle, Uncollected, Queued, Working, Finishing
<1>5. CvInv'
  BY DEF TypeOK, MainInv, CvInv
<1>6. ItemInv'
  BY DEF TypeOK, MainInv, ItemInv
<1>7. RunInv'
  BY DEF TypeOK, MainInv, RunInv
<1>8. BarrierInv'
  BY DEF BarrierInv, B!Inside
<1> QED
  BY <1>1, <1>2, <1>3, <1>4, <1>5, <1>6, <1>7, <1>8

LEMMA JoinStep == IInv /\ Join => IInv'
<1> SUFFICES ASSUME IInv, Join PROVE IInv'
  OBVIOUS
<1> USE ConstantFacts DEF IInv, Join, NextThread, barrier, slots, state, local, Dirigent
<1>1. TypeOK'
  BY DEF TypeOK, MainInv
<1>2. MainInv'
  BY DEF TypeOK, MainInv
<1>3. DirigentInv'
  BY DEF TypeOK, DirigentInv, SlotInv, Pending, Queued, Working, Finishing
<1>4. SlotInv'
  BY DEF TypeOK, MainInv, DirigentInv, SlotInv, Pending, Idle, Uncollected, Queued, Working, Finishing
<1>5. CvInv'
  BY DEF TypeOK, MainInv, CvInv
<1>6. ItemInv'
  BY DEF TypeOK, MainInv, ItemInv
<1>7. RunInv'
  BY DEF TypeOK, MainInv, RunInv
<1>8. BarrierInv'
  BY DEF BarrierInv, B!Inside
<1> QED
  BY <1>1, <1>2, <1>3, <1>4, <1>5, <1>6, <1>7, <1>8

LEMMA FreeStepStep == IInv /\ FreeStep => IInv'
<1> SUFFICES ASSUME IInv, FreeStep PROVE IInv'
  OBVIOUS
<1> USE ConstantFacts DEF IInv, FreeStep, barrier, slots, state, local, Dirigent
<1>1. TypeOK'
  BY DEF TypeOK, MainInv
<1>2. MainInv'
  BY DEF TypeOK, MainInv
<1>3. DirigentInv'
  BY DEF TypeOK, DirigentInv, SlotInv, Pending, Queued, Working, Finishing
<1>4. SlotInv'
  BY DEF TypeOK, MainInv, DirigentInv, SlotInv, Pending, Idle, Uncollected, Queued, Working, Finishing
<1>5. CvInv'
  BY DEF TypeOK, MainInv, CvInv
<1>6. ItemInv'
  BY DEF TypeOK, MainInv, ItemInv
<1>7. RunInv'
  BY DEF TypeOK, MainInv, RunInv
<1>8. BarrierInv'
  BY DEF BarrierInv, B!Inside
<1> QED
  BY <1>1, <1>2, <1>3, <1>4, <1>5, <1>6, <1>7, <1>8

LEMMA PrintResultStep == IInv /\ PrintResult => IInv'
<1> SUFFICES ASSUME IInv, PrintResult PROVE IInv'
  OBVIOUS
<1> USE ConstantFacts DEF IInv, PrintResult, barrier, slots, state, local, Dirigent
<1>1. TypeOK'
  BY DEF TypeOK, MainInv, AllRounds
<1>2. MainInv'
  BY DEF TypeOK, MainInv
<1>3. DirigentInv'
  BY DEF TypeOK, DirigentInv, SlotInv, Pending, Queued, Working, Finishing
<1>4. SlotInv'
  BY DEF TypeOK, MainInv, DirigentInv, SlotInv, Pending, Idle, Uncollected, Queued, Working, Finishing
<1>5. CvInv'
  BY DEF TypeOK, MainInv, CvInv
<1>6. ItemInv'
  BY DEF ItemInv, SlotInv, Pending, Idle, Uncollected
<1>7. RunInv'
  BY DEF TypeOK, MainInv, RunInv
<1>8. BarrierInv'
  BY DEF BarrierInv, B!Inside
<1> QED
  BY <1>1, <1>2, <1>3, <1>4, <1>5, <1>6, <1>7, <1>8

LEMMA EnterStep == \A u \in Threads : IInv /\ Enter(u) => IInv'
<1> SUFFICES ASSUME NEW u \in Threads, IInv, Enter(u) PROVE IInv'
  OBVIOUS
<1> USE ConstantFacts DEF IInv, Enter, BindThread, mainvars, barrier, slots, state, local, Dirigent
<1>1. TypeOK'
  <2>1. cpu' \in [Threads -> Cpus] /\ bound' \in [Threads -> BOOLEAN]
    <3>1. CASE UNCHANGED <<cpu, bound>>
      BY <3>1 DEF TypeOK
    <3>2. CASE bound' = [bound EXCEPT ![u] = TRUE] /\ UNCHANGED cpu
      BY <3>2 DEF TypeOK
    <3>3. ASSUME NEW c \in Cpus, cpu' = [cpu EXCEPT ![u] = c], UNCHANGED bound
          PROVE  cpu' \in [Threads -> Cpus] /\ bound' \in [Threads -> BOOLEAN]
      BY <3>3 DEF TypeOK
    <3> QED
      BY <3>1, <3>2, <3>3
  <2> QED
    BY <2>1 DEF TypeOK
<1>2. MainInv'
  BY DEF MainInv
<1>3. DirigentInv'
  BY DEF TypeOK, DirigentInv
<1>4. SlotInv'
  BY DEF TypeOK, DirigentInv, SlotInv, Pending, Idle, Uncollected, Queued, Working, Finishing
<1>5. CvInv'
  BY DEF TypeOK, CvInv
<1>6. ItemInv'
  BY DEF TypeOK, ItemInv
<1>7. RunInv'
  BY DEF TypeOK, RunInv
<1>8. BarrierInv'
  BY DEF TypeOK, BarrierInv, B!Inside
<1> QED
  BY <1>1, <1>2, <1>3, <1>4, <1>5, <1>6, <1>7, <1>8

LEMMA CheckRunStep == \A u \in Threads : IInv /\ CheckRun(u) => IInv'
<1> SUFFICES ASSUME NEW u \in Threads, IInv, CheckRun(u) PROVE IInv'
  OBVIOUS
<1> USE ConstantFacts DEF IInv, CheckRun, mainvars, barrier, slots, state, local, Dirigent
<1>1. TypeOK'
  BY DEF TypeOK
<1>2. MainInv'
  BY DEF MainInv
<1>3. DirigentInv'
  BY DEF TypeOK, DirigentInv
<1>4. SlotInv'
  BY DEF TypeOK, DirigentInv, RunInv, SlotInv, Pending, Idle, Uncollected, Queued, Working, Finishing
<1>5. CvInv'
  BY DEF TypeOK, CvInv
<1>6. ItemInv'
  BY DEF TypeOK, ItemInv
<1>7. RunInv'
  BY DEF TypeOK, RunInv
<1>8. BarrierInv'
  BY DEF TypeOK, BarrierInv, B!Inside
<1> QED
  BY <1>1, <1>2, <1>3, <1>4, <1>5, <1>6, <1>7, <1>8

LEMMA SleepForWorkStep == \A u \in Threads : IInv /\ SleepForWork(u) => IInv'
<1> SUFFICES ASSUME NEW u \in Threads, IInv, SleepForWork(u) PROVE IInv'
  OBVIOUS
<1> USE ConstantFacts DEF IInv, SleepForWork, WorkerAwake, mainvars, barrier, slots, state, local, Dirigent
<1>1. TypeOK'
  BY DEF TypeOK
<1>2. MainInv'
  BY DEF MainInv
<1>3. DirigentInv'
  BY DEF TypeOK, DirigentInv
<1>4. SlotInv'
  BY DEF TypeOK, DirigentInv, SlotInv, Pending, Idle, Uncollected, Queued, Working, Finishing
<1>5. CvInv'
  BY DEF TypeOK, CvInv
<1>6. ItemInv'
  BY DEF TypeOK, ItemInv
<1>7. RunInv'
  BY DEF TypeOK, RunInv
<1>8. BarrierInv'
  BY DEF TypeOK, BarrierInv, B!Inside
<1> QED
  BY <1>1, <1>2, <1>3, <1>4, <1>5, <1>6, <1>7, <1>8

LEMMA FetchWorkStep == \A u \in Threads : IInv /\ FetchWork(u) => IInv'
<1> SUFFICES ASSUME NEW u \in Threads, IInv, FetchWork(u) PROVE IInv'
  OBVIOUS
<1> USE ConstantFacts DEF IInv, FetchWork, WorkerAwake, mainvars, barrier, slots, state, local, Dirigent
<1>1. TypeOK'
  BY DEF TypeOK
<1>2. MainInv'
  BY DEF MainInv
<1>3. DirigentInv'
  BY DEF TypeOK, DirigentInv
<1>4. SlotInv'
  BY DEF TypeOK, DirigentInv, SlotInv, Pending, Idle, Uncollected, Queued, Working, Finishing
<1>5. CvInv'
  BY DEF TypeOK, CvInv
<1>6. ItemInv'
  BY DEF TypeOK, ItemInv
<1>7. RunInv'
  BY DEF TypeOK, RunInv
<1>8. BarrierInv'
  BY DEF TypeOK, BarrierInv, B!Inside
<1> QED
  BY <1>1, <1>2, <1>3, <1>4, <1>5, <1>6, <1>7, <1>8

LEMMA ArriveStep == \A u \in Threads : IInv /\ Arrive(u) => IInv'
<1> SUFFICES ASSUME NEW u \in Threads, IInv, Arrive(u) PROVE IInv'
  OBVIOUS
<1> USE ConstantFacts DEF IInv, Arrive, B!Arrive, B!Block, B!Open, mainvars, barrier, slots, state, local, Dirigent
<1>1. TypeOK'
  BY DEF TypeOK
<1>2. MainInv'
  BY DEF MainInv
<1>3. DirigentInv'
  BY DEF TypeOK, DirigentInv
<1>4. SlotInv'
  BY DEF TypeOK, DirigentInv, SlotInv, Pending, Idle, Uncollected, Queued, Working, Finishing
<1>5. CvInv'
  BY DEF TypeOK, CvInv
<1>6. ItemInv'
  BY DEF TypeOK, ItemInv
<1>7. RunInv'
  BY DEF TypeOK, RunInv
<1>8. BarrierInv'
  BY DEF TypeOK, BarrierInv, B!Inside
<1> QED
  BY <1>1, <1>2, <1>3, <1>4, <1>5, <1>6, <1>7, <1>8

LEMMA DepartStep == \A u \in Threads : IInv /\ Depart(u) => IInv'
<1> SUFFICES ASSUME NEW u \in Threads, IInv, Depart(u) PROVE IInv'
  OBVIOUS
<1> USE ConstantFacts DEF IInv, Depart, B!Leave, mainvars, barrier, slots, state, local, Dirigent
<1>1. TypeOK'
  BY DEF TypeOK
<1>2. MainInv'
  BY DEF MainInv
<1>3. DirigentInv'
  BY DEF TypeOK, DirigentInv
<1>4. SlotInv'
  BY DEF TypeOK, DirigentInv, SlotInv, Pending, Idle, Uncollected, Queued, Working, Finishing
<1>5. CvInv'
  BY DEF TypeOK, CvInv
<1>6. ItemInv'
  BY DEF TypeOK, ItemInv
<1>7. RunInv'
  BY DEF TypeOK, RunInv
<1>8. BarrierInv'
  BY DEF TypeOK, BarrierInv, B!Inside
<1> QED
  BY <1>1, <1>2, <1>3, <1>4, <1>5, <1>6, <1>7, <1>8

LEMMA StartCallStep == \A u \in Threads : IInv /\ StartCall(u) => IInv'
<1> SUFFICES ASSUME NEW u \in Threads, IInv, StartCall(u) PROVE IInv'
  OBVIOUS
<1> USE ConstantFacts DEF IInv, StartCall, mainvars, barrier, slots, state, local, Dirigent
<1>1. TypeOK'
  BY DEF TypeOK
<1>2. MainInv'
  BY DEF MainInv
<1>3. DirigentInv'
  BY DEF TypeOK, DirigentInv
<1>4. SlotInv'
  BY DEF TypeOK, DirigentInv, SlotInv, Pending, Idle, Uncollected, Queued, Working, Finishing
<1>5. CvInv'
  BY DEF TypeOK, CvInv
<1>6. ItemInv'
  BY DEF TypeOK, ItemInv
<1>7. RunInv'
  BY DEF TypeOK, RunInv
<1>8. BarrierInv'
  BY DEF TypeOK, BarrierInv, B!Inside
<1> QED
  BY <1>1, <1>2, <1>3, <1>4, <1>5, <1>6, <1>7, <1>8

LEMMA EndCallStep == \A u \in Threads : IInv /\ EndCall(u) => IInv'
<1> SUFFICES ASSUME NEW u \in Threads, IInv, EndCall(u) PROVE IInv'
  OBVIOUS
<1> USE ConstantFacts DEF IInv, EndCall, mainvars, barrier, slots, state, local, Dirigent
<1>0. /\ Working(u) /\ Pending(u) /\ ItemOf(u) \in Items
      /\ ItemOf(u).row = u
      /\ ItemOf(u).ops = StopOps => round = StopRound
  <2>1. Working(u) /\ Pending(u)
    BY DEF SlotInv, Idle, Queued, Finishing
  <2>2. ItemOf(u) = items[Item(round, u)] /\ Item(round, u) \in Threads
    BY <2>1 DEF ItemOf, Working, TypeOK
  <2> QED
    BY <2>1, <2>2 DEF Working, ItemInv, TypeOK
<1>1. TypeOK'
  <2>1. run' \in [Threads -> BOOLEAN]
    BY <1>0 DEF TypeOK, Items
  <2>2. result' \subseteq Records
    BY <1>0 DEF TypeOK, Items, Records
  <2>3. rep' \in [Threads -> Nat]
    BY DEF TypeOK
  <2> QED
    BY <2>1, <2>2, <2>3 DEF TypeOK
<1>2. MainInv'
  BY DEF MainInv
<1>3. DirigentInv'
  BY DEF TypeOK, DirigentInv
<1>4. SlotInv'
  BY DEF TypeOK, DirigentInv, SlotInv, Pending, Idle, Uncollected, Queued, Working, Finishing
<1>5. CvInv'
  BY DEF TypeOK, CvInv
<1>6. ItemInv'
  BY DEF TypeOK, ItemInv
<1>7. RunInv'
  BY <1>0 DEF TypeOK, MainInv, RunInv, Working, Pending
<1>8. BarrierInv'
  BY DEF TypeOK, BarrierInv, B!Inside
<1> QED
  BY <1>1, <1>2, <1>3, <1>4, <1>5, <1>6, <1>7, <1>8

LEMMA ReturnWorkStep == \A u \in Threads : IInv /\ ReturnWork(u) => IInv'
<1> SUFFICES ASSUME NEW u \in Threads, IInv, ReturnWork(u) PROVE IInv'
  OBVIOUS
<1> USE ConstantFacts DEF IInv, ReturnWork, Signal, mainvars, barrier, slots, state, local, Dirigent
<1>1. TypeOK'
  BY DEF TypeOK
<1>2. MainInv'
  BY DEF MainInv
<1>3. DirigentInv'
  BY DEF TypeOK, DirigentInv
<1>4. SlotInv'
  BY DEF TypeOK, DirigentInv, SlotInv, Pending, Idle, Uncollected, Queued, Working, Finishing
<1>5. CvInv'
  BY DEF TypeOK, CvInv
<1>6. ItemInv'
  BY DEF TypeOK, ItemInv
<1>7. RunInv'
  BY DEF TypeOK, RunInv
<1>8. BarrierInv'
  BY DEF TypeOK, BarrierInv, B!Inside
<1> QED
  BY <1>1, <1>2, <1>3, <1>4, <1>5, <1>6, <1>7, <1>8

LEMMA SpuriousWakeupStep == \A u \in Threads : IInv /\ SpuriousWakeup(u) => IInv'
<1> SUFFICES ASSUME NEW u \in Threads, IInv, SpuriousWakeup(u) PROVE IInv'
  OBVIOUS
<1> USE ConstantFacts DEF IInv, SpuriousWakeup, mainvars, barrier, slots, state, local, Dirigent
<1>1. TypeOK'
  BY DEF TypeOK
<1>2. MainInv'
  BY DEF MainInv
<1>3. DirigentInv'
  BY DEF TypeOK, DirigentInv
<1>4. SlotInv'
  BY DEF TypeOK, DirigentInv, SlotInv, Pending, Idle, Uncollected, Queued, Working, Finishing
<1>5. CvInv'
  BY DEF TypeOK, CvInv
<1>6. ItemInv'
  BY DEF TypeOK, ItemInv
<1>7. RunInv'
  BY DEF TypeOK, RunInv
<1>8. BarrierInv'
  BY DEF TypeOK, BarrierInv, B!Inside
<1> QED
  BY <1>1, <1>2, <1>3, <1>4, <1>5, <1>6, <1>7, <1>8

-----------------------------------------------------------------------------
LEMMA InitIInv == Init => IInv
<1> SUFFICES ASSUME Init PROVE IInv
  OBVIOUS
<1> USE ConstantFacts DEF Init, IInv, Dirigent
<1>1. TypeOK
  <2>1. round \in AllRounds /\ idx \in 0 .. N /\ limit \in Nat
    BY DEF AllRounds
  <2>2. cpu \in [Threads -> Cpus] /\ init \in [Threads -> BOOLEAN]
    BY WorkersAssumption
  <2>3. wpc \in [Threads -> {"enter", "loop", "fetch", "arrive", "barrier", "ready",
                             "call", "exited"}]
    OBVIOUS
  <2> QED
    BY <2>1, <2>2, <2>3 DEF TypeOK
<1>2. MainInv /\ DirigentInv /\ CvInv /\ ItemInv /\ RunInv
  BY DEF MainInv, DirigentInv, CvInv, ItemInv, RunInv
<1>3. SlotInv
  BY DEF SlotInv, Pending, Idle
<1>4. BarrierInv
  BY DEF BarrierInv, B!Inside
<1> QED
  BY <1>1, <1>2, <1>3, <1>4

LEMMA NextIInv == IInv /\ [Next]_vars => IInv'
<1> SUFFICES ASSUME IInv, [Next]_vars PROVE IInv'
  OBVIOUS
<1>1. CASE MainStep
  BY <1>1, BeginStepStep, FillItemStep, QueueWorkStep, DirigentReturnsStep,
     SleepForDoneStep, TakeDoneStep, JoinStep, FreeStepStep, PrintResultStep
  DEF MainStep
<1>2. ASSUME NEW t \in Threads, WorkerStep(t)
      PROVE  IInv'
  BY <1>2, EnterStep, CheckRunStep, SleepForWorkStep, FetchWorkStep, ArriveStep,
     DepartStep, StartCallStep, EndCallStep, ReturnWorkStep
  DEF WorkerStep
<1>3. ASSUME NEW t \in Threads, SpuriousWakeup(t)
      PROVE  IInv'
  BY <1>3, SpuriousWakeupStep
<1>4. CASE UNCHANGED vars
  BY <1>4
  DEF vars, mainvars, slots, state, local, barrier, IInv, TypeOK, MainInv,
      DirigentInv, SlotInv, Pending, Idle, Uncollected, Queued, Working, Finishing,
      CvInv, ItemInv, RunInv, BarrierInv, B!Inside
<1> QED
  BY <1>1, <1>2, <1>3, <1>4 DEF Next, Finished

THEOREM Inductive == Spec => []IInv
  BY InitIInv, NextIInv, PTL DEF Spec

(* Type correctness, for every number of threads and every policy. *)
THEOREM TypeCorrect == Spec => []TypeOK
<1>1. IInv => TypeOK
  BY DEF IInv
<1> QED
  BY <1>1, Inductive, PTL

(* One condition variable per slot and pthread_cond_signal are enough      *)
(* (worker.c:43-88): no wakeup is lost.                                    *)
THEOREM WakeupsArrive == Spec => []NoLostWakeup
<1>1. IInv => NoLostWakeup
  <2> SUFFICES ASSUME IInv, NEW t \in Threads
               PROVE  /\ "worker" \in cv[t] => s[t] # "QUEUED"
                      /\ "main" \in cv[t] => s[t] # "DONE"
                      /\ cv[t] # {"main", "worker"}
    BY DEF NoLostWakeup
  <2>1. ASSUME "worker" \in cv[t], "main" \in cv[t]
        PROVE  FALSE
    <3>1. Pending(t) /\ s[t] # "QUEUED" /\ s[t] # "DONE" /\ wpc[t] = "fetch"
      BY <2>1, ConstantFacts DEF IInv, CvInv, Pending, TypeOK
    <3> QED
      BY <3>1 DEF IInv, SlotInv, Queued, Working, Finishing
  <2> QED
    BY <2>1 DEF IInv, CvInv
<1> QED
  BY <1>1, Inductive, PTL

(* The step is freed only after its last use (worker.c:37-41), under every *)
(* policy.                                                                 *)
THEOREM StepOutlivesItsUse == Spec => []StepInUse
<1>1. IInv => StepInUse
  <2> SUFFICES ASSUME IInv, NEW t \in Threads
               PROVE  /\ hold[t] # NoWork => alive /\ hold[t][1] = round
                      /\ s[t] = "QUEUED" => /\ alive
                                            /\ work[t] # NoWork /\ work[t][1] = round
                      /\ t \in B!Inside => alive
    BY DEF StepInUse
  <2> USE DEF IInv
  <2>1. Pending(t) => alive
    BY DEF MainInv, Pending
  <2>2. Queued(t) => work[t] # NoWork
    BY ConstantFacts, WorkersAssumption DEF Queued, Pointers, TypeOK
  <2>3. t \in B!Inside => Working(t) /\ Pending(t)
    BY DEF BarrierInv, SlotInv, Idle, Queued, Finishing
  <2> QED
    BY <2>1, <2>2, <2>3 DEF SlotInv, Idle, Uncollected, Queued, Working, Finishing
<1> QED
  BY <1>1, Inductive, PTL

LEMMA AssertionsFollow ==
  ASSUME Policy # "pair", IInv
  PROVE  AssertionsHold
<1> USE DEF IInv
<1>1. mpc = "queue" => idx \in Threads /\ ~Pending(idx)
  BY ConstantFacts DEF TypeOK, MainInv, Pending
<1>2. mpc = "queue" => work[idx] = NoWork /\ s[idx] = "IDLE"
  BY <1>1 DEF SlotInv, Idle, Uncollected
<1>3. ASSUME NEW t \in Threads
      PROVE  /\ WorkerAwake(t) => s[t] # "WORKING"
             /\ wpc[t] \in {"ready", "call"} => work[t] = NoWork /\ s[t] = "WORKING"
  BY DEF WorkerAwake, SlotInv, Idle, Uncollected, Queued, Working, Finishing
<1> QED
  BY <1>2, <1>3 DEF AssertionsHold

(* Unless benchmarks run in pairs, the assertions of the hand-over         *)
(* (worker.c:45-46, 68, 82-83) never fail.                                 *)
THEOREM AssertionsNeverFail == Policy # "pair" => (Spec => []AssertionsHold)
<1> SUFFICES ASSUME Policy # "pair" PROVE Spec => []AssertionsHold
  OBVIOUS
<1>1. IInv => AssertionsHold
  BY AssertionsFollow
<1> QED
  BY <1>1, Inductive, PTL

-----------------------------------------------------------------------------
(* run_two_benchmarks leaves the dirigent's slot DONE (main.cc:405), which *)
(* its next round trips over: up to the first of these rounds the slot is  *)
(* as it should be.                                                        *)
LeftInv ==
  /\ round <= 1 /\ round <= LastRound /\ Wide(round) /\ mpc \in {"start", "fill", "queue"} =>
       s[Dirigent] \in {"IDLE", "QUEUED"}
  /\ round = 0 /\ ((mpc = "collect" /\ idx > 0) \/ mpc \in {"free", "print"}) =>
       s[Dirigent] = "IDLE"

LEMMA NextLeft ==
  ASSUME IInv, LeftInv, [Next]_vars
  PROVE  LeftInv'
<1> USE ConstantFacts DEF LeftInv, Dirigent
<1>1. /\ s \in [Threads -> {"IDLE", "QUEUED", "WORKING", "DONE"}]
      /\ round \in Nat /\ idx \in 0 .. N /\ LastRound \in Nat /\ StopRound = LastRound + 1
      /\ Wide(0) /\ ~Wide(StopRound)
  BY WorkersAssumption DEF IInv, TypeOK, AllRounds, Wide, StopRound, LastRound
<1>2. CASE mpc # "dirigent" /\ UNCHANGED <<mpc, round, idx>> /\ s'[0] = s[0]
  BY <1>2
<1>3. CASE BeginStep
  BY <1>1, <1>3 DEF BeginStep, FirstThread, slots
<1>4. CASE FillItem
  BY <1>1, <1>4 DEF FillItem, slots
<1>5. CASE QueueWork
  <2>1. idx \in Threads /\ mpc = "queue" /\ round' = round
        /\ s' = [s EXCEPT ![idx] = "QUEUED"]
    BY <1>1, <1>5 DEF QueueWork, IInv, MainInv
  <2>2. mpc' \in {"fill", "dirigent"} \/ ~Wide(round)
    BY <1>5 DEF QueueWork, AfterQueue, CallDirigent
  <2> QED
    BY <1>1, <2>1, <2>2
<1>6. CASE DirigentReturns
  BY <1>1, <1>6 DEF DirigentReturns, FirstCollected, slots
<1>7. CASE TakeDone
  <2>1. idx \in Threads /\ mpc = "collect" /\ round' = round
        /\ s' = [s EXCEPT ![idx] = "IDLE"]
    BY <1>1, <1>7 DEF TakeDone, MainAwake, IInv, MainInv
  <2>2. mpc' \in {"join", "free", "collect"} \/ ~Wide(round)
    BY <1>7 DEF TakeDone, NextThread
  <2> QED
    BY <1>1, <2>1, <2>2
<1>8. CASE Join
  BY <1>1, <1>8 DEF Join, NextThread, slots, IInv, MainInv
<1>9. CASE FreeStep
  BY <1>1, <1>9 DEF FreeStep, slots
<1>10. CASE PrintResult
  BY <1>1, <1>10 DEF PrintResult, slots
<1>11. ASSUME NEW t \in Threads, WorkerStep(t), mpc # "dirigent"
       PROVE  UNCHANGED <<mpc, round, idx>> /\ s'[0] = s[0]
  <2>1. t # 0
    BY <1>11
    DEF IInv, DirigentInv, WorkerStep, Enter, CheckRun, SleepForWork, WorkerAwake, FetchWork,
        Arrive, Depart, StartCall, EndCall, ReturnWork
  <2> QED
    BY <1>1, <1>11, <2>1
    DEF WorkerStep, Enter, CheckRun, SleepForWork, FetchWork, Arrive, Depart, StartCall,
        EndCall, ReturnWork, mainvars, slots
<1>12. ASSUME NEW t \in Threads, WorkerStep(t), mpc = "dirigent"
       PROVE  mpc' = "dirigent"
  BY <1>12
  DEF WorkerStep, Enter, CheckRun, SleepForWork, FetchWork, Arrive, Depart, StartCall,
      EndCall, ReturnWork, mainvars
<1>13. ASSUME \/ SleepForDone
              \/ \E t \in Threads : SpuriousWakeup(t)
              \/ UNCHANGED vars
       PROVE  LeftInv'
  <2>1. UNCHANGED <<mpc, round, idx, s>>
    BY <1>13 DEF SleepForDone, SpuriousWakeup, vars, mainvars, slots
  <2> QED
    BY <2>1
<1> QED
  BY <1>2, <1>3, <1>4, <1>5, <1>6, <1>7, <1>8, <1>9, <1>10, <1>11, <1>12, <1>13
  DEF Next, MainStep, Finished

(* In pairs they never fail with up to two benchmarks either, which are    *)
(* one pair; the third is where pair_asserts fails.                        *)
THEOREM OnePairIsSafe == NBench <= 2 => (Spec => []AssertionsHold)
<1> SUFFICES ASSUME NBench <= 2 PROVE Spec => []AssertionsHold
  OBVIOUS
<1>1. Init => LeftInv
  BY ConstantFacts DEF Init, LeftInv, Dirigent
<1>2. ASSUME IInv, LeftInv
      PROVE  AssertionsHold
  <2> USE <1>2 DEF IInv
  <2>1. CASE Policy # "pair"
    BY <2>1, AssertionsFollow
  <2>2. CASE Policy = "pair"
    <3>1. LastRound \in Nat /\ LastRound <= 1 /\ StopRound = LastRound + 1 /\ round \in 0 .. StopRound
      BY <2>2, WorkersAssumption DEF LastRound, StopRound, TypeOK, AllRounds
    <3>2. ASSUME mpc = "queue"
          PROVE  work[idx] = NoWork /\ s[idx] = "IDLE"
      <4>1. idx \in Threads /\ ~Pending(idx)
        BY <3>2, ConstantFacts DEF TypeOK, MainInv, Pending
      <4>2. Idle(idx)
        BY <4>1 DEF SlotInv
      <4>3. idx = Dirigent => s[idx] \in {"IDLE", "QUEUED"}
        <5>1. idx = Dirigent => round <= LastRound /\ round <= 1
          BY <3>1, <3>2 DEF MainInv, Dirigent
        <5>2. round <= LastRound => Wide(round)
          BY <2>2 DEF Wide
        <5> QED
          BY <3>2, <5>1, <5>2 DEF LeftInv
      <4> QED
        BY <4>2, <4>3 DEF Idle, Uncollected
    <3>3. ASSUME NEW t \in Threads
          PROVE  /\ WorkerAwake(t) => s[t] # "WORKING"
                 /\ wpc[t] \in {"ready", "call"} => work[t] = NoWork /\ s[t] = "WORKING"
      BY DEF WorkerAwake, SlotInv, Idle, Uncollected, Queued, Working, Finishing
    <3> QED
      BY <3>2, <3>3 DEF AssertionsHold
  <2> QED
    BY <2>1, <2>2
<1> QED
  BY <1>1, <1>2, Inductive, NextLeft, PTL DEF Spec

-----------------------------------------------------------------------------
(* What arg->init says of a thread whose byte was m when spawn_workers     *)
(* returned: it is set as soon as worker() has been entered, and then the  *)
(* thread has been bound, or the byte was set before.                      *)
MarkInv(m) ==
  \A t \in Threads :
    /\ wpc[t] # "enter" /\ ~(t = Dirigent /\ wpc[t] = "exited") => init[t]
    /\ init[t] => bound[t] \/ m[t]

LEMMA NextMark ==
  ASSUME NEW m, DoBinding, TypeOK, MarkInv(m), [Next]_vars
  PROVE  MarkInv(m)'
<1> USE DEF MarkInv
<1>1. /\ init \in [Threads -> BOOLEAN] /\ bound \in [Threads -> BOOLEAN]
      /\ wpc \in [Threads -> {"enter", "loop", "fetch", "arrive", "barrier", "ready",
                              "call", "exited"}]
      /\ Dirigent \in Threads
  BY ConstantFacts DEF TypeOK, Dirigent
<1>2. CASE UNCHANGED <<init, bound>> /\
           \/ UNCHANGED wpc
           \/ wpc' = [wpc EXCEPT ![Dirigent] = "enter"]
  BY <1>1, <1>2
<1>3. CASE MainStep
  <2>1. UNCHANGED <<init, bound>>
    BY <1>3 DEF MainStep, BeginStep, FillItem, QueueWork, DirigentReturns, SleepForDone,
                TakeDone, Join, FreeStep, PrintResult, state
  <2>2. UNCHANGED wpc \/ wpc' = [wpc EXCEPT ![Dirigent] = "enter"]
    BY <1>3 DEF MainStep, BeginStep, FillItem, QueueWork, AfterQueue, CallDirigent,
                DirigentReturns, SleepForDone, TakeDone, Join, FreeStep, PrintResult, local
  <2> QED
    BY <1>2, <2>1, <2>2
<1>4. ASSUME NEW t \in Threads, Enter(t)
      PROVE  MarkInv(m)'
  BY <1>1, <1>4 DEF Enter, BindThread
<1>5. ASSUME NEW t \in Threads, WorkerStep(t), ~Enter(t)
      PROVE  /\ UNCHANGED <<init, bound>>
             /\ UNCHANGED wpc \/ \E p : wpc' = [wpc EXCEPT ![t] = p]
             /\ wpc[t] \notin {"enter", "exited"}
  BY <1>5 DEF WorkerStep, CheckRun, SleepForWork, WorkerAwake, FetchWork, Arrive, Depart,
              StartCall, EndCall, ReturnWork, state, local
<1>6. ASSUME NEW t \in Threads, WorkerStep(t), ~Enter(t)
      PROVE  MarkInv(m)'
  BY <1>1, <1>5, <1>6
<1>7. CASE (\E t \in Threads : SpuriousWakeup(t)) \/ UNCHANGED vars
  BY <1>2, <1>7 DEF SpuriousWakeup, vars, state, local
<1> QED
  BY <1>3, <1>4, <1>6, <1>7 DEF Next, Finished

(* A thread measures without having been bound only if the byte            *)
(* spawn_workers left in its arg->init was not zero (main.cc:101-116).     *)
THEOREM OnlyMarkedAreUnbound ==
  ASSUME NEW CONSTANT m
  PROVE  init = m /\ Spec => [](\A t \in Threads : DoBinding /\ wpc[t] = "call" => bound[t] \/ m[t])
<1>1. CASE DoBinding
  <2>1. Init /\ init = m => MarkInv(m)
    BY DEF Init, MarkInv
  <2>2. TypeOK /\ MarkInv(m) /\ [Next]_vars => MarkInv(m)'
    BY <1>1, NextMark
  <2>3. MarkInv(m) => \A t \in Threads : DoBinding /\ wpc[t] = "call" => bound[t] \/ m[t]
    BY DEF MarkInv
  <2> QED
    BY <2>1, <2>2, <2>3, TypeCorrect, PTL DEF Spec
<1>2. CASE ~DoBinding
  <2>1. \A t \in Threads : DoBinding /\ wpc[t] = "call" => bound[t] \/ m[t]
    BY <1>2
  <2> QED
    BY <2>1, PTL
<1> QED
  BY <1>1, <1>2

(* Clearing arg->init in spawn_workers would be enough for every thread to *)
(* be bound before it measures, as worker.h:37 has it.                     *)
THEOREM ClearedThreadsAreBound ==
  init = [t \in Threads |-> FALSE] /\ Spec => []BoundWhenMeasuring
<1>1. CASE DoBinding
  <2> DEFINE m == [t \in Threads |-> FALSE]
  <2>1. Init /\ init = m => MarkInv(m)
    BY DEF Init, MarkInv
  <2>2. TypeOK /\ MarkInv(m) /\ [Next]_vars => MarkInv(m)'
    BY <1>1, NextMark
  <2>3. MarkInv(m) => BoundWhenMeasuring
    BY DEF MarkInv, BoundWhenMeasuring
  <2> QED
    BY <2>1, <2>2, <2>3, TypeCorrect, PTL DEF Spec
<1>2. CASE ~DoBinding
  <2>1. BoundWhenMeasuring
    BY <1>2 DEF BoundWhenMeasuring
  <2> QED
    BY <2>1, PTL
<1> QED
  BY <1>1, <1>2

=============================================================================
