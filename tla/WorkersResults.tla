--------------------------- MODULE WorkersResults ---------------------------
(***************************************************************************)
(* A second inductive invariant on top of the one in WorkersProofs: what   *)
(* is in the result array at every moment, and why the PU a thread is      *)
(* recorded on no longer changes when main picks its benchmark.  Then what *)
(* Workers promises: a common start, and the campaign.                     *)
(***************************************************************************)
EXTENDS WorkersProofs, FiniteSetTheorems

(* A thread has been through the start of worker() for the first time as   *)
(* soon as it has taken an item; so have all once the first round is over. *)
Started(t) ==
  \/ round > 0
  \/ s[t] \in {"WORKING", "DONE"}
  \/ mpc = "collect" /\ t < idx
  \/ mpc \in {"free", "print"}

EntryInv ==
  \A t \in Threads :
    /\ Started(t) => init[t] /\ (wpc[t] = "enter" => t = Dirigent)
    /\ wpc[t] \notin {"enter", "exited"} => init[t]

(* What worker() reads through its work pointer. *)
WorkInv ==
  \A t \in Threads :
    /\ (mpc = "queue" /\ t = idx) \/ s[t] = "QUEUED" \/ s[t] = "WORKING" =>
         items[Item(round, t)] = [ops |-> Ops(round, cpu[t]), row |-> t, reps |-> Reps(round)]
    /\ wpc[t] = "ready" => rep[t] <= Reps(round)
    /\ wpc[t] = "call" => rep[t] < Reps(round)

(* The threads main has got the item of this round back from, and how many *)
(* entries each thread has written.                                        *)
Collected(t) ==
  \/ mpc \in {"free", "print"}
  \/ mpc = "collect" /\ t < idx
  \/ mpc \in {"fill", "queue", "dirigent"} /\ ~Wide(round) /\ t < idx

Progress(t) ==
  IF Collected(t) \/ (Pending(t) /\ s[t] = "DONE") THEN Reps(round)
  ELSE IF wpc[t] \in {"ready", "call"} THEN rep[t] ELSE 0

Entry(t, k) == [row |-> t, rep |-> k, by |-> t, ops |-> Ops(round, cpu[t])]

ResultInv ==
  round # StopRound =>
    /\ \A x \in result : x = Entry(x.row, x.rep) /\ x.rep < Progress(x.row)
    /\ \A t \in Threads, k \in 0 .. Reps(round) - 1 :
         k < Progress(t) => Entry(t, k) \in result

RInv == EntryInv /\ WorkInv /\ ResultInv

-----------------------------------------------------------------------------
LEMMA RoundZero == Wide(0) /\ \A c : Ops(0, c) = NullOps
  BY DEF Wide, Ops

(* A thread that is working, and what it reads through its pointer. *)
LEMMA WorkingThread ==
  ASSUME IInv, WorkInv, NEW u \in Threads, wpc[u] \in {"arrive", "barrier", "ready", "call"}
  PROVE  /\ Working(u) /\ Pending(u)
         /\ ItemOf(u) = [ops |-> Ops(round, cpu[u]), row |-> u, reps |-> Reps(round)]
<1>1. Working(u) /\ Pending(u)
  BY DEF IInv, SlotInv, Idle, Queued, Finishing
<1>2. ItemOf(u) = items[Item(round, u)]
  BY <1>1 DEF ItemOf, Working
<1> QED
  BY <1>1, <1>2 DEF WorkInv, Working

LEMMA BeginStepResults == IInv /\ IInv' /\ RInv /\ BeginStep => RInv'
<1> SUFFICES ASSUME IInv, IInv', RInv, BeginStep PROVE RInv'
  OBVIOUS
<1> USE ConstantFacts DEF IInv, RInv, BeginStep, mainvars, slots, state, local, barrier, Dirigent, B!Create
<1>1. EntryInv'
  BY DEF TypeOK, EntryInv, Started, SlotInv, Pending, Idle, Uncollected, Queued, Working, Finishing
<1>2. WorkInv'
  BY DEF TypeOK, WorkInv, SlotInv, Pending, Idle, Uncollected, Queued, Working, Finishing
<1>3. ResultInv'
  <2>1. ASSUME NEW t \in Threads, round # StopRound
        PROVE  Progress(t) = 0 /\ Progress(t)' = 0
    BY <2>1 DEF TypeOK, Progress, Collected, SlotInv, Pending, Idle
  <2>2. round # StopRound => result = {}
    BY <2>1 DEF ResultInv, TypeOK, Records
  <2> QED
    BY <2>1, <2>2 DEF ResultInv, TypeOK
<1> QED
  BY <1>1, <1>2, <1>3

LEMMA FillItemResults == IInv /\ IInv' /\ RInv /\ FillItem => RInv'
<1> SUFFICES ASSUME IInv, IInv', RInv, FillItem PROVE RInv'
  OBVIOUS
<1> USE ConstantFacts DEF IInv, RInv, FillItem, mainvars, slots, state, local, barrier, Dirigent
<1>1. EntryInv'
  BY DEF TypeOK, EntryInv, Started, SlotInv, Pending, Idle, Uncollected, Queued, Working, Finishing
<1>2. WorkInv'
  <2>1. idx \in Threads
    BY DEF TypeOK, MainInv
  <2>2. \A t \in Threads : s[t] \in {"QUEUED", "WORKING"} => Wide(round) /\ t # idx
    BY <2>1 DEF TypeOK, SlotInv, Pending, Idle, Uncollected
  <2> QED
    BY <2>1, <2>2 DEF TypeOK, WorkInv, Row
<1>3. ResultInv'
  BY DEF TypeOK, ResultInv, Progress, Collected, Entry, SlotInv, Pending, Idle, Uncollected, Queued, Working, Finishing
<1> QED
  BY <1>1, <1>2, <1>3

LEMMA QueueWorkResults == IInv /\ IInv' /\ RInv /\ QueueWork => RInv'
<1> SUFFICES ASSUME IInv, IInv', RInv, QueueWork PROVE RInv'
  OBVIOUS
<1> USE ConstantFacts DEF IInv, RInv, QueueWork, mainvars, slots, state, local, barrier, Dirigent, AfterQueue, CallDirigent
<1>1. EntryInv'
  BY RoundZero DEF TypeOK, EntryInv, Started, AfterQueue
<1>2. WorkInv'
  BY DEF TypeOK, WorkInv, SlotInv, Pending, Idle, Uncollected, Queued, Working, Finishing
<1>3. ResultInv'
  <2>1. \A t \in Threads : Progress(t)' = Progress(t)
    BY DEF TypeOK, MainInv, DirigentInv, Progress, Collected, AfterQueue, SlotInv, Pending, Idle, Uncollected, Queued, Working, Finishing
  <2> QED
    BY <2>1 DEF ResultInv, Entry, TypeOK, Records
<1> QED
  BY <1>1, <1>2, <1>3

LEMMA DirigentReturnsResults == IInv /\ IInv' /\ RInv /\ DirigentReturns => RInv'
<1> SUFFICES ASSUME IInv, IInv', RInv, DirigentReturns PROVE RInv'
  OBVIOUS
<1> USE ConstantFacts DEF IInv, RInv, DirigentReturns, mainvars, slots, state, local, barrier, Dirigent, FirstCollected
<1>1. EntryInv'
  BY RoundZero DEF TypeOK, MainInv, EntryInv, Started, SlotInv, Pending, Idle, Uncollected, Queued, Working, Finishing
<1>2. WorkInv'
  BY DEF TypeOK, WorkInv, SlotInv, Pending, Idle, Uncollected, Queued, Working, Finishing
<1>3. ResultInv'
  <2>1. \A t \in Threads : Progress(t)' = Progress(t)
    BY DEF TypeOK, MainInv, DirigentInv, Progress, Collected, SlotInv, Pending, Idle, Uncollected, Queued, Working, Finishing
  <2> QED
    BY <2>1 DEF ResultInv, Entry, TypeOK, Records
<1> QED
  BY <1>1, <1>2, <1>3

LEMMA SleepForDoneResults == IInv /\ IInv' /\ RInv /\ SleepForDone => RInv'
<1> SUFFICES ASSUME IInv, IInv', RInv, SleepForDone PROVE RInv'
  OBVIOUS
<1> USE ConstantFacts DEF IInv, RInv, SleepForDone, mainvars, slots, state, local, barrier, Dirigent, MainAwake
<1>1. EntryInv'
  BY DEF TypeOK, EntryInv, Started, SlotInv, Pending, Idle, Uncollected, Queued, Working, Finishing
<1>2. WorkInv'
  BY DEF TypeOK, WorkInv, SlotInv, Pending, Idle, Uncollected, Queued, Working, Finishing
<1>3. ResultInv'
  BY DEF TypeOK, ResultInv, Progress, Collected, Entry, SlotInv, Pending, Idle, Uncollected, Queued, Working, Finishing
<1> QED
  BY <1>1, <1>2, <1>3

LEMMA TakeDoneResults == IInv /\ IInv' /\ RInv /\ TakeDone => RInv'
<1> SUFFICES ASSUME IInv, IInv', RInv, TakeDone PROVE RInv'
  OBVIOUS
<1> USE ConstantFacts DEF IInv, RInv, TakeDone, mainvars, slots, state, local, barrier, Dirigent, MainAwake, NextThread
<1>1. EntryInv'
  BY RoundZero DEF TypeOK, MainInv, EntryInv, Started, SlotInv, Pending, Idle, Uncollected, Queued, Working, Finishing
<1>2. WorkInv'
  BY DEF TypeOK, WorkInv, SlotInv, Pending, Idle, Uncollected, Queued, Working, Finishing
<1>3. ResultInv'
  <2>1. \A t \in Threads : round # StopRound => Progress(t)' = Progress(t)
    BY DEF TypeOK, MainInv, DirigentInv, Progress, Collected, SlotInv, Pending, Idle, Uncollected, Queued, Working, Finishing
  <2> QED
    BY <2>1 DEF ResultInv, Entry, TypeOK, Records
<1> QED
  BY <1>1, <1>2, <1>3

LEMMA JoinResults == IInv /\ IInv' /\ RInv /\ Join => RInv'
<1> SUFFICES ASSUME IInv, IInv', RInv, Join PROVE RInv'
  OBVIOUS
<1> USE ConstantFacts DEF IInv, RInv, Join, mainvars, slots, state, local, barrier, Dirigent, NextThread
<1>1. EntryInv'
  BY RoundZero DEF TypeOK, MainInv, EntryInv, Started, SlotInv, Pending, Idle, Uncollected, Queued, Working, Finishing
<1>2. WorkInv'
  BY DEF TypeOK, WorkInv, SlotInv, Pending, Idle, Uncollected, Queued, Working, Finishing
<1>3. ResultInv'
  BY DEF ResultInv, MainInv
<1> QED
  BY <1>1, <1>2, <1>3

LEMMA FreeStepResults == IInv /\ IInv' /\ RInv /\ FreeStep => RInv'
<1> SUFFICES ASSUME IInv, IInv', RInv, FreeStep PROVE RInv'
  OBVIOUS
<1> USE ConstantFacts DEF IInv, RInv, FreeStep, mainvars, slots, state, local, barrier, Dirigent
<1>1. EntryInv'
  BY DEF TypeOK, EntryInv, Started, SlotInv, Pending, Idle, Uncollected, Queued, Working, Finishing
<1>2. WorkInv'
  BY DEF TypeOK, WorkInv, SlotInv, Pending, Idle, Uncollected, Queued, Working, Finishing
<1>3. ResultInv'
  BY DEF TypeOK, ResultInv, Progress, Collected, Entry, SlotInv, Pending, Idle, Uncollected, Queued, Working, Finishing
<1> QED
  BY <1>1, <1>2, <1>3

LEMMA PrintResultResults == IInv /\ IInv' /\ RInv /\ PrintResult => RInv'
<1> SUFFICES ASSUME IInv, IInv', RInv, PrintResult PROVE RInv'
  OBVIOUS
<1> USE ConstantFacts DEF IInv, RInv, PrintResult, mainvars, slots, state, local, barrier, Dirigent
<1>1. EntryInv'
  BY DEF TypeOK, EntryInv, Started, SlotInv, Pending, Idle, Uncollected, Queued, Working, Finishing
<1>2. WorkInv'
  BY DEF TypeOK, WorkInv, SlotInv, Pending, Idle, Uncollected, Queued, Working, Finishing
<1>3. ResultInv'
  BY DEF TypeOK, ResultInv, Progress, Collected, Entry, SlotInv, Pending, Idle, Uncollected, Queued, Working, Finishing
<1> QED
  BY <1>1, <1>2, <1>3

LEMMA EnterResults == \A u \in Threads : IInv /\ IInv' /\ RInv /\ Enter(u) => RInv'
<1> SUFFICES ASSUME NEW u \in Threads, IInv, IInv', RInv, Enter(u) PROVE RInv'
  OBVIOUS
<1> USE ConstantFacts DEF IInv, RInv, Enter, mainvars, slots, state, local, barrier, Dirigent, BindThread
<1>1. EntryInv'
  BY DEF TypeOK, EntryInv, Started, SlotInv, Pending, Idle, Uncollected, Queued, Working, Finishing
<1>2. WorkInv'
  BY RoundZero DEF TypeOK, WorkInv, EntryInv, Started
<1>3. ResultInv'
  <2>1. \A t \in Threads : Progress(t)' = Progress(t)
    BY DEF TypeOK, Progress, Collected, Pending
  <2>2. \A t \in Threads : \A k : Entry(t, k)' = Entry(t, k)
    BY RoundZero DEF TypeOK, Entry, EntryInv, Started
  <2> QED
    BY <2>1, <2>2 DEF ResultInv, TypeOK, Records
<1> QED
  BY <1>1, <1>2, <1>3

LEMMA CheckRunResults == \A u \in Threads : IInv /\ IInv' /\ RInv /\ CheckRun(u) => RInv'
<1> SUFFICES ASSUME NEW u \in Threads, IInv, IInv', RInv, CheckRun(u) PROVE RInv'
  OBVIOUS
<1> USE ConstantFacts DEF IInv, RInv, CheckRun, mainvars, slots, state, local, barrier, Dirigent
<1>1. EntryInv'
  BY DEF TypeOK, EntryInv, Started, SlotInv, Pending, Idle, Uncollected, Queued, Working, Finishing
<1>2. WorkInv'
  BY DEF TypeOK, WorkInv, SlotInv, Pending, Idle, Uncollected, Queued, Working, Finishing
<1>3. ResultInv'
  BY DEF TypeOK, ResultInv, Progress, Collected, Entry, SlotInv, Pending, Idle, Uncollected, Queued, Working, Finishing
<1> QED
  BY <1>1, <1>2, <1>3

LEMMA SleepForWorkResults == \A u \in Threads : IInv /\ IInv' /\ RInv /\ SleepForWork(u) => RInv'
<1> SUFFICES ASSUME NEW u \in Threads, IInv, IInv', RInv, SleepForWork(u) PROVE RInv'
  OBVIOUS
<1> USE ConstantFacts DEF IInv, RInv, SleepForWork, mainvars, slots, state, local, barrier, Dirigent, WorkerAwake
<1>1. EntryInv'
  BY DEF TypeOK, EntryInv, Started, SlotInv, Pending, Idle, Uncollected, Queued, Working, Finishing
<1>2. WorkInv'
  BY DEF TypeOK, WorkInv, SlotInv, Pending, Idle, Uncollected, Queued, Working, Finishing
<1>3. ResultInv'
  BY DEF TypeOK, ResultInv, Progress, Collected, Entry, SlotInv, Pending, Idle, Uncollected, Queued, Working, Finishing
<1> QED
  BY <1>1, <1>2, <1>3

LEMMA FetchWorkResults == \A u \in Threads : IInv /\ IInv' /\ RInv /\ FetchWork(u) => RInv'
<1> SUFFICES ASSUME NEW u \in Threads, IInv, IInv', RInv, FetchWork(u) PROVE RInv'
  OBVIOUS
<1> USE ConstantFacts DEF IInv, RInv, FetchWork, mainvars, slots, state, local, barrier, Dirigent, WorkerAwake
<1>1. EntryInv'
  BY DEF TypeOK, EntryInv, Started, SlotInv, Pending, Idle, Uncollected, Queued, Working, Finishing
<1>2. WorkInv'
  BY DEF TypeOK, WorkInv, SlotInv, Pending, Idle, Uncollected, Queued, Working, Finishing
<1>3. ResultInv'
  BY DEF TypeOK, ResultInv, Progress, Collected, Entry, SlotInv, Pending, Idle, Uncollected, Queued, Working, Finishing
<1> QED
  BY <1>1, <1>2, <1>3

LEMMA ArriveResults == \A u \in Threads : IInv /\ IInv' /\ RInv /\ Arrive(u) => RInv'
<1> SUFFICES ASSUME NEW u \in Threads, IInv, IInv', RInv, Arrive(u) PROVE RInv'
  OBVIOUS
<1> USE ConstantFacts DEF IInv, RInv, Arrive, mainvars, slots, state, local, barrier, Dirigent
<1>1. EntryInv'
  BY DEF TypeOK, EntryInv, Started, SlotInv, Pending, Idle, Uncollected, Queued, Working, Finishing
<1>2. WorkInv'
  BY DEF TypeOK, WorkInv, SlotInv, Pending, Idle, Uncollected, Queued, Working, Finishing
<1>3. ResultInv'
  BY DEF TypeOK, ResultInv, Progress, Collected, Entry, SlotInv, Pending, Idle, Uncollected, Queued, Working, Finishing
<1> QED
  BY <1>1, <1>2, <1>3

LEMMA DepartResults == \A u \in Threads : IInv /\ IInv' /\ RInv /\ Depart(u) => RInv'
<1> SUFFICES ASSUME NEW u \in Threads, IInv, IInv', RInv, Depart(u) PROVE RInv'
  OBVIOUS
<1> USE ConstantFacts DEF IInv, RInv, Depart, mainvars, slots, state, local, barrier, Dirigent
<1>1. EntryInv'
  BY DEF TypeOK, EntryInv, Started, SlotInv, Pending, Idle, Uncollected, Queued, Working, Finishing
<1>2. WorkInv'
  BY DEF TypeOK, WorkInv, SlotInv, Pending, Idle, Uncollected, Queued, Working, Finishing
<1>3. ResultInv'
  BY DEF TypeOK, ResultInv, Progress, Collected, Entry, SlotInv, Pending, Idle, Uncollected, Queued, Working, Finishing
<1> QED
  BY <1>1, <1>2, <1>3

LEMMA StartCallResults == \A u \in Threads : IInv /\ IInv' /\ RInv /\ StartCall(u) => RInv'
<1> SUFFICES ASSUME NEW u \in Threads, IInv, IInv', RInv, StartCall(u) PROVE RInv'
  OBVIOUS
<1> USE ConstantFacts DEF IInv, RInv, StartCall, mainvars, slots, state, local, barrier, Dirigent
<1>1. EntryInv'
  BY DEF TypeOK, EntryInv, Started, SlotInv, Pending, Idle, Uncollected, Queued, Working, Finishing
<1>2. WorkInv'
  BY WorkingThread DEF TypeOK, WorkInv
<1>3. ResultInv'
  BY DEF TypeOK, ResultInv, Progress, Collected, Entry, SlotInv, Pending, Idle, Uncollected, Queued, Working, Finishing
<1> QED
  BY <1>1, <1>2, <1>3

LEMMA EndCallResults == \A u \in Threads : IInv /\ IInv' /\ RInv /\ EndCall(u) => RInv'
<1> SUFFICES ASSUME NEW u \in Threads, IInv, IInv', RInv, EndCall(u) PROVE RInv'
  OBVIOUS
<1> USE ConstantFacts DEF IInv, RInv, EndCall, mainvars, slots, state, local, barrier, Dirigent
<1>1. EntryInv'
  BY DEF TypeOK, EntryInv, Started, SlotInv, Pending, Idle, Uncollected, Queued, Working, Finishing
<1>2. WorkInv'
  BY DEF TypeOK, WorkInv, SlotInv, Pending, Idle, Uncollected, Queued, Working, Finishing
<1>3. ResultInv'
  <2>1. /\ Working(u) /\ Pending(u)
        /\ ItemOf(u) = [ops |-> Ops(round, cpu[u]), row |-> u, reps |-> Reps(round)]
    BY WorkingThread
  <2>2. \A t \in Threads : Progress(t)' = IF t = u THEN Progress(t) + 1 ELSE Progress(t)
    BY <2>1 DEF TypeOK, Progress, Collected, Pending, Working
  <2>3. Progress(u) = rep[u] /\ rep[u] \in Nat
    BY <2>1 DEF TypeOK, Progress, Collected, Pending, Working
  <2>4. round # StopRound => result' = result \cup {Entry(u, rep[u])}
    BY <2>1 DEF TypeOK, Entry
  <2>5. \A t \in Threads : Progress(t) \in Nat
    BY DEF TypeOK, Progress, Collected
  <2>6. \A t, k : Entry(t, k)' = Entry(t, k)
    BY DEF Entry
  <2>7. ASSUME round # StopRound, NEW x \in result'
        PROVE x = Entry(x.row, x.rep) /\ x.rep < Progress(x.row)'
    <3>1. CASE x \in result
      <4>1. x = Entry(x.row, x.rep) /\ x.rep < Progress(x.row)
        BY <2>7, <3>1 DEF ResultInv
      <4>2. x.row \in Threads /\ x.rep \in Nat
        BY <3>1 DEF TypeOK, Records
      <4>3. Progress(x.row)' = Progress(x.row) \/ Progress(x.row)' = Progress(x.row) + 1
        BY <2>2, <4>2
      <4> QED
        BY <2>5, <4>1, <4>2, <4>3
    <3>2. CASE x = Entry(u, rep[u])
      <4>1. x.row = u /\ x.rep = rep[u]
        BY <3>2 DEF Entry
      <4> QED
        BY <2>2, <2>3, <3>2, <4>1
    <3> QED
      BY <2>4, <2>7, <3>1, <3>2
  <2>8. ASSUME round # StopRound, NEW t \in Threads, NEW k \in 0 .. Reps(round) - 1,
               k < Progress(t)'
        PROVE Entry(t, k) \in result'
    <3>1. CASE k < Progress(t)
      BY <2>4, <2>8, <3>1 DEF ResultInv
    <3>2. CASE ~(k < Progress(t))
      <4>1. t = u /\ k = rep[u]
        BY <2>2, <2>3, <2>5, <2>8, <3>2
      <4> QED
        BY <2>4, <2>8, <4>1
    <3> QED
      BY <3>1, <3>2
  <2> QED
    BY <2>6, <2>7, <2>8 DEF ResultInv
<1> QED
  BY <1>1, <1>2, <1>3

LEMMA ReturnWorkResults == \A u \in Threads : IInv /\ IInv' /\ RInv /\ ReturnWork(u) => RInv'
<1> SUFFICES ASSUME NEW u \in Threads, IInv, IInv', RInv, ReturnWork(u) PROVE RInv'
  OBVIOUS
<1> USE ConstantFacts DEF IInv, RInv, ReturnWork, mainvars, slots, state, local, barrier, Dirigent
<1>1. EntryInv'
  BY DEF TypeOK, EntryInv, Started, SlotInv, Pending, Idle, Uncollected, Queued, Working, Finishing
<1>2. WorkInv'
  BY DEF TypeOK, WorkInv, SlotInv, Pending, Idle, Uncollected, Queued, Working, Finishing
<1>3. ResultInv'
  <2>1. Working(u) /\ Pending(u) /\ ItemOf(u).reps = Reps(round)
    BY WorkingThread
  <2>2. rep[u] = Reps(round)
    <3>1. rep[u] \in Nat /\ Reps(round) \in Nat
      BY DEF TypeOK
    <3>2. rep[u] <= Reps(round)
      BY DEF WorkInv
    <3> QED
      BY <2>1, <3>1, <3>2
  <2>3. \A t \in Threads : Progress(t)' = Progress(t)
    BY <2>1, <2>2 DEF TypeOK, Progress, Collected, Pending, Working
  <2> QED
    BY <2>3 DEF ResultInv, Entry, TypeOK, Records
<1> QED
  BY <1>1, <1>2, <1>3

LEMMA SpuriousWakeupResults == \A u \in Threads : IInv /\ IInv' /\ RInv /\ SpuriousWakeup(u) => RInv'
<1> SUFFICES ASSUME NEW u \in Threads, IInv, IInv', RInv, SpuriousWakeup(u) PROVE RInv'
  OBVIOUS
<1> USE ConstantFacts DEF IInv, RInv, SpuriousWakeup, mainvars, slots, state, local, barrier, Dirigent
<1>1. EntryInv'
  BY DEF TypeOK, EntryInv, Started, SlotInv, Pending, Idle, Uncollected, Queued, Working, Finishing
<1>2. WorkInv'
  BY DEF TypeOK, WorkInv, SlotInv, Pending, Idle, Uncollected, Queued, Working, Finishing
<1>3. ResultInv'
  BY DEF TypeOK, ResultInv, Progress, Collected, Entry, SlotInv, Pending, Idle, Uncollected, Queued, Working, Finishing
<1> QED
  BY <1>1, <1>2, <1>3

-----------------------------------------------------------------------------
LEMMA InitResults == Init => RInv
<1> SUFFICES ASSUME Init PROVE RInv
  OBVIOUS
<1> USE ConstantFacts DEF Init, Dirigent
<1>1. EntryInv
  BY DEF EntryInv, Started
<1>2. WorkInv
  BY DEF WorkInv
<1>3. ResultInv
  BY DEF ResultInv, Progress, Collected, Pending
<1> QED
  BY <1>1, <1>2, <1>3 DEF RInv

LEMMA NextResults == IInv /\ IInv' /\ RInv /\ [Next]_vars => RInv'
<1> SUFFICES ASSUME IInv, IInv', RInv, [Next]_vars PROVE RInv'
  OBVIOUS
<1>1. CASE MainStep
  BY <1>1, BeginStepResults, FillItemResults, QueueWorkResults, DirigentReturnsResults,
     SleepForDoneResults, TakeDoneResults, JoinResults, FreeStepResults,
     PrintResultResults
  DEF MainStep
<1>2. ASSUME NEW t \in Threads, WorkerStep(t)
      PROVE  RInv'
  BY <1>2, EnterResults, CheckRunResults, SleepForWorkResults, FetchWorkResults,
     ArriveResults, DepartResults, StartCallResults, EndCallResults, ReturnWorkResults
  DEF WorkerStep
<1>3. ASSUME NEW t \in Threads, SpuriousWakeup(t)
      PROVE  RInv'
  BY <1>3, SpuriousWakeupResults
<1>4. CASE UNCHANGED vars
  BY <1>4
  DEF vars, mainvars, slots, state, local, barrier, RInv, EntryInv, Started, WorkInv,
      ResultInv, Progress, Collected, Pending, Entry
<1> QED
  BY <1>1, <1>2, <1>3, <1>4 DEF Next, Finished

THEOREM ResultsInductive == Spec => []RInv
  BY Inductive, InitResults, NextResults, PTL DEF Spec

(* Whatever the policy, a round ends with every thread's row filled, once  *)
(* per iteration and with the right benchmark (main.cc:286-413).           *)
THEOREM EveryRowComplete == Spec => []MatrixComplete
<1>1. IInv /\ RInv => MatrixComplete
  <2> SUFFICES ASSUME IInv, RInv, mpc = "print", round \in 1 .. LastRound
               PROVE  result = {[row |-> t, rep |-> k, by |-> t, ops |-> Due(t)] :
                                  t \in Threads, k \in 0 .. Iterations - 1}
    BY DEF MatrixComplete
  <2>1. round # 0 /\ round # StopRound /\ Reps(round) = Iterations /\ Iterations \in Nat
    BY ConstantFacts, WorkersAssumption DEF StopRound, LastRound, Reps
  <2>2. \A t \in Threads : Progress(t) = Iterations
    BY <2>1 DEF Progress, Collected
  <2>3. \A t : Ops(round, cpu[t]) = Due(t)
    <3>1. /\ round \in Nat /\ NBench \in Nat
          /\ Policy = "pair" /\ ~(2 * round <= NBench) => 2 * round - 1 = NBench
      BY WorkersAssumption DEF LastRound
    <3> QED
      BY <2>1, <3>1 DEF Ops, Due, First, Second
  <2>4. \A t \in Threads, k \in 0 .. Iterations - 1 :
          [row |-> t, rep |-> k, by |-> t, ops |-> Due(t)] \in result
    BY <2>1, <2>2, <2>3 DEF RInv, ResultInv, Entry
  <2>5. ASSUME NEW x \in result
        PROVE  /\ x.row \in Threads /\ x.rep \in 0 .. Iterations - 1
               /\ x = [row |-> x.row, rep |-> x.rep, by |-> x.row, ops |-> Due(x.row)]
    <3>1. x \in Records
      BY DEF IInv, TypeOK
    <3> QED
      BY <2>1, <2>2, <2>3, <3>1 DEF RInv, ResultInv, Entry, Records
  <2> QED
    BY <2>4, <2>5
<1> QED
  BY <1>1, Inductive, ResultsInductive, PTL

(* main's unlocked reads of arg->cpu (main.cc:391-392) come after each     *)
(* thread's only write to it (worker.c:217).                               *)
THEOREM CpuReadsAreOrdered == Spec => []CpuIsSettled
<1>1. RInv => CpuIsSettled
  BY DEF RInv, EntryInv, Started, CpuIsSettled
<1> QED
  BY <1>1, ResultsInductive, PTL

(* Once a benchmark can have been chosen by it, arg->cpu stays.            *)
THEOREM CpuStays == Spec => CpuKept
<1>1. IInv /\ RInv /\ [Next]_vars => [round > 0 => UNCHANGED cpu]_vars
  <2> SUFFICES ASSUME IInv, RInv, Next, round > 0
               PROVE  UNCHANGED cpu
    BY DEF vars, state
  <2> USE DEF mainvars, slots, state, local, vars
  <2>1. CASE MainStep
    BY <2>1
    DEF MainStep, BeginStep, FillItem, QueueWork, DirigentReturns, SleepForDone,
        TakeDone, Join, FreeStep, PrintResult
  <2>2. ASSUME NEW t \in Threads, Enter(t)
        PROVE  UNCHANGED cpu
    BY <2>2 DEF Enter, RInv, EntryInv, Started
  <2>3. ASSUME NEW t \in Threads, WorkerStep(t), ~Enter(t)
        PROVE  UNCHANGED cpu
    BY <2>3
    DEF WorkerStep, CheckRun, SleepForWork, FetchWork, Arrive, Depart, StartCall, EndCall,
        ReturnWork
  <2>4. ASSUME NEW t \in Threads, SpuriousWakeup(t)
        PROVE  UNCHANGED cpu
    BY <2>4 DEF SpuriousWakeup
  <2> QED
    BY <2>1, <2>2, <2>3, <2>4 DEF Next, Finished
<1> QED
  BY <1>1, Inductive, ResultsInductive, PTL DEF Spec, CpuKept

LEMMA TurnsFollow ==
  ASSUME IInv, RInv
  PROVE  OneAtATime
<1> SUFFICES ASSUME Policy = "onebyone", round \in 1 .. LastRound,
                    NEW t \in Threads, NEW u \in Threads,
                    wpc[t] = "call", wpc[u] \notin {"loop", "fetch", "exited"}
             PROVE  t = u
  BY DEF OneAtATime
<1>1. ~Wide(round) /\ round > 0
  BY DEF Wide
<1>2. Pending(t)
  BY WorkingThread DEF RInv
<1>3. Pending(u)
  <2>1. CASE wpc[u] = "enter"
    <3>1. u = Dirigent
      BY <1>1, <2>1 DEF RInv, EntryInv, Started
    <3>2. mpc = "dirigent" /\ idx = Dirigent
      BY <1>1, <2>1, <3>1 DEF IInv, DirigentInv, MainInv
    <3> QED
      BY <3>1, <3>2 DEF Pending
  <2>2. CASE wpc[u] # "enter"
    BY <2>2, WorkingThread DEF RInv, IInv, TypeOK
  <2> QED
    BY <2>1, <2>2
<1> QED
  BY <1>1, <1>2, <1>3 DEF Pending

(* Under "onebyone" no thread disturbs the one that measures               *)
(* (main.cc:321-370).                                                      *)
THEOREM TurnsAreExclusive == Spec => []OneAtATime
<1>1. IInv /\ RInv => OneAtATime
  BY TurnsFollow
<1> QED
  BY <1>1, Inductive, ResultsInductive, PTL

-----------------------------------------------------------------------------
(* Two promises of Workers to its user: threads that share a round start   *)
(* it together, and the hand-over implements the campaign.                 *)

(* Threads still on this side of the round's barrier, and beyond it. *)
Outside(t) == s[t] = "QUEUED" \/ wpc[t] = "arrive" \/ t \in arrived
Beyond(t) ==
  t \in leaving \/ wpc[t] \in {"ready", "call"} \/ (Pending(t) /\ s[t] = "DONE")

(* The barrier counts all threads, and nobody is beyond it, nor main       *)
(* collecting, while somebody has still to come.                           *)
TogetherInv ==
  /\ alive => limit = BarrierLimit(round)
  /\ \A t \in Threads : wpc[t] = "barrier" => t \in B!Inside
  /\ Wide(round) /\ (mpc = "collect" \/ \E t \in Threads : Beyond(t)) =>
       \A u \in Threads : ~Outside(u)

-----------------------------------------------------------------------------
LEMMA ThreadsAreN == IsFiniteSet(Threads) /\ Cardinality(Threads) = N
  BY FS_Interval, ConstantFacts, WorkersAssumption, SMT DEF Threads

(* The instance of Barrier counts as this module does. *)
LEMMA SameCardinality == \A S : B!Cardinality(S) = Cardinality(S)
  BY DEF B!Cardinality, Cardinality

(* A barrier for all threads opens for the last of them only. *)
LEMMA LastToArrive ==
  ASSUME NEW A \in SUBSET Threads, NEW u \in Threads, u \notin A,
         Cardinality(A) + 1 >= N
  PROVE  A = Threads \ {u}
<1>1. /\ IsFiniteSet(Threads \ {u})
      /\ Cardinality(Threads \ {u}) = N - 1
  BY ThreadsAreN, FS_RemoveElement
<1>2. A \subseteq Threads \ {u}
  OBVIOUS
<1>3. /\ Cardinality(A) <= Cardinality(Threads \ {u})
      /\ Cardinality(Threads \ {u}) = Cardinality(A) => Threads \ {u} = A
  BY <1>1, <1>2, FS_Subset
<1>4. Cardinality(A) \in Nat
  BY <1>1, <1>2, FS_Subset, FS_CardinalityType
<1> QED
  BY <1>1, <1>3, <1>4, ConstantFacts

(* Before main works for the dirigent nobody is beyond the barrier. *)
LEMMA NobodyBeyondYet ==
  ASSUME IInv, TogetherInv, Wide(round), mpc \in {"fill", "queue"}
  PROVE  \A t \in Threads : ~Beyond(t)
<1> SUFFICES ASSUME NEW t \in Threads, Beyond(t)
             PROVE  FALSE
  OBVIOUS
<1>1. Pending(t)
  BY DEF IInv, Beyond, SlotInv, BarrierInv, B!Inside, Idle
<1>2. idx > 0
  BY <1>1, ConstantFacts DEF IInv, TypeOK, Pending
<1>3. Outside(Dirigent)
  BY <1>2 DEF IInv, DirigentInv, Outside
<1> QED
  BY <1>3, ConstantFacts DEF TogetherInv, Dirigent

LEMMA MainTogether ==
  ASSUME IInv, IInv', TogetherInv, MainStep
  PROVE  TogetherInv'
<1> USE ConstantFacts DEF mainvars, slots, state, local, barrier, Dirigent
<1>1. CASE BeginStep
  <2>1. \A t \in Threads : ~Outside(t)'
    BY <1>1 DEF IInv, BeginStep, B!Create, Outside, SlotInv, Pending, Idle, Uncollected
  <2> QED
    BY <1>1, <2>1
    DEF IInv, BeginStep, B!Create, TogetherInv, SlotInv, Pending, Idle
<1>2. CASE FillItem
  BY <1>2 DEF FillItem, TogetherInv, Outside, Beyond, Pending, B!Inside
<1>3. CASE QueueWork
  <2>1. /\ idx \in Threads /\ alive' = alive /\ round' = round
        /\ limit' = limit /\ arrived' = arrived /\ leaving' = leaving
        /\ Wide(round) => mpc' # "collect"
    BY <1>3 DEF IInv, TypeOK, MainInv, QueueWork, AfterQueue, CallDirigent
  <2>2. \A t \in Threads : wpc'[t] = wpc[t] \/ wpc'[t] = "enter"
    BY <1>3 DEF IInv, TypeOK, QueueWork, AfterQueue, CallDirigent
  <2>3. Wide(round) => \A t \in Threads : ~Beyond(t)'
    <3> SUFFICES ASSUME Wide(round), NEW t \in Threads, Beyond(t)'
                 PROVE  FALSE
      OBVIOUS
    <3>1. ~Beyond(t)
      BY <1>3, NobodyBeyondYet DEF QueueWork
    <3>2. Pending(t)' /\ s'[t] = "DONE"
      BY <2>1, <2>2, <3>1 DEF Beyond
    <3>3. t # idx /\ s[t] = "DONE"
      BY <1>3, <2>1, <3>2 DEF QueueWork, IInv, TypeOK
    <3>4. /\ mpc = "queue" /\ idx \in Nat /\ t \in 0 .. N - 1 /\ t # idx
          /\ \/ mpc' = "fill" /\ idx' = idx + 1
             \/ mpc' = "dirigent" /\ idx = N - 1
      BY <1>3, <2>1, <3>3 DEF QueueWork, AfterQueue, CallDirigent, Threads
    <3>5. t < idx
      BY <2>1, <3>2, <3>4 DEF Pending
    <3>6. Pending(t)
      BY <3>4, <3>5 DEF Pending
    <3> QED
      BY <3>1, <3>3, <3>6 DEF Beyond
  <2>4. \A t \in Threads : wpc'[t] = "barrier" => t \in B!Inside'
    BY <2>1, <2>2 DEF TogetherInv, B!Inside
  <2> QED
    BY <2>1, <2>3, <2>4 DEF TogetherInv, Wide, BarrierLimit, QueueWork
<1>4. CASE DirigentReturns
  <2>1. Pending(Dirigent) /\ Dirigent \in Threads
    BY <1>4 DEF DirigentReturns, Pending, IInv, MainInv
  <2>2. Beyond(Dirigent)
    BY <1>4, <2>1 DEF DirigentReturns, IInv, SlotInv, Queued, Working, Finishing, Beyond
  <2> QED
    BY <1>4, <2>1, <2>2 DEF DirigentReturns, TogetherInv, Outside, B!Inside
<1>5. CASE SleepForDone
  BY <1>5 DEF SleepForDone, TogetherInv, Outside, Beyond, Pending, B!Inside
<1>6. CASE TakeDone
  BY <1>6 DEF TakeDone, NextThread, MainAwake, TogetherInv, Outside, B!Inside, IInv, TypeOK, MainInv
<1>7. CASE Join
  <2>1. ~Wide(round)
    BY <1>7 DEF Join, IInv, TypeOK, MainInv
  <2> QED
    BY <1>7, <2>1 DEF Join, NextThread, TogetherInv, B!Inside, Wide, BarrierLimit
<1>8. CASE FreeStep
  <2>1. \A t \in Threads : ~Outside(t)'
    BY <1>8 DEF IInv, FreeStep, Outside, SlotInv, Pending, Idle, Uncollected, BarrierInv, B!Inside
  <2> QED
    BY <1>8, <2>1 DEF FreeStep, TogetherInv, B!Inside
<1>9. CASE PrintResult
  <2>1. \A t \in Threads : ~Outside(t)'
    BY <1>9
    DEF IInv, PrintResult, Outside, SlotInv, Pending, Idle, Uncollected, BarrierInv, B!Inside
  <2> QED
    BY <1>9, <2>1 DEF PrintResult, TogetherInv, B!Inside, IInv, MainInv
<1> QED
  BY <1>1, <1>2, <1>3, <1>4, <1>5, <1>6, <1>7, <1>8, <1>9 DEF MainStep

LEMMA WorkerTogether ==
  ASSUME IInv, IInv', TogetherInv, NEW u \in Threads, WorkerStep(u)
  PROVE  TogetherInv'
<1> USE ConstantFacts DEF mainvars, slots, state, local, barrier, Dirigent
<1>1. CASE Enter(u)
  BY <1>1 DEF Enter, TogetherInv, Outside, Beyond, Pending, B!Inside, IInv, TypeOK
<1>2. CASE CheckRun(u)
  BY <1>2 DEF CheckRun, TogetherInv, Outside, Beyond, Pending, B!Inside, IInv, TypeOK
<1>3. CASE SleepForWork(u)
  BY <1>3 DEF SleepForWork, TogetherInv, Outside, Beyond, Pending, B!Inside
<1>4. CASE FetchWork(u)
  <2>1. Outside(u)
    BY <1>4 DEF FetchWork, Outside
  <2>2. \A t \in Threads : Beyond(t)' => Beyond(t)
    BY <1>4 DEF FetchWork, Beyond, Pending, IInv, TypeOK
  <2> QED
    BY <1>4, <2>1, <2>2 DEF FetchWork, TogetherInv, B!Inside, IInv, TypeOK
<1>5. CASE Arrive(u)
  <2>1. /\ Outside(u) /\ wpc'[u] = "barrier"
        /\ mpc' = mpc /\ round' = round /\ alive' = alive /\ s' = s /\ idx' = idx
        /\ limit' = limit
        /\ \A t \in Threads : t # u => wpc'[t] = wpc[t]
    BY <1>5 DEF Arrive, Outside, IInv, TypeOK, B!Arrive, B!Block, B!Open
  <2>2. CASE B!Block(u)
    <3>1. \A t \in Threads : Beyond(t)' => Beyond(t)
      BY <2>1, <2>2 DEF B!Block, Beyond, Pending
    <3>2. \A t \in Threads : wpc'[t] = "barrier" => t \in B!Inside'
      BY <2>1, <2>2 DEF B!Block, B!Inside, TogetherInv
    <3> QED
      BY <2>1, <3>1, <3>2 DEF TogetherInv, Wide, BarrierLimit
  <2>3. CASE B!Open(u)
    <3>1. \A t \in Threads : wpc'[t] = "barrier" => t \in B!Inside'
      BY <2>1, <2>3 DEF B!Open, B!Inside, TogetherInv
    <3>2. ASSUME Wide(round)
          PROVE  \A t \in Threads : ~Outside(t)'
      <4>1. Pending(u) /\ alive /\ limit = N
        BY <1>5, <3>2 DEF Arrive, IInv, SlotInv, Idle, Pending, MainInv, TogetherInv, BarrierLimit
      <4>2. arrived = Threads \ {u}
        <5>1. arrived \in SUBSET Threads /\ u \notin arrived /\ Cardinality(arrived) + 1 >= N
          BY <2>3, <4>1, SameCardinality DEF B!Open, B!Inside, IInv, TypeOK
        <5> QED
          BY <5>1, LastToArrive
      <4>3. \A t \in Threads : t # u => wpc[t] = "barrier"
        BY <4>2 DEF IInv, BarrierInv, B!Inside
      <4>4. \A t \in Threads : s'[t] = "WORKING" /\ wpc'[t] = "barrier"
        BY <1>5, <2>1, <4>3 DEF Arrive, IInv, SlotInv, Idle, Queued, Working, Finishing
      <4> QED
        BY <2>3, <4>4 DEF Outside, B!Open
    <3> QED
      BY <2>1, <3>1, <3>2 DEF TogetherInv, Wide, BarrierLimit
  <2> QED
    BY <1>5, <2>2, <2>3 DEF Arrive, B!Arrive
<1>6. CASE Depart(u)
  <2>1. Beyond(u)
    BY <1>6 DEF Depart, B!Leave, Beyond
  <2> QED
    BY <1>6, <2>1 DEF Depart, B!Leave, TogetherInv, Outside, Beyond, Pending, B!Inside, IInv, TypeOK
<1>7. CASE StartCall(u)
  BY <1>7 DEF StartCall, TogetherInv, Outside, Beyond, Pending, B!Inside, IInv, TypeOK
<1>8. CASE EndCall(u)
  BY <1>8 DEF EndCall, TogetherInv, Outside, Beyond, Pending, B!Inside, IInv, TypeOK
<1>9. CASE ReturnWork(u)
  BY <1>9 DEF ReturnWork, TogetherInv, Outside, Beyond, Pending, B!Inside, IInv, TypeOK
<1> QED
  BY <1>1, <1>2, <1>3, <1>4, <1>5, <1>6, <1>7, <1>8, <1>9 DEF WorkerStep

LEMMA NextTogether == IInv /\ IInv' /\ TogetherInv /\ [Next]_vars => TogetherInv'
<1> SUFFICES ASSUME IInv, IInv', TogetherInv, [Next]_vars
             PROVE  TogetherInv'
  OBVIOUS
<1>1. ASSUME NEW t \in Threads, SpuriousWakeup(t)
      PROVE  TogetherInv'
  BY <1>1
  DEF SpuriousWakeup, mainvars, state, local, barrier, TogetherInv, Outside, Beyond, Pending,
      B!Inside
<1>2. CASE UNCHANGED vars
  BY <1>2
  DEF vars, mainvars, slots, state, local, barrier, TogetherInv, Outside, Beyond, Pending,
      B!Inside
<1> QED
  BY <1>1, <1>2, MainTogether, WorkerTogether DEF Next, Finished

THEOREM TogetherInductive == Spec => []TogetherInv
<1>1. Init => TogetherInv
  BY ConstantFacts DEF Init, TogetherInv, Outside, B!Inside
<1> QED
  BY <1>1, NextTogether, Inductive, PTL DEF Spec

(* In a round on all threads nobody makes its first call before everybody  *)
(* has fetched its item and come to the barrier (main.cc:286-319, 372-413, *)
(* worker.c:247-259).                                                      *)
THEOREM EverybodyStartsTogether == Spec => []StartTogether
<1>1. IInv /\ TogetherInv => StartTogether
  <2> SUFFICES ASSUME IInv, TogetherInv, NEW t \in Threads, NEW u \in Threads,
                      Wide(round), wpc[t] \in {"ready", "call"}
               PROVE  mpc \in {"dirigent", "collect"} /\ s[u] # "QUEUED" /\ wpc[u] # "arrive"
    BY DEF StartTogether
  <2>1. Beyond(t)
    BY DEF Beyond
  <2>2. Pending(t)
    BY DEF IInv, SlotInv, Idle
  <2>3. mpc \notin {"fill", "queue"}
    BY <2>1, NobodyBeyondYet
  <2> QED
    BY <2>1, <2>2, <2>3 DEF TogetherInv, Outside, Pending
<1> QED
  BY <1>1, Inductive, TogetherInductive, PTL

-----------------------------------------------------------------------------
(* In the last round no results are written, a thread still runs until it  *)
(* has made its only call, and those before main's current one are         *)
(* stopped.                                                                *)
StopInv ==
  /\ round = StopRound => result = {}
  /\ \A t \in Threads :
       /\ ~run[t] => wpc[t] \in {"loop", "exited"} \/ (wpc[t] = "ready" /\ rep[t] > 0)
       /\ round = StopRound /\ mpc # "start" /\ 0 < t /\ t < idx => ~run[t]

(* What a thread reads through its pointer, and who else is at work. *)
LEMMA AtWork ==
  ASSUME IInv, RInv, NEW u \in Threads, wpc[u] \in {"ready", "call"}
  PROVE  /\ Pending(u) /\ mpc \in {"fill", "queue", "dirigent", "collect"}
         /\ ItemOf(u) = [ops |-> Ops(round, cpu[u]), row |-> u, reps |-> Reps(round)]
         /\ (ItemOf(u).ops = StopOps <=> round = StopRound)
         /\ ~Wide(round) => u = idx /\ mpc \in {"dirigent", "collect"}
         /\ s[u] = "WORKING"
<1>1. /\ Working(u) /\ Pending(u)
      /\ ItemOf(u) = [ops |-> Ops(round, cpu[u]), row |-> u, reps |-> Reps(round)]
  BY WorkingThread DEF RInv
<1>2. round = StopRound => Ops(round, cpu[u]) = StopOps
  BY ConstantFacts DEF Ops
<1> QED
  BY <1>1, <1>2, ConstantFacts DEF Pending, Working, IInv, TypeOK

LEMMA NextStop == IInv /\ IInv' /\ RInv /\ StopInv /\ [Next]_vars => StopInv'
<1> SUFFICES ASSUME IInv, IInv', RInv, StopInv, [Next]_vars
             PROVE  StopInv'
  OBVIOUS
<1> USE ConstantFacts DEF IInv, StopInv, mainvars, slots, state, local, barrier, Dirigent
<1>1. CASE MainStep
  <2>1. \/ UNCHANGED <<round, result, run, rep>>
        \/ PrintResult
    BY <1>1
    DEF MainStep, BeginStep, FillItem, QueueWork, DirigentReturns, SleepForDone,
        TakeDone, Join, FreeStep
  <2>2. \A t \in Threads : wpc'[t] = wpc[t] \/ (t = Dirigent /\ run[t])
    BY <1>1
    DEF MainStep, BeginStep, FillItem, QueueWork, AfterQueue, CallDirigent, DirigentReturns,
        SleepForDone, TakeDone, Join, FreeStep, PrintResult, RunInv, TypeOK
  <2>3. ASSUME NEW t \in Threads, round = StopRound, mpc # "start", 0 < t, t < idx'
        PROVE  t < idx \/ ~run[t]
    <3>1. CASE Join
      BY <2>3, <3>1 DEF Join, NextThread, RunInv, TypeOK
    <3>2. CASE ~Join
      BY <1>1, <2>3, <3>2
      DEF MainStep, BeginStep, FillItem, QueueWork, AfterQueue, DirigentReturns, MainInv,
          SleepForDone, TakeDone, FreeStep, PrintResult, TypeOK
    <3> QED
      BY <3>1, <3>2
  <2>4. CASE PrintResult
    BY <2>2, <2>4 DEF PrintResult, TypeOK
  <2>5. CASE BeginStep
    BY <2>5 DEF BeginStep, TypeOK
  <2>6. CASE mpc # "start" /\ UNCHANGED <<round, result, run, rep>>
    BY <2>2, <2>3, <2>6 DEF TypeOK
  <2> QED
    BY <1>1, <2>1, <2>4, <2>5, <2>6
    DEF MainStep, FillItem, QueueWork, DirigentReturns, SleepForDone, MainAwake, TakeDone,
        Join, FreeStep
<1>2. ASSUME NEW u \in Threads, WorkerStep(u)
      PROVE  StopInv'
  <2>1. CASE Enter(u)
    <3>1. run[u]
      BY <2>1 DEF Enter
    <3> QED
      BY <2>1, <3>1 DEF Enter, TypeOK
  <2>2. CASE CheckRun(u)
    BY <2>2 DEF CheckRun, TypeOK
  <2>3. CASE SleepForWork(u)
    BY <2>3 DEF SleepForWork
  <2>4. CASE FetchWork(u)
    BY <2>4 DEF FetchWork, WorkerAwake, TypeOK
  <2>5. CASE Arrive(u)
    BY <2>5 DEF Arrive, TypeOK
  <2>6. CASE Depart(u)
    BY <2>6 DEF Depart, TypeOK
  <2>7. CASE StartCall(u)
    <3>1. Reps(round) = 1 \/ round # StopRound
      BY DEF Reps
    <3>2. run[u]
      BY <2>7, <3>1, AtWork DEF StartCall, RunInv, TypeOK
    <3> QED
      BY <2>7, <3>2 DEF StartCall, TypeOK
  <2>8. CASE EndCall(u)
    BY <2>8, AtWork DEF EndCall, TypeOK
  <2>9. CASE ReturnWork(u)
    BY <2>9 DEF ReturnWork, TypeOK
  <2> QED
    BY <1>2, <2>1, <2>2, <2>3, <2>4, <2>5, <2>6, <2>7, <2>8, <2>9 DEF WorkerStep
<1>3. ASSUME NEW u \in Threads, SpuriousWakeup(u)
      PROVE  StopInv'
  BY <1>3 DEF SpuriousWakeup
<1>4. CASE UNCHANGED vars
  BY <1>4 DEF vars
<1> QED
  BY <1>1, <1>2, <1>3, <1>4 DEF Next, Finished

THEOREM StopInductive == Spec => []StopInv
<1>1. Init => StopInv
  BY ConstantFacts DEF Init, StopInv
<1> QED
  BY <1>1, NextStop, Inductive, ResultsInductive, PTL DEF Spec

-----------------------------------------------------------------------------
(* A row of the results is as long as its thread has progressed. *)
LEMMA CallsMade ==
  ASSUME IInv, RInv, round # StopRound, NEW t \in Threads
  PROVE  /\ Progress(t) \in 0 .. Reps(round)
         /\ Promise!Calls(t) = 0 .. Progress(t) - 1
         /\ \A x \in result : x.row = t => x.ops = Ops(round, cpu[t])
<1> USE ConstantFacts DEF IInv, RInv
<1>1. Progress(t) \in 0 .. Reps(round)
  <2>1. Reps(round) \in Nat /\ rep[t] \in Nat
    BY DEF TypeOK
  <2>2. (wpc[t] = "ready" => rep[t] <= Reps(round)) /\ (wpc[t] = "call" => rep[t] < Reps(round))
    BY DEF WorkInv
  <2> QED
    BY <2>1, <2>2 DEF Progress
<1>2. \A x \in result : x.row = t => x = Entry(t, x.rep) /\ x.rep \in 0 .. Progress(t) - 1
  BY <1>1 DEF ResultInv, TypeOK, Records
<1>3. \A k \in 0 .. Progress(t) - 1 : Entry(t, k) \in result
  BY <1>1 DEF ResultInv, TypeOK
<1>4. Promise!Calls(t) = 0 .. Progress(t) - 1
  BY <1>2, <1>3 DEF Promise!Calls, Entry
<1> QED
  BY <1>1, <1>2, <1>4 DEF Entry

LEMMA JobsGiven ==
  ASSUME NEW r \in AllRounds, r # StopRound, NEW c, NEW t
  PROVE  Ops(r, c) \in Jobs(r, t)
<1>1. CASE Policy # "pair"
  BY <1>1 DEF Ops, Jobs
<1>2. CASE Policy = "pair"
  BY <1>2, WorkersAssumption DEF Ops, Jobs, AllRounds, StopRound, LastRound, First, Second
<1> QED
  BY <1>1, <1>2

LEMMA PromisedInit == Init => Promise!Init
  BY ConstantFacts DEF Init, Promise!Init

LEMMA MainKeepsPromise ==
  ASSUME IInv, RInv, StopInv, MainStep
  PROVE  [Promise!Next]_(Promise!cvars)
<1> USE ConstantFacts DEF mainvars, slots, state, local, barrier, Dirigent
<1>1. CASE PrintResult
  <2>1. \A t \in Threads : wpc[t] # "call"
    BY <1>1 DEF PrintResult, IInv, SlotInv, Pending, Idle
  <2>2. CASE round = StopRound
    BY <1>1, <2>2 DEF PrintResult, StopInv, Promise!cvars
  <2>3. CASE round # StopRound
    <3>1. \A t \in Threads : Promise!Complete(t)
      BY <1>1, <2>3, CallsMade DEF PrintResult, Progress, Collected, Promise!Complete
    <3>2. Promise!NextRound
      BY <1>1, <2>1, <2>3, <3>1 DEF PrintResult, Promise!NextRound, Promise!StopRound, StopRound
    <3> QED
      BY <3>2 DEF Promise!Next
  <2> QED
    BY <2>2, <2>3
<1>2. CASE ~PrintResult
  <2>1. UNCHANGED <<round, result, run>>
    BY <1>1, <1>2
    DEF MainStep, BeginStep, FillItem, QueueWork, DirigentReturns, SleepForDone, TakeDone, Join,
        FreeStep
  <2>2. \A t \in Threads : wpc'[t] = "call" <=> wpc[t] = "call"
    BY <1>1, <1>2
    DEF MainStep, BeginStep, FillItem, QueueWork, AfterQueue, CallDirigent, DirigentReturns,
        SleepForDone, TakeDone, Join, FreeStep, IInv, DirigentInv, TypeOK
  <2> QED
    BY <2>1, <2>2 DEF Promise!cvars
<1> QED
  BY <1>1, <1>2

LEMMA WorkerKeepsPromise ==
  ASSUME IInv, RInv, StopInv, NEW u \in Threads, WorkerStep(u)
  PROVE  [Promise!Next]_(Promise!cvars)
<1> USE ConstantFacts DEF mainvars, slots, state, local, barrier, Dirigent
<1> DEFINE calls == {t \in Threads : wpc[t] = "call"}
           runs == {t \in Threads : run[t]}
<1>1. CASE StartCall(u)
  <2>1. calls' = calls \cup {u} /\ u \notin calls /\ UNCHANGED <<round, result, run>>
    BY <1>1 DEF StartCall, IInv, TypeOK
  <2>2. CASE round # StopRound
    <3>1. ~Promise!Complete(u)
      <4>1. Progress(u) = rep[u] /\ rep[u] < Reps(round) /\ rep[u] \in Nat
        BY <1>1, AtWork DEF StartCall, Progress, Collected, Pending, IInv, TypeOK
      <4>2. Promise!Calls(u) = 0 .. rep[u] - 1
        BY <2>2, <4>1, CallsMade
      <4>3. Reps(round) \in Nat
        BY DEF IInv, TypeOK
      <4>4. rep[u] \in 0 .. Reps(round) - 1 /\ rep[u] \notin 0 .. rep[u] - 1
        BY <4>1, <4>3
      <4> QED
        BY <4>2, <4>4 DEF Promise!Complete
    <3>2. ASSUME ~Wide(round), NEW t \in Threads, t # u
          PROVE  t \notin calls /\ (t < u => Promise!Complete(t))
      <4>1. t \notin calls
        BY <1>1, <3>2, AtWork DEF StartCall
      <4>2. t < u => Progress(t) = Reps(round)
        BY <1>1, <3>2, AtWork DEF StartCall, Progress, Collected
      <4> QED
        BY <2>2, <4>1, <4>2, CallsMade DEF Promise!Complete
    <3>3. Promise!StartCall(u)
      BY <2>1, <2>2, <3>1, <3>2 DEF Promise!StartCall, Promise!StopRound, StopRound
    <3> QED
      BY <3>3 DEF Promise!Next
  <2>3. CASE round = StopRound
    <3>1. ~Wide(round) /\ u = idx /\ u > 0 /\ mpc # "start"
      BY <1>1, <2>3, AtWork DEF StartCall, IInv, TypeOK, MainInv
    <3>2. calls = {}
      BY <1>1, <2>1, <3>1, AtWork
    <3>3. run[u]
      BY <1>1, <2>3, AtWork DEF StartCall, StopInv, Reps, IInv, TypeOK
    <3>4. \A t \in runs \ {0} : u <= t
      BY <2>3, <3>1 DEF StopInv
    <3>5. Promise!StartStop(u)
      BY <2>1, <2>3, <3>1, <3>2, <3>3, <3>4 DEF Promise!StartStop, Promise!StopRound, StopRound
    <3> QED
      BY <3>5 DEF Promise!Next
  <2> QED
    BY <2>2, <2>3
<1>2. CASE EndCall(u)
  <2>1. calls' = calls \ {u} /\ u \in calls /\ UNCHANGED round
    BY <1>2 DEF EndCall, IInv, TypeOK
  <2>2. CASE round # StopRound
    <3>1. result' = result \cup {Entry(u, rep[u])} /\ UNCHANGED run
      BY <1>2, <2>2, AtWork DEF EndCall, Entry
    <3>2. Progress(u) = rep[u] /\ rep[u] \in 0 .. Reps(round) - 1
      BY <1>2, AtWork DEF EndCall, Progress, Collected, Pending, IInv, TypeOK, RInv, WorkInv
    <3>3. /\ Promise!Calls(u) = 0 .. rep[u] - 1
          /\ \A x \in result : x.row = u => x.ops = Ops(round, cpu[u])
      BY <2>2, <3>2, CallsMade
    <3>4. Ops(round, cpu[u]) \in Jobs(round, u)
      BY <2>2, JobsGiven DEF IInv, TypeOK
    <3>5. Promise!EndCall(u)
      BY <2>1, <2>2, <3>1, <3>2, <3>3, <3>4
      DEF Promise!EndCall, Promise!StopRound, StopRound, Entry
    <3> QED
      BY <3>5 DEF Promise!Next
  <2>3. CASE round = StopRound
    <3>1. runs' = runs \ {u} /\ UNCHANGED result
      BY <1>2, <2>3, AtWork DEF EndCall, IInv, TypeOK
    <3>2. Promise!EndStop(u)
      BY <2>1, <2>3, <3>1 DEF Promise!EndStop, Promise!StopRound, StopRound
    <3> QED
      BY <3>2 DEF Promise!Next
  <2> QED
    BY <2>2, <2>3
<1>3. CASE ~StartCall(u) /\ ~EndCall(u)
  <2>1. UNCHANGED <<round, result>>
    BY <1>3
    DEF WorkerStep, Enter, CheckRun, SleepForWork, FetchWork, Arrive, Depart, ReturnWork
  <2>2. \A t \in Threads : wpc'[t] = "call" <=> wpc[t] = "call"
    BY <1>3
    DEF WorkerStep, Enter, CheckRun, SleepForWork, FetchWork, WorkerAwake, Arrive, Depart,
        ReturnWork, IInv, TypeOK
  <2>3. runs' = runs
    <3>1. CASE Enter(u)
      BY <3>1 DEF Enter, StopInv, IInv, TypeOK
    <3>2. CASE ~Enter(u)
      BY <1>3, <3>2
      DEF WorkerStep, CheckRun, SleepForWork, FetchWork, Arrive, Depart, ReturnWork
    <3> QED
      BY <3>1, <3>2
  <2> QED
    BY <2>1, <2>2, <2>3 DEF Promise!cvars
<1> QED
  BY <1>1, <1>2, <1>3

(* The threads, slots and barriers implement the campaign the user asked   *)
(* for (main.cc:810-841): every step of theirs is a step of Campaign or    *)
(* changes nothing it mentions.                                            *)
THEOREM ImplementsCampaign == Spec => CampaignSpec
<1>1. IInv /\ RInv /\ StopInv /\ [Next]_vars => [Promise!Next]_(Promise!cvars)
  <2> SUFFICES ASSUME IInv, RInv, StopInv, [Next]_vars
               PROVE  [Promise!Next]_(Promise!cvars)
    OBVIOUS
  <2>1. ASSUME NEW t \in Threads, SpuriousWakeup(t)
        PROVE  UNCHANGED Promise!cvars
    BY <2>1 DEF SpuriousWakeup, mainvars, state, local, Promise!cvars
  <2>2. CASE UNCHANGED vars
    BY <2>2 DEF vars, mainvars, state, local, Promise!cvars
  <2> QED
    BY <2>1, <2>2, MainKeepsPromise, WorkerKeepsPromise DEF Next, Finished
<1> QED
  BY <1>1, PromisedInit, Inductive, ResultsInductive, StopInductive, PTL
  DEF Spec, CampaignSpec, Promise!Spec

=============================================================================
