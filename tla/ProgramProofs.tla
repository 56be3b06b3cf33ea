---------------------------- MODULE ProgramProofs ----------------------------
(***************************************************************************)
(* Theorems about Program, for every machine, cpuset and command line.     *)
(* While main spawns, the threads created already can do no more than wait *)
(* for work; when it has finished, the state satisfies the inductive       *)
(* invariants of Workers, which hold from then on.                         *)
(***************************************************************************)
EXTENDS Program, WorkersResults, WellFoundedInduction

-----------------------------------------------------------------------------
(* The machine: each object has a first PU, and no two the same.           *)
LEMMA FirstPUFacts ==
  /\ \A i \in 1 .. Len(Objects) : FirstPU(Objects[i]) \in Objects[i] /\ Objects[i] \subseteq Cpus
  /\ \A i, j \in 1 .. Len(Objects) :
       FirstPU(Objects[i]) = FirstPU(Objects[j]) => i = j
<1>1. ASSUME NEW i \in 1 .. Len(Objects)
      PROVE  FirstPU(Objects[i]) \in Objects[i] /\ Objects[i] \subseteq Cpus
  <2>1. Objects[i] \in (SUBSET Cpus) \ {{}}
    BY SpawnAssumption
  <2>2. Objects[i] \in SUBSET Nat /\ Objects[i] # {}
    <3>1. Cpus \in SUBSET Nat
      BY SpawnAssumption
    <3> QED
      BY <2>1, <3>1
  <2>3. PICK x \in Objects[i] : \A y \in Objects[i] : ~(<<y, x>> \in OpToRel(<, Nat))
    BY <2>2, NatLessThanWellFounded, WFMin, Zenon
  <2>4. \A y \in Objects[i] : x <= y
    <3>1. \A y \in Objects[i] : y \in Nat /\ x \in Nat
      BY <2>2
    <3>2. \A y \in Objects[i] : ~(y < x)
      BY <2>3, <3>1 DEF OpToRel
    <3> QED
      BY <3>1, <3>2
  <2> QED
    BY <2>1, <2>4 DEF FirstPU
<1>2. ASSUME NEW i \in 1 .. Len(Objects), NEW j \in 1 .. Len(Objects),
             FirstPU(Objects[i]) = FirstPU(Objects[j])
      PROVE  i = j
  <2>1. Objects[i] \cap Objects[j] # {}
    BY <1>1, <1>2
  <2> QED
    BY <2>1, SpawnAssumption
<1> QED
  BY <1>1, <1>2

(* The index of thread t's object. *)
Place == CHOOSE place \in [Threads -> Picked] : PlacesInOrder(place)

LEMMA PlaceFacts ==
  /\ \A t \in Threads : Place[t] \in Picked /\ Home[t] = FirstPU(Objects[Place[t]])
  /\ \A t, u \in Threads : t < u => Place[t] < Place[u]
  /\ \A i \in Picked : \E t \in Threads : i = Place[t]
  /\ \A t \in Threads : Home[t] \in Cpuset
  /\ \A t, u \in Threads : Home[t] = Home[u] => t = u
<1>1. Place \in [Threads -> Picked] /\ PlacesInOrder(Place)
  BY SpawnAssumption DEF Place
<1>2. \A t \in Threads : Place[t] \in Picked /\ Home[t] = FirstPU(Objects[Place[t]])
  BY <1>1 DEF PlacesInOrder
<1>3. \A t, u \in Threads : t < u => Place[t] < Place[u]
  BY <1>1 DEF PlacesInOrder
<1>4. \A t, u \in Threads : Home[t] = Home[u] => t = u
  <2> SUFFICES ASSUME NEW t \in Threads, NEW u \in Threads, Home[t] = Home[u]
               PROVE  t = u
    OBVIOUS
  <2>1. Place[t] = Place[u] /\ Place[t] \in Nat
    BY <1>2, FirstPUFacts DEF Picked
  <2>2. ~(t < u) /\ ~(u < t)
    BY <1>3, <2>1
  <2> QED
    BY <2>2 DEF Threads
<1> QED
  BY <1>1, <1>2, <1>3, <1>4 DEF PlacesInOrder, Picked

-----------------------------------------------------------------------------
(* The walk over the objects: it has passed the objects of the threads     *)
(* counted so far, and of no others.                                       *)
WalkInv ==
  /\ spc \in {"pick", "create", "returned", "null", "crashed", "exited", "aborted"}
  /\ pu \in 0 .. Len(Objects)
  /\ next \in 0 .. N
  /\ created \subseteq {t \in Threads : t > 0 /\ t < next}
  /\ present \in BOOLEAN
  /\ \A t \in Threads : t < next <=> Place[t] <= pu
  /\ spc \in {"create", "null", "crashed"} =>
       next \in Threads /\ next > 0 /\ Place[next] = pu + 1 /\ pu < Len(Objects)
  /\ allocated = {Home[t] : t \in {u \in Threads : Prepared(u)}}
  /\ spc = "returned" => pu = Len(Objects) /\ AllAllocated

(* While main spawns, all threads but the dirigent are on their way to     *)
(* their first item, and find nothing in their slot.                       *)
QuietInv ==
  spc # "returned" =>
    /\ mpc = "start" /\ round = 0 /\ idx = 0 /\ alive = FALSE
    /\ items = [i \in Threads |-> NoItem]
    /\ s \in [Threads -> {"IDLE", "QUEUED", "WORKING", "DONE"}]
    /\ work \in [Threads -> Pointers \cup {NoWork}]
    /\ cv \in [Threads -> SUBSET {"worker"}]
    /\ run \in [Threads -> BOOLEAN]
    /\ init \in [Threads -> BOOLEAN]
    /\ cpu \in [Threads -> Cpus]
    /\ bound \in [Threads -> BOOLEAN]
    /\ wpc \in [Threads -> {"enter", "loop", "fetch", "exited"}]
    /\ hold = [t \in Threads |-> NoWork]
    /\ rep = [t \in Threads |-> 0]
    /\ result = {}
    /\ limit = 0 /\ arrived = {} /\ leaving = {}
    /\ \A t \in Threads :
         /\ Prepared(t) => s[t] = "IDLE" /\ work[t] = NoWork /\ run[t]
         /\ wpc[t] = "exited" <=> t = Dirigent
         /\ wpc[t] \in {"loop", "fetch"} => init[t] /\ Prepared(t)
         /\ cv[t] # {} => wpc[t] = "fetch"

(* A bound thread is on the first PU of its object. *)
HomeInv == DoBinding => \A t \in Threads : Prepared(t) => cpu[t] = Home[t]

(* From then on the invariants of Workers hold. *)
RoundsInv == spc = "returned" => IInv /\ RInv /\ TogetherInv /\ StopInv

SpawnInv == WalkInv /\ QuietInv /\ HomeInv /\ RoundsInv

LEMMA InitSpawn == SpawnInit => SpawnInv
<1> SUFFICES ASSUME SpawnInit PROVE SpawnInv
  OBVIOUS
<1> USE ConstantFacts DEF SpawnInit, Dirigent
<1>1. WalkInv
  <2>1. \A t \in Threads : ~(t < next) /\ ~Prepared(t) /\ ~(Place[t] <= pu)
    BY PlaceFacts DEF Prepared, Picked
  <2>2. Len(Objects) \in Nat
    BY SpawnAssumption
  <2>3. present \in BOOLEAN
    OBVIOUS
  <2> QED
    BY <2>1, <2>2, <2>3 DEF WalkInv
<1>2. QuietInv
  <2>1. <<0, 0>> \in Pointers
    BY DEF Pointers, AllRounds
  <2>2. work \in [Threads -> Pointers \cup {NoWork}]
    BY <2>1
  <2>3. \A t \in Threads : ~Prepared(t)
    BY DEF Prepared
  <2>4. cpu \in [Threads -> Cpus]
    OBVIOUS
  <2> QED
    BY <2>2, <2>3, <2>4 DEF QuietInv
<1>3. HomeInv
  BY DEF HomeInv, Prepared
<1> QED
  BY <1>1, <1>2, <1>3 DEF SpawnInv, RoundsInv

(* The first object that has not been passed and gets a thread belongs to  *)
(* the next thread.                                                        *)
LEMMA NextPlace ==
  ASSUME WalkInv, spc = "pick", pu < Len(Objects), PickedPU \in Cpuset
  PROVE  next \in Threads /\ Place[next] = pu + 1 /\ PickedPU = Home[next]
<1>1. pu \in Nat /\ next \in Nat /\ pu + 1 \in Picked
  BY SpawnAssumption DEF WalkInv, Picked, PickedPU
<1>2. PICK t \in Threads : Place[t] = pu + 1
  BY <1>1, PlaceFacts
<1>3. ~(t < next) /\ t \in Nat
  BY <1>1, <1>2, ConstantFacts DEF WalkInv
<1>4. \A u \in Threads : u < t => u < next
  <2> SUFFICES ASSUME NEW u \in Threads, u < t
               PROVE  u < next
    OBVIOUS
  <2>1. Place[u] < pu + 1 /\ Place[u] \in Nat
    BY <1>2, PlaceFacts DEF Picked
  <2> QED
    BY <1>1, <2>1 DEF WalkInv
<1>5. ~(next < t)
  <2> SUFFICES ASSUME next < t
               PROVE  FALSE
    OBVIOUS
  <2>1. next \in Threads
    BY <1>1, <1>3, ConstantFacts
  <2> QED
    BY <1>1, <1>4, <2>1
<1> QED
  BY <1>1, <1>2, <1>3, <1>5, PlaceFacts DEF PickedPU

LEMMA AllPassed ==
  ASSUME WalkInv, pu = Len(Objects)
  PROVE  next = N /\ (spc \notin {"create", "null", "crashed"} => \A t \in Threads : Prepared(t))
<1>1. \A t \in Threads : Place[t] <= pu
  BY PlaceFacts DEF Picked
<1>2. \A t \in Threads : t < next
  BY <1>1 DEF WalkInv
<1>3. N - 1 \in Threads
  BY ConstantFacts
<1> QED
  BY <1>2, <1>3, ConstantFacts DEF WalkInv, Prepared

(* Workers' invariants hold when the last slot has been filled in. *)
LEMMA QuietStart ==
  ASSUME QuietInv, spc # "returned", \A t \in Threads : Prepared(t)
  PROVE  IInv /\ RInv /\ TogetherInv /\ StopInv
<1> USE ConstantFacts DEF QuietInv
<1>1. IInv
  <2>1. TypeOK
    <3>1. round \in AllRounds /\ idx \in 0 .. N /\ limit \in Nat /\ items \in [Threads -> Items]
      BY DEF AllRounds
    <3>2. /\ cv \in [Threads -> SUBSET {"main", "worker"}]
          /\ hold \in [Threads -> Pointers \cup {NoWork}] /\ rep \in [Threads -> Nat]
      OBVIOUS
    <3>3. wpc \in [Threads -> {"enter", "loop", "fetch", "arrive", "barrier", "ready",
                              "call", "exited"}]
      OBVIOUS
    <3> QED
      BY <3>1, <3>2, <3>3 DEF TypeOK
  <2>2. \A t \in Threads : Idle(t) /\ ~Pending(t)
    BY DEF Idle, Pending
  <2>3. \A t \in Threads : cv[t] \subseteq {"worker"}
    OBVIOUS
  <2> QED
    BY <2>1, <2>2, <2>3
    DEF IInv, MainInv, DirigentInv, SlotInv, CvInv, ItemInv, RunInv, BarrierInv, B!Inside, Dirigent
<1>2. RInv
  <2>1. EntryInv
    BY DEF EntryInv, Started
  <2>2. WorkInv
    BY DEF WorkInv
  <2>3. ResultInv
    <3>1. \A t \in Threads : Progress(t) = 0
      BY DEF Progress, Collected
    <3> QED
      BY <3>1 DEF ResultInv
  <2> QED
    BY <2>1, <2>2, <2>3 DEF RInv
<1>3. TogetherInv
  <2>1. \A t \in Threads : ~Outside(t) /\ wpc[t] # "barrier"
    BY DEF Outside
  <2> QED
    BY <2>1 DEF TogetherInv
<1>4. StopInv
  BY DEF StopInv
<1> QED
  BY <1>1, <1>2, <1>3, <1>4

-----------------------------------------------------------------------------
LEMMA PrepareStep == SpawnInv /\ Prepare => SpawnInv'
<1> SUFFICES ASSUME SpawnInv, Prepare PROVE SpawnInv'
  OBVIOUS
<1> USE ConstantFacts DEF SpawnInv
<1>1. next \in Threads /\ Place[next] = pu + 1 /\ PickedPU = Home[next] /\ spc = "pick"
      /\ pu \in Nat /\ pu < Len(Objects) /\ Len(Objects) \in Nat
  BY NextPlace, SpawnAssumption DEF Prepare, Looking, WalkInv
<1>2. /\ \/ spc' = "create" /\ pu' = pu /\ next' = next /\ next > 0
         \/ spc' = "pick" /\ pu' = pu + 1 /\ next' = 1 /\ next = 0
      /\ \A t \in Threads : Prepared(t)' <=> Prepared(t) \/ t = next
  BY <1>1 DEF Prepare, Prepared
<1>3. WalkInv'
  <2>1. allocated' = {Home[t] : t \in {u \in Threads : Prepared(u)'}}
    <3>1. allocated' = allocated \cup {Home[next]}
      BY <1>1 DEF Prepare
    <3> QED
      BY <1>1, <1>2, <3>1 DEF WalkInv
  <2>2. next = 0 => \A t \in Threads : t < 1 <=> Place[t] <= pu + 1
    <3> SUFFICES ASSUME next = 0, NEW t \in Threads
                 PROVE  t < 1 <=> Place[t] <= pu + 1
      OBVIOUS
    <3>1. t = 0 \/ (0 < t /\ Place[0] < Place[t])
      BY PlaceFacts
    <3>2. Place[t] \in Nat /\ Place[0] = pu + 1
      BY <1>1, <3>1, PlaceFacts DEF Picked
    <3> QED
      BY <1>1, <3>1, <3>2
  <2>3. created' = created /\ present' = present
    BY DEF Prepare
  <2> QED
    BY <1>1, <1>2, <2>1, <2>2, <2>3 DEF WalkInv
<1>4. QuietInv'
  <2>1. cpu' \in [Threads -> Cpus] /\ s' \in [Threads -> {"IDLE", "QUEUED", "WORKING", "DONE"}]
        /\ work' \in [Threads -> Pointers \cup {NoWork}] /\ run' \in [Threads -> BOOLEAN]
    BY <1>1, WorkersAssumption DEF Prepare, QuietInv
  <2>2. \A t \in Threads : Prepared(t)' => s'[t] = "IDLE" /\ work'[t] = NoWork /\ run'[t]
    BY <1>1, <1>2 DEF Prepare, QuietInv
  <2> QED
    BY <1>1, <1>2, <2>1, <2>2 DEF Prepare, QuietInv, mainvars, local, barrier
<1>5. HomeInv'
  BY <1>1, <1>2 DEF HomeInv, Prepare, QuietInv
<1>6. RoundsInv'
  BY <1>2 DEF RoundsInv
<1> QED
  BY <1>3, <1>4, <1>5, <1>6

(* The other steps of spawn_workers touch no slot. *)
LEMMA OtherSpawnSteps ==
  ASSUME SpawnInv, NoObject \/ Skip \/ Create \/ CreateFails \/ UseNull \/ Finish
  PROVE  SpawnInv'
<1> USE ConstantFacts DEF SpawnInv
<1>0. Len(Objects) \in Nat /\ pu \in Nat /\ next \in Nat /\ UNCHANGED vars /\ spc # "returned"
      /\ (spc' = "returned" => Finish)
  BY SpawnAssumption DEF WalkInv, NoObject, Skip, Create, CreateFails, UseNull, Finish, Looking
<1>1. WalkInv' /\ \A t \in Threads : Prepared(t)' <=> Prepared(t)
  <2>1. CASE NoObject
    BY <2>1 DEF NoObject, Looking, WalkInv, Prepared
  <2>2. CASE Skip
    <3>1. pu + 1 \notin Picked /\ spc = "pick"
      BY <1>0, <2>2 DEF Skip, Looking, Picked, PickedPU
    <3>2. \A t \in Threads : Place[t] <= pu + 1 <=> Place[t] <= pu
      <4>1. \A t \in Threads : Place[t] # pu + 1 /\ Place[t] \in Nat
        BY <3>1, PlaceFacts DEF Picked
      <4> QED
        BY <1>0, <4>1
    <3>3. pu + 1 \in 0 .. Len(Objects)
      BY <1>0, <2>2 DEF Skip, Looking
    <3>4. \A t \in Threads : Prepared(t)' <=> Prepared(t)
      BY <2>2 DEF Skip, Prepared
    <3> QED
      BY <2>2, <3>1, <3>2, <3>3, <3>4 DEF Skip, WalkInv
  <2>3. CASE Create
    <3>1. \A t \in Threads : Prepared(t)' <=> Prepared(t)
      BY <1>0, <2>3 DEF Create, Prepared
    <3>2. next \in Threads /\ next > 0 /\ Place[next] = pu + 1 /\ pu < Len(Objects)
      BY <2>3 DEF Create, WalkInv
    <3>3. \A t \in Threads : t < next + 1 <=> Place[t] <= pu + 1
      <4> SUFFICES ASSUME NEW t \in Threads PROVE t < next + 1 <=> Place[t] <= pu + 1
        OBVIOUS
      <4>1. t < next \/ t = next \/ (next < t /\ Place[next] < Place[t])
        BY <3>2, PlaceFacts
      <4>2. Place[t] \in Nat /\ (t < next => Place[t] <= pu)
        BY PlaceFacts DEF Picked, WalkInv
      <4> QED
        BY <1>0, <3>2, <4>1, <4>2
    <3> QED
      BY <1>0, <2>3, <3>1, <3>2, <3>3 DEF Create, WalkInv
  <2>4. CASE CreateFails
    BY <2>4 DEF CreateFails, WalkInv, Prepared
  <2>5. CASE UseNull
    BY <2>5 DEF UseNull, WalkInv, Prepared
  <2>6. CASE Finish
    BY <2>6 DEF Finish, WalkInv, Prepared, AllAllocated
  <2> QED
    BY <2>1, <2>2, <2>3, <2>4, <2>5, <2>6
<1>2. QuietInv'
  BY <1>0, <1>1 DEF QuietInv, vars, mainvars, slots, state, local, barrier
<1>3. HomeInv'
  BY <1>0, <1>1 DEF HomeInv, vars, state
<1>4. RoundsInv'
  <2> SUFFICES ASSUME Finish
               PROVE  IInv' /\ RInv' /\ TogetherInv' /\ StopInv'
    BY <1>0 DEF RoundsInv
  <2>1. \A t \in Threads : Prepared(t)
    BY AllPassed DEF Finish
  <2>2. IInv /\ RInv /\ TogetherInv /\ StopInv
    BY <1>0, <2>1, QuietStart
  <2> QED
    BY <1>0, <2>2
    DEF vars, mainvars, slots, state, local, barrier, IInv, TypeOK, MainInv,
        DirigentInv, SlotInv, Pending, Idle, Uncollected, Queued, Working, Finishing,
        CvInv, ItemInv, RunInv, BarrierInv, B!Inside,
        RInv, EntryInv, Started, WorkInv, ResultInv, Progress, Collected, Entry,
        TogetherInv, Outside, Beyond, StopInv
<1> QED
  BY <1>1, <1>2, <1>3, <1>4

-----------------------------------------------------------------------------
(* Main's and the threads' steps once the threads have been spawned ...    *)
LEMMA RoundSteps ==
  ASSUME SpawnInv, spc = "returned", UNCHANGED svars, Next
  PROVE  SpawnInv'
<1> USE DEF SpawnInv
<1>1. /\ UNCHANGED <<spc, pu, next, created, allocated, present>>
      /\ \A t \in Threads : Prepared(t)' <=> Prepared(t)
  BY DEF svars, Prepared
<1>2. WalkInv' /\ QuietInv'
  BY <1>1 DEF WalkInv, QuietInv, AllAllocated
<1>3. IInv' /\ RInv'
  BY NextIInv, NextResults DEF RoundsInv
<1>4. TogetherInv' /\ StopInv'
  BY <1>3, NextTogether, NextStop DEF RoundsInv
<1>5. HomeInv'
  <2>1. DoBinding => UNCHANGED cpu
    BY
    DEF Next, MainStep, BeginStep, FillItem, QueueWork, DirigentReturns, SleepForDone, TakeDone,
        Join, FreeStep, PrintResult, WorkerStep, Enter, BindThread, CheckRun, SleepForWork,
        FetchWork, Arrive, Depart, StartCall, EndCall, ReturnWork, SpuriousWakeup, Finished,
        vars, state
  <2> QED
    BY <1>1, <2>1 DEF HomeInv
<1> QED
  BY <1>1, <1>2, <1>3, <1>4, <1>5 DEF RoundsInv

(* ... and the threads' before: they enter worker() and look for work. *)
LEMMA EarlySteps ==
  ASSUME SpawnInv, spc # "returned", UNCHANGED svars, NEW t \in created,
         WorkerStep(t) \/ SpuriousWakeup(t)
  PROVE  SpawnInv' /\ (Enter(t) \/ CheckRun(t) \/ SleepForWork(t) \/ SpuriousWakeup(t))
<1> USE ConstantFacts DEF SpawnInv
<1>1. /\ UNCHANGED <<spc, pu, next, created, allocated, present>>
      /\ \A u \in Threads : Prepared(u)' <=> Prepared(u)
  BY DEF svars, Prepared
<1>2. t \in Threads /\ t # Dirigent /\ Prepared(t)
  BY DEF WalkInv, Prepared, Dirigent
<1>3. /\ s[t] = "IDLE" /\ work[t] = NoWork /\ run[t] = TRUE
      /\ wpc[t] \in {"enter", "loop", "fetch"}
  BY <1>2 DEF QuietInv
<1>4. Enter(t) \/ CheckRun(t) \/ SleepForWork(t) \/ SpuriousWakeup(t)
  BY <1>3
  DEF WorkerStep, FetchWork, Arrive, Depart, StartCall, EndCall, ReturnWork
<1>5. WalkInv' /\ RoundsInv'
  BY <1>1 DEF WalkInv, RoundsInv, AllAllocated
<1>6. QuietInv'
  <2> USE DEF mainvars, slots, state, local, barrier
  <2>1. CASE Enter(t)
    <3>1. cpu' \in [Threads -> Cpus] /\ bound' \in [Threads -> BOOLEAN]
      <4>1. CASE UNCHANGED <<cpu, bound>>
        BY <4>1 DEF QuietInv
      <4>2. CASE bound' = [bound EXCEPT ![t] = TRUE] /\ UNCHANGED cpu
        BY <4>2 DEF QuietInv
      <4>3. ASSUME NEW c \in Cpus, cpu' = [cpu EXCEPT ![t] = c], UNCHANGED bound
            PROVE  cpu' \in [Threads -> Cpus] /\ bound' \in [Threads -> BOOLEAN]
        BY <4>3 DEF QuietInv
      <4> QED
        BY <2>1, <4>1, <4>2, <4>3 DEF Enter, BindThread
    <3>2. /\ wpc' \in [Threads -> {"enter", "loop", "fetch", "exited"}]
          /\ run' \in [Threads -> BOOLEAN] /\ init' \in [Threads -> BOOLEAN]
      BY <1>2, <2>1 DEF Enter, QuietInv
    <3> QED
      BY <1>1, <1>2, <2>1, <3>1, <3>2 DEF Enter, QuietInv
  <2>2. CASE CheckRun(t)
    BY <1>1, <1>2, <1>3, <2>2 DEF CheckRun, QuietInv
  <2>3. CASE SleepForWork(t)
    BY <1>1, <1>2, <2>3 DEF SleepForWork, WorkerAwake, QuietInv
  <2>4. CASE SpuriousWakeup(t)
    BY <1>1, <1>2, <2>4 DEF SpuriousWakeup, QuietInv
  <2> QED
    BY <1>4, <2>1, <2>2, <2>3, <2>4
<1>7. HomeInv'
  <2>1. DoBinding => UNCHANGED cpu
    BY <1>4 DEF Enter, BindThread, CheckRun, SleepForWork, SpuriousWakeup, state
  <2> QED
    BY <1>1, <2>1 DEF HomeInv
<1> QED
  BY <1>4, <1>5, <1>6, <1>7

LEMMA NextSpawn == SpawnInv /\ [ProgramNext]_pvars => SpawnInv'
<1> SUFFICES ASSUME SpawnInv, [ProgramNext]_pvars
             PROVE  SpawnInv'
  OBVIOUS
<1>1. CASE SpawnStep
  BY <1>1, PrepareStep, OtherSpawnSteps DEF SpawnStep
<1>2. CASE RoundStep
  <2>1. Next /\ spc = "returned" /\ UNCHANGED svars
    BY <1>2 DEF RoundStep, Next
  <2> QED
    BY <2>1, RoundSteps
<1>3. ASSUME NEW t \in Threads, ThreadStep(t) \/ Wakeup(t)
      PROVE  SpawnInv'
  <2>1. /\ WorkerStep(t) \/ SpuriousWakeup(t)
        /\ Running(t)
        /\ UNCHANGED svars
    BY <1>3 DEF ThreadStep, Wakeup
  <2>2. CASE spc = "returned"
    BY <2>1, <2>2, RoundSteps DEF Next
  <2>3. CASE spc # "returned"
    BY <2>1, <2>3, EarlySteps DEF Running
  <2> QED
    BY <2>2, <2>3
<1>4. CASE UNCHANGED <<svars, vars>>
  BY <1>4
  DEF svars, vars, mainvars, slots, state, local, barrier, SpawnInv, WalkInv, QuietInv, HomeInv,
      RoundsInv, Prepared, AllAllocated, IInv, TypeOK, MainInv,
      DirigentInv, SlotInv, Pending, Idle, Uncollected, Queued, Working, Finishing,
      CvInv, ItemInv, RunInv, BarrierInv, B!Inside,
      RInv, EntryInv, Started, WorkInv, ResultInv, Progress, Collected, Entry,
      TogetherInv, Outside, Beyond, StopInv
<1> QED
  BY <1>1, <1>2, <1>3, <1>4
  DEF ProgramNext, MainProgress, TakeDefault, CheckSets, AssertPair, Rest, pvars, setup

(* The invariant of the whole program.                                     *)
THEOREM ProgramInductive == ProgramSpec => []SpawnInv
<1>1. ProgramInit => SpawnInv
  BY InitSpawn DEF ProgramInit
<1> QED
  BY <1>1, NextSpawn, PTL DEF ProgramSpec

-----------------------------------------------------------------------------
(* The checks of the command line.                                         *)
SetupInv ==
  /\ stage \in {"default", "check", "assert", "spawn", "exited", "aborted"}
  /\ cpuset1 \in Lists \cup {Cpus}
  /\ cpuset2 \in Lists
  /\ stage \in {"check", "assert", "spawn"} => cpuset1 # {}
  /\ stage \in {"assert", "spawn"} => Runset \subseteq Cpus

LEMMA NextSetup == SetupInv /\ [ProgramNext]_pvars => SetupInv'
<1> SUFFICES ASSUME SetupInv, [ProgramNext]_pvars PROVE SetupInv'
  OBVIOUS
<1>1. Cpus # {}
  BY ConstantFacts, WorkersAssumption
<1>2. CASE UNCHANGED setup
  BY <1>2 DEF setup, SetupInv, Runset
<1>3. CASE TakeDefault
  BY <1>1, <1>3 DEF TakeDefault, SetupInv, Runset
<1>4. CASE CheckSets
  BY <1>4 DEF CheckSets, SetupInv, Runset
<1>5. CASE AssertPair
  BY <1>5 DEF AssertPair, SetupInv, Runset
<1> QED
  BY <1>2, <1>3, <1>4, <1>5
  DEF ProgramNext, MainProgress, SpawnStep, RoundStep, ThreadStep, Wakeup, Rest, pvars

THEOREM SetupInductive == ProgramSpec => []SetupInv
<1>1. ProgramInit => SetupInv
  BY DEF ProgramInit, SetupInv
<1> QED
  BY <1>1, NextSetup, PTL DEF ProgramSpec

(* Type correctness of main, its walk over the objects and the threads.    *)
THEOREM ProgramTypeCorrect == ProgramSpec => []ProgramTypeOK
<1>1. SpawnInv /\ SetupInv => ProgramTypeOK
  <2> SUFFICES ASSUME SpawnInv, SetupInv PROVE ProgramTypeOK
    OBVIOUS
  <2>1. TypeOK
    <3>1. CASE spc = "returned"
      BY <3>1 DEF SpawnInv, RoundsInv, IInv
    <3>2. CASE spc # "returned"
      <4> USE <3>2, ConstantFacts DEF SpawnInv, QuietInv
      <4>1. round \in AllRounds /\ idx \in 0 .. N /\ limit \in Nat /\ items \in [Threads -> Items]
        BY DEF AllRounds
      <4>2. /\ cv \in [Threads -> SUBSET {"main", "worker"}]
            /\ hold \in [Threads -> Pointers \cup {NoWork}] /\ rep \in [Threads -> Nat]
        OBVIOUS
      <4>3. wpc \in [Threads -> {"enter", "loop", "fetch", "arrive", "barrier", "ready",
                                "call", "exited"}]
        OBVIOUS
      <4> QED
        BY <4>1, <4>2, <4>3 DEF TypeOK
    <3> QED
      BY <3>1, <3>2
  <2>2. allocated \subseteq Cpuset
    BY PlaceFacts DEF SpawnInv, WalkInv
  <2> QED
    BY <2>1, <2>2 DEF SpawnInv, WalkInv, SetupInv, ProgramTypeOK, SpawnTypeOK
<1> QED
  BY <1>1, ProgramInductive, SetupInductive, PTL

(* main hands spawn_workers at least one PU, and only PUs of the machine   *)
(* (main.cc:770-806).                                                      *)
THEOREM RunsetChecked == ProgramSpec => []RunsetIsUsable
<1>1. SetupInv => RunsetIsUsable
  BY DEF SetupInv, RunsetIsUsable, Runset
<1> QED
  BY <1>1, SetupInductive, PTL

-----------------------------------------------------------------------------
(* As many PUs as threads: no two threads have the same. *)
LEMMA HomesCounted ==
  ASSUME NEW S \in SUBSET Threads
  PROVE  Cardinality({Home[t] : t \in S}) = Cardinality(S)
<1> DEFINE f == [t \in S |-> Home[t]]
           T == {Home[t] : t \in S}
<1>1. IsFiniteSet(T)
  <2>1. T \in SUBSET Cpus
    BY WorkersAssumption
  <2> QED
    BY <2>1, SpawnAssumption, FS_Subset
<1>2. f \in [S -> T] /\ \A t, u \in S : f[t] = f[u] => t = u
  BY PlaceFacts
<1>3. \A x \in T : \E t \in S : f[t] = x
  OBVIOUS
<1> HIDE DEF f, T
<1>4. f \in Injection(S, T) /\ f \in Surjection(S, T)
  BY <1>2, <1>3 DEF Injection, Surjection, IsInjective
<1>5. Cardinality(S) = Cardinality(T)
  BY <1>1, <1>4, FS_Injection
<1> QED
  BY <1>5 DEF T

(* Two objects never get the same PU, and after a successful spawn all PUs *)
(* of the cpuset have a thread (main.cc:73-139).                           *)
THEOREM PUsAreNotShared == ProgramSpec => []OneThreadPerPU
<1>1. SpawnInv => OneThreadPerPU
  <2> SUFFICES ASSUME SpawnInv PROVE OneThreadPerPU
    OBVIOUS
  <2>1. Cardinality(allocated) = Cardinality({t \in Threads : Prepared(t)})
    BY HomesCounted DEF SpawnInv, WalkInv
  <2>2. ASSUME spc = "returned"
        PROVE  next = N /\ allocated = Cpuset
    <3>1. IsFiniteSet(Cpuset)
      BY SpawnAssumption, FS_Subset
    <3>2. allocated \subseteq Cpuset
      BY PlaceFacts DEF SpawnInv, WalkInv
    <3>3. Cardinality(allocated) = Cardinality(Cpuset)
      BY <2>2 DEF SpawnInv, WalkInv, AllAllocated
    <3>4. allocated = Cpuset
      BY <3>1, <3>2, <3>3, FS_Subset
    <3> QED
      BY <2>2, <3>4, AllPassed DEF SpawnInv, WalkInv
  <2> QED
    BY <2>1, <2>2 DEF OneThreadPerPU
<1> QED
  BY <1>1, ProgramInductive, PTL

-----------------------------------------------------------------------------
(* All PUs of the cpuset are the first ones of their objects, which is     *)
(* what gets a thread.                                                     *)
FirstsOnly == \A c \in Cpuset : \E i \in 1 .. Len(Objects) : c = FirstPU(Objects[i])

LEMMA FirstsAreHomes == FirstsOnly <=> {Home[t] : t \in Threads} = Cpuset
<1>1. ASSUME FirstsOnly, NEW c \in Cpuset
      PROVE  \E t \in Threads : c = Home[t]
  <2>1. PICK i \in 1 .. Len(Objects) : c = FirstPU(Objects[i])
    BY <1>1 DEF FirstsOnly
  <2>2. i \in Picked
    BY <2>1 DEF Picked
  <2> QED
    BY <2>1, <2>2, PlaceFacts
<1>2. ASSUME {Home[t] : t \in Threads} = Cpuset, NEW c \in Cpuset
      PROVE  \E i \in 1 .. Len(Objects) : c = FirstPU(Objects[i])
  <2>1. PICK t \in Threads : c = Home[t]
    BY <1>2
  <2> QED
    BY <2>1, PlaceFacts DEF Picked
<1> QED
  BY <1>1, <1>2, PlaceFacts DEF FirstsOnly

(* spawn_workers' last assertion (main.cc:139) is the question whether the *)
(* cpuset has other PUs than the first of each core: without them it holds *)
(* and with one of them no spawn succeeds.  With PUs instead of cores      *)
(* there are none.                                                         *)
THEOREM SpawnNeedsFirsts ==
  /\ FirstsOnly => (ProgramSpec => []WeightsAgree)
  /\ ~FirstsOnly => (ProgramSpec => [](spc # "returned"))
  /\ Type = "PU" => FirstsOnly
<1>1. ASSUME SpawnInv, pu = Len(Objects), spc \notin {"create", "null", "crashed"}
      PROVE  allocated = {Home[t] : t \in Threads}
  BY <1>1, AllPassed DEF SpawnInv, WalkInv
<1>2. ASSUME FirstsOnly
      PROVE  ProgramSpec => []WeightsAgree
  <2>1. ProgramInit => WeightsAgree
    BY DEF ProgramInit, SpawnInit, WeightsAgree
  <2>2. SpawnInv /\ WeightsAgree /\ [ProgramNext]_pvars => WeightsAgree'
    <3> SUFFICES ASSUME SpawnInv, WeightsAgree, [ProgramNext]_pvars
                 PROVE  WeightsAgree'
      OBVIOUS
    <3>1. CASE Finish
      <4>1. allocated = Cpuset
        BY <1>1, <1>2, <3>1, FirstsAreHomes DEF Finish
      <4> QED
        BY <3>1, <4>1 DEF Finish, AllAllocated, WeightsAgree
    <3>2. CASE NoObject \/ Skip \/ Prepare \/ Create \/ CreateFails \/ UseNull
      BY <3>2
      DEF NoObject, Skip, Prepare, Create, CreateFails, UseNull, Looking, WeightsAgree
    <3>3. CASE UNCHANGED spc
      BY <3>3 DEF WeightsAgree
    <3> QED
      BY <3>1, <3>2, <3>3
      DEF ProgramNext, MainProgress, TakeDefault, CheckSets, AssertPair, SpawnStep, RoundStep,
          ThreadStep, Wakeup, Rest, pvars, svars
  <2> QED
    BY <2>1, <2>2, ProgramInductive, PTL DEF ProgramSpec
<1>3. ASSUME ~FirstsOnly
      PROVE  ProgramSpec => [](spc # "returned")
  <2>1. OneThreadPerPU /\ SpawnInv => spc # "returned"
    BY <1>1, <1>3, FirstsAreHomes DEF OneThreadPerPU, SpawnInv, WalkInv
  <2> QED
    BY <2>1, PUsAreNotShared, ProgramInductive, PTL
<1>4. ASSUME Type = "PU", NEW c \in Cpuset
      PROVE  \E i \in 1 .. Len(Objects) : c = FirstPU(Objects[i])
  <2>1. PICK i \in 1 .. Len(Objects) : c \in Objects[i]
    BY SpawnAssumption
  <2>2. Objects[i] = {c}
    <3>1. \A j \in 1 .. Len(Objects) : \E d \in Cpus : Objects[j] = {d}
      BY <1>4, SpawnAssumption
    <3>2. PICK d \in Cpus : Objects[i] = {d}
      BY <3>1
    <3> QED
      BY <2>1, <3>2
  <2> QED
    BY <2>2, FirstPUFacts
<1> QED
  BY <1>2, <1>3, <1>4 DEF FirstsOnly

-----------------------------------------------------------------------------
(* Main and the threads obey the assertions of the hand-over, however      *)
(* early a thread starts, unless benchmarks run in pairs.                  *)
THEOREM ProgramAssertions == Policy # "pair" => (ProgramSpec => []AssertionsHold)
<1> SUFFICES ASSUME Policy # "pair" PROVE ProgramSpec => []AssertionsHold
  OBVIOUS
<1>1. SpawnInv => AssertionsHold
  <2>1. CASE spc = "returned"
    BY <2>1, AssertionsFollow DEF SpawnInv, RoundsInv
  <2>2. CASE spc # "returned"
    BY <2>2 DEF SpawnInv, QuietInv, AssertionsHold, WorkerAwake
  <2> QED
    BY <2>1, <2>2
<1> QED
  BY <1>1, ProgramInductive, PTL

(* Under "onebyone" no thread disturbs the one that measures, also with    *)
(* threads created early.                                                  *)
THEOREM ProgramTurns == ProgramSpec => []OneAtATime
<1>1. SpawnInv => OneAtATime
  <2>1. CASE spc = "returned"
    BY <2>1, TurnsFollow DEF SpawnInv, RoundsInv
  <2>2. CASE spc # "returned"
    BY <2>2 DEF SpawnInv, QuietInv, OneAtATime
  <2> QED
    BY <2>1, <2>2
<1> QED
  BY <1>1, ProgramInductive, PTL

(* A thread's PU has the thread's rank among all PUs that have a thread.   *)
LEMMA RankOfHome ==
  ASSUME Ascending, NEW t \in Threads
  PROVE  Ranked({Home[u] : u \in Threads}, t) = Home[t]
<1> DEFINE PUs == {Home[u] : u \in Threads}
           below(c) == {d \in PUs : d < c}
<1>1. ASSUME NEW u \in Threads
      PROVE  Cardinality(below(Home[u])) = u
  <2>1. \A v \in Threads : Home[v] < Home[u] <=> v < u
    <3>1. \A v \in Threads : Home[v] \in Nat
      <4>1. Cpus \in SUBSET Nat
        BY SpawnAssumption
      <4> QED
        BY <4>1, WorkersAssumption
    <3>2. \A v \in Threads : v < u \/ v = u \/ u < v
      BY DEF Threads
    <3> QED
      BY <3>1, <3>2 DEF Ascending, Threads
  <2>2. below(Home[u]) = {Home[v] : v \in {w \in Threads : w < u}}
    BY <2>1
  <2>3. {w \in Threads : w < u} = 0 .. u - 1 /\ (0 .. u - 1) \in SUBSET Threads
    BY ConstantFacts DEF Threads
  <2>4. Cardinality(0 .. u - 1) = u
    BY FS_Interval DEF Threads
  <2> QED
    BY <2>2, <2>3, <2>4, HomesCounted
<1>2. Home[t] \in PUs /\ Cardinality(below(Home[t])) = t
  BY <1>1
<1>3. \A c \in PUs : Cardinality(below(c)) = t => c = Home[t]
  BY <1>1
<1> HIDE DEF PUs
<1>4. (CHOOSE c \in PUs : Cardinality(below(c)) = t) = Home[t]
  BY <1>2, <1>3
<1> QED
  BY <1>4 DEF Ranked, PUs

(* result_print labels each row with the PU its thread is bound to, when   *)
(* hwloc's order is that of the numbers (main.cc:265-273).                 *)
THEOREM RowsAreLabelled == ProgramSpec => []LabelsAreHome
<1>1. SpawnInv => LabelsAreHome
  <2> SUFFICES ASSUME SpawnInv, mpc = "print", round \in 1 .. LastRound, Ascending, DoBinding,
                      NEW x \in result
               PROVE  Label(x.row) = cpu[x.by]
    BY DEF LabelsAreHome
  <2>1. spc = "returned"
    BY DEF SpawnInv, QuietInv
  <2>2. \A t \in Threads : Prepared(t)
    BY <2>1, AllPassed DEF SpawnInv, WalkInv
  <2>3. allocated = {Home[t] : t \in Threads}
    BY <2>2 DEF SpawnInv, WalkInv
  <2>4. x.by = x.row /\ x.row \in Threads
    <3>1. round # StopRound
      BY WorkersAssumption DEF StopRound, LastRound
    <3>2. x = Entry(x.row, x.rep) /\ x \in Records
      BY <2>1, <3>1 DEF SpawnInv, RoundsInv, IInv, TypeOK, RInv, ResultInv
    <3> QED
      BY <3>2 DEF Entry, Records
  <2>5. cpu[x.by] = Home[x.by]
    BY <2>2, <2>4 DEF SpawnInv, HomeInv
  <2> QED
    BY <2>3, <2>4, <2>5, RankOfHome DEF Label
<1> QED
  BY <1>1, ProgramInductive, PTL

-----------------------------------------------------------------------------
(* What Workers sees once all slots have been filled in: the slots. *)
Seen ==
  /\ Filled(s, [t \in Threads |-> "IDLE"]) = s
  /\ Filled(work, [t \in Threads |-> NoWork]) = work
  /\ Filled(run, [t \in Threads |-> TRUE]) = run
  /\ Filled(cpu, Home) = cpu

LEMMA AllSeen ==
  ASSUME TypeOK, \A t \in Threads : Prepared(t)
  PROVE  Seen
<1>1. ASSUME NEW f, NEW g, NEW V, f \in [Threads -> V]
      PROVE  Filled(f, g) = f
  BY <1>1 DEF Filled
<1>2. /\ s \in [Threads -> {"IDLE", "QUEUED", "WORKING", "DONE"}]
      /\ work \in [Threads -> Pointers \cup {NoWork}]
      /\ run \in [Threads -> BOOLEAN]
      /\ cpu \in [Threads -> Cpus]
  BY DEF TypeOK
<1> QED
  BY <1>1, <1>2 DEF Seen

LEMMA MainSeen == Seen /\ Seen' /\ MainStep => Spawned!MainStep
<1> SUFFICES ASSUME Seen, Seen', MainStep PROVE Spawned!MainStep
  OBVIOUS
<1> USE DEF Seen, mainvars, Spawned!mainvars, slots, Spawned!slots, state, Spawned!state,
            local, Spawned!local, barrier, Spawned!barrier, Threads, Spawned!Threads,
            Dirigent, Spawned!Dirigent, NullOps, Spawned!NullOps, StopOps, Spawned!StopOps,
            LastRound, Spawned!LastRound, StopRound, Spawned!StopRound, Wide, Spawned!Wide
<1>1. BeginStep => Spawned!BeginStep
  BY
  DEF BeginStep, Spawned!BeginStep, NoItem, Spawned!NoItem, B!Create, Spawned!B!Create,
      BarrierLimit, Spawned!BarrierLimit, FirstThread, Spawned!FirstThread
<1>2. FillItem => Spawned!FillItem
  BY
  DEF FillItem, Spawned!FillItem, Item, Spawned!Item, Ops, Spawned!Ops, First, Spawned!First,
      Second, Spawned!Second, Row, Spawned!Row, Reps, Spawned!Reps
<1>3. QueueWork => Spawned!QueueWork
  BY
  DEF QueueWork, Spawned!QueueWork, Item, Spawned!Item, Signal, Spawned!Signal,
      AfterQueue, Spawned!AfterQueue, CallDirigent, Spawned!CallDirigent
<1>4. DirigentReturns => Spawned!DirigentReturns
  BY
  DEF DirigentReturns, Spawned!DirigentReturns, FirstCollected, Spawned!FirstCollected
<1>5. SleepForDone => Spawned!SleepForDone
  BY DEF SleepForDone, Spawned!SleepForDone, MainAwake, Spawned!MainAwake
<1>6. TakeDone => Spawned!TakeDone
  BY
  DEF TakeDone, Spawned!TakeDone, MainAwake, Spawned!MainAwake, NextThread, Spawned!NextThread
<1>7. Join => Spawned!Join
  BY DEF Join, Spawned!Join, NextThread, Spawned!NextThread
<1>8. FreeStep => Spawned!FreeStep
  BY DEF FreeStep, Spawned!FreeStep
<1>9. PrintResult => Spawned!PrintResult
  BY DEF PrintResult, Spawned!PrintResult
<1> QED
  BY <1>1, <1>2, <1>3, <1>4, <1>5, <1>6, <1>7, <1>8, <1>9 DEF MainStep, Spawned!MainStep

LEMMA CardinalitySeen == \A S : Spawned!B!Cardinality(S) = B!Cardinality(S)
  BY DEF Spawned!B!Cardinality, B!Cardinality

LEMMA ThreadsSeen ==
  ASSUME Seen, Seen', NEW t \in Threads, WorkerStep(t) \/ SpuriousWakeup(t)
  PROVE  Spawned!WorkerStep(t) \/ Spawned!SpuriousWakeup(t)
<1> USE DEF Seen, mainvars, Spawned!mainvars, slots, Spawned!slots, state, Spawned!state,
            local, Spawned!local, barrier, Spawned!barrier, Dirigent, Spawned!Dirigent,
            NullOps, Spawned!NullOps, StopOps, Spawned!StopOps
<1>1. Enter(t) => Spawned!Enter(t)
  BY DEF Enter, Spawned!Enter, BindThread, Spawned!BindThread
<1>2. CheckRun(t) => Spawned!CheckRun(t)
  BY DEF CheckRun, Spawned!CheckRun
<1>3. SleepForWork(t) => Spawned!SleepForWork(t)
  BY DEF SleepForWork, Spawned!SleepForWork, WorkerAwake, Spawned!WorkerAwake
<1>4. FetchWork(t) => Spawned!FetchWork(t)
  BY DEF FetchWork, Spawned!FetchWork, WorkerAwake, Spawned!WorkerAwake
<1>5. Arrive(t) => Spawned!Arrive(t)
  BY CardinalitySeen
  DEF Arrive, Spawned!Arrive, B!Arrive, Spawned!B!Arrive, B!Block, Spawned!B!Block,
      B!Open, Spawned!B!Open, B!Inside, Spawned!B!Inside
<1>6. Depart(t) => Spawned!Depart(t)
  BY DEF Depart, Spawned!Depart, B!Leave, Spawned!B!Leave
<1>7. StartCall(t) => Spawned!StartCall(t)
  BY DEF StartCall, Spawned!StartCall, ItemOf, Spawned!ItemOf
<1>8. EndCall(t) => Spawned!EndCall(t)
  BY DEF EndCall, Spawned!EndCall, ItemOf, Spawned!ItemOf
<1>9. ReturnWork(t) => Spawned!ReturnWork(t)
  BY DEF ReturnWork, Spawned!ReturnWork, ItemOf, Spawned!ItemOf, Signal, Spawned!Signal
<1>10. SpuriousWakeup(t) => Spawned!SpuriousWakeup(t)
  BY DEF SpuriousWakeup, Spawned!SpuriousWakeup
<1> QED
  BY <1>1, <1>2, <1>3, <1>4, <1>5, <1>6, <1>7, <1>8, <1>9, <1>10
  DEF WorkerStep, Spawned!WorkerStep

(* Before that, a thread that exists sees its own slot. *)
LEMMA EarlySeen ==
  ASSUME SpawnInv, spc # "returned", UNCHANGED svars, NEW t \in created,
         WorkerStep(t) \/ SpuriousWakeup(t)
  PROVE  Spawned!WorkerStep(t) \/ Spawned!SpuriousWakeup(t)
<1> USE DEF mainvars, Spawned!mainvars, slots, Spawned!slots, state, Spawned!state,
            local, Spawned!local, barrier, Spawned!barrier
<1>1. t \in Threads /\ Prepared(t) /\ \A u \in Threads : Prepared(u)' <=> Prepared(u)
  BY DEF SpawnInv, WalkInv, Prepared, svars
<1>2. \A f, g : Filled(f, g)[t] = f[t]
  BY <1>1 DEF Filled
<1>3. \A f, g, x : [Filled(f, g) EXCEPT ![t] = x]
                   = [u \in Threads |-> IF u = t THEN x ELSE IF Prepared(u) THEN f[u] ELSE g[u]]
  BY DEF Filled
<1>4. /\ UNCHANGED s => UNCHANGED Filled(s, [u \in Threads |-> "IDLE"])
      /\ UNCHANGED work => UNCHANGED Filled(work, [u \in Threads |-> NoWork])
      /\ UNCHANGED run => UNCHANGED Filled(run, [u \in Threads |-> TRUE])
      /\ UNCHANGED cpu => UNCHANGED Filled(cpu, Home)
  BY <1>1 DEF Filled
<1>5. CASE Enter(t)
  <2>1. Filled(run, [u \in Threads |-> TRUE])'
        = [Filled(run, [u \in Threads |-> TRUE]) EXCEPT ![t] = TRUE]
    BY <1>1, <1>5 DEF Filled, Enter, SpawnInv, QuietInv
  <2>2. ASSUME NEW c, cpu' = [cpu EXCEPT ![t] = c]
        PROVE  Filled(cpu, Home)' = [Filled(cpu, Home) EXCEPT ![t] = c]
    <3>1. cpu \in [Threads -> Cpus]
      BY DEF SpawnInv, QuietInv
    <3>2. \A u \in Threads : cpu'[u] = IF u = t THEN c ELSE cpu[u]
      BY <2>2, <3>1
    <3>3. Filled(cpu, Home)'
          = [u \in Threads |-> IF u = t THEN c ELSE IF Prepared(u) THEN cpu[u] ELSE Home[u]]
      BY <1>1, <3>2 DEF Filled
    <3>4. [Filled(cpu, Home) EXCEPT ![t] = c]
          = [u \in Threads |-> IF u = t THEN c ELSE IF Prepared(u) THEN cpu[u] ELSE Home[u]]
      BY DEF Filled
    <3> QED
      BY <3>3, <3>4, Zenon
  <2>3. Spawned!Enter(t)
    BY <1>4, <1>5, <2>1, <2>2 DEF Enter, Spawned!Enter, BindThread, Spawned!BindThread
  <2> QED
    BY <2>3 DEF Spawned!WorkerStep
<1>6. CASE CheckRun(t)
  <2>1. Spawned!CheckRun(t)
    BY <1>2, <1>4, <1>6 DEF CheckRun, Spawned!CheckRun
  <2> QED
    BY <2>1 DEF Spawned!WorkerStep
<1>7. CASE SleepForWork(t)
  <2>1. Spawned!SleepForWork(t)
    BY <1>2, <1>4, <1>7
    DEF SleepForWork, Spawned!SleepForWork, WorkerAwake, Spawned!WorkerAwake
  <2> QED
    BY <2>1 DEF Spawned!WorkerStep
<1>8. CASE SpuriousWakeup(t)
  <2>1. Spawned!SpuriousWakeup(t)
    BY <1>4, <1>8 DEF SpuriousWakeup, Spawned!SpuriousWakeup
  <2> QED
    BY <2>1
<1> QED
  BY <1>5, <1>6, <1>7, <1>8, EarlySteps

(* main's own steps until then cannot be seen. *)
LEMMA SpawningUnseen ==
  ASSUME SpawnInv, SpawnStep
  PROVE  UNCHANGED Spawned!vars
<1> USE DEF Spawned!vars, Spawned!mainvars, Spawned!slots, Spawned!state, Spawned!local,
            Spawned!barrier
<1>1. CASE Prepare
  <2>1. next \in Threads /\ PickedPU = Home[next] /\ spc = "pick" /\ next \in Nat
    BY <1>1, NextPlace DEF SpawnInv, WalkInv, Prepare, Looking
  <2>2. ~Prepared(next) /\ \A t \in Threads : Prepared(t)' <=> Prepared(t) \/ t = next
    BY <1>1, <2>1, ConstantFacts DEF Prepare, Prepared
  <2>3. spc # "returned"
    BY <2>1
  <2>4. UNCHANGED Filled(s, [t \in Threads |-> "IDLE"])
    <3>1. s' = [s EXCEPT ![next] = "IDLE"] /\ DOMAIN s = Threads
      BY <1>1, <2>3 DEF Prepare, SpawnInv, QuietInv
    <3> QED
      BY <2>1, <2>2, <3>1 DEF Filled
  <2>5. UNCHANGED Filled(work, [t \in Threads |-> NoWork])
    <3>1. work' = [work EXCEPT ![next] = NoWork] /\ DOMAIN work = Threads
      BY <1>1, <2>3 DEF Prepare, SpawnInv, QuietInv
    <3> QED
      BY <2>1, <2>2, <3>1 DEF Filled
  <2>6. UNCHANGED Filled(run, [t \in Threads |-> TRUE])
    <3>1. run' = [run EXCEPT ![next] = TRUE] /\ DOMAIN run = Threads
      BY <1>1, <2>3 DEF Prepare, SpawnInv, QuietInv
    <3> QED
      BY <2>1, <2>2, <3>1 DEF Filled
  <2>7. UNCHANGED Filled(cpu, Home)
    <3>1. cpu' = [cpu EXCEPT ![next] = Home[next]] /\ DOMAIN cpu = Threads
      BY <1>1, <2>1, <2>3 DEF Prepare, SpawnInv, QuietInv
    <3> QED
      BY <2>1, <2>2, <3>1 DEF Filled
  <2> QED
    BY <1>1, <2>4, <2>5, <2>6, <2>7 DEF Prepare, mainvars, local, barrier
<1>2. CASE ~Prepare
  <2>1. UNCHANGED vars /\ \A t \in Threads : Prepared(t)' <=> Prepared(t)
    <3>1. CASE Create
      <4>1. next \in Nat /\ \A t \in Threads : t \in Nat
        BY ConstantFacts DEF SpawnInv, WalkInv
      <4>2. \A t \in Threads : t < next + 1 <=> t < next \/ t = next
        BY <4>1
      <4>3. spc = "create" /\ spc' = "pick" /\ next' = next + 1 /\ UNCHANGED vars
        BY <3>1 DEF Create
      <4> QED
        BY <4>2, <4>3 DEF Prepared
    <3>2. CASE NoObject \/ Skip \/ CreateFails \/ UseNull \/ Finish
      BY <3>2 DEF NoObject, Skip, CreateFails, UseNull, Finish, Looking, Prepared
    <3> QED
      BY <1>2, <3>1, <3>2 DEF SpawnStep
  <2>2. /\ UNCHANGED Filled(s, [t \in Threads |-> "IDLE"])
        /\ UNCHANGED Filled(work, [t \in Threads |-> NoWork])
        /\ UNCHANGED Filled(run, [t \in Threads |-> TRUE])
        /\ UNCHANGED Filled(cpu, Home)
    BY <2>1 DEF Filled, vars, slots, state
  <2> QED
    BY <2>1, <2>2 DEF vars, mainvars, slots, state, local, barrier
<1> QED
  BY <1>1, <1>2

(* However early its threads run, spawn_workers leaves the state Workers   *)
(* starts from, or one Workers reaches without a step of main              *)
(* (main.cc:101-134).                                                      *)
THEOREM SpawnImplementsWorkers == ProgramSpec => ImplementsWorkers
<1>1. ProgramInit => Spawned!Init
  <2> SUFFICES ASSUME SpawnInit PROVE Spawned!Init
    BY DEF ProgramInit
  <2>1. \A t \in Threads : ~Prepared(t)
    BY ConstantFacts DEF SpawnInit, Prepared
  <2>2. /\ Filled(s, [t \in Threads |-> "IDLE"]) = [t \in Threads |-> "IDLE"]
        /\ Filled(work, [t \in Threads |-> NoWork]) = [t \in Threads |-> NoWork]
        /\ Filled(run, [t \in Threads |-> TRUE]) = [t \in Threads |-> TRUE]
        /\ Filled(cpu, Home) = Home
    BY <2>1, WorkersAssumption DEF Filled
  <2> QED
    BY <2>2
    DEF SpawnInit, Spawned!Init, Threads, Spawned!Threads, NoItem, Spawned!NoItem,
        NullOps, Spawned!NullOps, Dirigent, Spawned!Dirigent
<1>2. SpawnInv /\ spc = "returned" => Seen
  BY AllPassed, AllSeen DEF SpawnInv, WalkInv, RoundsInv, IInv
<1>3. (SpawnInv /\ spc = "returned" => Seen)'
  BY <1>2, PTL
<1>4. SpawnInv /\ SpawnInv' /\ [ProgramNext]_pvars => [Spawned!Next]_(Spawned!vars)
  <2> SUFFICES ASSUME SpawnInv, SpawnInv', [ProgramNext]_pvars
               PROVE  [Spawned!Next]_(Spawned!vars)
    OBVIOUS
  <2>1. CASE SpawnStep
    BY <2>1, SpawningUnseen
  <2>2. ASSUME spc = "returned"
        PROVE  Seen
    BY <1>2, <2>2
  <2>3. ASSUME spc' = "returned"
        PROVE  Seen'
    BY <1>3, <2>3
  <2>4. CASE RoundStep
    <3>1. spc = "returned" /\ spc' = "returned" /\ MainStep
      BY <2>4 DEF RoundStep, svars
    <3> QED
      BY <2>2, <2>3, <3>1, MainSeen DEF Spawned!Next
  <2>5. ASSUME NEW t \in Threads, ThreadStep(t) \/ Wakeup(t)
        PROVE  Spawned!Next
    <3>1. (WorkerStep(t) \/ SpuriousWakeup(t)) /\ Running(t) /\ UNCHANGED svars
      BY <2>5 DEF ThreadStep, Wakeup
    <3>2. Spawned!WorkerStep(t) \/ Spawned!SpuriousWakeup(t)
      <4>1. CASE spc = "returned"
        BY <2>2, <2>3, <3>1, <4>1, ThreadsSeen DEF svars
      <4>2. CASE spc # "returned"
        BY <3>1, <4>2, EarlySeen DEF Running
      <4> QED
        BY <4>1, <4>2
    <3> QED
      BY <3>2 DEF Spawned!Next, Threads, Spawned!Threads
  <2>6. CASE UNCHANGED <<svars, vars>>
    <3>1. \A t \in Threads : Prepared(t)' <=> Prepared(t)
      BY <2>6 DEF svars, Prepared
    <3>2. /\ UNCHANGED Filled(s, [t \in Threads |-> "IDLE"])
          /\ UNCHANGED Filled(work, [t \in Threads |-> NoWork])
          /\ UNCHANGED Filled(run, [t \in Threads |-> TRUE])
          /\ UNCHANGED Filled(cpu, Home)
      BY <2>6, <3>1 DEF Filled, vars, slots, state
    <3> QED
      BY <2>6, <3>2
      DEF vars, mainvars, slots, state, local, barrier, Spawned!vars, Spawned!mainvars,
          Spawned!slots, Spawned!state, Spawned!local, Spawned!barrier
  <2> QED
    BY <2>1, <2>4, <2>5, <2>6
    DEF ProgramNext, MainProgress, TakeDefault, CheckSets, AssertPair, Rest, pvars, setup
<1> QED
  BY <1>1, <1>4, ProgramInductive, PTL DEF ProgramSpec, ImplementsWorkers, Spawned!Spec

=============================================================================
