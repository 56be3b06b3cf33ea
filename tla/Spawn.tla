------------------------------- MODULE Spawn -------------------------------
(***************************************************************************)
(* spawn_workers (main.cc:47-144): main walks over the PUs or cores of the *)
(* machine, prepares a slot for each that is in the cpuset and creates its *)
(* thread.  Threads created early already run while main prepares others,  *)
(* and are waiting for work if creating one of these fails.                *)
(*                                                                         *)
(* Workers starts from the state this function is meant to leave behind;   *)
(* ImplementsWorkers shows that it does.  Program puts these steps between *)
(* those of main before and after, and those of the threads.               *)
(***************************************************************************)
EXTENDS Workers, Sequences

CONSTANTS
  Type,      (* "PU", or "CORE" with --no-ht                                *)
  Objects,   (* the machine's objects of that type in hwloc's logical       *)
             (* order, each as the set of its PUs                           *)
  Cpuset     (* the PUs to run on                                           *)

VARIABLES
  spc,        (* "pick", "create"; how it ended: "returned", "null" (and    *)
              (* "crashed" when main uses it), "exited", "aborted"          *)
  pu,         (* index of the next object                                   *)
  next,       (* the local variable `i', the number of threads so far       *)
  created,    (* the threads pthread_create has started                     *)
  allocated,  (* the PUs they are meant for                                 *)
  present     (* hwloc knows objects of this type on this machine           *)

svars == <<spc, pu, next, created, allocated, present>>

(* hwloc_bitmap_singlify and hwloc_bitmap_first.                           *)
FirstPU(obj) == CHOOSE c \in obj : \A d \in obj : c <= d

(* The objects that get a thread, by their index, and: threads get them in *)
(* that order.                                                             *)
Picked == {i \in 1 .. Len(Objects) : FirstPU(Objects[i]) \in Cpuset}

PlacesInOrder(place) ==
  /\ \A t, u \in Threads : t < u => place[t] < place[u]
  /\ Picked = {place[t] : t \in Threads}
  /\ Home = [t \in Threads |-> FirstPU(Objects[place[t]])]

ASSUME SpawnAssumption ==
  /\ Type \in {"PU", "CORE"}
  /\ Cpus \subseteq Nat /\ IsFiniteSet(Cpus)
  /\ Cpuset \subseteq Cpus
  /\ Objects \in Seq((SUBSET Cpus) \ {{}})
  /\ \A i, j \in 1 .. Len(Objects) : i # j => Objects[i] \cap Objects[j] = {}
  /\ Type = "PU" => \A i \in 1 .. Len(Objects) : \E c \in Cpus : Objects[i] = {c}
  /\ UNION {Objects[i] : i \in 1 .. Len(Objects)} = Cpus
  /\ \E place \in [Threads -> Picked] : PlacesInOrder(place)

(* malloc leaves the slots with arbitrary content, here the same one for   *)
(* all threads; arg->init keeps it (Init of Workers).                      *)
SpawnInit ==
  /\ spc = "pick" /\ pu = 0 /\ next = 0
  /\ created = {} /\ allocated = {}
  /\ present \in IF Type = "PU" THEN {TRUE} ELSE BOOLEAN
  /\ \E g \in {"IDLE", "QUEUED", "WORKING", "DONE"} : s = [t \in Threads |-> g]
  /\ \E b \in BOOLEAN : run = [t \in Threads |-> b]
  /\ \E c \in Cpus : cpu = [t \in Threads |-> c]
  /\ \E p \in {NoWork, <<0, 0>>} : work = [t \in Threads |-> p]
  /\ init \in [Threads -> BOOLEAN]
  /\ cv = [t \in Threads |-> {}]
  /\ mpc = "start" /\ round = 0 /\ idx = 0
  /\ alive = FALSE /\ items = [i \in Threads |-> NoItem]
  /\ bound = [t \in Threads |-> FALSE]
  /\ wpc = [t \in Threads |-> IF t = Dirigent THEN "exited" ELSE "enter"]
  /\ hold = [t \in Threads |-> NoWork]
  /\ rep = [t \in Threads |-> 0]
  /\ result = {}
  /\ limit = 0 /\ arrived = {} /\ leaving = {}

-----------------------------------------------------------------------------
(* The loop goes on; there may be no object of this type. *)
Looking == spc = "pick" /\ pu < Len(Objects)

(* Its PU; the mutant singlifies the cpuset instead of the object. *)
PickedOfCpuset == FirstPU(Cpuset)
PickedPU == FirstPU(Objects[pu + 1])

NoObject ==
  /\ Looking
  /\ ~present
  /\ spc' = "exited"
  /\ UNCHANGED <<pu, next, created, allocated, present, vars>>

Skip ==
  /\ Looking
  /\ present
  /\ PickedPU \notin Cpuset
  /\ pu' = pu + 1
  /\ UNCHANGED <<spc, next, created, allocated, present, vars>>

(* Mutant of Prepare: arg->s is not initialised. *)
PrepareWithoutState ==
  /\ Looking
  /\ present
  /\ PickedPU \in Cpuset
  /\ work' = [work EXCEPT ![next] = NoWork]
  /\ run' = [run EXCEPT ![next] = TRUE]
  /\ cpu' = [cpu EXCEPT ![next] = PickedPU]
  /\ allocated' = allocated \cup {PickedPU}
  /\ IF next > 0
       THEN spc' = "create" /\ UNCHANGED <<pu, next>>
       ELSE pu' = pu + 1 /\ next' = next + 1 /\ UNCHANGED spc
  /\ UNCHANGED <<created, present, mainvars, s, cv, init, bound, local, result, barrier>>

(* Fill in the slot; the dirigent, thread 0, needs no thread. *)
Prepare ==
  /\ Looking
  /\ present
  /\ PickedPU \in Cpuset
  /\ work' = [work EXCEPT ![next] = NoWork]
  /\ s' = [s EXCEPT ![next] = "IDLE"]
  /\ run' = [run EXCEPT ![next] = TRUE]
  /\ cpu' = [cpu EXCEPT ![next] = PickedPU]
  /\ allocated' = allocated \cup {PickedPU}
  /\ IF next > 0
       THEN spc' = "create" /\ UNCHANGED <<pu, next>>
       ELSE pu' = pu + 1 /\ next' = next + 1 /\ UNCHANGED spc
  /\ UNCHANGED <<created, present, mainvars, cv, init, bound, local, result, barrier>>

Create ==
  /\ spc = "create"
  /\ created' = created \cup {next}
  /\ pu' = pu + 1
  /\ next' = next + 1
  /\ spc' = "pick"
  /\ UNCHANGED <<allocated, present, vars>>

(* pthread_create fails and NULL is returned ... *)
CreateFails ==
  /\ spc = "create"
  /\ spc' = "null"
  /\ UNCHANGED <<pu, next, created, allocated, present, vars>>

(* ... and main hands it to synchronize_worker_init, which uses it,        *)
(* although the comment at main.cc:131 says "just quit".                   *)
UseNull ==
  /\ spc = "null"
  /\ spc' = "crashed"
  /\ UNCHANGED <<pu, next, created, allocated, present, vars>>

(* The assertion at the end, as in a build with assertions. *)
AllAllocated == Cardinality(allocated) = Cardinality(Cpuset)

Finish ==
  /\ spc = "pick" /\ pu = Len(Objects)
  /\ spc' = IF AllAllocated THEN "returned" ELSE "aborted"
  /\ UNCHANGED <<pu, next, created, allocated, present, vars>>

-----------------------------------------------------------------------------
(* The threads whose slot is filled in. *)
Prepared(t) == t < next \/ (t = next /\ spc \in {"create", "null", "crashed"})

SpawnTypeOK ==
  /\ spc \in {"pick", "create", "returned", "null", "crashed", "exited", "aborted"}
  /\ pu \in 0 .. Len(Objects)
  /\ next \in 0 .. N
  /\ created \subseteq {t \in Threads : t > 0 /\ t < next}
  /\ allocated \subseteq Cpuset
  /\ present \in BOOLEAN
  /\ TypeOK

(* main.cc:88 asks whether two objects may get the same PU.  They do not:  *)
(* there are as many allocated PUs as prepared threads, which main relies  *)
(* on when it takes the weight of that set for the number of threads       *)
(* (main.cc:248,290,325,382), and a spawn that succeeds has covered the    *)
(* cpuset.                                                                 *)
OneThreadPerPU ==
  /\ Cardinality(allocated) = Cardinality({t \in Threads : Prepared(t)})
  /\ spc = "returned" => next = N /\ allocated = Cpuset

(* However early its threads run, spawn_workers leaves the state Workers   *)
(* starts from, or one Workers reaches without a step of main: no thread   *)
(* sees a slot that has not been filled in, and thread t is on the t-th of *)
(* the picked objects (main.cc:101-134).                                   *)
Filled(f, initial) == [t \in Threads |-> IF Prepared(t) THEN f[t] ELSE initial[t]]

Spawned == INSTANCE Workers
  WITH s <- Filled(s, [t \in Threads |-> "IDLE"]),
       work <- Filled(work, [t \in Threads |-> NoWork]),
       run <- Filled(run, [t \in Threads |-> TRUE]),
       cpu <- Filled(cpu, Home)

ImplementsWorkers == Spawned!Spec

(* The assertion of main.cc:139: the allocated PUs are those of the        *)
(* cpuset.                                                                 *)
WeightsAgree == spc # "aborted"

=============================================================================
