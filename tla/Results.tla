------------------------------ MODULE Results ------------------------------
(***************************************************************************)
(* The flat result array of one round and the performance counters that    *)
(* fill it: main hands each thread a pointer to its row (main.cc:286-307), *)
(* worker() passes pointers into the row to arch_pmu_begin and             *)
(* arch_pmu_end (worker.c:265-281), which store one number per event they  *)
(* could open, and result_print reads the array by indices of its own      *)
(* (main.cc:262-284).                                                      *)
(*                                                                         *)
(* The functions arch_pmu_* exist once per way to reach the counters, and  *)
(* all of arch.h's are here:                                               *)
(*   "jevents"   libjevents, free-running counters          arch.h:331-534 *)
(*   "perf"      perf_event_open                                      ,,   *)
(*   "rawlinux"  the registers of the PU through /dev/cpu             ,,   *)
(*   "rawmck"    the same through system calls of McKernel            ,,   *)
(*   "mck"       McKernel's system calls for counters                 ,,   *)
(*   "arm"       the PU's registers                         arch.h:83-157  *)
(*   "bgq"       an event set of Blue Gene's library        arch.h:589-690 *)
(*   "none"      no counters          arch.h:170-176, 538-548, 694-700, .. *)
(* A failing call that makes the program exit is left out.                 *)
(*                                                                         *)
(* A number is represented by what was measured.                           *)
(***************************************************************************)
EXTENDS Integers, Sequences

CONSTANTS
  Rows,       (* number of threads                                          *)
  Reps,       (* --iterations                                               *)
  NumPmcs,    (* number of events given with --pmcs                         *)
  MayFail,    (* those a thread may not be able to resolve or open          *)
  NumCounters,(* those the PU has, on ARM                                   *)
  Word        (* 2^32: indices are computed in unsigned                     *)

Threads == 0 .. Rows - 1
Events == 1 .. NumPmcs
Columns == NumPmcs + 1        (* the time stamp and one per event           *)
Cells == 0 .. Rows * Reps * Columns - 1
AllCounters == 0 .. NumPmcs - 1

Raw == {"rawlinux", "rawmck"}
Methods == Raw \cup {"jevents", "perf", "mck", "arm", "bgq", "none"}

ASSUME ResultsAssumption ==
  /\ Rows \in Nat \ {0}
  /\ Reps \in Nat
  /\ NumPmcs \in Nat
  /\ MayFail \subseteq Events
  /\ NumCounters \in Nat
  /\ Word \in Nat \ {0}

VARIABLES
  data,      (* the array                                                   *)
  pc,        (* each thread: "init", "begin", "end", "done"                 *)
  rep,       (* the local variable `rep' of worker()                        *)
  method,    (* how the counters are reached                                *)
  active,    (* the events opened, by pmus->active or pmu->num_pmcs         *)
  sel,       (* each PU: the event that a counter counts, 0 if none         *)
  zeroed,    (* the repetition a counter was last reset for                 *)
  ctrl,      (* IA32_PERF_GLOBAL_CTRL or PMCNTENSET: the counters turned on *)
  saved,     (* pmus->global_ctrl                                           *)
  found      (* history: what ctrl was at first                             *)

pmu == <<method, active, sel>>
rvars == <<data, pc, rep, pmu, zeroed, ctrl, saved, found>>

(* The contents of a cell. *)
Value(kind, t, k, e) == [kind |-> kind, by |-> t, rep |-> k, event |-> e]
Unwritten == Value("unwritten", 0, 0, 0)
Time(t, k) == Value("time", t, k, 0)
Start(t, k, e) == Value("start", t, k, e)
Count(t, k, e) == Value("count", t, k, e)
Wrong(t, k, e) == Value("wrong", t, k, e)

(* What main computes for work->result, worker() for `offset' and          *)
(* result_print for its index.  Mutant: a row without its time column.     *)
RowWithoutTime(t) == (t * Reps * NumPmcs) % Word
Row(t) == (t * Reps * Columns) % Word
Offset(k) == (Columns * k) % Word
Printed(t, k, c) == (t * Reps * Columns + Columns * k + c) % Word

(* No index of the array wraps around.  result_alloc computes its size in  *)
(* size_t (main.cc:183); nothing checks that unsigned indices reach it all.*)
IndicesFit == Rows * Reps * Columns <= Word

(* The cells of counter i, and of the first n counters, in repetition k of *)
(* thread t.  Mutant: the counters start in the column of the time.        *)
CounterOnTime(t, k, i) == Row(t) + Offset(k) + i
CounterCell(t, k, i) == Row(t) + Offset(k) + 1 + i
CounterCells(t, k, n) == {CounterCell(t, k, i) : i \in 0 .. n - 1}

(* The place in `active' of the counter a cell belongs to. *)
CounterAt(t, k, c) == c - CounterCell(t, k, 0) + 1

(* What arch_pmu_init's loop may find: events that cannot be resolved or   *)
(* opened are skipped, and the next one takes their place.  On ARM it      *)
(* looks at no more events than there are counters.                        *)
Considered ==
  {e \in Events : method # "none" /\ (method = "arm" => e <= NumCounters)}

Openable ==
  {q \in UNION {[1 .. n -> Considered] : n \in 0 .. NumPmcs} :
     /\ \A i, j \in DOMAIN q : i < j => q[i] < q[j]
     /\ \A e \in Considered \ MayFail : \E i \in DOMAIN q : q[i] = e}

(* The events of the counters once those in q are opened.  The raw methods *)
(* use the register IA32_PERFEVTSEL_BASE + i of the event's place in pmcs. *)
Place(q, j) == IF method \in Raw THEN q[j] - 1 ELSE j - 1

Selected(q, old) ==
  [i \in AllCounters |->
     IF \E j \in DOMAIN q : Place(q, j) = i
     THEN q[CHOOSE j \in DOMAIN q : Place(q, j) = i]
     ELSE old[i]]

(* The counters a loop up to pmus->active goes through. *)
Used(t) == 0 .. Len(active[t]) - 1

(* The counters that run: the kernel or the library sees to it, or ctrl.   *)
Counting(t) == IF method \in Raw \cup {"mck", "arm"} THEN ctrl[t] ELSE AllCounters

(* Counters are found as they were initialised, all on, or turned off.     *)
Init ==
  /\ data = [c \in Cells |-> Unwritten]
  /\ pc = [t \in Threads |-> "init"]
  /\ rep = [t \in Threads |-> 0]
  /\ method \in Methods
  /\ active = [t \in Threads |-> <<>>]
  /\ sel = [t \in Threads |-> [i \in AllCounters |-> 0]]
  /\ zeroed = [t \in Threads |-> [i \in AllCounters |-> -1]]
  /\ ctrl \in [Threads -> {{}, AllCounters}]
  /\ saved = [t \in Threads |-> {}]
  /\ found = ctrl

-----------------------------------------------------------------------------
(* arch_pmu_init.  Counters that are off are turned on under McKernel, the *)
(* opened ones on ARM; the raw methods keep all off between calls.         *)
(* Mutant: counters that are off stay off under McKernel.                  *)
CtrlWithoutEnable(t) ==
  IF method \in Raw THEN {}
  ELSE IF method = "arm" THEN ctrl[t] \cup Used(t)'
  ELSE ctrl[t]

(* What reading the control register may return.  rdmsr is given -1 for    *)
(* the register's file.  McKernel's system call does not need it, but on   *)
(* Linux pread fails and the variable is returned as it is, uninitialised. *)
CtrlRead(t) == IF method = "rawlinux" THEN SUBSET AllCounters ELSE {ctrl[t]}

CtrlAtInit(t) ==
  IF method \in Raw THEN {}
  ELSE IF method = "arm" THEN ctrl[t] \cup Used(t)'
  ELSE IF method = "mck" /\ ctrl[t] = {} THEN Used(t)'
  ELSE ctrl[t]

PmuInit(t) ==
  /\ pc[t] = "init"
  /\ \E opened \in Openable : active' = [active EXCEPT ![t] = opened]
  /\ sel' = [sel EXCEPT ![t] = Selected(active'[t], sel[t])]
  /\ IF method \in Raw \cup {"mck"}
     THEN \E v \in CtrlRead(t) : saved' = [saved EXCEPT ![t] = v]
     ELSE saved' = saved
  /\ ctrl' = [ctrl EXCEPT ![t] = CtrlAtInit(t)]
  /\ pc' = [pc EXCEPT ![t] = "begin"]
  /\ UNCHANGED <<data, rep, method, zeroed, found>>

(* Mutant of PmuBegin: one repetition too many. *)
BeginPastTheEnd(t) ==
  /\ pc[t] = "begin"
  /\ rep[t] <= Reps
  /\ pc' = [pc EXCEPT ![t] = "end"]
  /\ UNCHANGED <<data, rep, pmu, zeroed, ctrl, saved, found>>

(* arch_pmu_begin: reset the counters, or note where they are; the raw     *)
(* methods then turn them on.                                              *)
PmuBegin(t) ==
  /\ pc[t] = "begin"
  /\ rep[t] < Reps
  /\ data' = IF method # "jevents" THEN data
             ELSE [c \in Cells |->
                     IF c \in CounterCells(t, rep[t], Len(active[t]))
                     THEN Start(t, rep[t], active[t][CounterAt(t, rep[t], c)])
                     ELSE data[c]]
  /\ zeroed' = IF method = "jevents" THEN zeroed
               ELSE [zeroed EXCEPT ![t] = [i \in AllCounters |->
                       IF i \in Used(t) THEN rep[t] ELSE zeroed[t][i]]]
  /\ ctrl' = IF method \in Raw THEN [ctrl EXCEPT ![t] = Used(t)] ELSE ctrl
  /\ pc' = [pc EXCEPT ![t] = "end"]
  /\ UNCHANGED <<rep, pmu, saved, found>>

(* What arch_pmu_end makes of counter i, given what its cell holds: the    *)
(* count of the event opened i-th, if the counter ran for that event and   *)
(* has been reset or noted for this call.                                  *)
Reading(t, i, old) ==
  LET e == active[t][i + 1]
      counted == /\ i \in Counting(t)
                 /\ sel[t][i] = e
                 /\ IF method = "jevents" THEN old = Start(t, rep[t], e)
                    ELSE zeroed[t][i] = rep[t]
  IN  IF counted THEN Count(t, rep[t], e) ELSE Wrong(t, rep[t], e)

(* The number of counters read: of the event set only the first.           *)
NumRead(t) == IF method = "bgq" /\ Len(active[t]) > 1 THEN 1 ELSE Len(active[t])

(* The call is over: arch_pmu_end, and the time.  *)
PmuEnd(t) ==
  /\ pc[t] = "end"
  /\ data' = [c \in Cells |->
       IF c = Row(t) + Offset(rep[t]) THEN Time(t, rep[t])
       ELSE IF c \in CounterCells(t, rep[t], NumRead(t))
       THEN Reading(t, CounterAt(t, rep[t], c) - 1, data[c])
       ELSE data[c]]
  /\ ctrl' = IF method \in Raw THEN [ctrl EXCEPT ![t] = {}] ELSE ctrl
  /\ rep' = [rep EXCEPT ![t] = @ + 1]
  /\ pc' = [pc EXCEPT ![t] = "begin"]
  /\ UNCHANGED <<pmu, zeroed, saved, found>>

(* arch_pmu_free: write back what was read, or turn the counters off.      *)
(* Mutant: nothing is written back under McKernel.                         *)
CtrlLeft(t) ==
  IF method = "rawlinux" THEN saved[t]
  ELSE IF method = "arm" THEN ctrl[t] \ Used(t)
  ELSE ctrl[t]

CtrlAtFree(t) ==
  IF method \in Raw \cup {"mck"} THEN saved[t]
  ELSE IF method = "arm" THEN ctrl[t] \ Used(t)
  ELSE ctrl[t]

PmuFree(t) ==
  /\ pc[t] = "begin"
  /\ rep[t] = Reps
  /\ ctrl' = [ctrl EXCEPT ![t] = CtrlAtFree(t)]
  /\ sel' = IF method = "rawlinux"
              THEN [sel EXCEPT ![t] = [i \in AllCounters |->
                      IF i \in Used(t) THEN 0 ELSE sel[t][i]]]
              ELSE sel
  /\ pc' = [pc EXCEPT ![t] = "done"]
  /\ UNCHANGED <<data, rep, method, active, zeroed, saved, found>>

(* All rows are there and can be printed. *)
Complete == \A t \in Threads : pc[t] = "done"

Next ==
  \/ \E t \in Threads : PmuInit(t) \/ PmuBegin(t) \/ PmuEnd(t) \/ PmuFree(t)
  \/ Complete /\ UNCHANGED rvars

Spec == Init /\ [][Next]_rvars

-----------------------------------------------------------------------------
Values == [kind : {"unwritten", "time", "start", "count", "wrong"},
           by : Threads, rep : Nat, event : {0} \cup Events]

ResultsTypeOK ==
  /\ data \in [Cells -> Values]
  /\ pc \in [Threads -> {"init", "begin", "end", "done"}]
  /\ rep \in [Threads -> 0 .. Reps]
  /\ method \in Methods
  /\ active \in [Threads -> Seq(Events)]
  /\ sel \in [Threads -> [AllCounters -> {0} \cup Events]]
  /\ zeroed \in [Threads -> [AllCounters -> {-1} \cup 0 .. Reps]]
  /\ ctrl \in [Threads -> SUBSET AllCounters]
  /\ saved \in [Threads -> SUBSET AllCounters]
  /\ found \in [Threads -> SUBSET AllCounters]

(* Where result_print looks for thread t's repetition k it finds what t    *)
(* stored there in that repetition, and in the first column its time: no   *)
(* thread ever writes to another's row, and main, worker() and             *)
(* result_print agree about the layout (main.cc:278,300, worker.c:270), as *)
(* long as their indices fit into 32 bits.                                 *)
PrintedIsOwn ==
  IndicesFit =>
  \A t \in Threads, k \in 0 .. Reps - 1, c \in 0 .. NumPmcs :
    LET value == data[Printed(t, k, c)]
    IN  /\ value # Unwritten => value.by = t /\ value.rep = k
        /\ k < rep[t] /\ c = 0 => value = Time(t, k)

(* A counter that was opened is counting its event from before the call to *)
(* after it, and the number stored is its own difference                   *)
(* (arch.h:112-121,421-423,471-473,478,526), with each method: except that *)
(* a raw method that has skipped an event reads counters it has not set up *)
(* (arch.h:374,404,522), and that rows overlap if indices wrap around.     *)
Skipped(t) == \E j \in 1 .. Len(active[t]) : active[t][j] # j

NothingWrong ==
  IndicesFit =>
  \A c \in Cells : data[c].kind = "wrong" => method \in Raw /\ Skipped(data[c].by)

(* A thread that could open all events has each one's count in the column  *)
(* that result_print puts under its name (main.cc:269-271); on Blue Gene,  *)
(* where only one event is read (arch.h:685), if it is the only one.       *)
ColumnIsEvent(t) ==
  \A k \in 0 .. Reps - 1, e \in Events : data[Printed(t, k, e)] = Count(t, k, e)

OpenedColumns ==
  IndicesFit =>
  \A t \in Threads :
    pc[t] = "done" /\ Len(active[t]) = NumPmcs /\ NumRead(t) = NumPmcs => ColumnIsEvent(t)

(* Under McKernel, where both the kernel's counters and the raw methods    *)
(* share the PU's control register, it is left as it was found: with the   *)
(* counters on or off (arch.h:353,451).                                    *)
CtrlGivenBack ==
  \A t \in Threads : pc[t] = "done" /\ method \in {"rawmck", "mck"} => ctrl[t] = found[t]

(* On Linux arch_pmu_free writes the register back, too (arch.h:447).  But *)
(* what it writes was never read (arch.h:223-228,353).                     *)
CtrlGivenBackOnLinux ==
  \A t \in Threads : pc[t] = "done" /\ method = "rawlinux" => ctrl[t] = found[t]

(* A block of the output headed by the name of an event (main.cc:270)      *)
(* shows no other event's counts.  It does once an event before was        *)
(* skipped.                                                                *)
ColumnsAreTheirEvents ==
  \A t \in Threads, k \in 0 .. Reps - 1, e \in Events :
    LET value == data[Printed(t, k, e)]
    IN  value.kind = "count" => value.event = e

=============================================================================
