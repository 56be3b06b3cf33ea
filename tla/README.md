# Formal models of hwvar

hwvar measures how much the processing units (PUs) of one machine differ in
performance. It runs small benchmark kernels on one thread per PU and prints how
long every call took on every PU. This directory holds TLA+ models of the part
of hwvar that is hard to test: how threads are created and how the main thread
hands work to them, how they are made to start together or to take turns, who
writes which result, how event counts get into the right column, what happens
to the command line that is parsed by ten different loops, and whether the
benchmarks use the memory they are given, and as much of it as they claim. TLC
checks the models on small instances, and TLAPS proves the most important
properties for every number of threads, benchmarks and iterations and every
size.

All source paths below are relative to the repository.

## The system

| component | state | operations |
|---|---|---|
| worker threads (`src/worker.c`, `include/worker.h`) | per thread a slot `struct arg`: `lock`, `cv`, `work`, `s`, `run`, `init`, `cpu`; the locals `work` and `rep` of `worker` | `queue_work`, `wait_until_done`, `wait_for_work`, `return_finished_work`, `bind_thread`, `worker` |
| steps (`src/worker.c`) | `step_t`: a barrier and an array of `work_t` | `init_step`, `free_step` |
| rounds and policies (`src/main.cc`) | the local variables of the functions that run a round | `synchronize_worker_init`, `run_in_parallel`, `run_one_by_one`, `run_two_benchmarks`, `stop_workers`, the loop of `main` |
| barrier replacement (`src/barrier.c`) | `count`, `limit`, `phase`, mutex, condition variable | `pthread_barrier_init`, `pthread_barrier_wait`, `pthread_barrier_destroy` |
| spawning (`src/main.cc`) | the array of threads, the set of allocated PUs | `spawn_workers` |
| results (`src/main.cc`) | `benchmark_result_t`: one flat array | `result_alloc`, `result_print`, the row pointers of the rounds |
| performance counters (`include/arch.h`) | `struct pmu`, one per item and thread; the registers | `arch_pmu_init`, `arch_pmu_begin`, `arch_pmu_end`, `arch_pmu_free` |
| options and selection (`src/main.cc`, `src/benchmarks/benchmark.c`) | getopt's state, the list of benchmarks, sizes and rounds | `main`'s option loop, `init_benchmarks`, `get_benchmark_name` |
| tuning (`src/main.cc`, `src/benchmarks/benchmark.c`) | the rounds arguments appended to `argv` | `tune_time`, `tune_benchmarks_time`, `tune_size` |
| benchmarks (`src/benchmarks/`) | an argument per thread and round, file-level sizes and rounds | `init`, `init_arg`, `reset_arg`, `call`, `free_arg` |

How they interact:

* `main` spawns a thread for every PU of the cpuset but the first. Thread 0, the
  *dirigent*, is `main` itself: `main` calls `worker()` for it, and `worker()`
  returns to `main` after one item.
* A *round* allocates a step, fills one work item per thread, puts it into the
  thread's slot (`queue_work`), calls `worker()` for the dirigent, takes every
  item back (`wait_until_done`) and frees the step. Under `onebyone` a round has
  one item and a barrier for one thread, and is done for one thread after the
  other.
* Slots are shared memory under a mutex. *One* condition variable per slot
  serves both directions, and it is signalled, not broadcast.
* Items and the barrier are read without a lock by the workers; results are
  written without one, each thread to its own row.
* `arg->cpu` is read by `main` without the lock (`main.cc:391`), and `arg->run`
  and `arg->init` are only ever used by the thread that runs `worker()`.

What is hard in it: all interleavings of `main` with the workers across rounds
(a worker may still be on its way back to its slot when the next round has
begun); spurious and misdirected wakeups; the lifetime of steps; the barrier's
re-use; shutdown; and what happens if a flag was never initialised. No messages
are lost and nothing is persistent, so there is no crash recovery.
`PROJECT.json` lists each hazard with its line.

What makes each component correct:

* hand-over: the assertions of `queue_work`, `wait_for_work` and
  `return_finished_work`; no wakeup is lost; nothing of a step is used after
  `free_step`; the program ends.
* rounds: threads start together (`parallel`, `pair`) or take turns
  (`onebyone`); every row is complete and of the right benchmark when it is
  printed.
* barrier: nobody returns before all have arrived, and everybody returns.
* spawning: one thread per PU of the cpuset, or an orderly exit.
* results: rows do not overlap and carry the right labels.
* counters: a column holds the event it is named after.
* options and tuning: each option reaches exactly the benchmark it names.
* benchmarks: the working set fills the cache as asked; calls stay inside their
  arrays and read what was written; SHA-256 hashes each byte once, in order.

## Modules

| module | models |
|---|---|
| `Barrier` | the contract of a POSIX barrier, external to the repository on most platforms |
| `PhaseBarrier` | `src/barrier.c`, which supplies it where it is missing |
| `PhaseBarrierProofs` | theorems about `PhaseBarrier` |
| `Workers` | `src/worker.c` and the rounds of `src/main.cc`; uses `Barrier` |
| `Campaign` | the abstract specification: what the user is promised, without slots, items, steps and barriers |
| `WorkersProofs` | inductive invariant `IInv` and theorems about the hand-over |
| `WorkersResults` | inductive invariant `RInv` and theorems about the results and about what `Workers` promises: threads start together, and it implements `Campaign` |
| `MCWorkers` | values for the constants of `Workers` |
| `Spawn` | `spawn_workers` of `src/main.cc`; extends `Workers` and implements its initial state |
| `Program` | `main` from the choice of the cpusets to the joined threads: `Spawn` and `Workers` in one process |
| `ProgramProofs` | inductive invariant `SpawnInv` and theorems about `Spawn` and `Program` |
| `MCProgram` | small machines and command lines for `Program` |
| `Results` | the flat result array and the performance counters that fill it, for each way to count events |
| `ResultsProofs` | inductive invariant `ResultsInv` and theorems about `Results` |
| `Options` | `main` before the first round: parsing, selection, `init_benchmarks`, `--tune` and `--auto` |
| `MCOptions` | a small registry of benchmarks for `Options` |
| `OptionsProofs` | inductive invariant `OInv` and theorems about `Options` |
| `Sizes` | `tune_size` of `src/benchmarks/benchmark.c`, and what its comment says of it |
| `Kernels` | the life cycle of nine benchmarks: the sizes `init` computes, the arrays `init_arg` allocates, what a call accesses |
| `Sha256` | `sha256_init`, `sha256_process` and `sha256_done` with their buffer |
| `Benchmark` | `Kernels` and `Sha256` in one benchmark, with the self-test before it |
| `MCKernels` | configurations for `Benchmark` |
| `KernelsProofs` | theorems about `Sizes` and `Kernels` |
| `Sha256Proofs` | theorems about `Sha256` within `Benchmark` |

### Workers

A critical section is one action, because every access to a slot happens with
its lock held. Reads and writes without the lock are actions of their own, so
they interleave with everything else.

| code | model |
|---|---|
| `arg->s`, `arg->work`, `arg->run`, `arg->init`, `arg->cpu` | `s`, `work`, `run`, `init`, `cpu` |
| threads blocked on `arg->cv` | `cv[t]`, a subset of {"main", "worker"}; `Signal` removes an arbitrary member |
| `step->work`, whether the step is allocated | `items`, `alive` |
| `step->barrier` | `limit`, `arrived`, `leaving` of `Barrier` |
| a `work_t *` | the pair of the round whose step it points into and the item's index, or `NoWork`; so a pointer into a freed step is recognised |
| result array | `result`, a set of entries: row, repetition, the thread and the benchmark it is from |
| `main`'s position, its loop counter | `mpc`, `round`, `idx` |
| `worker`'s position and locals | `wpc`, `hold`, `rep` |
| the sequence of rounds | round 0 is `synchronize_worker_init`, rounds 1 .. `LastRound` run benchmarks, `StopRound` is `stop_workers` |

`main.cc:309-311`: for a round that gives work to all, `CallDirigent` follows
the last `queue_work`; the dirigent then takes the same steps as any worker
while `main` is at "dirigent". `wait_for_work`'s loop is `SleepForWork`,
`SpuriousWakeup` and `FetchWork`; `wait_until_done`'s is `SleepForDone`,
`SpuriousWakeup` and `TakeDone`. `spawn_workers` is over when the model starts:
a worker thread may run before `main` leaves it, but it can only enter
`worker()` and go to sleep, which the model also allows before `main`'s first
step. `Program` shows that this is right. `init` starts with any value, as the
code allocates it with `malloc` and does not assign it. The assertions in the
code are no guards of the model: the model goes on as a build with `NDEBUG`
would, and `AssertionsHold` states them.

Abstracted: clock readings and counter values (an entry of `result` only says
where a measurement came from), the benchmarks' own memory, progress messages,
and what the operating system says about a binding that failed.

### PhaseBarrier and Barrier

`PhaseBarrier` has the same granularity: one action per stretch of code with the
mutex held. `saved[t]` is the local copy of the phase. The phase counts modulo
`PhaseMod`, 2^64 in the code and 2 in the checked instance, the smallest value
that still works: a thread can be at most one opening behind. `calls`, `passes`
and `episode` are history variables. `Contract` maps the state to `Barrier`:
arrived are the threads that wait for the current phase to end, leaving are
those that may return.

### Campaign

What `--policy` and `--iterations` promise: rounds in order; in each one every
thread calls its benchmark the given number of times; under `onebyone` a thread
only starts once those before it are done; then the threads are told to stop,
one after the other. `CampaignSpec` says that `Workers` implements it: the
threads in a call are those at "call", and the threads still running those whose
`run` is set.

### Spawn and Program

`spawn_workers` is one loop over the machine's PUs, or its cores with `--no-ht`
(`Type`). `Skip` passes over an object whose first PU is not in the cpuset,
`Prepare` fills in a slot with its lock held, `Create` and `CreateFails` are
`pthread_create`. A machine is a sequence of sets of PUs in hwloc's logical
order, which need not be the order of their numbers. Memory from `malloc` holds
arbitrary values at first; they are the same for all slots, to keep the instance
small. `present` says whether hwloc knows cores on this machine; without them
the code exits.

`Program` puts `main` around it. `TakeDefault`, `CheckSets` and `AssertPair` are
`main.cc:775-804`, for any pair of sets a user may give (`Lists`). An instance
has one machine and one chosen set of PUs (`Cpuset`), so it only follows command
lines that end up with that set (`Followed`); the others are followed up to the
call of `spawn_workers`, which is what `RunsetIsUsable` is about. Then `main` is
in `spawn_workers` (`SpawnStep`) and, when it has returned, in the rounds of
`Workers` (`RoundStep`). A thread takes its steps of `Workers` from the moment it
is created (`ThreadStep`), so early threads run next to the rest of
`spawn_workers`, including all of its failures, and nothing is assumed about
where they are when the first round begins.

`ImplementsWorkers` maps slots that have not been filled in yet to the contents
they are going to have, which is what `Workers` assumes from its first state:
each behaviour of the program, cut off at whatever point, is one of `Workers`.
The constants `N` and `Home` of `Workers` are tied to the machine by
`SpawnAssumption`: threads get the objects that are picked in the order of the
objects (`PlacesInOrder`). `Label` is the walk of `result_print` over the bits of the
cpuset.

### Results

`Workers` treats a thread's row as a set of entries. `Results` looks at the same
rounds as indices: `Row` is `main`'s pointer (`main.cc:300`), `Offset`
`worker()`'s (`worker.c:270`), `Printed` what `result_print` reads
(`main.cc:278`), each computed modulo `Word` as the code does with its 32-bit
operands. A number is modelled by what was measured (a time, a counter's
starting value or its count, of which thread, repetition and event), so that
reading the wrong cell is recognised. `IndicesFit` says that the array has at most
`Word` numbers, 2^32 in the code, so that the three computations agree. Nothing in
the code sees to that, so it is no assumption on the constants but the condition
under which the properties of the array hold. `Wrong` is a number that is not the count of
the event that was opened there: the register counts another event, does not
run, or was not reset or noted for this call.

Each thread takes the steps `PmuInit`, then `PmuBegin` and `PmuEnd` for each
repetition, then `PmuFree`. `method` chooses between the ways to count events
that `arch.h` can be compiled for or choose at run time:

| `method` | code | what is special |
|---|---|---|
| `jevents` | libjevents on Linux | keeps the starting value in the result's own cell |
| `perf` | `perf_event_open` | resets by `ioctl`; the kernel runs the counter |
| `rawlinux`, `rawmck` | model-specific registers | one global register turns all counters on and off; the event's register is chosen by its place in `--pmcs`, not among the opened ones |
| `mck` | McKernel's calls | counters that are off have to be turned on, and are left as found |
| `arm` | aarch64 | no more events than counters; enabled and disabled one by one |
| `bgq` | Blue Gene/Q | only the first event of the set is read |
| `none` | other machines | no events |

`sel` is the event each counter is set up for, `zeroed` the repetition it was
last reset for, `ctrl` the counters turned on, `found` and `saved` what `ctrl` was
at first and what `arch_pmu_init` has kept of it. `CtrlRead` is `rdmsr`, which
`arch_pmu_init` calls with no file (`arch.h:353`): McKernel does not need one, but
on Linux the read fails and any value may be returned. Which events a thread can open is
any choice that keeps the others' order. A thread is assumed to stay on its PU
between `PmuInit` and `PmuFree`.

### Options

The command line is a sequence of words: rounds options of benchmarks, with "="
or with the value in the next word; one option of `main`'s that takes a value
(`--policy` stands for all of them); words that are no option. `--benchmarks`,
`--tune` and `--auto` are variables of their own. `Getopt` is one loop around
glibc's `getopt_long`: it takes the argument of an option it knows from wherever
it is, and moves words that are no option behind all others. It does so for the
benchmarks too: their option string starts with "-", but glibc only looks at
that when it is initialised, which is in `main`'s loop. `Scan` has getopt's state
after each word, so that what holds after a word can be shown from what held
before it (`GetoptStep`). `Numbers` are the numbers of rounds a user may write.

`ParseOptions` is `main`'s loop, `Select` one turn of the loop over the names,
`InitBenchmark` one benchmark's `init`. Tuning appends words that `main` has
allocated (`heap`), initialises all benchmarks, and replaces the words one by
one (`Estimate`); `FreeUsersWord` is the case where the word found at that place
is not `main`'s. Not in the model: abbreviated and short options, "--", numbers
out of range, the values of `main`'s other options, and what
`miniFE::get_parameters` (in a submodule) does with the same `argv`. `tune_time`
may find any number in `Estimates`.

### Sizes, Kernels, Sha256 and Benchmark

`TuneSize` is `tune_size` with exact integers for the code's doubles: the
configuration's fill factor is a percentage, and the square root is the greatest
integer whose square fits (`PerDim`). `WellTuned` states what the comment in
front of the function promises. A call of a benchmark is a sequence of *passes*
over the first elements of some arrays (`Pass`), as one loop of STREAM's, one turn
of HACCmk's, or dgemm as a whole. HACCmk's loop starts with the second element
(`HACCmk.c:191`, `PassFromOne`): it computes positions from the ones before, and
leaves the first mass to what `init_arg` has written (`HACCmk.c:156`). So what it
writes only adds to the beginning of an array if the first element is there
(`Written`). `arrays` records for each array how many
elements it has, how many of the first ones have been written, and how many the
call has used; `sizes` are the file-level variables `init` sets and `copied` the
one `init_arg` copies into the argument. `init` runs once or, after `--auto`,
twice, with arguments made by `init_arg` before (`inits`). Rounds repeat the same
accesses and are one; a call may be repeated any number of times.

`Sha256` follows single bytes: `buf` and `hashed`, the history of what the
compression function was given, hold the place of a byte in the message instead of its
value. `TakeBlock` and `TakePart` are the two branches of `sha256_process`'s
loop, `Done` is `sha256_done`. In `Benchmark` these run as the self-test
(`Messages` are the lengths of its vectors, `TestBegin` to `TestEnd`) before each
`init`, and as the pass of the sha256 benchmark, which hashes its buffer again
and again into one state. TLC follows up to `MaxFed` bytes into the hash; beyond,
a call is one step. The theorems hold without any such bound, for `MaxFed` is
arbitrary.

## Checks

| run | instance | question |
|---|---|---|
| `phase_barrier` | 3 threads, 3 calls each, `PhaseMod` 2 | does `barrier.c` keep the contract, and does every call return? |
| `pair` | 3 threads, 3 benchmarks, 2 iterations, no binding | is the hand-over safe under every interleaving, do threads start together and run the right benchmark, are the unlocked reads of `arg->cpu` ordered, is every row complete, are `IInv` and `RInv` invariants, does the whole implement `Campaign` and end? |
| `program` | `--no-ht` on 4 cores, one with two PUs; 3 of them chosen; 2 benchmarks one by one, 2 iterations; 4 sets to choose each cpuset from | does each thread get its own PU, does no thread see a half-filled slot, do turns not overlap, is every row complete although all turns share one item and one barrier, are rows labelled right, and does the program end, also if a thread cannot be created? |
| `results` | 3 threads, 2 iterations, 2 events, one of which may fail; 1 counter on ARM; `Word` exactly the size of the array; all methods | do rows overlap, is everything read where it was written, do counters run for their event, and is McKernel's control register given back? |
| `options` | 3 benchmarks, two of one family; up to 3 words and 2 names, 2 possible numbers of rounds, 2 possible estimates | do the right benchmarks run, with the rounds that were asked for, and does tuning measure what it thinks it does? |
| `kernels` | 9 benchmarks, 60 configurations, real sizes of elements, lines and blocks; messages of 3 and 56 bytes, up to 450 bytes hashed | do calls stay in bounds, read what was written and use the tuned working set? is every byte hashed once, in order and padded right? |
| `pair_asserts` | 2 threads, 3 benchmarks | violated: `queue_work`'s assertions in the second pair |
| `unbound` | 2 threads | violated: every measuring thread has been bound |
| `spawn_assert` | `--no-ht` with the default cpuset, 3 cores with two PUs | violated: the assertion at the end of `spawn_workers` |
| `skipped_event` | 1 thread, 2 events | violated: a column shows no other event than the one it is named after |
| `auto_crash` | options of up to 3 words, without names | violated: `--auto` runs the benchmarks |
| `lost_control` | 1 thread, 1 event | violated: on Linux, too, the control register is given back as found |

Why the bounds suffice: the threads only interact through `main` and the
barrier, so two workers and the dirigent show every pairwise interaction, and one
can be asleep while one is in the barrier and one leaves it. The rounds of
`parallel` have the form of round 0, which every run has, and of those of `pair`;
the proofs cover every policy. Three benchmarks under `pair` make two rounds, the
second with the odd one out; two benchmarks in `program` let a thread be late
from the last round in the next one. Two iterations let a row be half written.
Three calls per thread at the barrier make the phase wrap around with stragglers.
In `program`, three chosen cores leave two threads to create, so that one can
fail while an earlier one is asleep or still entering; the PUs' numbers are not in
hwloc's order, one core has to be skipped, which leaves a gap in the labels, and a
user may name a PU that does not exist, or the chosen set by way of either option.
In `Results` there is a row both before and after the middle thread's, and each
has two repetitions; the array is as large as `Word` permits, so an index off by
one row would wrap; the event that may fail is the first, so the second moves. In
`Options` three words suffice for an option, its value and another option before
or after it, in all orders; `Unsigned` is 4 instead of 2^32. In `kernels` sizes
lie on both sides of those that give no line at all, 400 elements of HACCmk, and
15000; buffers that are not a multiple of the block make calls end within a block,
and the second vector of the self-test is the longest that still needs a block of its
own for the length. All state spaces are finite without any constraint. Deadlock
is checked in each run: only a finished program, or one that has ended in `exit`,
a failed assertion or a crash, may stop.

*Fairness.* `FairSpec` assumes that a thread that can take a step is eventually
scheduled and that each benchmark call returns (`WF` of `main`'s steps and of
each thread's). Wakeups without a signal are never assumed. The mutexes need no
fairness of their own, as each critical section is one step that is never
disabled by another one: a slot is only used by `main` and one worker. In
`PhaseBarrier` each thread's steps are weakly fair too; contention for its mutex
is hidden in the scheduler's fairness. `ProgramSpec` has the same for `main`,
from its first step on, and for the threads that exist.

### What the runs found

* `pair_asserts`: `run_two_benchmarks` waits for the threads from the second one
  on (`main.cc:405`), so the dirigent's slot stays `DONE` and keeps a pointer to
  an item of the freed step. With more than two benchmarks the next pair's
  `queue_work` fails its assertions (`worker.c:45-46`). The run `pair` shows
  that a build without assertions still produces complete results.
* `unbound`: `arg->init` is tested (`worker.c:242`) before anything has written
  it (`main.cc:101-116`). If the byte happens not to be zero the thread is never
  bound, contrary to `worker.h:37`.
* `spawn_assert`: with `--no-ht` only one PU per core is allocated, while the
  default cpuset holds all of them, so `assert` at `main.cc:139` fails on every
  machine with several PUs per core. A build without assertions, or a cpuset of
  first PUs only, works (`SpawnNeedsFirsts`).
* `skipped_event`: an event that cannot be opened leaves no gap (`arch.h:362`).
  Later events' counts appear under its name (`main.cc:270`), and the last
  column is printed without ever having been written. `OpenedColumns` shows that
  the columns are right when nothing was skipped.
* `auto_crash`: with `--policy pair --auto` the benchmarks' parsers move "pair"
  behind the options tuning has appended, and `main.cc:467` frees it. `--auto`
  works if every value is given with "=" and no word is left over
  (`CrashNeedsPlainWord`, `RoundsAsAsked`).
* `lost_control`: with model-specific registers on Linux `arch_pmu_init` reads the
  global control register with file descriptor -1 (`arch.h:353`). The read fails,
  `rdmsr` says so and returns its uninitialised variable (`arch.h:223-228`), and
  `arch_pmu_free` writes that to the register (`arch.h:447`), which
  `arch_pmu_init` has cleared (`arch.h:427`). Other programs' counters may then
  stay off, of which the comment at `arch.h:417` warns, or be turned on.

Two more come out of the proofs. `CapacityTakesHalf`: `num_lines` is computed from
the working set size (`capacity.cpp:46`), the array is twice as large
(`capacity.cpp:44`), so only its first half is accessed, while `src/README.md:56`
says each line of it is; the benchmark then fits into the cache it is meant to
overflow. `LargeArraysOverlap`: with more than 2^32 numbers in the array, as large
`--iterations` make it, indices wrap (`main.cc:278,300`) and different rows share
cells.

Also worth knowing: `LabelsAreHome` only holds where hwloc's order is that of
the PUs' numbers: `result_print` takes the numbers from the bits of the cpuset
(`main.cc:273`), the rows are in the order of the objects. With overlapping
cpusets the assertion at `main.cc:377` fails; without assertions `--policy pair`
prints the benchmark of cpuset-1 for the common PUs. With raw registers a
skipped event makes the later ones' values meaningless, not only misplaced
(`NothingWrong` excepts them; `arch.h:374` and 522 differ in their index).
HACCmk does no work if its vectors have exactly 400 elements (`HACCmk.c:186`),
as after its own adjustment, and exceeds the working set there. If
`pthread_create` fails, `Spawn` reaches "crashed", as `main` uses the null
pointer it gets (`main.cc:132,810`), and `WellFormed` in `Options` states in
which positions a number of rounds in a word of its own reaches its benchmark;
elsewhere, as in `--fwq-rounds 5 --policy=pair`, the benchmark reads the next
option as a number, which is 0.

## Proofs

All theorems hold for every value of the constants that the named assumptions
admit: any number of threads, any of the policies, any number of benchmarks and
iterations, any machine and cpuset, with and without binding, any method of
counting, any cache. The proofs are checked by TLAPS with Z3, Zenon and LS4.

*WorkersProofs.* None of the properties is inductive: that the worker finds
`WORKING` in its slot depends on where `main` is. `IInv` therefore describes,
for each position of `main`, which threads have been queued, which have been
collected and in which phase of its life each slot is; and that a slot's state
determines where its worker can be, what it holds and who can be asleep on it.
It includes the exception for the dirigent under `pair`, whose slot stays
`DONE`. `Init => IInv` and one lemma per action give `Inductive`. From it:

* `TypeCorrect` (`TypeOK`), `WakeupsArrive` (`NoLostWakeup`),
  `StepOutlivesItsUse` (`StepInUse`), for all policies;
* `AssertionsNeverFail` (`AssertionsHold`), for all policies but `pair`, where
  it is false from three benchmarks on;
* `OnePairIsSafe`: with up to two benchmarks it holds there too. `LeftInv` follows
  the dirigent's slot up to the first pair;
* `OnlyMarkedAreUnbound` and `ClearedThreadsAreBound` (`BoundWhenMeasuring`): a
  thread measures unbound only if `spawn_workers` left a byte that is not zero in
  its `arg->init` (`MarkInv`), so clearing it would be enough.

*WorkersResults.* `RInv` adds what has been written: the rows of the threads
already done are complete, the row of a thread at work has as many entries as
its `rep`, the others are empty; and what the items in flight contain. It is
inductive relative to `IInv`. From it follow `EveryRowComplete`
(`MatrixComplete`), `CpuReadsAreOrdered` (`CpuIsSettled`), `CpuStays`
(`CpuKept`, `arg->cpu` never changes after the first round) and
`TurnsAreExclusive` (`OneAtATime`). `TogetherInv` says that no thread is beyond
the barrier, and `main` does not collect, while one has still to arrive; it is
kept because a barrier for `N` threads only opens when the others are all
inside, for which the members of `arrived` have to be counted (`LastToArrive`).
From it follows `EverybodyStartsTogether` (`StartTogether`). `StopInv` says
which threads `stop_workers` has already stopped. With `IInv`, `RInv` and
`StopInv` each step of `Workers` is a step of `Campaign` or cannot be seen
there, which gives `ImplementsCampaign` (`CampaignSpec`).

*ProgramProofs.* `WalkInv` ties the walk over the machine to the threads: the
objects passed are those of the threads counted so far, so the allocated PUs are
theirs. This needs that each object has a first PU, different from the others'
(`FirstPUFacts`), and that the next object in the cpuset is the next thread's
(`NextPlace`). `QuietInv` describes the threads that run while `main` spawns:
they have nothing in their slot and can only bind themselves and go to sleep.
Therefore, when the last slot has been filled in, the state satisfies the
invariants of `Workers` (`QuietStart`), wherever the threads are; and from then on
each step of the program is one of `Workers`, whose lemmas show that it keeps
them. `SpawnInv` is all of this (`ProgramInductive`). From it follow
`ProgramTypeCorrect` (`ProgramTypeOK`), `PUsAreNotShared` (`OneThreadPerPU`),
`ProgramAssertions` (`AssertionsHold`, for all policies but `pair`) and
`ProgramTurns` (`OneAtATime`) for the whole program; `RowsAreLabelled`
(`LabelsAreHome`), as the PU of thread *t* has exactly *t* smaller ones among the
allocated; and `SpawnImplementsWorkers` (`ImplementsWorkers`), by looking through
`Filled` at each step of `main` and of a thread, before and after
`spawn_workers` returns. `RunsetChecked` (`RunsetIsUsable`) has an invariant of
its own about the command line (`SetupInv`). `SpawnNeedsFirsts` (`WeightsAgree`) says
when the last assertion of `spawn_workers` holds: if the cpuset has only first PUs
of the objects walked over (`FirstsOnly`), as it always has with PUs; otherwise no
spawn succeeds.

*ResultsProofs.* Under `IndicesFit`, `Layout` shows that the three computations
of an index agree and do not wrap, and `IndexInjective` that two different
numbers have two different cells, by uniqueness of two-digit numbers
(`TwoDigits`). `ResultsInv` adds what a cell may hold and, for each method, what
a counter is set up for, when it was reset and whether it is on; between
`PmuBegin` and `PmuEnd` each counter's cell has its starting value or its
counter counts from zero. From it follow `ArrayTypeCorrect` (`ResultsTypeOK`),
`RowsAreOwn` (`PrintedIsOwn`), `CountersRun` (`NothingWrong`, which excepts raw
registers after a skipped event) and `CtrlRestored` (`CtrlGivenBack`, under
McKernel), for any events that fail. `LargeArraysOverlap` is the converse of
`RowsAreOwn`: without `IndicesFit` the array has a number at the place `Word`,
which division splits into row, repetition and column (`Digits`, `HighDigit`),
and it is printed from the cell of the first one. `ColumnsInv` adds that a
thread which has opened all events has each one's count in its own cell as soon
as a repetition is over; the only list of `NumPmcs` events in their order is the
list of all (`AllOpened`). From it follows `EventsInTheirColumns`
(`OpenedColumns`).

*OptionsProofs.* A parser's loop is no step of the model but a function of the
words, so what it does has to be shown by induction along them. The library's
induction rules cannot be used, but a set of positions that has 0 and the
successor of each of its members is shown to have all (`StepByStep`, by the least
one missing): the position after which a fact about `Scan` holds is such a set.
`ScanTyped` describes the loop's state after any number of words; from it come

* `Unmoved`, `InPlaceAlways`: when a parser leaves the words where they are;
* `FoundValues`: what it finds for an option is the last value the words hold for
  it (`Holds`), if an option with its value in the next word is followed by a word
  that is none (`Followed`);
* `ValuesKept`: if all values are given with "=" (`Tidy`), no permutation changes
  the last value of any option, though words change their order;
* `StuckStays`, `GetsStuck`: a word that is no option and has been moved behind
  those of `main` stays at the end under every later parser.

`OInv` needs a part for each thing two parsers have to agree on. `OSelection`: the
names kept are the known ones among those read (`Kept`), with the counter that
wraps. `OTune`: with `--tune` no parser changes `main`'s words. `OTimed`: as long as
a benchmark has not been initialised its last value is the ten of `main`'s word,
and each `init` so far has put it into `rounds`. `OAuto`: with `--auto` either argv
is what `main` has built, and no benchmark's parser moves anything, whatever the
values in `main`'s words (`Settled`, `AlikeMoved`); or a word of the user's is stuck
at the end, and then the last `free` hits it. So an argv in which estimates are
written in the wrong place is never parsed. `OReady`: what `WellFormed` asks of the
command line survives `main`'s loop and the parsers (`BaseReady`, `ReadyStays`).
`ORounds`: a benchmark no word is about keeps its default; the others' rounds are
those asked for once their `init` has run. From it follow `OptionsTyped`
(`OptionsTypeOK`), `ChosenAreInOrder` (`ChosenInOrder`), `TunePrintsEstimates`
(`TunePrints`), `TimedWithTenRounds` (`TimedAsInitialised`) and `RoundsAreAsAsked`
(`RoundsAsAsked`). Two more theorems delimit the finding of `auto_crash`:
`CrashNeedsPlainWord` says that `main` frees a word of the user's only with
`--auto` and only if some word is no option, and `FreedWordsAreOwn` that the words
it frees in the end (`main.cc:742-744` and 760-762) are its own.

*PhaseBarrierProofs.* `BInv` relates each thread's call count to the number of
openings: a thread outside has passed as often as the barrier has opened; one
that waits for the current phase is one call ahead; one that has been released
is about to catch up. Since no thread can be two openings behind, a phase
counted modulo any number of at least two tells them apart. From it follow
`NobodyLeavesEarly` (`NoEarlyLeave`), `NobodySleepsThrough`
(`SleepersAreCounted`) and `ImplementsBarrier` (`ContractSpec`), which is what
justifies using `Barrier` in `Workers`.

*KernelsProofs.* The integer root of `PerDim` exists because the numbers whose
successor is too large have a least one (`LeastNumber`); monotonicity of
products then gives `SizesAreTuned`: `tune_size` keeps the promise of its comment
for every size, line, fill factor and element. `KInv` says how long each
benchmark's arrays are and how much of them has been written at each pass, with
sizes that `init` may have computed again since. From it follow
`CallsStayInBounds` (`InBounds`), `CallsReadWhatIsWritten` (`ReadsInitialised`,
where `init_arg` has to have written the first element of HACCmk's positions and masses)
and `WorkingSetIsTuned` (`WorkingSetAsTuned`). `CapacityTakesHalf` says what of its
array `capacity` goes through: the first half up to two lines, for every size of at
least a line, which refutes `EachLineAccessed` in general (`UsedInv`).

*Sha256Proofs.* `BInv` says that hashed bytes, then buffered bytes, then those
still to come are the message in order, and where a call is in its part of it.
From it follow `BenchmarkTypeCorrect` (`BenchmarkTypeOK`) and `BytesStayInOrder`
(`BytesInOrder`). `PaddingIsRight` (`PaddedRight`) also needs that only one
number of zeros smaller than a block fills it.

*Only model-checked*: liveness (`Terminates`, `EveryCallReturns`, `ProgramEnds`),
which rests on fairness and so on ENABLED, out of this prover's reach. All other
properties of the passing runs are proved.

## Not modelled

* Failing allocations and initialisers: the code exits or ignores them. Also
  that memory grows with each round, as nobody calls `free_arg`.
* The values the numeric kernels compute and the compression function of SHA-256:
  nobody looks at them but the self-test, and TLC could not evaluate them on
  meaningful inputs. FWQ, which has no memory; HPCCG and miniFE, whose code is
  vendored or in a submodule.
* Timestamps, including the loop of `read_timebase` that reads two halves of a
  register until they fit (`arch.h:706-720`), `pmu_info`, which prints, and the
  tables of event names.
* The arithmetic of `tune_time` (`main.cc:440-449`): any estimate is possible in
  `Options`. The values of `main`'s other options, among them the list of
  counters (`main.cc:716-731`); `Results` starts from a list of complete names.
* Cpusets that overlap, and the assertion against them (`main.cc:377`): an instance
  has one chosen set, and `Set1` decides.
* A list `--benchmarks` without any name: in `Options` no names mean that the
  option is not given, and all benchmarks run; the code runs none.
* A line size of 0, should hwloc report one, and elements larger than a line: both
  make `tune_size` divide by zero (`benchmark.c:96`) and are excluded by
  `KernelsAssumption`.
* Other C libraries' `getopt_long`, as BSD's, which treats a leading "-" in the
  option string on each call.
* McKernel's system calls, inline assembly, the build.

## Plan

Done, in order: `Barrier`, `PhaseBarrier`, `Workers`, `Campaign`, `Spawn`,
`Results`, `Options`; `Program` with the labels of the output; all methods of
counting; `Sizes`, `Kernels`, `Sha256` and `Benchmark`; and the proofs above,
after which liveness is all that rests on TLC alone. What is left is small:

1. the list of counters (`main.cc:716-731`), whose last entries are never written
   when `--pmcs` has empty names;
2. the arithmetic of `tune_time`, with its integer division (`main.cc:447`).
