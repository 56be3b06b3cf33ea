------------------------------ MODULE Kernels ------------------------------
(***************************************************************************)
(* The memory of one benchmark from init to its calls: init computes sizes *)
(* into static variables, init_arg allocates arrays with them, and call    *)
(* goes through the arrays with the same static variables, or with a copy  *)
(* taken in between.  tune_time and worker() do this in the same order     *)
(* (main.cc:427-436, worker.c:253-275), after an init of their own.        *)
(*                                                                         *)
(* What is computed is left out.  An array is its length, the number of    *)
(* elements at its beginning that have been written, and the number of     *)
(* those a call has accessed.  A call is a sequence of passes over arrays. *)
(* Calls have at least one round (capacity's default is none,              *)
(* capacity.cpp:15), and sizes are far below 2^31, from where capacity's   *)
(* twice the size would not fit (capacity.cpp:40,44).                      *)
(* HPCCG and MiniFE, whose kernels are not in the repository, are left     *)
(* out, and so are fwq, which has no array, and failing allocations.       *)
(***************************************************************************)
EXTENDS Sizes, FiniteSets

CONSTANTS
  Configs,     (* those that may be asked for                               *)
  Double,      (* sizeof(double), 8                                         *)
  Float,       (* sizeof(float), 4                                          *)
  MinVector,   (* 400, the smallest vector of HACCmk                        *)
  MaxVector,   (* 15000, the largest                                        *)
  Stride       (* 20, by which its loop proceeds                            *)

ASSUME KernelsAssumption ==
  /\ Double \in Nat \ {0} /\ Float \in Nat \ {0}
  /\ \A c \in Configs : /\ c \in [size : Nat, line : Nat, fill : Nat]
                        /\ c.line >= Double /\ c.line >= Float
                        /\ c.line % Double = 0 /\ c.line % Float = 0
  /\ MinVector \in Nat \ {0} /\ MaxVector \in Nat /\ Stride \in Nat \ {0}
  /\ MinVector <= MaxVector /\ MinVector % 4 = 0 /\ MaxVector % 4 = 0

Streams == {"Copy", "Scale", "Add", "Triad", "STREAM"}
Kinds == Streams \cup {"dgemm", "HACCmk", "sha256", "capacity"}

VARIABLES
  kpc,       (* "init", "init_arg", "call"                                  *)
  kernel,    (* the benchmark                                               *)
  config,    (* init's argument                                             *)
  sizes,     (* static variables: N, size[], size, num_lines                *)
  copied,    (* arg->N or arg->length                                       *)
  arrays,    (* the memory init_arg has allocated                           *)
  pass,      (* number of passes the call has made                          *)
  inits      (* calls of init, one or two (with --auto)                     *)

kvars == <<kpc, kernel, config, sizes, copied, arrays, pass, inits>>

Array(len, written) == [len |-> len, written |-> written, used |-> 0]

KernelsInit ==
  /\ kpc = "init"
  /\ kernel \in Kinds
  /\ config \in Configs
  /\ sizes = [none |-> 0] /\ copied = 0
  /\ arrays = [none |-> Array(0, 0)]
  /\ pass = 0 /\ inits = 0

-----------------------------------------------------------------------------
(* The number of arrays of each member of STREAM. *)
datasets == [type \in Streams |-> IF type \in {"Copy", "Scale"} THEN 2 ELSE 3]

(* HACCmk_init's corrections. *)
Vector(n) ==
  LET large == IF n < MinVector THEN MinVector ELSE n
      four == large - (large % 4)
  IN  IF four > MaxVector THEN MaxVector ELSE four

SizesOf(k, c) ==
  CASE k \in Streams -> [type \in Streams |-> TuneSize(c, Double, datasets[type], 1)]
    [] k = "dgemm" -> [N |-> TuneSize(c, Double, 3, 2)]
    [] k = "HACCmk" -> [N |-> Vector(TuneSize(c, Float, 7, 1))]
    [] k = "sha256" -> [size |-> TuneSize(c, 1, 1, 1)]
    [] k = "capacity" -> [size |-> c.size * 2, num_lines |-> c.size \div c.line]

(* init_benchmarks, once, or again after tuning. *)
ReadyForInit == (kpc = "init" \/ (kpc = "call" /\ pass = 0)) /\ inits < 2

InitKernel ==
  /\ ReadyForInit
  /\ sizes' = SizesOf(kernel, config)
  /\ inits' = inits + 1
  /\ kpc' = "init_arg"
  /\ UNCHANGED <<kernel, config, copied, arrays, pass>>

-----------------------------------------------------------------------------
(* What init_arg allocates and initialises: of STREAM's sizes the one for  *)
(* two or three arrays, of HACCmk's vectors the first elements.  Mutants:  *)
(* the other size; no first element of mass.                               *)
OtherSize(type) == IF datasets[type] = 2 THEN sizes["STREAM"] ELSE sizes["Copy"]
StreamSize(type) == IF datasets[type] = 2 THEN sizes["Copy"] ELSE sizes["STREAM"]

Positions == {"xx", "yy", "zz"}
Velocities == {"vx1", "vy1", "vz1"}
MassNotSet(name) == IF name \in Positions THEN 1 ELSE 0
FirstSet(name) == IF name \in Velocities THEN 0 ELSE 1

StreamNames(type) == IF datasets[type] = 2 THEN {"a", "b"} ELSE {"a", "b", "c"}

Allocated ==
  CASE kernel \in Streams ->
         [x \in StreamNames(kernel) |-> Array(StreamSize(kernel), StreamSize(kernel))]
    [] kernel = "dgemm" -> [x \in {"A", "B", "C"} |-> Array(sizes.N * sizes.N, sizes.N * sizes.N)]
    [] kernel = "HACCmk" ->
         [x \in Positions \cup {"mass"} \cup Velocities |-> Array(sizes.N, FirstSet(x))]
    [] kernel = "sha256" -> [x \in {"buf"} |-> Array(sizes.size, sizes.size)]
    [] kernel = "capacity" -> [x \in {"data"} |-> Array(sizes.size, 0)]

InitArg ==
  /\ kpc = "init_arg"
  /\ arrays' = Allocated
  /\ copied' = CASE kernel = "dgemm" -> sizes.N
                 [] kernel = "sha256" -> sizes.size
                 [] OTHER -> 0
  /\ pass' = 0
  /\ kpc' = "call"
  /\ UNCHANGED <<kernel, config, sizes, inits>>

-----------------------------------------------------------------------------
(* A pass reads the first elements of some arrays and writes those of      *)
(* others, of some of them all but the very first.                         *)
First(names, n) == [x \in names |-> n]
PassFromOne(names, reads, writes) == [reads |-> reads, writes |-> writes, fromOne |-> names]
Pass(reads, writes) == PassFromOne({}, reads, writes)

(* STREAM's four loops. *)
Copy(n) == Pass(First({"a"}, n), First({"b"}, n))
Scale(n) == Pass(First({"b"}, n), First({"a"}, n))
Add(n) == Pass(First({"a", "b"}, n), First({"c"}, n))
Triad(n) == Pass(First({"b", "c"}, n), First({"a"}, n))

StreamPass(p) ==
  LET n == sizes["STREAM"]
  IN  CASE p = 0 -> Copy(n)
        [] p = 1 -> Scale(n)
        [] p = 2 -> Add(n)
        [] OTHER -> Triad(n)

(* HACCmk's loop over n = 400, 420, .. < N: each element but the first is  *)
(* computed from the one before, the velocities are cleared; then the      *)
(* interaction of the first with all.                                      *)
NumVectors == (sizes.N - MinVector + Stride - 1) \div Stride

Advance(n) ==
  PassFromOne(Positions \cup {"mass"},
              First(Positions, 1), First(Positions \cup {"mass"} \cup Velocities, n))
Interact(n) ==
  Pass([x \in Positions \cup {"mass"} \cup Velocities |-> IF x \in Velocities THEN 1 ELSE n],
       First(Velocities, 1))

HACCmkPass(p) ==
  LET n == MinVector + Stride * (p \div 2)
  IN  IF p % 2 = 0 THEN Advance(n) ELSE Interact(n)

(* capacity accesses the first byte of each of num_lines lines, and writes *)
(* every other of them.                                                    *)
LastLine == IF sizes.num_lines = 0 THEN 0 ELSE (sizes.num_lines - 1) * config.line + 1

NumPasses ==
  CASE kernel = "STREAM" -> 4
    [] kernel = "HACCmk" -> 2 * NumVectors
    [] OTHER -> 1

PassOf(p) ==
  CASE kernel = "Copy" -> Copy(sizes["Copy"])
    [] kernel = "Scale" -> Scale(sizes["Scale"])
    [] kernel = "Add" -> Add(sizes["Add"])
    [] kernel = "Triad" -> Triad(sizes["Triad"])
    [] kernel = "STREAM" -> StreamPass(p)
    [] kernel = "dgemm" -> Pass(First({"A", "B", "C"}, copied * copied), First({"C"}, copied * copied))
    [] kernel = "HACCmk" -> HACCmkPass(p)
    [] kernel = "sha256" -> Pass(First({"buf"}, copied), First({}, 0))
    [] kernel = "capacity" -> Pass(First({"data"}, LastLine), First({}, 0))

Extent(f, x) == IF x \in DOMAIN f THEN f[x] ELSE 0
Larger(a, b) == IF a < b THEN b ELSE a

(* What is written from the second element on adds to the beginning of the *)
(* array only if its first element has been written.                       *)
Written(p, x, old) ==
  IF x \in p.fromOne /\ old = 0 THEN 0 ELSE Larger(old, Extent(p.writes, x))

(* reset_arg is NULL for all of them. *)
CallPass ==
  /\ kpc = "call"
  /\ pass < NumPasses
  /\ LET p == PassOf(pass)
     IN  arrays' = [x \in DOMAIN arrays |->
           [arrays[x] EXCEPT !.written = Written(p, x, @),
                             !.used = Larger(@, Larger(Extent(p.reads, x), Extent(p.writes, x)))]]
  /\ pass' = pass + 1
  /\ UNCHANGED <<kpc, kernel, config, sizes, copied, inits>>

(* The call returns; there may be another one. *)
CallReturns ==
  /\ kpc = "call"
  /\ pass = NumPasses
  /\ arrays' = [x \in DOMAIN arrays |-> [arrays[x] EXCEPT !.used = 0]]
  /\ pass' = 0
  /\ UNCHANGED <<kpc, kernel, config, sizes, copied, inits>>

KernelsNext == InitKernel \/ InitArg \/ CallPass \/ CallReturns

KernelsSpec == KernelsInit /\ [][KernelsNext]_kvars

-----------------------------------------------------------------------------
(* A type invariant. *)
KernelsTypeOK ==
  /\ kpc \in {"init", "init_arg", "call"}
  /\ kernel \in Kinds
  /\ config \in Configs
  /\ \A x \in DOMAIN sizes : sizes[x] \in Nat
  /\ copied \in Nat
  /\ \A x \in DOMAIN arrays : arrays[x] \in [len : Nat, written : Nat, used : Nat]
  /\ pass \in Nat
  /\ inits \in 0 .. 2

(* What the call is about to access. *)
Accessing == kpc = "call" /\ pass < NumPasses

(* A call stays inside its arrays: with the sizes init has computed, or    *)
(* adjusted, since they were allocated (dgemm.c:60,123-125,                *)
(* HACCmk.c:137-144,186-208, stream.c:243-256,311-349, capacity.cpp:30-36, *)
(* sha256.c:567,590).                                                      *)
InBounds ==
  Accessing =>
    LET p == PassOf(pass)
    IN  \A x \in DOMAIN p.reads \cup DOMAIN p.writes :
          /\ x \in DOMAIN arrays
          /\ Extent(p.reads, x) <= arrays[x].len
          /\ Extent(p.writes, x) <= arrays[x].len

(* It reads what was written before by init_arg or by itself: HACCmk each  *)
(* element from the one before, and the first of xx, yy, zz and mass,      *)
(* which only init_arg writes (HACCmk.c:153-156,191-196,203), the others   *)
(* all of their arrays (dgemm.c:126-132, stream.c:259-265, sha256.c:573).  *)
(* Only capacity does not care what it reads (capacity.cpp:25,34).         *)
ReadsInitialised ==
  Accessing /\ kernel # "capacity" =>
    LET p == PassOf(pass)
    IN  \A x \in DOMAIN p.reads : p.reads[x] <= arrays[x].written

(* A whole call of a benchmark whose size is tuned accesses as many whole  *)
(* lines as fit into the given part of the cache, no more and no less, by  *)
(* tune_size's comment (benchmark.c:71-74) and README.md:64-68.  HACCmk    *)
(* fits too, unless 400 elements do not (HACCmk.c:89-93).                  *)
Touched(x) == arrays[x].used
Called == kpc = "call" /\ pass = NumPasses

WorkingSetAsTuned ==
  Called =>
    CASE kernel \in Streams -> \A x \in DOMAIN arrays :
           WellTuned(Touched(x), config, Double, Cardinality(DOMAIN arrays), 1)
      [] kernel = "dgemm" -> \E n \in 0 .. Touched("A") :
           /\ \A x \in DOMAIN arrays : Touched(x) = n * n
           /\ WellTuned(n, config, Double, 3, 2)
      [] kernel = "sha256" -> WellTuned(Touched("buf"), config, 1, 1, 1)
      [] kernel = "HACCmk" -> sizes.N > MinVector =>
           \A x \in DOMAIN arrays : Bytes(Touched(x), Float, 7, 1) <= Capacity(config)
      [] OTHER -> TRUE

(* README.md:55: "The capacity benchmark accesses each cache line of an    *)
(* array of twice the working set size".  It accesses the first half of    *)
(* them (capacity.cpp:44,46).                                              *)
EachLineAccessed ==
  Called /\ kernel = "capacity" => arrays["data"].len - Touched("data") < config.line

=============================================================================
