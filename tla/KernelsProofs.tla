--------------------------- MODULE KernelsProofs ---------------------------
(***************************************************************************)
(* Proofs about Sizes, Kernels and Benchmark: sizes are tuned right for    *)
(* every cache, and calls stay inside what init_arg has allocated.         *)
(***************************************************************************)
EXTENDS Benchmark, FiniteSetTheorems, WellFoundedInduction, TLAPS

-----------------------------------------------------------------------------
(* A set of natural numbers that is not empty has a least one.             *)
LEMMA LeastNumber ==
  ASSUME NEW S \in SUBSET Nat, S # {}
  PROVE  \E m \in S : \A y \in S : m <= y
<1>1. \E x \in S : \A y \in S : ~(<<y, x>> \in OpToRel(<, Nat))
  BY NatLessThanWellFounded, WFMin, Zenon
<1>2. PICK x \in S : \A y \in S : ~(<<y, x>> \in OpToRel(<, Nat))
  BY <1>1
<1>3. \A y \in S : ~(y < x)
  BY <1>2 DEF OpToRel
<1> QED
  BY <1>3

(* The root that pow computes exists. *)
LEMMA PerDimIsRoot ==
  ASSUME NEW e \in Nat, NEW p \in {1, 2}
  PROVE  /\ PerDim(e, p) \in Nat
         /\ Elements(PerDim(e, p), p) <= e
         /\ e < Elements(PerDim(e, p) + 1, p)
<1> DEFINE S == {d \in Nat : e < Elements(d + 1, p)}
<1>1. e \in S
  <2>1. e < e + 1 /\ e < (e + 1) * (e + 1)
    OBVIOUS
  <2> QED
    BY <2>1 DEF Elements
<1>2. PICK m \in S : \A y \in S : m <= y
  BY <1>1, LeastNumber
<1>3. m \in 0 .. e
  BY <1>1, <1>2
<1>4. Elements(m, p) <= e
  <2>1. CASE m = 0
    BY <2>1 DEF Elements
  <2>2. CASE m > 0
    <3>1. m - 1 \notin S /\ m - 1 \in Nat
      BY <1>2, <2>2
    <3>2. ~(e < Elements((m - 1) + 1, p)) /\ (m - 1) + 1 = m
      BY <3>1
    <3>3. Elements(m, p) \in Nat
      BY <1>3 DEF Elements
    <3> QED
      BY <3>2, <3>3
  <2> QED
    BY <1>3, <2>1, <2>2
<1>5. \E d \in 0 .. e : Elements(d, p) <= e /\ e < Elements(d + 1, p)
  BY <1>2, <1>3, <1>4
<1> QED
  BY <1>5 DEF PerDim

(* Products of naturals are monotonic. *)
LEMMA ProductMonotonic ==
  ASSUME NEW a \in Nat, NEW b \in Nat, NEW c \in Nat, a <= b
  PROVE  c * a <= c * b /\ a * c <= b * c
OBVIOUS

LEMMA ElementsMonotonic ==
  ASSUME NEW m \in Nat, NEW n \in Nat, NEW p \in {1, 2}, m <= n
  PROVE  Elements(m, p) \in Nat /\ Elements(n, p) \in Nat /\ Elements(m, p) <= Elements(n, p)
<1>1. m * m <= m * n /\ m * n <= n * n
  BY ProductMonotonic
<1>2. m * m \in Nat /\ m * n \in Nat /\ n * n \in Nat
  OBVIOUS
<1> QED
  BY <1>1, <1>2 DEF Elements

(* A quotient rounded down: what it leaves is less than the divisor.       *)
LEMMA Quotient ==
  ASSUME NEW a \in Nat, NEW b \in Nat \ {0}
  PROVE  /\ a \div b \in Nat
         /\ b * (a \div b) <= a
         /\ a < b * ((a \div b) + 1)
OBVIOUS

(* tune_size counts elements in whole lines.                               *)
LEMMA WholeLines ==
  ASSUME NEW line \in Nat, NEW data \in Nat \ {0}, line >= data, line % data = 0
  PROVE  /\ line \div data \in Nat \ {0}
         /\ line = (line \div data) * data
OBVIOUS

(* The result of tune_size is in elements, and it is well tuned: for every *)
(* size, line, fill factor and element (benchmark.c:93-97).                *)
THEOREM SizesAreTuned ==
  ASSUME NEW conf \in [size : Nat, line : Nat, fill : Nat],
         NEW data \in Nat \ {0}, NEW sets \in Nat \ {0}, NEW power \in {1, 2},
         conf.line >= data, conf.line % data = 0
  PROVE  /\ TuneSize(conf, data, sets, power) \in Nat
         /\ WellTuned(TuneSize(conf, data, sets, power), conf, data, sets, power)
<1> DEFINE cap == Capacity(conf)
           elems == (cap \div sets) \div data
           d == PerDim(elems, power)
           k == conf.line \div data
           lines == d \div k
           n == TuneSize(conf, data, sets, power)
<1>1. cap \in Nat /\ cap \div sets \in Nat /\ elems \in Nat
  <2>1. conf.size * conf.fill \in Nat
    OBVIOUS
  <2>2. cap \in Nat
    BY <2>1, Quotient DEF Capacity
  <2> QED
    BY <2>2, Quotient
<1>2. k \in Nat \ {0} /\ conf.line = k * data /\ conf.line \in Nat
  BY WholeLines
<1>3. d \in Nat /\ Elements(d, power) <= elems /\ elems < Elements(d + 1, power)
  BY <1>1, PerDimIsRoot
<1>4. lines \in Nat /\ k * lines <= d /\ d < k * (lines + 1)
  BY <1>2, <1>3, Quotient
<1>5. n = k * lines
  <2>1. n = (lines * conf.line) \div data
    BY DEF TuneSize
  <2> HIDE DEF lines, k
  <2>2. lines * conf.line = (k * lines) * data
    BY <1>2, <1>4
  <2>3. ((k * lines) * data) \div data = k * lines
    BY <1>2, <1>4
  <2> QED
    BY <2>1, <2>2, <2>3
<1>6. n \in Nat /\ n <= d
  <2> HIDE DEF lines, k, d, n
  <2> QED
    BY <1>2, <1>3, <1>4, <1>5
<1>7. (n * data) % conf.line = 0
  <2> HIDE DEF lines, k, d, n
  <2>1. n * data = lines * conf.line
    BY <1>2, <1>4, <1>5
  <2>2. CASE conf.line > 0
    BY <1>2, <1>4, <2>1, <2>2
  <2>3. conf.line > 0
    BY <1>2
  <2> QED
    BY <2>2, <2>3
<1>8. d + 1 <= n + k
  <2> HIDE DEF lines, k, d, n
  <2>1. k * (lines + 1) = k * lines + k
    BY <1>2, <1>4
  <2> QED
    BY <1>2, <1>3, <1>4, <1>5, <2>1
<1>9. Bytes(n, data, sets, power) <= cap
  <2> HIDE DEF cap, lines, k, d, n
  <2>1. Elements(n, power) \in Nat /\ Elements(n, power) <= elems
    BY <1>1, <1>3, <1>6, ElementsMonotonic
  <2>2. data * Elements(n, power) <= data * elems
    BY <1>1, <2>1, ProductMonotonic
  <2>3. data * elems <= cap \div sets
    BY <1>1, Quotient
  <2> DEFINE q == data * Elements(n, power)
  <2>4. q \in Nat /\ q <= cap \div sets
    <3> HIDE DEF elems
    <3> QED
      BY <1>1, <2>1, <2>2, <2>3
  <2>5. sets * q <= sets * (cap \div sets) /\ sets * (cap \div sets) <= cap
    <3> HIDE DEF q
    <3> QED
      BY <1>1, <2>4, ProductMonotonic, Quotient
  <2>6. Bytes(n, data, sets, power) = sets * q
    BY <2>1 DEF Bytes
  <2>7. sets * q \in Nat /\ sets * (cap \div sets) \in Nat
    BY <1>1, <2>4
  <2> QED
    BY <1>1, <2>5, <2>6, <2>7
<1>10. Bytes(n + k, data, sets, power) > cap
  <2> HIDE DEF cap, lines, k, d, n
  <2> DEFINE e == Elements(n + k, power)
             r == cap \div sets
  <2>1. e \in Nat /\ elems + 1 <= e
    <3> HIDE DEF elems
    <3>1. d + 1 \in Nat /\ n + k \in Nat
      BY <1>2, <1>3, <1>6
    <3>2. /\ Elements(d + 1, power) \in Nat /\ Elements(n + k, power) \in Nat
          /\ Elements(d + 1, power) <= Elements(n + k, power)
      BY <1>8, <3>1, ElementsMonotonic
    <3> QED
      BY <1>1, <1>3, <3>2
  <2>2. r \in Nat /\ cap < sets * (r + 1)
    BY <1>1, Quotient
  <2>3. r < data * (elems + 1)
    BY <1>1, Quotient
  <2>4. data * (elems + 1) <= data * e
    BY <1>1, <2>1, ProductMonotonic
  <2>5. r + 1 <= data * e /\ data * e \in Nat
    <3> HIDE DEF r, e, elems
    <3> QED
      BY <1>1, <2>1, <2>2, <2>3, <2>4
  <2>6. sets * (r + 1) <= sets * (data * e)
    <3> HIDE DEF r, e, elems
    <3>1. DEFINE q == data * e
    <3> HIDE DEF q
    <3> QED
      BY <2>2, <2>5, ProductMonotonic
  <2>7. Bytes(n + k, data, sets, power) = sets * (data * e)
    BY <2>1 DEF Bytes
  <2> HIDE DEF r, e, elems
  <2>8. sets * (r + 1) \in Nat /\ sets * (data * e) \in Nat
    BY <2>2, <2>5
  <2> QED
    BY <1>1, <2>2, <2>6, <2>7, <2>8
<1> QED
  BY <1>6, <1>7, <1>9, <1>10 DEF WellTuned

-----------------------------------------------------------------------------
(* What init has computed. *)
Initialised == kernel \in Kinds /\ config \in Configs /\ sizes = SizesOf(kernel, config)

(* What init_arg copies. *)
Copies ==
  CASE kernel = "dgemm" -> sizes.N
    [] kernel = "sha256" -> sizes.size
    [] OTHER -> 0

LEMMA ConfigFacts ==
  /\ Double \in Nat \ {0} /\ Float \in Nat \ {0}
  /\ Configs \subseteq [size : Nat, line : Nat, fill : Nat]
  /\ \A c \in Configs : /\ c.line >= Double /\ c.line % Double = 0
                        /\ c.line >= Float /\ c.line % Float = 0
                        /\ c.line >= 1 /\ c.line % 1 = 0
  /\ MinVector \in Nat \ {0} /\ Stride \in Nat \ {0}
BY KernelsAssumption

(* Each kernel's sizes. *)
LEMMA StreamSizes ==
  ASSUME Initialised, kernel \in Streams
  PROVE  /\ \A type \in Streams : sizes[type] = TuneSize(config, Double, datasets[type], 1)
         /\ \A type \in Streams : sizes[type] \in Nat
         /\ StreamSize(kernel) = sizes[kernel]
<1>1. sizes = [type \in Streams |-> TuneSize(config, Double, datasets[type], 1)]
  BY DEF Initialised, SizesOf, Streams
<1>2. \A type \in Streams : sizes[type] \in Nat
  <2> SUFFICES ASSUME NEW type \in Streams
               PROVE  TuneSize(config, Double, datasets[type], 1) \in Nat
    BY <1>1
  <2>1. datasets[type] \in Nat \ {0}
    BY DEF datasets
  <2> QED
    BY <2>1, ConfigFacts, SizesAreTuned DEF Initialised
<1>3. StreamSize(kernel) = sizes[kernel]
  <2>1. \A type \in Streams : datasets[type] = datasets[kernel] => sizes[type] = sizes[kernel]
    BY <1>1
  <2>2. /\ {"Copy", "STREAM"} \subseteq Streams
        /\ datasets["Copy"] = 2 /\ datasets["STREAM"] = 3 /\ datasets[kernel] \in {2, 3}
    BY DEF datasets, Streams
  <2> QED
    BY <2>1, <2>2 DEF StreamSize
<1> QED
  BY <1>1, <1>2, <1>3

LEMMA StreamAllocated ==
  ASSUME Initialised, kernel \in Streams
  PROVE  Allocated = [x \in StreamNames(kernel) |-> Array(sizes[kernel], sizes[kernel])]
<1>1. Allocated = [x \in StreamNames(kernel) |-> Array(StreamSize(kernel), StreamSize(kernel))]
  BY DEF Allocated, Streams
<1>2. StreamSize(kernel) = sizes[kernel]
  BY StreamSizes
<1> QED
  BY <1>1, <1>2

LEMMA DgemmSize ==
  ASSUME Initialised, kernel = "dgemm"
  PROVE  /\ sizes = [N |-> TuneSize(config, Double, 3, 2)]
         /\ sizes.N \in Nat /\ sizes.N * sizes.N \in Nat
<1>1. sizes = [N |-> TuneSize(config, Double, 3, 2)]
  BY DEF Initialised, SizesOf, Streams
<1>2. TuneSize(config, Double, 3, 2) \in Nat
  BY ConfigFacts, SizesAreTuned DEF Initialised
<1> QED
  BY <1>1, <1>2

LEMMA HACCmkSize ==
  ASSUME Initialised, kernel = "HACCmk"
  PROVE  /\ sizes = [N |-> Vector(TuneSize(config, Float, 7, 1))]
         /\ TuneSize(config, Float, 7, 1) \in Nat
         /\ sizes.N \in Nat /\ sizes.N >= MinVector
         /\ sizes.N > MinVector => sizes.N <= TuneSize(config, Float, 7, 1)
<1>1. sizes = [N |-> Vector(TuneSize(config, Float, 7, 1))]
  BY DEF Initialised, SizesOf, Streams
<1>2. TuneSize(config, Float, 7, 1) \in Nat
  BY ConfigFacts, SizesAreTuned DEF Initialised
<1>3. ASSUME NEW n \in Nat
      PROVE  /\ Vector(n) \in Nat /\ Vector(n) >= MinVector
             /\ Vector(n) > MinVector => Vector(n) <= n
  <2>1. MinVector \in Nat \ {0} /\ MaxVector \in Nat /\ MinVector <= MaxVector /\ MinVector % 4 = 0
    BY KernelsAssumption
  <2> DEFINE large == IF n < MinVector THEN MinVector ELSE n
             four == large - (large % 4)
  <2>2. large \in Nat /\ large >= MinVector
    BY <2>1
  <2>3. four \in Nat /\ four <= large /\ four >= MinVector
    <3> HIDE DEF large
    <3> QED
      BY <2>1, <2>2
  <2> QED
    BY <2>1, <2>3 DEF Vector
<1> QED
  BY <1>1, <1>2, <1>3

LEMMA Sha256Size ==
  ASSUME Initialised, kernel = "sha256"
  PROVE  sizes = [size |-> TuneSize(config, 1, 1, 1)] /\ sizes.size \in Nat
<1>1. sizes = [size |-> TuneSize(config, 1, 1, 1)]
  BY DEF Initialised, SizesOf, Streams
<1>2. TuneSize(config, 1, 1, 1) \in Nat
  BY ConfigFacts, SizesAreTuned DEF Initialised
<1> QED
  BY <1>1, <1>2

(* capacity's last line begins in the first half of its array.             *)
LEMMA CapacitySize ==
  ASSUME Initialised, kernel = "capacity"
  PROVE  /\ sizes = [size |-> config.size * 2, num_lines |-> config.size \div config.line]
         /\ sizes.size \in Nat /\ LastLine \in 0 .. sizes.size
<1>1. sizes = [size |-> config.size * 2, num_lines |-> config.size \div config.line]
  BY DEF Initialised, SizesOf, Streams
<1>2. config.size \in Nat /\ config.line \in Nat \ {0}
  BY ConfigFacts DEF Initialised
<1> DEFINE lines == config.size \div config.line
<1>3. lines \in Nat /\ config.line * lines <= config.size
  BY <1>2, Quotient
<1>4. LastLine = IF lines = 0 THEN 0 ELSE (lines - 1) * config.line + 1
  BY <1>1 DEF LastLine
<1>5. LastLine \in 0 .. config.size * 2
  <2> HIDE DEF lines
  <2>1. (lines - 1) * config.line = config.line * lines - config.line
    BY <1>2, <1>3
  <2>2. CASE lines = 0
    BY <1>2, <1>4, <2>2
  <2>3. CASE lines > 0
    <3>1. lines - 1 \in Nat /\ (lines - 1) * config.line \in Nat
      BY <1>2, <1>3, <2>3
    <3> QED
      BY <1>2, <1>3, <1>4, <2>1, <2>3, <3>1
  <2> QED
    BY <1>3, <2>2, <2>3
<1> QED
  BY <1>1, <1>2, <1>5

-----------------------------------------------------------------------------
(* What init_arg allocates. *)
LEMMA AllocatedArrays ==
  ASSUME Initialised
  PROVE  \A x \in DOMAIN Allocated :
           /\ Allocated[x].len \in Nat
           /\ Allocated[x].written \in Nat
           /\ Allocated[x].used = 0
           /\ Allocated[x] \in [len : Nat, written : Nat, used : Nat]
<1>1. CASE kernel \in Streams
  <2>1. Allocated = [x \in StreamNames(kernel) |-> Array(sizes[kernel], sizes[kernel])]
    BY <1>1, StreamAllocated
  <2> QED
    BY <1>1, <2>1, StreamSizes DEF Array
<1>2. CASE kernel = "dgemm"
  <2>1. Allocated = [x \in {"A", "B", "C"} |-> Array(sizes.N * sizes.N, sizes.N * sizes.N)]
    BY <1>2 DEF Allocated, Streams
  <2> QED
    BY <1>2, <2>1, DgemmSize DEF Array
<1>3. CASE kernel = "HACCmk"
  <2>1. Allocated = [x \in Positions \cup {"mass"} \cup Velocities |-> Array(sizes.N, FirstSet(x))]
    BY <1>3 DEF Allocated, Streams
  <2> QED
    BY <1>3, <2>1, HACCmkSize DEF Array, FirstSet
<1>4. CASE kernel = "sha256"
  <2>1. Allocated = [x \in {"buf"} |-> Array(sizes.size, sizes.size)]
    BY <1>4 DEF Allocated, Streams
  <2> QED
    BY <1>4, <2>1, Sha256Size DEF Array
<1>5. CASE kernel = "capacity"
  <2>1. Allocated = [x \in {"data"} |-> Array(sizes.size, 0)]
    BY <1>5 DEF Allocated, Streams
  <2> QED
    BY <1>5, <2>1, CapacitySize DEF Array
<1> QED
  BY <1>1, <1>2, <1>3, <1>4, <1>5 DEF Initialised, Kinds

(* A pass fits into what was allocated. *)
Fits(p) ==
  /\ DOMAIN p.reads \subseteq DOMAIN Allocated /\ DOMAIN p.writes \subseteq DOMAIN Allocated
  /\ \A x \in DOMAIN Allocated : /\ Extent(p.reads, x) \in 0 .. Allocated[x].len
                                /\ Extent(p.writes, x) \in 0 .. Allocated[x].len

(* HACCmk's loop variable stays below the length. *)
LEMMA VectorPass ==
  ASSUME Initialised, kernel = "HACCmk", NEW q \in Nat, q < NumPasses
  PROVE  /\ MinVector + Stride * (q \div 2) \in Nat
         /\ MinVector + Stride * (q \div 2) < sizes.N
<1> DEFINE k == q \div 2
           m == sizes.N - MinVector
<1>1. m \in Nat /\ Stride \in Nat \ {0} /\ MinVector \in Nat /\ sizes.N \in Nat
  BY HACCmkSize, ConfigFacts
<1>2. NumVectors = (m + Stride - 1) \div Stride /\ m + Stride - 1 \in Nat
  BY <1>1 DEF NumVectors
<1>3. NumVectors \in Nat /\ Stride * NumVectors <= m + Stride - 1
  <2> DEFINE a == m + Stride - 1
  <2>1. a \in Nat
    BY <1>2
  <2> HIDE DEF a
  <2>2. a \div Stride \in Nat /\ Stride * (a \div Stride) <= a
    BY <1>1, <2>1, Quotient
  <2> USE DEF a
  <2> QED
    BY <1>2, <2>2
<1>4. k \in Nat /\ k + 1 <= NumVectors
  <2>1. NumPasses = 2 * NumVectors
    BY DEF NumPasses
  <2> QED
    BY <1>3, <2>1
<1> HIDE DEF k, m
<1>5. Stride * (k + 1) <= Stride * NumVectors
  BY <1>1, <1>3, <1>4, ProductMonotonic
<1>6. Stride * (k + 1) = Stride * k + Stride /\ Stride * k \in Nat /\ Stride * NumVectors \in Nat
  BY <1>1, <1>3, <1>4
<1>7. Stride * k < m
  BY <1>1, <1>3, <1>5, <1>6
<1> USE DEF k, m
<1> QED
  BY <1>1, <1>6, <1>7

LEMMA PassFits ==
  ASSUME Initialised, copied = Copies, NEW q \in Nat, q < NumPasses
  PROVE  Fits(PassOf(q))
<1> USE DEF Fits, Extent, Pass, PassFromOne, First
<1>1. CASE kernel \in Streams
  <2>1. Allocated = [x \in StreamNames(kernel) |-> Array(sizes[kernel], sizes[kernel])]
    BY <1>1, StreamAllocated
  <2>2. sizes[kernel] \in Nat
    BY <1>1, StreamSizes
  <2> DEFINE n == sizes[kernel]
  <2>3. CASE kernel = "Copy"
    <3>1. PassOf(q) = Copy(n) /\ StreamNames(kernel) = {"a", "b"}
      BY <2>3 DEF PassOf, StreamNames, datasets, Streams
    <3> QED
      BY <2>1, <2>2, <3>1 DEF Copy, Array
  <2>4. CASE kernel = "Scale"
    <3>1. PassOf(q) = Scale(n) /\ StreamNames(kernel) = {"a", "b"}
      BY <2>4 DEF PassOf, StreamNames, datasets, Streams
    <3> QED
      BY <2>1, <2>2, <3>1 DEF Scale, Array
  <2>5. CASE kernel = "Add"
    <3>1. PassOf(q) = Add(n) /\ StreamNames(kernel) = {"a", "b", "c"}
      BY <2>5 DEF PassOf, StreamNames, datasets, Streams
    <3> QED
      BY <2>1, <2>2, <3>1 DEF Add, Array
  <2>6. CASE kernel = "Triad"
    <3>1. PassOf(q) = Triad(n) /\ StreamNames(kernel) = {"a", "b", "c"}
      BY <2>6 DEF PassOf, StreamNames, datasets, Streams
    <3> QED
      BY <2>1, <2>2, <3>1 DEF Triad, Array
  <2>7. CASE kernel = "STREAM"
    <3>1. /\ PassOf(q) \in {Copy(n), Scale(n), Add(n), Triad(n)}
          /\ StreamNames(kernel) = {"a", "b", "c"}
      BY <2>7 DEF PassOf, StreamPass, StreamNames, datasets, Streams
    <3>2. Fits(Copy(n)) /\ Fits(Scale(n))
      BY <2>1, <2>2, <3>1 DEF Copy, Scale, Array
    <3>3. Fits(Add(n)) /\ Fits(Triad(n))
      BY <2>1, <2>2, <3>1 DEF Add, Triad, Array
    <3> HIDE DEF Fits
    <3> QED
      BY <3>1, <3>2, <3>3
  <2> QED
    BY <1>1, <2>3, <2>4, <2>5, <2>6, <2>7 DEF Streams
<1>2. CASE kernel = "dgemm"
  <2>1. Allocated = [x \in {"A", "B", "C"} |-> Array(sizes.N * sizes.N, sizes.N * sizes.N)]
    BY <1>2 DEF Allocated, Streams
  <2>2. /\ copied = sizes.N /\ sizes.N * sizes.N \in Nat
        /\ PassOf(q) = Pass(First({"A", "B", "C"}, copied * copied), First({"C"}, copied * copied))
    BY <1>2, DgemmSize DEF PassOf, Copies
  <2> DEFINE m == sizes.N * sizes.N
  <2> HIDE DEF m
  <2>3. /\ Allocated = [x \in {"A", "B", "C"} |-> Array(m, m)] /\ m \in Nat
        /\ PassOf(q) = Pass(First({"A", "B", "C"}, m), First({"C"}, m))
    BY <2>1, <2>2 DEF m
  <2> QED
    BY <2>3 DEF Array
<1>3. CASE kernel = "HACCmk"
  <2> DEFINE n == MinVector + Stride * (q \div 2)
             names == Positions \cup {"mass"} \cup Velocities
  <2>1. Allocated = [x \in names |-> Array(sizes.N, FirstSet(x))]
    BY <1>3 DEF Allocated, Streams
  <2>2. /\ n \in Nat /\ n < sizes.N
        /\ MinVector \in Nat \ {0} /\ sizes.N \in Nat /\ sizes.N >= MinVector
    BY <1>3, VectorPass, HACCmkSize, ConfigFacts
  <2>3. PassOf(q) \in {Advance(n), Interact(n)}
    BY <1>3 DEF PassOf, HACCmkPass
  <2> HIDE DEF n
  <2>4. Fits(Advance(n))
    BY <2>1, <2>2 DEF Advance, Array, Positions, Velocities
  <2>5. Fits(Interact(n))
    BY <2>1, <2>2 DEF Interact, Array, Positions, Velocities
  <2> HIDE DEF Fits
  <2> QED
    BY <2>3, <2>4, <2>5
<1>4. CASE kernel = "sha256"
  <2>1. /\ Allocated = [x \in {"buf"} |-> Array(sizes.size, sizes.size)]
        /\ PassOf(q) = Pass(First({"buf"}, copied), First({}, 0))
        /\ copied = sizes.size
    BY <1>4 DEF Allocated, PassOf, Copies, Streams
  <2> QED
    BY <1>4, <2>1, Sha256Size DEF Array
<1>5. CASE kernel = "capacity"
  <2>1. /\ Allocated = [x \in {"data"} |-> Array(sizes.size, 0)]
        /\ PassOf(q) = Pass(First({"data"}, LastLine), First({}, 0))
    BY <1>5 DEF Allocated, PassOf, Streams
  <2>2. LastLine \in 0 .. sizes.size /\ sizes.size \in Nat
    BY <1>5, CapacitySize
  <2> DEFINE used == LastLine
             size == sizes.size
  <2>3. /\ Allocated = [x \in {"data"} |-> Array(size, 0)]
        /\ PassOf(q) = Pass(First({"data"}, used), First({}, 0))
        /\ used \in 0 .. size /\ size \in Nat
    BY <2>1, <2>2
  <2> HIDE DEF used, size
  <2> QED
    BY <2>3 DEF Array
<1> QED
  BY <1>1, <1>2, <1>3, <1>4, <1>5 DEF Initialised, Kinds

-----------------------------------------------------------------------------
(* The memory during calls: its arrays are those of init_arg, with the     *)
(* sizes of an init that may have run since ...                            *)
ArrayInv(x) ==
  /\ arrays[x] \in [len : Nat, written : Nat, used : Nat]
  /\ arrays[x].len = Allocated[x].len
  /\ arrays[x].written >= Allocated[x].written
  /\ arrays[x].used <= arrays[x].len

(* ... and what the passes so far have written and accessed. *)
SinglePass == {"Copy", "Scale", "Add", "Triad", "dgemm", "sha256"}

PassesInv(x) ==
  /\ kernel = "HACCmk" /\ pass % 2 = 1 => arrays[x].written >= MinVector + Stride * (pass \div 2)
  /\ kernel \in SinglePass /\ pass = 1 => arrays[x].used = arrays[x].len
  /\ kernel = "STREAM" /\ pass >= 1 /\ x \in {"a", "b"} => arrays[x].used = arrays[x].len
  /\ kernel = "STREAM" /\ pass >= 3 => arrays[x].used = arrays[x].len

CallInv ==
  /\ copied = Copies
  /\ pass \in Nat /\ pass <= NumPasses
  /\ DOMAIN arrays = DOMAIN Allocated
  /\ \A x \in DOMAIN arrays : ArrayInv(x) /\ PassesInv(x)

KInv ==
  /\ kpc \in {"init", "init_arg", "call"} /\ kernel \in Kinds /\ config \in Configs
  /\ kpc # "init" => Initialised
  /\ kpc = "call" => CallInv

LEMMA PassCount ==
  ASSUME Initialised
  PROVE  NumPasses \in Nat
<1>1. CASE kernel = "HACCmk"
  <2>1. sizes.N - MinVector + Stride - 1 \in Nat /\ Stride \in Nat \ {0}
    BY <1>1, HACCmkSize, ConfigFacts
  <2>2. NumVectors \in Nat
    BY <2>1, Quotient DEF NumVectors
  <2> QED
    BY <1>1, <2>2 DEF NumPasses
<1>2. CASE kernel # "HACCmk"
  BY <1>2 DEF NumPasses
<1> QED
  BY <1>1, <1>2

LEMMA SameMemory ==
  ASSUME UNCHANGED <<kernel, config, sizes>>
  PROVE  /\ Allocated' = Allocated /\ Copies' = Copies /\ NumPasses' = NumPasses
         /\ Initialised' <=> Initialised
<1>1. Allocated' = Allocated
  BY DEF Allocated, StreamNames, StreamSize
<1>2. Copies' = Copies
  BY DEF Copies
<1>3. NumPasses' = NumPasses
  BY DEF NumPasses, NumVectors
<1>4. Initialised' <=> Initialised
  BY DEF Initialised, SizesOf
<1> QED
  BY <1>1, <1>2, <1>3, <1>4

LEMMA InitKernelKeeps ==
  ASSUME KInv, InitKernel
  PROVE  KInv'
<1>1. kernel' = kernel /\ config' = config /\ kpc' = "init_arg" /\ sizes' = SizesOf(kernel, config)
  BY DEF InitKernel
<1>2. Initialised'
  BY <1>1 DEF KInv, Initialised, SizesOf
<1> QED
  BY <1>1, <1>2 DEF KInv

LEMMA InitArgKeeps ==
  ASSUME KInv, InitArg
  PROVE  KInv'
<1>1. Initialised /\ UNCHANGED <<kernel, config, sizes>> /\ kpc' = "call" /\ pass' = 0
  BY DEF InitArg, KInv
<1>2. /\ Allocated' = Allocated /\ Copies' = Copies /\ NumPasses' = NumPasses
      /\ Initialised'
  BY <1>1, SameMemory
<1>3. arrays' = Allocated /\ copied' = Copies
  BY DEF InitArg, Copies
<1>4. ASSUME NEW x \in DOMAIN arrays'
      PROVE  ArrayInv(x)' /\ PassesInv(x)'
  <2>1. /\ arrays'[x] = Allocated[x] /\ Allocated'[x] = Allocated[x]
        /\ Allocated[x].len \in Nat /\ Allocated[x].written \in Nat /\ Allocated[x].used = 0
        /\ Allocated[x] \in [len : Nat, written : Nat, used : Nat]
    BY <1>1, <1>2, <1>3, <1>4, AllocatedArrays
  <2>2. ArrayInv(x)'
    BY <2>1 DEF ArrayInv
  <2> QED
    BY <1>1, <2>2 DEF PassesInv
<1>5. CallInv'
  BY <1>1, <1>2, <1>3, <1>4, PassCount DEF CallInv
<1> QED
  BY <1>1, <1>2, <1>5 DEF KInv

LEMMA CallReturnsKeeps ==
  ASSUME KInv, CallReturns
  PROVE  KInv'
<1>1. /\ Initialised /\ CallInv /\ UNCHANGED <<kernel, config, sizes, copied>>
      /\ kpc' = "call" /\ pass' = 0
  BY DEF CallReturns, KInv
<1>2. /\ Allocated' = Allocated /\ Copies' = Copies /\ NumPasses' = NumPasses
      /\ Initialised'
  BY <1>1, SameMemory
<1>3. arrays' = [x \in DOMAIN arrays |-> [arrays[x] EXCEPT !.used = 0]]
  BY DEF CallReturns
<1>4. ASSUME NEW x \in DOMAIN arrays'
      PROVE  ArrayInv(x)' /\ PassesInv(x)'
  <2>1. ArrayInv(x) /\ arrays'[x] = [arrays[x] EXCEPT !.used = 0]
    BY <1>1, <1>3, <1>4 DEF CallInv
  <2>2. ArrayInv(x)'
    BY <1>2, <2>1 DEF ArrayInv
  <2> QED
    BY <1>1, <2>2 DEF PassesInv
<1>5. CallInv'
  BY <1>1, <1>2, <1>3, <1>4, PassCount DEF CallInv
<1> QED
  BY <1>1, <1>2, <1>5 DEF KInv

(* A pass that goes through the whole of an array. *)
Through(p, x) ==
  Extent(p.reads, x) = Allocated[x].len \/ Extent(p.writes, x) = Allocated[x].len

LEMMA SinglePassIsWhole ==
  ASSUME Initialised, copied = Copies, kernel \in SinglePass, NEW x \in DOMAIN Allocated
  PROVE  Through(PassOf(0), x)
<1> USE DEF Through, Extent, Pass, PassFromOne, First
<1>1. CASE kernel \in {"Copy", "Scale", "Add", "Triad"}
  <2> DEFINE n == sizes[kernel]
  <2>1. Allocated = [y \in StreamNames(kernel) |-> Array(n, n)]
    BY <1>1, StreamAllocated DEF Streams
  <2> HIDE DEF n
  <2>2. CASE kernel = "Copy"
    <3>1. PassOf(0) = Copy(n) /\ StreamNames(kernel) = {"a", "b"}
      BY <2>2 DEF PassOf, StreamNames, datasets, Streams, n
    <3> QED
      BY <2>1, <3>1 DEF Copy, Array
  <2>3. CASE kernel = "Scale"
    <3>1. PassOf(0) = Scale(n) /\ StreamNames(kernel) = {"a", "b"}
      BY <2>3 DEF PassOf, StreamNames, datasets, Streams, n
    <3> QED
      BY <2>1, <3>1 DEF Scale, Array
  <2>4. CASE kernel = "Add"
    <3>1. PassOf(0) = Add(n) /\ StreamNames(kernel) = {"a", "b", "c"}
      BY <2>4 DEF PassOf, StreamNames, datasets, Streams, n
    <3> QED
      BY <2>1, <3>1 DEF Add, Array
  <2>5. CASE kernel = "Triad"
    <3>1. PassOf(0) = Triad(n) /\ StreamNames(kernel) = {"a", "b", "c"}
      BY <2>5 DEF PassOf, StreamNames, datasets, Streams, n
    <3> QED
      BY <2>1, <3>1 DEF Triad, Array
  <2> QED
    BY <1>1, <2>2, <2>3, <2>4, <2>5
<1>2. CASE kernel = "dgemm"
  <2> DEFINE m == sizes.N * sizes.N
  <2>1. /\ Allocated = [y \in {"A", "B", "C"} |-> Array(m, m)]
        /\ PassOf(0) = Pass(First({"A", "B", "C"}, m), First({"C"}, m))
    BY <1>2 DEF Allocated, PassOf, Copies, Streams
  <2> HIDE DEF m
  <2> QED
    BY <2>1 DEF Array
<1>3. CASE kernel = "sha256"
  <2>1. /\ Allocated = [y \in {"buf"} |-> Array(sizes.size, sizes.size)]
        /\ PassOf(0) = Pass(First({"buf"}, sizes.size), First({}, 0))
    BY <1>3 DEF Allocated, PassOf, Copies, Streams
  <2> QED
    BY <2>1 DEF Array
<1> QED
  BY <1>1, <1>2, <1>3 DEF SinglePass

(* STREAM goes through a and b, and then through c. *)
LEMMA StreamPasses ==
  ASSUME Initialised, kernel = "STREAM", NEW x \in DOMAIN Allocated
  PROVE  /\ x \in {"a", "b"} => Through(PassOf(0), x)
         /\ x \in {"a", "b"} \/ Through(PassOf(2), x)
<1> DEFINE n == sizes[kernel]
<1>1. Allocated = [y \in {"a", "b", "c"} |-> Array(n, n)]
  BY StreamAllocated DEF Streams, StreamNames, datasets
<1>2. PassOf(0) = Copy(n) /\ PassOf(2) = Add(n)
  BY DEF PassOf, StreamPass
<1> HIDE DEF n
<1> QED
  BY <1>1, <1>2 DEF Through, Extent, Pass, PassFromOne, First, Copy, Add, Array

LEMMA HACCmkPasses ==
  ASSUME Initialised, kernel = "HACCmk", NEW q \in Nat, q % 2 = 0, NEW x \in DOMAIN Allocated
  PROVE  \A old \in Nat : old >= Allocated[x].written =>
           Written(PassOf(q), x, old) = Larger(old, MinVector + Stride * (q \div 2))
<1> DEFINE n == MinVector + Stride * (q \div 2)
<1>1. /\ x \in Positions \cup {"mass"} \cup Velocities
      /\ Allocated[x].written = FirstSet(x)
  BY DEF Allocated, Array, Streams
<1>2. PassOf(q) = Advance(n)
  BY DEF PassOf, HACCmkPass, Streams
<1> HIDE DEF n
<1>3. /\ Extent(PassOf(q).writes, x) = n
      /\ x \in PassOf(q).fromOne => x \in Positions \cup {"mass"}
  BY <1>1, <1>2 DEF Advance, Extent, PassFromOne, First
<1>4. x \in PassOf(q).fromOne => Allocated[x].written = 1
  BY <1>1, <1>3 DEF FirstSet, Positions, Velocities
<1>5. ASSUME NEW old \in Nat, old >= Allocated[x].written
      PROVE  Written(PassOf(q), x, old) = Larger(old, n)
  BY <1>3, <1>4, <1>5 DEF Written
<1> QED
  BY <1>5 DEF n

LEMMA CallPassKeeps ==
  ASSUME KInv, CallPass
  PROVE  KInv'
<1> DEFINE p == PassOf(pass)
<1>1. /\ Initialised /\ CallInv /\ UNCHANGED <<kernel, config, sizes, copied>>
      /\ kpc' = "call" /\ pass' = pass + 1 /\ pass \in Nat /\ pass < NumPasses
  BY DEF CallPass, KInv, CallInv
<1>2. /\ Allocated' = Allocated /\ Copies' = Copies /\ NumPasses' = NumPasses
      /\ Initialised'
  BY <1>1, SameMemory
<1>3. arrays' = [x \in DOMAIN arrays |->
        [arrays[x] EXCEPT !.written = Written(p, x, @),
                          !.used = Larger(@, Larger(Extent(p.reads, x), Extent(p.writes, x)))]]
  BY DEF CallPass
<1>4. Fits(p)
  BY <1>1, PassFits DEF CallInv
<1> HIDE DEF p
<1>5. ASSUME NEW x \in DOMAIN arrays'
      PROVE  ArrayInv(x)' /\ PassesInv(x)'
  <2> DEFINE r == Extent(p.reads, x)
             w == Extent(p.writes, x)
  <2>1. x \in DOMAIN arrays /\ x \in DOMAIN Allocated /\ ArrayInv(x) /\ PassesInv(x)
    BY <1>1, <1>3, <1>5 DEF CallInv
  <2>2. r \in 0 .. arrays[x].len /\ w \in 0 .. arrays[x].len
    BY <1>4, <2>1 DEF Fits, ArrayInv
  <2> DEFINE v == Written(p, x, arrays[x].written)
  <2>3. arrays'[x] = [arrays[x] EXCEPT !.written = v, !.used = Larger(@, Larger(r, w))]
    BY <1>3, <2>1
  <2>12. v \in Nat /\ v >= arrays[x].written
    BY <2>1, <2>2 DEF Written, Larger, ArrayInv
  <2>4. r = arrays[x].len \/ w = arrays[x].len <=> Through(p, x)
    BY <2>1 DEF Through, ArrayInv
  <2> HIDE DEF r, w, v
  <2>5. /\ arrays'[x] \in [len : Nat, written : Nat, used : Nat]
        /\ arrays'[x].len = arrays[x].len
        /\ arrays'[x].written >= arrays[x].written /\ arrays'[x].written = v
        /\ arrays'[x].used >= arrays[x].used
        /\ arrays'[x].used >= r /\ arrays'[x].used >= w
        /\ arrays'[x].used <= arrays[x].len
    <3> DEFINE a == arrays[x]
               b == arrays'[x]
    <3>1. a \in [len : Nat, written : Nat, used : Nat] /\ a.used <= a.len
      BY <2>1 DEF ArrayInv
    <3>2. r \in Nat /\ w \in Nat /\ r <= a.len /\ w <= a.len
      BY <2>2, <3>1
    <3>3. b = [a EXCEPT !.written = v, !.used = Larger(a.used, Larger(r, w))]
      BY <2>3
    <3>6. v \in Nat /\ v >= a.written
      BY <2>12
    <3> HIDE DEF a, b
    <3>4. /\ b \in [len : Nat, written : Nat, used : Nat]
          /\ b.len = a.len /\ b.written = v
          /\ b.used = Larger(a.used, Larger(r, w))
      BY <3>1, <3>2, <3>3, <3>6 DEF Larger
    <3>5. /\ b.written >= a.written /\ b.used >= a.used
          /\ b.used >= r /\ b.used >= w /\ b.used <= a.len
      BY <3>1, <3>2, <3>4, <3>6 DEF Larger
    <3> QED
      BY <3>4, <3>5 DEF a, b
  <2>6. ArrayInv(x)'
    <3>1. Allocated'[x] = Allocated[x] /\ Allocated[x].written \in Nat
      BY <1>1, <1>2, <2>1, AllocatedArrays
    <3> QED
      BY <2>1, <2>5, <3>1 DEF ArrayInv
  <2>7. ASSUME Through(p, x) \/ arrays[x].used = arrays[x].len
        PROVE  arrays'[x].used = arrays'[x].len
    BY <2>1, <2>2, <2>4, <2>5, <2>7 DEF ArrayInv
  <2>8. kernel' = "HACCmk" /\ pass' % 2 = 1 => arrays'[x].written >= MinVector + Stride * (pass' \div 2)
    <3> SUFFICES ASSUME kernel = "HACCmk", pass' % 2 = 1
                 PROVE  arrays'[x].written >= MinVector + Stride * (pass' \div 2)
      BY <1>1
    <3>1. pass % 2 = 0 /\ pass' \div 2 = pass \div 2
      BY <1>1
    <3> DEFINE n == MinVector + Stride * (pass \div 2)
    <3>2. arrays[x].written \in Nat /\ arrays[x].written >= Allocated[x].written /\ n \in Nat
      BY <1>1, <2>1, VectorPass DEF ArrayInv
    <3>3. v = Larger(arrays[x].written, n)
      BY <1>1, <2>1, <3>1, <3>2, HACCmkPasses DEF v, p
    <3> HIDE DEF n
    <3>4. v >= n
      BY <3>2, <3>3 DEF Larger
    <3> QED
      BY <2>5, <3>1, <3>4 DEF n
  <2>9. kernel' \in SinglePass /\ pass' = 1 => arrays'[x].used = arrays'[x].len
    <3> SUFFICES ASSUME kernel \in SinglePass, pass' = 1
                 PROVE  Through(p, x)
      BY <1>1, <2>7
    <3>1. pass = 0
      BY <1>1
    <3> QED
      BY <1>1, <2>1, <3>1, SinglePassIsWhole DEF p, CallInv
  <2>10. kernel' = "STREAM" /\ pass' >= 1 /\ x \in {"a", "b"} => arrays'[x].used = arrays'[x].len
    <3> SUFFICES ASSUME kernel = "STREAM", x \in {"a", "b"}
                 PROVE  Through(p, x) \/ arrays[x].used = arrays[x].len
      BY <1>1, <2>7
    <3>1. CASE pass = 0
      BY <1>1, <2>1, <3>1, StreamPasses DEF p
    <3>2. CASE pass >= 1
      BY <2>1, <3>2 DEF PassesInv
    <3> QED
      BY <1>1, <3>1, <3>2
  <2>11. kernel' = "STREAM" /\ pass' >= 3 => arrays'[x].used = arrays'[x].len
    <3> SUFFICES ASSUME kernel = "STREAM", pass' >= 3
                 PROVE  Through(p, x) \/ arrays[x].used = arrays[x].len
      BY <1>1, <2>7
    <3>1. CASE pass = 2
      BY <1>1, <2>1, <3>1, StreamPasses DEF p, PassesInv
    <3>2. CASE pass >= 3
      BY <2>1, <3>2 DEF PassesInv
    <3> QED
      BY <1>1, <3>1, <3>2
  <2> QED
    BY <2>6, <2>8, <2>9, <2>10, <2>11 DEF PassesInv
<1>6. CallInv'
  <2>1. pass' \in Nat /\ pass' <= NumPasses'
    BY <1>1, <1>2, PassCount
  <2>2. DOMAIN arrays' = DOMAIN Allocated'
    BY <1>1, <1>2, <1>3 DEF CallInv
  <2>3. copied' = Copies'
    BY <1>1, <1>2 DEF CallInv
  <2> QED
    BY <1>5, <2>1, <2>2, <2>3 DEF CallInv
<1> QED
  BY <1>1, <1>2, <1>6 DEF KInv

LEMMA KernelsStep ==
  ASSUME KInv, [BenchmarkNext]_bvars
  PROVE  KInv'
<1>1. CASE UNCHANGED kvars
  <2>1. UNCHANGED <<kpc, kernel, config, sizes, copied, arrays, pass>>
    BY <1>1 DEF kvars
  <2>2. /\ Allocated' = Allocated /\ Copies' = Copies /\ NumPasses' = NumPasses
        /\ Initialised' <=> Initialised
    BY <2>1, SameMemory
  <2>3. CallInv' <=> CallInv
    BY <2>1, <2>2 DEF CallInv, ArrayInv, PassesInv
  <2> QED
    BY <2>1, <2>2, <2>3 DEF KInv
<1>2. TestBegin \/ Take \/ TestDone \/ TestEnd \/ CallBegin => UNCHANGED kvars
  BY DEF TestBegin, Take, TestDone, TestEnd, CallBegin
<1>3. Initialise => InitKernel
  BY DEF Initialise
<1>4. Argument => InitArg
  BY DEF Argument
<1>5. CallStep => CallPass
  BY DEF CallStep
<1>6. Return => CallReturns
  BY DEF Return
<1>7. UNCHANGED bvars => UNCHANGED kvars
  BY DEF bvars
<1> QED
  BY <1>1, <1>2, <1>3, <1>4, <1>5, <1>6, <1>7,
     InitKernelKeeps, InitArgKeeps, CallPassKeeps, CallReturnsKeeps DEF BenchmarkNext

(* The memory of calls is what init_arg allocated, with the sizes of init. *)
THEOREM KernelsInductive == BenchmarkSpec => []KInv
<1>1. BenchmarkInit => KInv
  BY DEF BenchmarkInit, KernelsInit, KInv
<1>2. KInv /\ [BenchmarkNext]_bvars => KInv'
  BY KernelsStep
<1> QED
  BY <1>1, <1>2, PTL DEF BenchmarkSpec

-----------------------------------------------------------------------------
(* No call leaves its arrays (InBounds): for every size, line and fill     *)
(* factor, also when sizes have been computed again since the allocation,  *)
(* and when HACCmk's length was adjusted (HACCmk.c:89-97,186-208).         *)
THEOREM CallsStayInBounds == BenchmarkSpec => []InBounds
<1>1. KInv => InBounds
  <2> SUFFICES ASSUME KInv, Accessing,
                      NEW x \in DOMAIN PassOf(pass).reads \cup DOMAIN PassOf(pass).writes
               PROVE  /\ x \in DOMAIN arrays
                      /\ Extent(PassOf(pass).reads, x) <= arrays[x].len
                      /\ Extent(PassOf(pass).writes, x) <= arrays[x].len
    BY DEF InBounds
  <2>1. Initialised /\ CallInv /\ pass < NumPasses
    BY DEF KInv, Accessing
  <2>2. Fits(PassOf(pass))
    BY <2>1, PassFits DEF CallInv
  <2>3. x \in DOMAIN Allocated /\ x \in DOMAIN arrays /\ ArrayInv(x)
    BY <2>1, <2>2 DEF Fits, CallInv
  <2> QED
    BY <2>2, <2>3 DEF Fits, ArrayInv
<1> QED
  BY <1>1, KernelsInductive, PTL

(* No call reads what has not been written (ReadsInitialised), of which    *)
(* HACCmk's vectors, that init_arg leaves mostly uninitialised, are the    *)
(* interesting case: its loop begins with the second element               *)
(* (HACCmk.c:153-156,190-208).                                             *)
THEOREM CallsReadWhatIsWritten == BenchmarkSpec => []ReadsInitialised
<1>1. KInv => ReadsInitialised
  <2> SUFFICES ASSUME KInv, Accessing, kernel # "capacity", NEW x \in DOMAIN PassOf(pass).reads
               PROVE  PassOf(pass).reads[x] <= arrays[x].written
    BY DEF ReadsInitialised
  <2>1. Initialised /\ CallInv /\ pass < NumPasses
    BY DEF KInv, Accessing
  <2>2. Fits(PassOf(pass))
    BY <2>1, PassFits DEF CallInv
  <2>3. x \in DOMAIN Allocated /\ ArrayInv(x) /\ PassesInv(x)
    BY <2>1, <2>2 DEF Fits, CallInv
  <2>4. /\ PassOf(pass).reads[x] \in 0 .. Allocated[x].len
        /\ Allocated[x].len \in Nat /\ Allocated[x].written \in Nat
        /\ arrays[x].written \in Nat /\ arrays[x].written >= Allocated[x].written
    BY <2>1, <2>2, <2>3, AllocatedArrays DEF Fits, Extent, ArrayInv
  <2>5. CASE kernel # "HACCmk"
    <3>1. Allocated[x].written = Allocated[x].len
      <4>1. CASE kernel \in Streams
        BY <2>1, <2>3, <4>1, StreamAllocated DEF Array
      <4>2. CASE kernel \in {"dgemm", "sha256"}
        BY <2>3, <4>2 DEF Allocated, Streams, Array
      <4> QED
        BY <2>1, <2>5, <4>1, <4>2 DEF Initialised, Kinds
    <3> QED
      BY <2>4, <3>1
  <2>6. CASE kernel = "HACCmk"
    <3> DEFINE n == MinVector + Stride * (pass \div 2)
    <3>1. n \in Nat /\ n >= 1 /\ pass \in Nat
      <4>1. pass \in Nat /\ MinVector \in Nat \ {0} /\ Stride \in Nat
        BY <2>1, ConfigFacts DEF CallInv
      <4>2. pass \div 2 \in Nat
        BY <4>1
      <4>3. Stride * (pass \div 2) \in Nat
        BY <4>1, <4>2
      <4> QED
        BY <4>1, <4>3
    <3>2. x \in Positions \cup {"mass"} \cup Velocities
      BY <2>3, <2>6 DEF Allocated, Streams
    <3>3. CASE pass % 2 = 0
      <4>1. PassOf(pass) = Advance(n)
        BY <2>6, <3>3 DEF PassOf, HACCmkPass, Streams
      <4> HIDE DEF n
      <4>2. x \in Positions /\ PassOf(pass).reads[x] = 1
        BY <4>1 DEF Advance, PassFromOne, First
      <4>3. Allocated[x].written = 1
        BY <2>6, <4>2 DEF Allocated, Array, FirstSet, Streams, Positions, Velocities
      <4> QED
        BY <2>4, <4>2, <4>3
    <3>4. CASE pass % 2 = 1
      <4>1. PassOf(pass) = Interact(n)
        BY <2>6, <3>1, <3>4 DEF PassOf, HACCmkPass, Streams
      <4>2. arrays[x].written >= n
        BY <2>3, <2>6, <3>4 DEF PassesInv
      <4> HIDE DEF n
      <4>3. PassOf(pass).reads[x] \in {1, n}
        BY <3>2, <4>1 DEF Interact, Pass, PassFromOne
      <4> QED
        BY <2>4, <3>1, <4>2, <4>3
    <3> QED
      BY <3>1, <3>3, <3>4
  <2> QED
    BY <2>5, <2>6
<1> QED
  BY <1>1, KernelsInductive, PTL

(* Each benchmark works on as many whole lines as fit                      *)
(* (WorkingSetAsTuned), for every cache (benchmark.c:71-74).               *)
THEOREM WorkingSetIsTuned == BenchmarkSpec => []WorkingSetAsTuned
<1>1. KInv => WorkingSetAsTuned
  <2> SUFFICES ASSUME KInv, Called
               PROVE  WorkingSetAsTuned
    BY DEF WorkingSetAsTuned
  <2>1. Initialised /\ CallInv /\ pass = NumPasses
    BY DEF KInv, Called
  <2>2. \A x \in DOMAIN arrays : /\ ArrayInv(x) /\ PassesInv(x) /\ x \in DOMAIN Allocated
                               /\ arrays[x].used \in 0 .. Allocated[x].len
    BY <2>1, AllocatedArrays DEF CallInv, ArrayInv
  <2>3. DOMAIN arrays = DOMAIN Allocated
    BY <2>1 DEF CallInv
  <2>4. CASE kernel \in Streams
    <3>1. \A x \in DOMAIN arrays : Touched(x) = sizes[kernel]
      <4> SUFFICES ASSUME NEW x \in DOMAIN arrays
                   PROVE  arrays[x].used = sizes[kernel]
        BY DEF Touched
      <4>1. arrays[x].len = sizes[kernel]
        BY <2>1, <2>2, <2>4, StreamAllocated DEF Array, ArrayInv
      <4>2. CASE kernel = "STREAM"
        <5>1. pass = 4
          BY <2>1, <4>2 DEF NumPasses
        <5> QED
          BY <2>2, <4>1, <4>2, <5>1 DEF PassesInv
      <4>3. CASE kernel # "STREAM"
        <5>1. pass = 1 /\ kernel \in SinglePass
          BY <2>1, <2>4, <4>3 DEF NumPasses, Streams, SinglePass
        <5> QED
          BY <2>2, <4>1, <5>1 DEF PassesInv
      <4> QED
        BY <4>2, <4>3
    <3>2. Cardinality(DOMAIN arrays) = datasets[kernel]
      <4>1. DOMAIN arrays = StreamNames(kernel)
        BY <2>1, <2>3, <2>4, StreamAllocated
      <4>2. Cardinality({"a", "b"}) = 2 /\ Cardinality({"a", "b", "c"}) = 3
        <5>1. IsFiniteSet({"a"}) /\ Cardinality({"a"}) = 1
          BY FS_Singleton
        <5>2. IsFiniteSet({"a", "b"}) /\ Cardinality({"a", "b"}) = 2
          <6>1. {"a", "b"} = {"a"} \cup {"b"} /\ "b" \notin {"a"}
            OBVIOUS
          <6> QED
            BY <5>1, <6>1, FS_AddElement
        <5>3. {"a", "b", "c"} = {"a", "b"} \cup {"c"} /\ "c" \notin {"a", "b"}
          OBVIOUS
        <5> QED
          BY <5>2, <5>3, FS_AddElement
      <4> QED
        BY <2>4, <4>1, <4>2 DEF StreamNames, datasets
    <3>3. WellTuned(sizes[kernel], config, Double, datasets[kernel], 1)
      <4>1. datasets[kernel] \in Nat \ {0}
        BY <2>4 DEF datasets
      <4> QED
        BY <2>1, <2>4, <4>1, StreamSizes, ConfigFacts, SizesAreTuned DEF Initialised
    <3> QED
      BY <2>4, <3>1, <3>2, <3>3 DEF WorkingSetAsTuned, Streams
  <2>5. CASE kernel = "dgemm"
    <3> DEFINE n == sizes.N
    <3>1. n \in Nat /\ n * n \in Nat /\ n <= n * n
      <4>1. n \in Nat /\ n * n \in Nat
        BY <2>1, <2>5, DgemmSize
      <4> HIDE DEF n
      <4>2. CASE n = 0
        BY <4>2
      <4>3. CASE n >= 1
        BY <4>1, <4>3, ProductMonotonic
      <4> QED
        BY <4>1, <4>2, <4>3
    <3>2. \A x \in DOMAIN arrays : Touched(x) = n * n
      <4>1. pass = 1
        BY <2>1, <2>5 DEF NumPasses
      <4>2. \A x \in DOMAIN Allocated : Allocated[x].len = n * n
        BY <2>5 DEF Allocated, Streams, Array
      <4> QED
        BY <2>2, <2>5, <4>1, <4>2 DEF PassesInv, SinglePass, ArrayInv, Touched
    <3>3. "A" \in DOMAIN arrays
      BY <2>3, <2>5 DEF Allocated, Streams
    <3>4. WellTuned(n, config, Double, 3, 2)
      BY <2>1, <2>5, DgemmSize, ConfigFacts, SizesAreTuned DEF Initialised
    <3>5. \E m \in 0 .. Touched("A") : /\ \A x \in DOMAIN arrays : Touched(x) = m * m
                                     /\ WellTuned(m, config, Double, 3, 2)
      <4> HIDE DEF n
      <4>1. n \in 0 .. Touched("A")
        BY <3>1, <3>2, <3>3
      <4> QED
        BY <3>2, <3>4, <4>1
    <3> QED
      BY <2>5, <3>5 DEF WorkingSetAsTuned, Streams
  <2>6. CASE kernel = "sha256"
    <3>1. pass = 1
      BY <2>1, <2>6 DEF NumPasses
    <3>2. Touched("buf") = sizes.size
      <4>1. "buf" \in DOMAIN Allocated /\ Allocated["buf"].len = sizes.size
        BY <2>6 DEF Allocated, Streams, Array
      <4> QED
        BY <2>2, <2>3, <2>6, <3>1, <4>1 DEF PassesInv, SinglePass, ArrayInv, Touched
    <3>3. WellTuned(sizes.size, config, 1, 1, 1)
      BY <2>1, <2>6, Sha256Size, ConfigFacts, SizesAreTuned DEF Initialised
    <3> QED
      BY <2>6, <3>2, <3>3 DEF WorkingSetAsTuned, Streams
  <2>7. CASE kernel = "HACCmk"
    <3> SUFFICES ASSUME sizes.N > MinVector, NEW x \in DOMAIN arrays
                 PROVE  Bytes(Touched(x), Float, 7, 1) <= Capacity(config)
      BY <2>7 DEF WorkingSetAsTuned, Streams
    <3> DEFINE n == TuneSize(config, Float, 7, 1)
               u == Touched(x)
    <3>1. n \in Nat /\ sizes.N \in Nat /\ sizes.N <= n
      BY <2>1, <2>7, HACCmkSize
    <3>2. WellTuned(n, config, Float, 7, 1)
      BY <2>1, ConfigFacts, SizesAreTuned DEF Initialised
    <3>3. Allocated[x].len = sizes.N
      BY <2>3, <2>7 DEF Allocated, Streams, Array
    <3>4. u \in Nat /\ u <= n
      BY <2>2, <3>1, <3>3 DEF Touched
    <3>5. Bytes(n, Float, 7, 1) <= Capacity(config)
      BY <3>2 DEF WellTuned
    <3>6. Float \in Nat /\ config.size \in Nat /\ config.fill \in Nat
      BY <2>1, ConfigFacts DEF Initialised
    <3>7. Capacity(config) \in Nat
      <4>1. config.size * config.fill \in Nat
        BY <3>6
      <4> QED
        BY <4>1, Quotient DEF Capacity
    <3> HIDE DEF n, u
    <3>8. u * Float <= n * Float /\ u * Float \in Nat /\ n * Float \in Nat
      BY <3>1, <3>4, <3>6, ProductMonotonic
    <3>9. Bytes(u, Float, 7, 1) = u * Float * 7 /\ Bytes(n, Float, 7, 1) = n * Float * 7
      BY DEF Bytes, Elements
    <3>10. Bytes(u, Float, 7, 1) <= Capacity(config)
      BY <3>5, <3>7, <3>8, <3>9
    <3> QED
      BY <3>10 DEF u
  <2>8. CASE kernel = "capacity"
    BY <2>8 DEF WorkingSetAsTuned, Streams
  <2> QED
    BY <2>1, <2>4, <2>5, <2>6, <2>7, <2>8 DEF Initialised, Kinds
<1> QED
  BY <1>1, KernelsInductive, PTL

-----------------------------------------------------------------------------
(* What of capacity's array a call has accessed. *)
UsedInv ==
  kpc = "call" /\ kernel = "capacity" =>
    arrays["data"].used = IF pass = 0 THEN 0 ELSE LastLine

LEMMA CapacityArray ==
  ASSUME KInv, kpc = "call", kernel = "capacity"
  PROVE  /\ DOMAIN arrays = {"data"} /\ arrays["data"].len = sizes.size
         /\ arrays["data"] \in [len : Nat, written : Nat, used : Nat]
         /\ NumPasses = 1 /\ pass \in Nat /\ pass <= 1
<1>1. Allocated = [x \in {"data"} |-> Array(sizes.size, 0)]
  BY DEF Allocated, Streams
<1>2. NumPasses = 1
  BY DEF NumPasses
<1> QED
  BY <1>1, <1>2 DEF KInv, CallInv, ArrayInv, Array

LEMMA NextUsed ==
  ASSUME KInv, UsedInv, [BenchmarkNext]_bvars
  PROVE  UsedInv'
<1> SUFFICES ASSUME kpc' = "call", kernel' = "capacity"
             PROVE  arrays'["data"].used = IF pass' = 0 THEN 0 ELSE LastLine'
  BY DEF UsedInv
<1>1. CASE InitArg
  <2>1. Allocated = [x \in {"data"} |-> Array(sizes.size, 0)]
    BY <1>1 DEF InitArg, Allocated, Streams
  <2> QED
    BY <1>1, <2>1 DEF InitArg, Array
<1>2. CASE CallPass
  <2>0. kpc = "call" /\ kernel = "capacity" /\ pass < NumPasses /\ pass' = pass + 1
        /\ LastLine' = LastLine
    BY <1>2 DEF CallPass, LastLine
  <2>1. pass = 0 /\ pass' = 1
    BY <2>0, CapacityArray
  <2>2. arrays["data"].used = 0 /\ DOMAIN arrays = {"data"}
    BY <2>0, <2>1, CapacityArray DEF UsedInv
  <2>3. PassOf(pass) = Pass(First({"data"}, LastLine), First({}, 0))
    BY <2>0 DEF PassOf, Streams
  <2>4. Extent(PassOf(pass).reads, "data") = LastLine /\ Extent(PassOf(pass).writes, "data") = 0
        /\ PassOf(pass).fromOne = {}
    BY <2>3 DEF Pass, PassFromOne, First, Extent
  <2>5. arrays'["data"] =
          [arrays["data"] EXCEPT !.written = Larger(@, 0),
                                 !.used = Larger(@, Larger(LastLine, 0))]
    BY <1>2, <2>2, <2>4 DEF CallPass, Written
  <2>6. LastLine \in Nat
    BY <2>0, CapacitySize DEF KInv
  <2>7. arrays["data"] \in [len : Nat, written : Nat, used : Nat]
    BY <2>0, CapacityArray
  <2>8. arrays'["data"].used = Larger(0, Larger(LastLine, 0))
    BY <2>2, <2>5, <2>7
  <2> QED
    BY <2>0, <2>1, <2>6, <2>8 DEF Larger
<1>3. CASE CallReturns
  <2>1. kpc = "call" /\ kernel = "capacity" /\ pass' = 0
    BY <1>3 DEF CallReturns
  <2> QED
    BY <1>3, <2>1, CapacityArray DEF CallReturns
<1>4. CASE UNCHANGED kvars
  BY <1>4 DEF kvars, UsedInv, LastLine
<1>5. InitArg \/ CallPass \/ CallReturns \/ UNCHANGED kvars
  BY
  DEF BenchmarkNext, TestBegin, Take, TestDone, TestEnd, CallBegin, Initialise, InitKernel,
      Argument, CallStep, Return, bvars
<1> QED
  BY <1>1, <1>2, <1>3, <1>4, <1>5

(* A call of capacity goes through the first half of its array, up to two  *)
(* lines, and so never through each line of the array of twice the size,   *)
(* unless the size is below a line (capacity.cpp:30-46).                   *)
HalfAccessed ==
  Called /\ kernel = "capacity" /\ config.size >= config.line =>
    /\ arrays["data"].len = 2 * config.size
    /\ Touched("data") <= config.size
    /\ config.size - Touched("data") < 2 * config.line
    /\ ~EachLineAccessed

THEOREM CapacityTakesHalf == BenchmarkSpec => []HalfAccessed
<1>1. BenchmarkInit => UsedInv
  BY DEF BenchmarkInit, KernelsInit, UsedInv
<1>2. ASSUME KInv, UsedInv
      PROVE  HalfAccessed
  <2> SUFFICES ASSUME Called, kernel = "capacity", config.size >= config.line
               PROVE  /\ arrays["data"].len = 2 * config.size
                      /\ Touched("data") <= config.size
                      /\ config.size - Touched("data") < 2 * config.line
                      /\ ~EachLineAccessed
    BY DEF HalfAccessed
  <2> DEFINE size == config.size
             line == config.line
             lines == size \div line
             len == arrays["data"].len
             used == Touched("data")
  <2>1. kpc = "call" /\ pass = 1 /\ Initialised
    BY <1>2 DEF Called, KInv, NumPasses
  <2>2. sizes = [size |-> size * 2, num_lines |-> lines]
    BY <2>1, CapacitySize
  <2>3. size \in Nat /\ line \in Nat \ {0} /\ size >= line
    BY <2>1, ConfigFacts DEF Initialised
  <2>4. len = size * 2
    BY <1>2, <2>1, <2>2, CapacityArray
  <2>5. used = LastLine
    BY <1>2, <2>1 DEF UsedInv, Touched
  <2>6. LastLine = IF lines = 0 THEN 0 ELSE (lines - 1) * line + 1
    BY <2>2 DEF LastLine
  <2> HIDE DEF size, line, len, used
  <2>7. lines \in Nat /\ line * lines <= size /\ size < line * (lines + 1)
    BY <2>3, Quotient
  <2> HIDE DEF lines
  <2>8. lines # 0
    BY <2>3, <2>7
  <2>9. /\ line * (lines + 1) = line * lines + line /\ (lines - 1) * line = line * lines - line
        /\ line * lines \in Nat
    BY <2>3, <2>7
  <2>10. used = line * lines - line + 1
    BY <2>5, <2>6, <2>8, <2>9
  <2>11. len = 2 * size /\ used <= size /\ size - used < 2 * line /\ ~(len - used < line)
    BY <2>3, <2>4, <2>7, <2>9, <2>10
  <2> QED
    BY <2>11 DEF EachLineAccessed, size, line, len, used
<1> QED
  BY <1>1, <1>2, NextUsed, KernelsInductive, PTL DEF BenchmarkSpec

=============================================================================
