--------------------------- MODULE ResultsProofs ---------------------------
(***************************************************************************)
(* Theorems about Results, for any number of threads, repetitions and      *)
(* events, and any events that fail.  What depends on the layout of the    *)
(* array is proved for arrays of at most 2^32 numbers, and the layout is   *)
(* proved to be wrong for any larger one.                                  *)
(***************************************************************************)
EXTENDS Results, WellFoundedInduction, TLAPS

(* Numbers with two digits, the second one to the base m. *)
LEMMA NextBlock ==
  ASSUME NEW a \in Nat, NEW b \in Nat, NEW m \in Nat, a < b
  PROVE  a * m + m <= b * m
<1>1. (a + 1) * m = a * m + m
  OBVIOUS
<1>2. (a + 1) * m <= b * m
  <2>1. PICK d \in Nat : b = a + 1 + d
    <3>1. b - (a + 1) \in Nat /\ b = a + 1 + (b - (a + 1))
      OBVIOUS
    <3> QED
      BY <3>1
  <2>2. b * m = (a + 1) * m + d * m
    BY <2>1
  <2>3. d * m \in Nat /\ (a + 1) * m \in Nat
    OBVIOUS
  <2> QED
    BY <2>2, <2>3
<1> QED
  BY <1>1, <1>2

LEMMA TwoDigits ==
  ASSUME NEW a \in Nat, NEW b \in Nat, NEW m \in Nat,
         NEW x \in 0 .. m - 1, NEW y \in 0 .. m - 1,
         a * m + x = b * m + y
  PROVE  a = b /\ x = y
<1>1. a * m \in Nat /\ b * m \in Nat
  OBVIOUS
<1>2. ~(a < b)
  <2>1. SUFFICES ASSUME a < b PROVE a * m + m <= b * m
    BY <1>1
  <2> QED
    BY <2>1, NextBlock
<1>3. ~(b < a)
  <2>1. SUFFICES ASSUME b < a PROVE b * m + m <= a * m
    BY <1>1
  <2> QED
    BY <2>1, NextBlock
<1> QED
  BY <1>1, <1>2, <1>3

(* The number of the repetition k of thread t, and the index it has.       *)
Block(t, k) == t * Reps + k
Index(t, k, c) == Block(t, k) * Columns + c

LEMMA IndexRange ==
  ASSUME NEW t \in Threads, NEW k \in 0 .. Reps - 1, NEW c \in 0 .. NumPmcs
  PROVE  /\ Block(t, k) \in Nat
         /\ Index(t, k, c) \in Cells
         /\ IndicesFit => Index(t, k, c) < Word
<1> USE ResultsAssumption DEF Threads, Columns
<1>1. t \in Nat /\ Rows \in Nat /\ t < Rows /\ Columns \in Nat
  OBVIOUS
<1>2. t * Reps \in Nat /\ Rows * Reps \in Nat /\ t * Reps + Reps <= Rows * Reps
  BY <1>1, NextBlock
<1>3. Block(t, k) \in Nat /\ Block(t, k) < Rows * Reps
  BY <1>2 DEF Block
<1>4. Block(t, k) * Columns + Columns <= Rows * Reps * Columns
  BY <1>1, <1>2, <1>3, NextBlock
<1>5. Block(t, k) * Columns \in Nat /\ Rows * Reps * Columns \in Nat
  BY <1>1, <1>2, <1>3
<1> QED
  BY <1>3, <1>4, <1>5 DEF Index, Cells, IndicesFit

LEMMA IndexInjective ==
  ASSUME NEW t \in Threads, NEW k \in 0 .. Reps - 1, NEW c \in 0 .. NumPmcs,
         NEW u \in Threads, NEW l \in 0 .. Reps - 1, NEW d \in 0 .. NumPmcs,
         Index(t, k, c) = Index(u, l, d)
  PROVE  t = u /\ k = l /\ c = d
<1>1. Block(t, k) = Block(u, l) /\ c = d
  <2>1. Columns \in Nat /\ c \in 0 .. Columns - 1 /\ d \in 0 .. Columns - 1
    BY ResultsAssumption DEF Columns
  <2>2. Block(t, k) \in Nat /\ Block(u, l) \in Nat
    BY IndexRange
  <2> QED
    BY <2>1, <2>2, TwoDigits DEF Index
<1>2. t \in Nat /\ u \in Nat /\ Reps \in Nat
  BY ResultsAssumption DEF Threads
<1> QED
  BY <1>1, <1>2, TwoDigits DEF Block

LEMMA Unwrapped ==
  ASSUME NEW n \in Nat, n < Word
  PROVE  n % Word = n
BY ResultsAssumption

(* All three computations of an index agree, if none of them wraps.        *)
LEMMA Layout ==
  ASSUME IndicesFit, NEW t \in Threads, NEW k \in 0 .. Reps - 1
  PROVE  /\ Row(t) + Offset(k) = Index(t, k, 0)
         /\ \A i \in 0 .. NumPmcs - 1 : CounterCell(t, k, i) = Index(t, k, i + 1)
         /\ \A c \in 0 .. NumPmcs : Printed(t, k, c) = Index(t, k, c)
<1> USE ResultsAssumption DEF Threads, Columns
<1>1. t \in Nat /\ k \in Nat /\ Reps \in Nat /\ Columns \in Nat
  OBVIOUS
<1>2. Block(t, k) * Columns = t * Reps * Columns + Columns * k
  <2>1. t * Reps \in Nat
    BY <1>1
  <2> HIDE DEF Columns
  <2>2. \A a, b, m \in Nat : (a + b) * m = a * m + m * b
    OBVIOUS
  <2> QED
    BY <1>1, <2>1, <2>2 DEF Block
<1>3. t * Reps * Columns \in Nat /\ Columns * k \in Nat
  BY <1>1
<1>4. \A c \in 0 .. NumPmcs : Index(t, k, c) = t * Reps * Columns + Columns * k + c
  BY <1>2 DEF Index
<1>5. \A c \in 0 .. NumPmcs : Index(t, k, c) < Word
  BY IndexRange
<1>6. 0 \in 0 .. NumPmcs
  OBVIOUS
<1>7. t * Reps * Columns + Columns * k < Word
  BY <1>3, <1>4, <1>5, <1>6
<1>8. Row(t) = t * Reps * Columns /\ Offset(k) = Columns * k
  BY <1>3, <1>7, Unwrapped DEF Row, Offset
<1>9. \A c \in 0 .. NumPmcs : Printed(t, k, c) = Index(t, k, c)
  BY <1>3, <1>4, <1>5, Unwrapped DEF Printed
<1> QED
  BY <1>3, <1>4, <1>6, <1>8, <1>9 DEF CounterCell

-----------------------------------------------------------------------------
(* The inductive invariant.  Whatever is in a cell was stored there by the *)
(* cell's own thread and repetition, and times are there as soon as a      *)
(* repetition is over, if indices do not wrap.                             *)
OwnInv ==
  IndicesFit =>
  \A t \in Threads, k \in 0 .. Reps - 1, c \in 0 .. NumPmcs :
    /\ data[Index(t, k, c)] # Unwritten =>
         data[Index(t, k, c)].by = t /\ data[Index(t, k, c)].rep = k
    /\ k < rep[t] /\ c = 0 => data[Index(t, k, c)] = Time(t, k)

LoopInv ==
  \A t \in Threads :
    /\ Len(active[t]) <= NumPmcs
    /\ pc[t] = "end" => rep[t] < Reps

(* Counters are on as long as they are needed, and restored in the end     *)
(* under McKernel.                                                         *)
CtrlInv ==
  \A t \in Threads :
    /\ pc[t] = "init" => ctrl[t] = found[t] /\ ctrl[t] \in {{}, AllCounters}
    /\ pc[t] = "begin" /\ method \in {"mck", "arm"} => Used(t) \subseteq ctrl[t]
    /\ pc[t] = "end" => Used(t) \subseteq Counting(t)
    /\ pc[t] \in {"begin", "end"} /\ method \in {"rawmck", "mck"} => saved[t] = found[t]
    /\ pc[t] = "done" /\ method \in {"rawmck", "mck"} => ctrl[t] = found[t]

(* They count the events they were opened for ...                          *)
SelInv ==
  \A t \in Threads :
    pc[t] \in {"begin", "end"} /\ ~(method \in Raw /\ Skipped(t)) =>
      \A i \in Used(t) : sel[t][i] = active[t][i + 1]

(* ... and during a call they start from zero, or their cells hold the     *)
(* values they started from.                                               *)
ZeroInv ==
  \A t \in Threads : pc[t] = "end" /\ method # "jevents" =>
    \A i \in Used(t) : zeroed[t][i] = rep[t]

StartInv ==
  IndicesFit =>
  \A t \in Threads : pc[t] = "end" /\ method = "jevents" =>
    \A i \in Used(t) : data[Index(t, rep[t], i + 1)] = Start(t, rep[t], active[t][i + 1])

(* Only a thread that has opened its events stores wrong numbers.          *)
WrongInv == \A x \in Cells : data[x].kind = "wrong" => pc[data[x].by] # "init"

CounterInv == CtrlInv /\ SelInv /\ ZeroInv /\ StartInv /\ WrongInv

ResultsInv == ResultsTypeOK /\ OwnInv /\ LoopInv /\ CounterInv /\ NothingWrong

LEMMA OpenableFacts == \A q \in Openable : q \in Seq(Events) /\ Len(q) <= NumPmcs
<1> SUFFICES ASSUME NEW q \in Openable PROVE q \in Seq(Events) /\ Len(q) <= NumPmcs
  OBVIOUS
<1>1. PICK n \in 0 .. NumPmcs : q \in [1 .. n -> Considered]
  BY DEF Openable
<1>2. Considered \subseteq Events
  BY DEF Considered
<1>3. n \in Nat /\ q \in [1 .. n -> Events]
  BY <1>1, <1>2, ResultsAssumption
<1> QED
  BY <1>1, <1>3, ResultsAssumption

LEMMA SelectedFacts ==
  ASSUME NEW q \in Seq(Events), NEW old \in [AllCounters -> {0} \cup Events]
  PROVE  /\ Selected(q, old) \in [AllCounters -> {0} \cup Events]
         /\ Len(q) <= NumPmcs /\ (method \in Raw => \A j \in 1 .. Len(q) : q[j] = j) =>
              \A i \in 0 .. Len(q) - 1 : Selected(q, old)[i] = q[i + 1]
<1> USE ResultsAssumption
<1>1. ASSUME NEW i \in AllCounters, \E j \in DOMAIN q : Place(q, j) = i
      PROVE  q[CHOOSE j \in DOMAIN q : Place(q, j) = i] \in Events
  <2>1. (CHOOSE j \in DOMAIN q : Place(q, j) = i) \in DOMAIN q
    BY <1>1
  <2> QED
    BY <2>1
<1>2. Selected(q, old) \in [AllCounters -> {0} \cup Events]
  BY <1>1 DEF Selected
<1>3. ASSUME Len(q) <= NumPmcs, method \in Raw => \A j \in 1 .. Len(q) : q[j] = j,
             NEW i \in 0 .. Len(q) - 1
      PROVE  Selected(q, old)[i] = q[i + 1]
  <2>1. \A j \in DOMAIN q : j \in Int /\ Place(q, j) = j - 1
    BY <1>3 DEF Place
  <2>2. i + 1 \in DOMAIN q /\ Place(q, i + 1) = i /\ i \in AllCounters
    BY <1>3, <2>1 DEF AllCounters
  <2>3. (CHOOSE j \in DOMAIN q : Place(q, j) = i) = i + 1
    <3>1. \A j \in DOMAIN q : Place(q, j) = i => j = i + 1
      BY <2>1
    <3>2. \E j \in DOMAIN q : Place(q, j) = i
      BY <2>2
    <3> QED
      BY <3>1, <3>2
  <2> QED
    BY <2>2, <2>3 DEF Selected
<1> QED
  BY <1>2, <1>3

(* A cell tells the counter it belongs to. *)
LEMMA CounterPlaces ==
  ASSUME NEW t \in Threads, NEW k \in 0 .. Reps - 1, NEW n \in 0 .. NumPmcs
  PROVE  /\ \A i \in 0 .. n - 1 : CounterAt(t, k, CounterCell(t, k, i)) = i + 1
         /\ \A x \in CounterCells(t, k, n) : CounterAt(t, k, x) \in 1 .. n
<1> USE ResultsAssumption
<1>1. Row(t) \in Nat /\ Offset(k) \in Nat
  <2>1. t * Reps * Columns \in Nat /\ Columns * k \in Nat
    <3>1. t \in Nat /\ k \in Nat /\ Columns \in Nat /\ t * Reps \in Nat
      BY DEF Threads, Columns
    <3> HIDE DEF Columns
    <3> QED
      BY <3>1
  <2>2. \A m \in Nat : m % Word \in Nat
    OBVIOUS
  <2> QED
    BY <2>1, <2>2 DEF Row, Offset
<1>2. \A i \in 0 .. n - 1 : CounterAt(t, k, CounterCell(t, k, i)) = i + 1
  BY <1>1 DEF CounterAt, CounterCell
<1>3. \A x \in CounterCells(t, k, n) : \E i \in 0 .. n - 1 : x = CounterCell(t, k, i)
  BY DEF CounterCells
<1> QED
  BY <1>2, <1>3

(* The cells a thread's counters write are its own, and not the time's.    *)
LEMMA OwnCells ==
  ASSUME IndicesFit, NEW t \in Threads, NEW k \in 0 .. Reps - 1, NEW n \in 0 .. NumPmcs
  PROVE  /\ \A i \in 0 .. n - 1 :
              /\ CounterCell(t, k, i) = Index(t, k, i + 1)
              /\ CounterCell(t, k, i) \in Cells
              /\ CounterCell(t, k, i) \in CounterCells(t, k, n)
              /\ CounterAt(t, k, CounterCell(t, k, i)) = i + 1
         /\ \A x \in CounterCells(t, k, n) : CounterAt(t, k, x) \in 1 .. n
         /\ \A u \in Threads, l \in 0 .. Reps - 1, d \in 0 .. NumPmcs :
              Index(u, l, d) \in CounterCells(t, k, n) => u = t /\ l = k /\ d > 0
<1> USE ResultsAssumption
<1>1. \A i \in 0 .. n - 1 :
        CounterCell(t, k, i) = Index(t, k, i + 1) /\ Index(t, k, i + 1) \in Cells
  <2>1. \A i \in 0 .. n - 1 : i \in 0 .. NumPmcs - 1 /\ i + 1 \in 0 .. NumPmcs
    OBVIOUS
  <2> QED
    BY <2>1, Layout, IndexRange
<1>3. \A i \in 0 .. n - 1 : CounterAt(t, k, CounterCell(t, k, i)) = i + 1
  BY CounterPlaces
<1>4. \A x \in CounterCells(t, k, n) : \E i \in 0 .. n - 1 : x = CounterCell(t, k, i)
  BY DEF CounterCells
<1>5. \A x \in CounterCells(t, k, n) : CounterAt(t, k, x) \in 1 .. n
  BY CounterPlaces
<1>6. ASSUME NEW u \in Threads, NEW l \in 0 .. Reps - 1, NEW d \in 0 .. NumPmcs,
             Index(u, l, d) \in CounterCells(t, k, n)
      PROVE  u = t /\ l = k /\ d > 0
  <2>1. PICK i \in 0 .. n - 1 : Index(u, l, d) = Index(t, k, i + 1)
    BY <1>1, <1>4, <1>6
  <2>2. i + 1 \in 0 .. NumPmcs
    OBVIOUS
  <2> QED
    BY <2>1, <2>2, IndexInjective
<1>7. \A i \in 0 .. n - 1 : CounterCell(t, k, i) \in CounterCells(t, k, n)
  BY DEF CounterCells
<1> QED
  BY <1>1, <1>3, <1>5, <1>6, <1>7

LEMMA InitResults == Init => ResultsInv
<1> SUFFICES ASSUME Init PROVE ResultsInv
  OBVIOUS
<1> USE ResultsAssumption DEF Init
<1>1. 0 \in Threads /\ Reps \in Nat /\ NumPmcs \in Nat
  BY DEF Threads
<1>2. Unwritten \in Values /\ <<>> \in Seq(Events)
  BY <1>1 DEF Unwritten, Value, Values
<1>3. ResultsTypeOK
  <2>1. ctrl \in [Threads -> SUBSET AllCounters] /\ found = ctrl
    OBVIOUS
  <2>2. /\ data \in [Cells -> Values] /\ pc \in [Threads -> {"init", "begin", "end", "done"}]
        /\ method \in Methods /\ active \in [Threads -> Seq(Events)]
    BY <1>2
  <2>3. 0 \in 0 .. Reps /\ -1 \in {-1} \cup 0 .. Reps
    BY <1>1
  <2> QED
    BY <2>1, <2>2, <2>3 DEF ResultsTypeOK
<1>4. OwnInv
  BY <1>1, IndexRange DEF OwnInv
<1>5. LoopInv /\ CtrlInv /\ SelInv /\ ZeroInv /\ StartInv
  BY <1>1 DEF LoopInv, CtrlInv, SelInv, ZeroInv, StartInv
<1>6. NothingWrong /\ WrongInv
  BY DEF NothingWrong, WrongInv, Unwritten, Value
<1> QED
  BY <1>3, <1>4, <1>5, <1>6 DEF ResultsInv, CounterInv

LEMMA PmuInitStep == \A t \in Threads : ResultsInv /\ PmuInit(t) => ResultsInv'
<1> SUFFICES ASSUME NEW t \in Threads, ResultsInv, PmuInit(t) PROVE ResultsInv'
  OBVIOUS
<1> USE ResultsAssumption DEF ResultsInv, CounterInv, PmuInit
<1>1. PICK q \in Openable : active' = [active EXCEPT ![t] = q]
  OBVIOUS
<1>2. q \in Seq(Events) /\ Len(q) <= NumPmcs /\ Len(q) \in Nat
  BY OpenableFacts
<1>3. active'[t] = q /\ sel' = [sel EXCEPT ![t] = Selected(q, sel[t])]
  BY <1>1 DEF ResultsTypeOK
<1>4. Used(t)' = 0 .. Len(q) - 1 /\ Used(t)' \subseteq AllCounters
  BY <1>2, <1>3 DEF AllCounters, Used
<1>5. CtrlAtInit(t) \subseteq AllCounters
  BY <1>4 DEF CtrlAtInit, ResultsTypeOK
<1>6. method \in {"mck", "arm"} => Used(t)' \subseteq CtrlAtInit(t)
  <2>1. ctrl[t] \in {{}, AllCounters}
    BY DEF CtrlInv
  <2> QED
    BY <1>4, <2>1 DEF CtrlAtInit, Raw, ResultsTypeOK
<1>7. ResultsTypeOK'
  <2>1. sel' \in [Threads -> [AllCounters -> {0} \cup Events]]
    BY <1>2, <1>3, SelectedFacts DEF ResultsTypeOK
  <2>2. active' \in [Threads -> Seq(Events)]
    BY <1>1, <1>2 DEF ResultsTypeOK
  <2>3. ctrl' \in [Threads -> SUBSET AllCounters]
    BY <1>5 DEF ResultsTypeOK
  <2>4. saved' \in [Threads -> SUBSET AllCounters]
    <3>1. CtrlRead(t) \subseteq SUBSET AllCounters
      BY DEF CtrlRead, ResultsTypeOK
    <3>2. saved' = saved \/ \E v \in CtrlRead(t) : saved' = [saved EXCEPT ![t] = v]
      OBVIOUS
    <3>3. saved \in [Threads -> SUBSET AllCounters]
      BY DEF ResultsTypeOK
    <3> HIDE DEF ResultsInv, CounterInv, PmuInit
    <3>4. ASSUME NEW v \in SUBSET AllCounters
          PROVE  [saved EXCEPT ![t] = v] \in [Threads -> SUBSET AllCounters]
      BY <3>3
    <3> QED
      BY <3>1, <3>2, <3>3, <3>4
  <2> QED
    BY <2>1, <2>2, <2>3, <2>4 DEF ResultsTypeOK
<1>8. OwnInv'
  <2>1. UNCHANGED <<data, rep>> /\ OwnInv
    OBVIOUS
  <2> HIDE DEF ResultsInv, CounterInv, PmuInit
  <2> QED
    BY <2>1 DEF OwnInv
<1>9. LoopInv'
  BY <1>1, <1>2 DEF LoopInv, ResultsTypeOK
<1>10. ASSUME NEW u \in Threads, u # t
       PROVE  /\ active'[u] = active[u] /\ sel'[u] = sel[u] /\ saved'[u] = saved[u]
              /\ ctrl'[u] = ctrl[u] /\ pc'[u] = pc[u]
              /\ Used(u)' = Used(u) /\ Counting(u)' = Counting(u)
              /\ Skipped(u)' <=> Skipped(u)
  BY <1>1, <1>10 DEF ResultsTypeOK, Used, Counting, Skipped
<1>11. pc'[t] = "begin"
  BY DEF ResultsTypeOK
<1>12. CtrlInv'
  <2> SUFFICES ASSUME NEW u \in Threads
               PROVE  /\ pc'[u] = "init" => ctrl'[u] = found[u] /\ ctrl'[u] \in {{}, AllCounters}
                      /\ pc'[u] = "begin" /\ method \in {"mck", "arm"} => Used(u)' \subseteq ctrl'[u]
                      /\ pc'[u] = "end" => Used(u)' \subseteq Counting(u)'
                      /\ pc'[u] \in {"begin", "end"} /\ method \in {"rawmck", "mck"} =>
                           saved'[u] = found[u]
                      /\ pc'[u] = "done" /\ method \in {"rawmck", "mck"} => ctrl'[u] = found[u]
    BY DEF CtrlInv
  <2>1. CASE u # t
    BY <1>10, <2>1 DEF CtrlInv
  <2>2. CASE u = t
    <3>1. ctrl'[t] = CtrlAtInit(t)
      BY DEF ResultsTypeOK
    <3>2. method \in {"rawmck", "mck"} => saved'[t] = found[t]
      BY DEF CtrlRead, Raw, ResultsTypeOK, CtrlInv
    <3> QED
      BY <1>6, <1>11, <2>2, <3>1, <3>2
  <2> QED
    BY <2>1, <2>2
<1>13. SelInv'
  <2> SUFFICES ASSUME NEW u \in Threads, pc'[u] \in {"begin", "end"},
                      ~(method \in Raw /\ Skipped(u)'), NEW i \in Used(u)'
               PROVE  sel'[u][i] = active'[u][i + 1]
    BY DEF SelInv
  <2>1. CASE u # t
    BY <1>10, <2>1 DEF SelInv
  <2>2. CASE u = t
    <3>1. method \in Raw => \A j \in 1 .. Len(q) : q[j] = j
      BY <1>3, <2>2 DEF Skipped
    <3>2. sel[t] \in [AllCounters -> {0} \cup Events] /\ i \in 0 .. Len(q) - 1
      BY <1>4, <2>2 DEF ResultsTypeOK
    <3>3. \A j \in 0 .. Len(q) - 1 : Selected(q, sel[t])[j] = q[j + 1]
      <4> HIDE DEF ResultsInv, CounterInv, PmuInit
      <4> QED
        BY <1>2, <3>1, <3>2, SelectedFacts
    <3> QED
      BY <1>3, <2>2, <3>2, <3>3 DEF ResultsTypeOK
  <2> QED
    BY <2>1, <2>2
<1>14. ZeroInv'
  BY <1>10, <1>11 DEF ZeroInv
<1>15. StartInv'
  BY <1>10, <1>11 DEF StartInv
<1>16. WrongInv' /\ NothingWrong'
  <2> SUFFICES ASSUME NEW x \in Cells, data[x].kind = "wrong"
               PROVE  /\ pc'[data[x].by] # "init"
                      /\ IndicesFit => method \in Raw /\ Skipped(data[x].by)'
    BY DEF WrongInv, NothingWrong
  <2>1. data[x].by \in Threads
    BY DEF ResultsTypeOK, Values
  <2>2. data[x].by # t
    BY DEF WrongInv
  <2> QED
    BY <1>10, <2>1, <2>2 DEF WrongInv, NothingWrong
<1> QED
  BY <1>7, <1>8, <1>9, <1>12, <1>13, <1>14, <1>15, <1>16

LEMMA PmuBeginStep == \A t \in Threads : ResultsInv /\ PmuBegin(t) => ResultsInv'
<1> SUFFICES ASSUME NEW t \in Threads, ResultsInv, PmuBegin(t) PROVE ResultsInv'
  OBVIOUS
<1> USE ResultsAssumption DEF ResultsInv, CounterInv, PmuBegin, pmu
<1> DEFINE k == rep[t]
           n == Len(active[t])
<1>1. k \in 0 .. Reps - 1 /\ n \in 0 .. NumPmcs /\ active[t] \in Seq(Events)
  BY DEF ResultsTypeOK, LoopInv
<1>2. \A i \in 1 .. n : active[t][i] \in Events
  BY <1>1
<1> HIDE DEF k, n
<1>3. \A x \in CounterCells(t, k, n) : CounterAt(t, k, x) \in 1 .. n
  BY <1>1, CounterPlaces
<1>4. \A x \in Cells :
        data'[x] = IF method = "jevents" /\ x \in CounterCells(t, k, n)
                     THEN Start(t, k, active[t][CounterAt(t, k, x)]) ELSE data[x]
  BY DEF k, n
<1>5. \A x \in CounterCells(t, k, n) :
        Start(t, k, active[t][CounterAt(t, k, x)]) \in Values
  BY <1>1, <1>2, <1>3 DEF Start, Value, Values
<1>6. ResultsTypeOK'
  <2>1. data' \in [Cells -> Values]
    BY <1>5 DEF ResultsTypeOK, k, n
  <2>2. zeroed' \in [Threads -> [AllCounters -> {-1} \cup 0 .. Reps]]
    BY <1>1 DEF ResultsTypeOK, k
  <2>3. Used(t) \subseteq AllCounters
    BY <1>1 DEF Used, AllCounters, n
  <2> QED
    BY <2>1, <2>2, <2>3 DEF ResultsTypeOK
<1>7. ASSUME IndicesFit, NEW u \in Threads, NEW l \in 0 .. Reps - 1, NEW c \in 0 .. NumPmcs
      PROVE  \/ data'[Index(u, l, c)] = data[Index(u, l, c)]
             \/ /\ u = t /\ l = k /\ c > 0
                /\ data'[Index(u, l, c)].by = t /\ data'[Index(u, l, c)].rep = k
  <2>1. Index(u, l, c) \in Cells
    BY IndexRange
  <2>2. Index(u, l, c) \in CounterCells(t, k, n) => u = t /\ l = k /\ c > 0
    BY <1>1, <1>7, OwnCells
  <2> QED
    BY <1>4, <2>1, <2>2 DEF Start, Value
<1>8. OwnInv'
  <2> SUFFICES ASSUME IndicesFit,
                      NEW u \in Threads, NEW l \in 0 .. Reps - 1, NEW c \in 0 .. NumPmcs
               PROVE  /\ data'[Index(u, l, c)] # Unwritten =>
                           data'[Index(u, l, c)].by = u /\ data'[Index(u, l, c)].rep = l
                      /\ l < rep'[u] /\ c = 0 => data'[Index(u, l, c)] = Time(u, l)
    BY DEF OwnInv
  <2>1. CASE data'[Index(u, l, c)] = data[Index(u, l, c)]
    BY <2>1 DEF OwnInv
  <2>2. CASE data'[Index(u, l, c)] # data[Index(u, l, c)]
    <3>1. /\ u = t /\ l = k /\ c > 0
          /\ data'[Index(u, l, c)].by = t /\ data'[Index(u, l, c)].rep = k
      BY <1>7, <2>2
    <3>2. c # 0
      BY <3>1
    <3> QED
      BY <3>1, <3>2
  <2> QED
    BY <2>1, <2>2
<1>9. LoopInv' /\ SelInv'
  <2>1. pc' = [pc EXCEPT ![t] = "end"] /\ UNCHANGED <<rep, method, active, sel>>
    OBVIOUS
  <2>2. LoopInv'
    BY <2>1 DEF LoopInv, ResultsTypeOK
  <2>3. SelInv'
    BY <2>1 DEF SelInv, Used, Skipped, ResultsTypeOK
  <2> QED
    BY <2>2, <2>3
<1>10. StartInv'
  <2> SUFFICES ASSUME IndicesFit, NEW u \in Threads, pc'[u] = "end", method = "jevents",
                      NEW i \in 0 .. Len(active[u]) - 1
               PROVE  data'[Index(u, rep[u], i + 1)] = Start(u, rep[u], active[u][i + 1])
    BY DEF StartInv, Used
  <2>1. CASE u = t
    <3>1. i \in 0 .. n - 1
      BY <2>1 DEF n
    <3>2. /\ CounterCell(t, k, i) = Index(t, k, i + 1)
          /\ CounterCell(t, k, i) \in Cells
          /\ CounterCell(t, k, i) \in CounterCells(t, k, n)
          /\ CounterAt(t, k, CounterCell(t, k, i)) = i + 1
      BY <1>1, <3>1, OwnCells
    <3> QED
      BY <1>4, <2>1, <3>2 DEF k
  <2>2. CASE u # t
    <3>1. pc[u] = "end" /\ rep[u] \in 0 .. Reps - 1 /\ i + 1 \in 0 .. NumPmcs
      BY <2>2 DEF ResultsTypeOK, LoopInv
    <3> QED
      BY <1>7, <2>2, <3>1 DEF StartInv, Used
  <2> QED
    BY <2>1, <2>2
<1>11. WrongInv' /\ NothingWrong'
  <2> SUFFICES ASSUME NEW x \in Cells, data'[x].kind = "wrong"
               PROVE  /\ pc'[data'[x].by] # "init"
                      /\ IndicesFit => method \in Raw /\ Skipped(data'[x].by)
    BY DEF WrongInv, NothingWrong, Skipped
  <2>1. data'[x] = data[x]
    BY <1>4 DEF Start, Value
  <2> QED
    BY <2>1 DEF WrongInv, NothingWrong, ResultsTypeOK
<1>12. CtrlInv'
  <2> SUFFICES ASSUME NEW u \in Threads
               PROVE  /\ pc'[u] = "init" => ctrl'[u] = found[u] /\ ctrl'[u] \in {{}, AllCounters}
                      /\ pc'[u] = "begin" /\ method \in {"mck", "arm"} => Used(u)' \subseteq ctrl'[u]
                      /\ pc'[u] = "end" => Used(u)' \subseteq Counting(u)'
                      /\ pc'[u] \in {"begin", "end"} /\ method \in {"rawmck", "mck"} =>
                           saved'[u] = found[u]
                      /\ pc'[u] = "done" /\ method \in {"rawmck", "mck"} => ctrl'[u] = found[u]
    BY DEF CtrlInv
  <2>1. Used(u)' = Used(u)
    BY DEF Used
  <2>2. CASE u # t
    <3>1. pc'[u] = pc[u] /\ ctrl'[u] = ctrl[u] /\ Counting(u)' = Counting(u)
      BY <2>2 DEF ResultsTypeOK, Counting
    <3> QED
      BY <2>1, <3>1 DEF CtrlInv
  <2>3. CASE u = t
    <3>1. pc'[t] = "end" /\ pc[t] = "begin"
      BY DEF ResultsTypeOK
    <3>2. Used(t) \subseteq AllCounters
      BY <1>1 DEF Used, AllCounters, n
    <3>3. ctrl'[t] = IF method \in Raw THEN Used(t) ELSE ctrl[t]
      BY DEF ResultsTypeOK
    <3>4. Used(t) \subseteq Counting(t)'
      BY <3>1, <3>2, <3>3 DEF Counting, CtrlInv
    <3> QED
      BY <2>1, <2>3, <3>1, <3>4 DEF CtrlInv
  <2> QED
    BY <2>2, <2>3
<1>13. ZeroInv'
  <2> SUFFICES ASSUME NEW u \in Threads, pc'[u] = "end", method # "jevents", NEW i \in Used(u)
               PROVE  zeroed'[u][i] = rep[u]
    BY DEF ZeroInv, Used
  <2>1. Used(t) \subseteq AllCounters
    BY <1>1 DEF Used, AllCounters, n
  <2> QED
    BY <2>1 DEF ZeroInv, ResultsTypeOK
<1> QED
  BY <1>6, <1>8, <1>9, <1>10, <1>11, <1>12, <1>13

LEMMA PmuEndStep == \A t \in Threads : ResultsInv /\ PmuEnd(t) => ResultsInv'
<1> SUFFICES ASSUME NEW t \in Threads, ResultsInv, PmuEnd(t) PROVE ResultsInv'
  OBVIOUS
<1> USE ResultsAssumption DEF ResultsInv, CounterInv, PmuEnd, pmu
<1> DEFINE k == rep[t]
           n == NumRead(t)
           time == Row(t) + Offset(k)
<1>1. /\ k \in 0 .. Reps - 1 /\ n \in 0 .. NumPmcs /\ active[t] \in Seq(Events)
      /\ n <= Len(active[t])
  BY DEF ResultsTypeOK, LoopInv, NumRead
<1>2. \A i \in 1 .. n : active[t][i] \in Events
  BY <1>1
<1>3. rep' = [rep EXCEPT ![t] = k + 1] /\ pc' = [pc EXCEPT ![t] = "begin"]
  OBVIOUS
<1>4. \A x \in Cells :
        data'[x] = IF x = time THEN Time(t, k)
                   ELSE IF x \in CounterCells(t, k, n)
                   THEN Reading(t, CounterAt(t, k, x) - 1, data[x])
                   ELSE data[x]
  OBVIOUS
<1>5. data' = [x \in Cells |-> data'[x]]
  OBVIOUS
<1>6. \A i, old : Reading(t, i, old) \in
                  {Count(t, k, active[t][i + 1]), Wrong(t, k, active[t][i + 1])}
  BY DEF Reading
<1> HIDE DEF k, n, time
<1>7. IndicesFit => time = Index(t, k, 0) /\ time \in Cells
  BY <1>1, Layout, IndexRange DEF time
<1>8. \A x \in CounterCells(t, k, n) : CounterAt(t, k, x) \in 1 .. n
  BY <1>1, CounterPlaces
<1>9. ResultsTypeOK'
  <2>1. ASSUME NEW x \in Cells
        PROVE  data'[x] \in Values
    <3>1. Time(t, k) \in Values
      BY <1>1 DEF Time, Value, Values
    <3>2. ASSUME x \in CounterCells(t, k, n)
          PROVE  Reading(t, CounterAt(t, k, x) - 1, data[x]) \in Values
      <4>1. CounterAt(t, k, x) - 1 + 1 \in 1 .. n
        BY <1>8, <3>2
      <4>2. active[t][CounterAt(t, k, x) - 1 + 1] \in Events
        BY <1>2, <4>1
      <4> QED
        BY <1>1, <1>6, <4>2 DEF Count, Wrong, Value, Values
    <3> QED
      BY <1>4, <3>1, <3>2 DEF ResultsTypeOK
  <2>2. data' \in [Cells -> Values]
    BY <1>5, <2>1
  <2>3. rep' \in [Threads -> 0 .. Reps]
    BY <1>1, <1>3 DEF ResultsTypeOK
  <2> QED
    BY <1>3, <2>2, <2>3 DEF ResultsTypeOK
<1>10. ASSUME IndicesFit, NEW u \in Threads, NEW l \in 0 .. Reps - 1, NEW c \in 0 .. NumPmcs
       PROVE  /\ Index(u, l, c) # time /\ data'[Index(u, l, c)] # data[Index(u, l, c)] =>
                   /\ u = t /\ l = k /\ c > 0
                   /\ data'[Index(u, l, c)].by = t /\ data'[Index(u, l, c)].rep = k
              /\ Index(u, l, c) = time =>
                   u = t /\ l = k /\ c = 0 /\ data'[Index(u, l, c)] = Time(t, k)
  <2>1. Index(u, l, c) \in Cells
    BY IndexRange
  <2>2. Index(u, l, c) \in CounterCells(t, k, n) => u = t /\ l = k /\ c > 0
    BY <1>1, <1>10, OwnCells
  <2>3. Index(u, l, c) = time => u = t /\ l = k /\ c = 0
    BY <1>1, <1>7, <1>10, IndexInjective
  <2> QED
    BY <1>4, <1>6, <2>1, <2>2, <2>3 DEF Count, Wrong, Value
<1>11. OwnInv'
  <2> SUFFICES ASSUME IndicesFit,
                      NEW u \in Threads, NEW l \in 0 .. Reps - 1, NEW c \in 0 .. NumPmcs
               PROVE  /\ data'[Index(u, l, c)] # Unwritten =>
                           data'[Index(u, l, c)].by = u /\ data'[Index(u, l, c)].rep = l
                      /\ l < rep'[u] /\ c = 0 => data'[Index(u, l, c)] = Time(u, l)
    BY DEF OwnInv
  <2>1. CASE Index(u, l, c) = time
    <3>1. u = t /\ l = k /\ data'[Index(u, l, c)] = Time(t, k)
      BY <1>10, <2>1
    <3>2. Time(t, k).by = t /\ Time(t, k).rep = k
      BY DEF Time, Value
    <3> QED
      BY <3>1, <3>2
  <2>2. CASE Index(u, l, c) # time /\ data'[Index(u, l, c)] = data[Index(u, l, c)]
    <3>1. l < rep'[u] /\ c = 0 => l < rep[u]
      <4>1. u = t /\ c = 0 => l # k
        BY <1>7, <2>2
      <4> QED
        BY <1>1, <1>3, <4>1 DEF ResultsTypeOK, k
    <3> QED
      BY <2>2, <3>1 DEF OwnInv
  <2>3. CASE Index(u, l, c) # time /\ data'[Index(u, l, c)] # data[Index(u, l, c)]
    <3>1. /\ u = t /\ l = k /\ c > 0
          /\ data'[Index(u, l, c)].by = t /\ data'[Index(u, l, c)].rep = k
      BY <1>10, <2>3
    <3>2. c # 0
      BY <3>1
    <3> QED
      BY <3>1, <3>2
  <2> QED
    BY <2>1, <2>2, <2>3
<1>12. \A u \in Threads : Used(u)' = Used(u) /\ (Skipped(u)' <=> Skipped(u))
  BY DEF Used, Skipped
<1>13. LoopInv' /\ SelInv' /\ ZeroInv'
  BY <1>3, <1>12 DEF LoopInv, SelInv, ZeroInv, ResultsTypeOK
<1>14. StartInv'
  <2> SUFFICES ASSUME IndicesFit, NEW u \in Threads, pc'[u] = "end", method = "jevents",
                      NEW i \in 0 .. Len(active[u]) - 1
               PROVE  data'[Index(u, rep'[u], i + 1)] = Start(u, rep'[u], active[u][i + 1])
    BY DEF StartInv, Used
  <2>1. u # t /\ pc[u] = "end" /\ rep'[u] = rep[u]
    BY <1>3 DEF ResultsTypeOK
  <2>2. rep[u] \in 0 .. Reps - 1 /\ i + 1 \in 0 .. NumPmcs
    BY <2>1 DEF ResultsTypeOK, LoopInv
  <2>3. Index(u, rep[u], i + 1) # time
    BY <1>10, <2>1, <2>2
  <2>4. data'[Index(u, rep[u], i + 1)] = data[Index(u, rep[u], i + 1)]
    BY <1>10, <2>1, <2>2, <2>3
  <2>5. data[Index(u, rep[u], i + 1)] = Start(u, rep[u], active[u][i + 1])
    BY <2>1 DEF StartInv, Used
  <2> QED
    BY <2>1, <2>4, <2>5
<1>15. CtrlInv'
  <2> SUFFICES ASSUME NEW u \in Threads
               PROVE  /\ pc'[u] = "init" => ctrl'[u] = found[u] /\ ctrl'[u] \in {{}, AllCounters}
                      /\ pc'[u] = "begin" /\ method \in {"mck", "arm"} => Used(u) \subseteq ctrl'[u]
                      /\ pc'[u] = "end" => Used(u) \subseteq Counting(u)'
                      /\ pc'[u] \in {"begin", "end"} /\ method \in {"rawmck", "mck"} =>
                           saved[u] = found[u]
                      /\ pc'[u] = "done" /\ method \in {"rawmck", "mck"} => ctrl'[u] = found[u]
    BY DEF CtrlInv, Used
  <2>1. CASE u # t
    <3>1. pc'[u] = pc[u] /\ ctrl'[u] = ctrl[u] /\ Counting(u)' = Counting(u)
      BY <2>1 DEF ResultsTypeOK, Counting
    <3> QED
      BY <3>1 DEF CtrlInv
  <2>2. CASE u = t
    <3>1. pc'[t] = "begin" /\ pc[t] = "end" /\ ~(method \in Raw) => ctrl'[t] = ctrl[t]
      BY <1>3 DEF ResultsTypeOK
    <3>2. method \in {"mck", "arm"} => ~(method \in Raw) /\ Counting(t) = ctrl[t]
      BY DEF Raw, Counting
    <3>3. pc'[t] = "begin" /\ pc[t] = "end"
      BY <1>3 DEF ResultsTypeOK
    <3> QED
      BY <2>2, <3>1, <3>2, <3>3 DEF CtrlInv
  <2> QED
    BY <2>1, <2>2
<1>16. ASSUME IndicesFit, NEW i \in 0 .. n - 1, ~(method \in Raw /\ Skipped(t))
       PROVE  Reading(t, i, data[CounterCell(t, k, i)]) = Count(t, k, active[t][i + 1])
  <2>1. CounterCell(t, k, i) = Index(t, k, i + 1)
    BY <1>1, <1>16, OwnCells
  <2>2. i \in Used(t)
    BY <1>1 DEF Used
  <2>3. i \in Counting(t) /\ sel[t][i] = active[t][i + 1]
    BY <1>16, <2>2 DEF CtrlInv, SelInv
  <2>4. method # "jevents" => zeroed[t][i] = k
    BY <2>2 DEF ZeroInv, k
  <2>5. method = "jevents" => data[Index(t, k, i + 1)] = Start(t, k, active[t][i + 1])
    BY <1>16, <2>2 DEF StartInv, k
  <2> QED
    BY <2>1, <2>3, <2>4, <2>5 DEF Reading, k
<1>17. ASSUME NEW x \in Cells, data'[x].kind = "wrong"
       PROVE  \/ data'[x] = data[x]
              \/ data'[x].by = t /\ (IndicesFit => method \in Raw /\ Skipped(t))
  <2>1. CASE x = time
    BY <1>4, <1>17, <2>1 DEF Time, Value
  <2>2. CASE x # time /\ x \in CounterCells(t, k, n)
    <3>1. PICK i \in 0 .. n - 1 : x = CounterCell(t, k, i)
      BY <2>2 DEF CounterCells
    <3>2. CounterAt(t, k, x) - 1 = i
      BY <1>1, <3>1, CounterPlaces
    <3>3. data'[x] = Reading(t, i, data[CounterCell(t, k, i)])
      BY <1>4, <2>2, <3>1, <3>2
    <3>4. data'[x].by = t
      BY <1>6, <3>3 DEF Count, Wrong, Value
    <3>5. IndicesFit /\ ~(method \in Raw /\ Skipped(t)) => data'[x] = Count(t, k, active[t][i + 1])
      BY <1>16, <3>3
    <3>6. Count(t, k, active[t][i + 1]).kind = "count"
      BY DEF Count, Value
    <3> QED
      BY <1>17, <3>4, <3>5, <3>6
  <2>3. CASE x # time /\ ~(x \in CounterCells(t, k, n))
    BY <1>4, <2>3
  <2> QED
    BY <2>1, <2>2, <2>3
<1>18. NothingWrong' /\ WrongInv'
  <2> SUFFICES ASSUME NEW x \in Cells, data'[x].kind = "wrong"
               PROVE  /\ pc'[data'[x].by] # "init"
                      /\ IndicesFit => method \in Raw /\ Skipped(data'[x].by)
    BY DEF NothingWrong, WrongInv, Skipped
  <2>1. pc'[t] # "init" /\ \A u \in Threads : pc[u] # "init" => pc'[u] # "init"
    BY <1>3 DEF ResultsTypeOK
  <2>2. data[x].by \in Threads
    BY DEF ResultsTypeOK, Values
  <2> QED
    BY <1>17, <2>1, <2>2 DEF NothingWrong, WrongInv
<1> QED
  BY <1>9, <1>11, <1>13, <1>14, <1>15, <1>18

LEMMA PmuFreeStep == \A t \in Threads : ResultsInv /\ PmuFree(t) => ResultsInv'
<1> SUFFICES ASSUME NEW t \in Threads, ResultsInv, PmuFree(t) PROVE ResultsInv'
  OBVIOUS
<1> USE DEF ResultsInv, CounterInv, PmuFree
<1>1. pc' = [pc EXCEPT ![t] = "done"] /\ ctrl' = [ctrl EXCEPT ![t] = CtrlAtFree(t)]
  OBVIOUS
<1>2. CtrlAtFree(t) \subseteq AllCounters
  BY DEF CtrlAtFree, ResultsTypeOK
<1>3. ResultsTypeOK'
  BY <1>2 DEF ResultsTypeOK
<1>4. OwnInv' /\ LoopInv' /\ ZeroInv' /\ StartInv'
  BY DEF OwnInv, LoopInv, ZeroInv, StartInv, Used, ResultsTypeOK
<1>5. \A u \in Threads : Used(u)' = Used(u) /\ (Skipped(u)' <=> Skipped(u))
  BY DEF Used, Skipped
<1>6. ASSUME NEW u \in Threads, u # t
      PROVE  pc'[u] = pc[u] /\ ctrl'[u] = ctrl[u] /\ sel'[u] = sel[u]
  BY <1>6 DEF ResultsTypeOK
<1>7. pc'[t] = "done" /\ ctrl'[t] = CtrlAtFree(t) /\ pc[t] = "begin"
  BY DEF ResultsTypeOK
<1>8. SelInv'
  BY <1>5, <1>6, <1>7 DEF SelInv
<1>9. WrongInv' /\ NothingWrong'
  BY <1>5, <1>6, <1>7 DEF WrongInv, NothingWrong, ResultsTypeOK, Values
<1>10. CtrlInv'
  <2> SUFFICES ASSUME NEW u \in Threads
               PROVE  /\ pc'[u] = "init" => ctrl'[u] = found[u] /\ ctrl'[u] \in {{}, AllCounters}
                      /\ pc'[u] = "begin" /\ method \in {"mck", "arm"} => Used(u) \subseteq ctrl'[u]
                      /\ pc'[u] = "end" => Used(u) \subseteq Counting(u)'
                      /\ pc'[u] \in {"begin", "end"} /\ method \in {"rawmck", "mck"} =>
                           saved[u] = found[u]
                      /\ pc'[u] = "done" /\ method \in {"rawmck", "mck"} => ctrl'[u] = found[u]
    BY DEF CtrlInv, Used
  <2>1. CASE u # t
    BY <1>6, <2>1 DEF CtrlInv, Counting
  <2>2. CASE u = t
    BY <1>7, <2>2 DEF CtrlInv, CtrlAtFree, Raw
  <2> QED
    BY <2>1, <2>2
<1> QED
  BY <1>3, <1>4, <1>8, <1>9, <1>10

LEMMA NextResults == ResultsInv /\ [Next]_rvars => ResultsInv'
<1> SUFFICES ASSUME ResultsInv, [Next]_rvars PROVE ResultsInv'
  OBVIOUS
<1>1. CASE UNCHANGED rvars
  <2> USE <1>1 DEF rvars, pmu, ResultsInv, CounterInv
  <2>1. \A u \in Threads : /\ Used(u)' = Used(u) /\ Counting(u)' = Counting(u)
                          /\ Skipped(u)' <=> Skipped(u)
    BY DEF Used, Counting, Skipped
  <2>2. ResultsTypeOK' /\ OwnInv' /\ LoopInv'
    BY DEF ResultsTypeOK, OwnInv, LoopInv
  <2>3. CtrlInv' /\ SelInv' /\ ZeroInv' /\ StartInv'
    <3>1. CtrlInv'
      BY DEF CtrlInv, Used, Counting
    <3>2. SelInv'
      BY DEF SelInv, Used, Skipped
    <3>3. ZeroInv' /\ StartInv'
      BY DEF ZeroInv, StartInv, Used
    <3> QED
      BY <3>1, <3>2, <3>3
  <2>4. WrongInv' /\ NothingWrong'
    BY <2>1 DEF WrongInv, NothingWrong, ResultsTypeOK, Values
  <2> QED
    BY <2>2, <2>3, <2>4
<1> QED
  BY <1>1, PmuInitStep, PmuBeginStep, PmuEndStep, PmuFreeStep DEF Next

(* What a cell holds was stored by the thread whose row it is in; times    *)
(* are stored, counters run and are restored: inductive together.          *)
THEOREM ArrayInductive == Spec => []ResultsInv
  BY InitResults, NextResults, PTL DEF Spec

(* Type correctness of the result array and the counters.                  *)
THEOREM ArrayTypeCorrect == Spec => []ResultsTypeOK
<1>1. ResultsInv => ResultsTypeOK
  BY DEF ResultsInv
<1> QED
  BY <1>1, ArrayInductive, PTL

(* Up to 2^32 numbers the indices of main.cc:278 and 300 and worker.c:270  *)
(* agree, and no thread writes to another's row.                           *)
THEOREM RowsAreOwn == Spec => []PrintedIsOwn
<1>1. ResultsInv => PrintedIsOwn
  BY Layout, ResultsAssumption DEF ResultsInv, OwnInv, PrintedIsOwn
<1> QED
  BY <1>1, ArrayInductive, PTL

(* No number is stored by a counter that stood still, counted another      *)
(* event or was not reset for this call, unless a raw method has skipped   *)
(* an event (arch.h:112-121,421-423,478,526).                              *)
THEOREM CountersRun == Spec => []NothingWrong
<1>1. ResultsInv => NothingWrong
  BY DEF ResultsInv
<1> QED
  BY <1>1, ArrayInductive, PTL

(* Under McKernel IA32_PERF_GLOBAL_CTRL is left as it was found, whether   *)
(* its own calls or the registers are used (arch.h:353,451).               *)
THEOREM CtrlRestored == Spec => []CtrlGivenBack
<1>1. ResultsInv => CtrlGivenBack
  BY DEF ResultsInv, CounterInv, CtrlInv, CtrlGivenBack
<1> QED
  BY <1>1, ArrayInductive, PTL

-----------------------------------------------------------------------------
(* A set of natural numbers that is not empty has a least one.             *)
LEMMA LeastOf ==
  ASSUME NEW S \in SUBSET Nat, S # {}
  PROVE  \E m \in S : \A y \in S : m <= y
<1>1. PICK x \in S : \A y \in S : ~(<<y, x>> \in OpToRel(<, Nat))
  BY NatLessThanWellFounded, WFMin, Zenon
<1>2. \A y \in S : ~(y < x)
  BY <1>1 DEF OpToRel
<1> QED
  BY <1>2

(* Who has opened all events has opened them in order. *)
LEMMA AllOpened ==
  ASSUME NEW q \in Openable, Len(q) = NumPmcs
  PROVE  \A j \in 1 .. NumPmcs : q[j] = j
<1> USE ResultsAssumption
<1>1. /\ \A j \in 1 .. NumPmcs : q[j] \in 1 .. NumPmcs
      /\ \A i, j \in 1 .. NumPmcs : i < j => q[i] < q[j]
  <2>1. q \in Seq(Events)
    BY OpenableFacts
  <2>2. DOMAIN q = 1 .. NumPmcs
    BY <2>1
  <2>3. \A i, j \in DOMAIN q : i < j => q[i] < q[j]
    BY Zenon DEF Openable
  <2>4. \A j \in DOMAIN q : q[j] \in Events
    BY <2>1
  <2> QED
    BY <2>2, <2>3, <2>4 DEF Events
<1>2. \A j \in 1 .. NumPmcs : j <= q[j]
  <2> DEFINE Low == {j \in 1 .. NumPmcs : q[j] < j}
  <2>1. SUFFICES Low = {}
    BY <1>1
  <2>2. SUFFICES ASSUME Low # {}
                 PROVE  FALSE
    OBVIOUS
  <2>3. PICK m \in Low : \A y \in Low : m <= y
    <3>1. Low \in SUBSET Nat
      OBVIOUS
    <3> QED
      BY <2>2, <3>1, LeastOf
  <2>4. m > 1
    BY <1>1
  <2>5. m - 1 \notin Low /\ m - 1 \in 1 .. NumPmcs
    BY <2>3, <2>4
  <2>6. m \in Nat /\ q[m] \in Int /\ q[m - 1] \in Int /\ q[m] < m
    BY <1>1, <2>3, <2>5
  <2>7. m - 1 <= q[m - 1] /\ q[m - 1] < q[m]
    BY <1>1, <2>5, <2>6
  <2> HIDE DEF Low
  <2> QED
    BY <2>6, <2>7
<1>3. \A j \in 1 .. NumPmcs : q[j] <= j
  <2> DEFINE High == {d \in 0 .. NumPmcs - 1 : NumPmcs - d < q[NumPmcs - d]}
  <2>1. SUFFICES High = {}
    <3> SUFFICES ASSUME NEW j \in 1 .. NumPmcs
                 PROVE  q[j] <= j
      OBVIOUS
    <3>1. NumPmcs - j \in 0 .. NumPmcs - 1 /\ NumPmcs - (NumPmcs - j) = j
      OBVIOUS
    <3>2. ~(j < q[j])
      BY <2>1, <3>1
    <3> QED
      BY <1>1, <3>2
  <2>2. SUFFICES ASSUME High # {}
                 PROVE  FALSE
    OBVIOUS
  <2>3. PICK m \in High : \A y \in High : m <= y
    <3>1. High \in SUBSET Nat
      OBVIOUS
    <3> QED
      BY <2>2, <3>1, LeastOf
  <2>4. m > 0
    BY <1>1
  <2>5. m - 1 \notin High /\ m - 1 \in 0 .. NumPmcs - 1
    BY <2>3, <2>4
  <2>6. /\ NumPmcs - m \in 1 .. NumPmcs /\ NumPmcs - (m - 1) \in 1 .. NumPmcs
        /\ NumPmcs - m < NumPmcs - (m - 1)
    BY <2>4
  <2>7. q[NumPmcs - m] < q[NumPmcs - (m - 1)] /\ q[NumPmcs - (m - 1)] <= NumPmcs - (m - 1)
    BY <1>1, <2>5, <2>6
  <2> QED
    BY <1>1, <2>6, <2>7
<1> QED
  BY <1>1, <1>2, <1>3

(* A thread that has opened all events has each one's count in the event's *)
(* cell as soon as the repetition is over.                                 *)
Full(t) == pc[t] # "init" /\ Len(active[t]) = NumPmcs /\ NumRead(t) = NumPmcs

ColumnsInv ==
  \A t \in Threads :
    /\ pc[t] = "init" => rep[t] = 0
    /\ pc[t] = "done" => rep[t] = Reps
    /\ pc[t] # "init" /\ Len(active[t]) = NumPmcs =>
         \A j \in 1 .. NumPmcs : active[t][j] = j
    /\ Full(t) =>
         \A k \in 0 .. Reps - 1, e \in Events :
           k < rep[t] => data[Index(t, k, e)] = Count(t, k, e)

(* The cells of other rows and other repetitions stay.                     *)
LEMMA OtherCells ==
  ASSUME IndicesFit, ResultsInv, NEW t \in Threads, PmuBegin(t) \/ PmuEnd(t),
         NEW u \in Threads, NEW l \in 0 .. Reps - 1, NEW c \in 0 .. NumPmcs,
         u # t \/ l # rep[t]
  PROVE  data'[Index(u, l, c)] = data[Index(u, l, c)]
<1>1. Index(u, l, c) \in Cells
  BY IndexRange
<1>2. /\ rep[t] \in 0 .. Reps - 1
      /\ Len(active[t]) \in 0 .. NumPmcs /\ NumRead(t) \in 0 .. NumPmcs
  <2>1. rep[t] \in 0 .. Reps /\ active[t] \in Seq(Events) /\ rep[t] < Reps
    BY DEF ResultsInv, ResultsTypeOK, LoopInv, PmuBegin, PmuEnd
  <2>2. Len(active[t]) \in Nat /\ Len(active[t]) <= NumPmcs
    BY <2>1 DEF ResultsInv, LoopInv
  <2> QED
    BY <2>1, <2>2, ResultsAssumption DEF NumRead
<1>3. /\ Index(u, l, c) \notin CounterCells(t, rep[t], Len(active[t]))
      /\ Index(u, l, c) \notin CounterCells(t, rep[t], NumRead(t))
  BY <1>2, OwnCells
<1>4. Index(u, l, c) # Row(t) + Offset(rep[t])
  <2>1. Row(t) + Offset(rep[t]) = Index(t, rep[t], 0) /\ 0 \in 0 .. NumPmcs
    BY <1>2, Layout, ResultsAssumption
  <2> QED
    BY <1>2, <2>1, IndexInjective
<1> QED
  BY <1>1, <1>3, <1>4 DEF PmuBegin, PmuEnd

(* The counts stored at the end of a call.                                 *)
LEMMA CountsStored ==
  ASSUME IndicesFit, ResultsInv, ColumnsInv, NEW t \in Threads, PmuEnd(t), Full(t), NEW e \in Events
  PROVE  data'[Index(t, rep[t], e)] = Count(t, rep[t], e)
<1> USE ResultsAssumption
<1> DEFINE k == rep[t]
           cell == Index(t, k, e)
<1>1. k \in 0 .. Reps - 1 /\ e - 1 \in 0 .. NumPmcs - 1 /\ (e - 1) + 1 = e
  BY DEF PmuEnd, ResultsInv, ResultsTypeOK, LoopInv, Events
<1>2. active[t][e] = e /\ ~Skipped(t) /\ e - 1 \in Used(t)
  BY <1>1 DEF ColumnsInv, Full, Skipped, Used, Events
<1>3. /\ cell \in Cells /\ cell \in CounterCells(t, k, NumPmcs)
      /\ CounterAt(t, k, cell) - 1 = e - 1
  <2>1. NumPmcs \in 0 .. NumPmcs
    OBVIOUS
  <2>2. /\ CounterCell(t, k, e - 1) = Index(t, k, (e - 1) + 1)
        /\ CounterCell(t, k, e - 1) \in Cells
        /\ CounterCell(t, k, e - 1) \in CounterCells(t, k, NumPmcs)
        /\ CounterAt(t, k, CounterCell(t, k, e - 1)) = (e - 1) + 1
    BY <1>1, <2>1, OwnCells
  <2> QED
    BY <1>1, <2>2
<1>4. cell # Row(t) + Offset(k)
  <2>1. Row(t) + Offset(k) = Index(t, k, 0) /\ 0 \in 0 .. NumPmcs /\ e \in 0 .. NumPmcs /\ e # 0
    BY <1>1, Layout
  <2> QED
    BY <1>1, <2>1, IndexInjective
<1>5. data'[cell] = Reading(t, e - 1, data[cell])
  <2>1. data'[cell] = Reading(t, CounterAt(t, k, cell) - 1, data[cell])
    BY <1>3, <1>4 DEF PmuEnd, Full
  <2> QED
    BY <1>3, <2>1
<1>6. e - 1 \in Counting(t) /\ sel[t][e - 1] = active[t][(e - 1) + 1]
  BY <1>2 DEF PmuEnd, ResultsInv, CounterInv, CtrlInv, SelInv
<1>7. method # "jevents" => zeroed[t][e - 1] = k
  BY <1>2 DEF PmuEnd, ResultsInv, CounterInv, ZeroInv
<1>8. method = "jevents" => data[cell] = Start(t, k, e)
  <2>1. method = "jevents" =>
          data[Index(t, k, (e - 1) + 1)] = Start(t, k, active[t][(e - 1) + 1])
    BY <1>2 DEF PmuEnd, ResultsInv, CounterInv, StartInv
  <2> QED
    BY <1>1, <1>2, <2>1
<1>9. active[t][(e - 1) + 1] = e /\ sel[t][e - 1] = e
  BY <1>1, <1>2, <1>6
<1> HIDE DEF k, cell
<1>10. Reading(t, e - 1, data[cell]) = Count(t, k, e)
  BY <1>6, <1>7, <1>8, <1>9 DEF Reading, k
<1> QED
  BY <1>5, <1>10 DEF k, cell

LEMMA NextColumns ==
  ASSUME IndicesFit, ResultsInv, ColumnsInv, [Next]_rvars
  PROVE  ColumnsInv'
<1> USE ResultsAssumption
<1>1. ASSUME NEW t \in Threads, PmuInit(t)
      PROVE  ColumnsInv'
  <2>1. PICK q \in Openable : active' = [active EXCEPT ![t] = q]
    BY <1>1 DEF PmuInit
  <2>2. active'[t] = q /\ rep'[t] = 0 /\ pc'[t] = "begin"
    BY <1>1, <2>1 DEF PmuInit, ResultsInv, ResultsTypeOK, ColumnsInv
  <2>3. Len(active'[t]) = NumPmcs => \A j \in 1 .. NumPmcs : active'[t][j] = j
    BY <2>2, AllOpened
  <2>4. \A u \in Threads : u # t =>
          pc'[u] = pc[u] /\ active'[u] = active[u] /\ rep'[u] = rep[u] /\ (Full(u)' <=> Full(u))
    BY <1>1, <2>1 DEF PmuInit, ResultsInv, ResultsTypeOK, Full, NumRead
  <2>5. data' = data
    BY <1>1 DEF PmuInit
  <2>6. \A k \in 0 .. Reps - 1 : ~(k < rep'[t])
    BY <2>2
  <2> QED
    BY <2>2, <2>3, <2>4, <2>5, <2>6 DEF ColumnsInv
<1>2. ASSUME NEW t \in Threads, PmuBegin(t)
      PROVE  ColumnsInv'
  <2>1. /\ rep' = rep /\ active' = active /\ pc' = [pc EXCEPT ![t] = "end"] /\ pc[t] = "begin"
        /\ \A u \in Threads : Full(u)' <=> Full(u)
    BY <1>2 DEF PmuBegin, pmu, ResultsInv, ResultsTypeOK, Full, NumRead
  <2>2. ASSUME NEW u \in Threads, NEW k \in 0 .. Reps - 1, NEW e \in Events, k < rep[u]
        PROVE  data'[Index(u, k, e)] = data[Index(u, k, e)]
    BY <1>2, <2>2, OtherCells DEF Events, ResultsInv, ResultsTypeOK
  <2>3. \A u \in Threads : /\ pc'[u] = "init" <=> pc[u] = "init"
                           /\ pc'[u] = "done" => pc[u] = "done"
    BY <2>1 DEF ResultsInv, ResultsTypeOK
  <2> QED
    BY <2>1, <2>2, <2>3 DEF ColumnsInv
<1>3. ASSUME NEW t \in Threads, PmuEnd(t)
      PROVE  ColumnsInv'
  <2>1. /\ rep' = [rep EXCEPT ![t] = @ + 1] /\ active' = active
        /\ pc' = [pc EXCEPT ![t] = "begin"] /\ pc[t] = "end"
        /\ \A u \in Threads : Full(u)' <=> Full(u)
    BY <1>3 DEF PmuEnd, pmu, ResultsInv, ResultsTypeOK, Full, NumRead
  <2>2. ASSUME NEW u \in Threads, Full(u), NEW k \in 0 .. Reps - 1, NEW e \in Events, k < rep'[u]
        PROVE  data'[Index(u, k, e)] = Count(u, k, e)
    <3>1. CASE u = t /\ k = rep[t]
      BY <1>3, <2>2, <3>1, CountsStored
    <3>2. CASE u # t \/ k # rep[t]
      <4>1. k < rep[u]
        BY <2>1, <2>2, <3>2 DEF ResultsInv, ResultsTypeOK
      <4>2. data'[Index(u, k, e)] = data[Index(u, k, e)]
        BY <1>3, <3>2, OtherCells DEF Events
      <4> QED
        BY <2>2, <4>1, <4>2 DEF ColumnsInv
    <3> QED
      BY <3>1, <3>2
  <2>3. \A u \in Threads : /\ pc'[u] = "init" => rep'[u] = 0
                           /\ pc'[u] = "done" => rep'[u] = Reps
                           /\ pc'[u] = "init" <=> pc[u] = "init"
    BY <2>1 DEF ColumnsInv, ResultsInv, ResultsTypeOK
  <2> QED
    BY <2>1, <2>2, <2>3 DEF ColumnsInv
<1>4. ASSUME NEW t \in Threads, PmuFree(t)
      PROVE  ColumnsInv'
  <2>1. /\ UNCHANGED <<data, rep, active>>
        /\ \A u \in Threads : /\ Full(u)' <=> Full(u)
                              /\ pc'[u] = "init" <=> pc[u] = "init"
                              /\ pc'[u] = "done" => pc[u] = "done" \/ rep[u] = Reps
    BY <1>4 DEF PmuFree, pmu, ResultsInv, ResultsTypeOK, Full, NumRead
  <2> QED
    BY <2>1 DEF ColumnsInv
<1>5. CASE UNCHANGED rvars
  BY <1>5 DEF rvars, pmu, ColumnsInv, Full, NumRead
<1> QED
  BY <1>1, <1>2, <1>3, <1>4, <1>5 DEF Next

(* Whoever opens all events has each one's count under its name, with      *)
(* every method that reads them all (main.cc:269-271, arch.h:404,685).     *)
THEOREM EventsInTheirColumns == Spec => []OpenedColumns
<1> DEFINE Inv == IndicesFit => ColumnsInv
<1>1. Init => Inv
  BY DEF Init, ColumnsInv, Full
<1>2. ResultsInv /\ Inv /\ [Next]_rvars => Inv'
  BY NextColumns
<1>3. ResultsInv /\ Inv => OpenedColumns
  <2> SUFFICES ASSUME IndicesFit, ResultsInv, ColumnsInv, NEW t \in Threads, pc[t] = "done",
                      Len(active[t]) = NumPmcs, NumRead(t) = NumPmcs,
                      NEW k \in 0 .. Reps - 1, NEW e \in Events
               PROVE  data[Printed(t, k, e)] = Count(t, k, e)
    BY DEF OpenedColumns, ColumnIsEvent
  <2>1. Printed(t, k, e) = Index(t, k, e)
    BY Layout, ResultsAssumption DEF Events
  <2>2. k < rep[t]
    BY ResultsAssumption DEF ColumnsInv
  <2> QED
    BY <2>1, <2>2 DEF ColumnsInv, Full
<1> QED
  BY <1>1, <1>2, <1>3, ArrayInductive, PTL DEF Spec

-----------------------------------------------------------------------------
LEMMA Digits ==
  ASSUME NEW a \in Nat, NEW m \in Nat \ {0}
  PROVE  /\ a \div m \in Nat /\ a % m \in 0 .. m - 1
         /\ a = (a \div m) * m + (a % m)
OBVIOUS

LEMMA HighDigit ==
  ASSUME NEW a \in Nat, NEW m \in Nat \ {0}, NEW b \in Nat, a < b * m
  PROVE  a \div m < b
<1>1. a \div m \in Nat /\ a % m \in Nat /\ a = (a \div m) * m + (a % m)
  BY Digits
<1>2. SUFFICES ASSUME b <= a \div m
               PROVE  FALSE
  BY <1>1
<1> DEFINE d == a \div m
<1>3. d = b \/ b < d
  BY <1>1, <1>2
<1>4. b * m \in Nat /\ d * m \in Nat
  BY <1>1
<1>5. b * m <= d * m
  <2> HIDE DEF d
  <2>1. CASE d = b
    BY <1>4, <2>1
  <2>2. CASE b < d
    <3>1. d \in Nat
      BY <1>1 DEF d
    <3>2. b * m + m <= d * m
      BY <2>2, <3>1, NextBlock
    <3> QED
      BY <1>4, <3>2
  <2> QED
    BY <1>3, <2>1, <2>2
<1> QED
  BY <1>1, <1>4, <1>5

(* In every array of more than 2^32 numbers result_print takes the first   *)
(* number of the array for that of another row, repetition or column, too  *)
(* (main.cc:278): nothing in the code keeps --iterations below that.       *)
THEOREM LargeArraysOverlap ==
  ~IndicesFit =>
    \E t \in Threads, k \in 0 .. Reps - 1, c \in 0 .. NumPmcs :
      <<t, k, c>> # <<0, 0, 0>> /\ Printed(t, k, c) = Printed(0, 0, 0)
<1> SUFFICES ASSUME ~IndicesFit
             PROVE  \E t \in Threads, k \in 0 .. Reps - 1, c \in 0 .. NumPmcs :
                      <<t, k, c>> # <<0, 0, 0>> /\ Printed(t, k, c) = Printed(0, 0, 0)
  OBVIOUS
<1> DEFINE block == Word \div Columns
           t == block \div Reps
           k == block % Reps
           c == Word % Columns
<1>1. /\ Rows \in Nat /\ Reps \in Nat /\ Columns \in Nat \ {0} /\ Word \in Nat \ {0}
      /\ NumPmcs \in Nat /\ Columns - 1 = NumPmcs
  BY ResultsAssumption DEF Columns
<1>2. Rows * Reps \in Nat /\ Word < Rows * Reps * Columns
  <2>1. Rows * Reps \in Nat
    BY <1>1
  <2>2. (Rows * Reps) * Columns \in Nat
    BY <1>1, <2>1
  <2> QED
    BY <1>1, <2>1, <2>2 DEF IndicesFit
<1>3. /\ block \in Nat /\ c \in 0 .. NumPmcs
      /\ Word = block * Columns + c
      /\ block < Rows * Reps
  BY <1>1, <1>2, Digits, HighDigit
<1>4. Reps # 0
  <2>1. SUFFICES ASSUME Reps = 0
                 PROVE  FALSE
    OBVIOUS
  <2>2. Rows * Reps = 0
    BY <1>1, <2>1
  <2> QED
    BY <1>3, <2>2
<1> HIDE DEF block, c
<1>5. /\ t \in Nat /\ k \in 0 .. Reps - 1
      /\ block = t * Reps + k
      /\ t < Rows
  BY <1>1, <1>3, <1>4, Digits, HighDigit
<1> HIDE DEF t, k
<1>6. t \in Threads /\ k \in Nat
  BY <1>1, <1>5 DEF Threads
<1>7. t * Reps * Columns + Columns * k + c = Word
  <2>1. t * Reps \in Nat
    BY <1>1, <1>5
  <2>2. \A a, b, m \in Nat : (a + b) * m = a * m + m * b
    OBVIOUS
  <2>3. block * Columns = t * Reps * Columns + Columns * k
    BY <1>1, <1>5, <1>6, <2>1, <2>2
  <2> QED
    BY <1>3, <2>3
<1>8. Printed(t, k, c) = 0
  <2>1. Word % Word = 0
    BY <1>1
  <2> QED
    BY <1>7, <2>1 DEF Printed
<1>9. Printed(0, 0, 0) = 0
  <2>1. 0 * Reps * Columns + Columns * 0 + 0 = 0 /\ 0 % Word = 0
    BY <1>1
  <2> QED
    BY <2>1 DEF Printed
<1>10. <<t, k, c>> # <<0, 0, 0>>
  <2>1. 0 * Reps * Columns + Columns * 0 + 0 = 0
    BY <1>1
  <2> QED
    BY <1>1, <1>7, <2>1
<1> QED
  BY <1>3, <1>5, <1>6, <1>8, <1>9, <1>10

=============================================================================
