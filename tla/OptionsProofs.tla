---------------------------- MODULE OptionsProofs ----------------------------
(***************************************************************************)
(* Theorems about Options: for every registry, every command line and      *)
(* every list of names, main and the benchmarks, which all permute and     *)
(* parse the same words, run the right benchmarks with the right rounds.   *)
(***************************************************************************)
EXTENDS Options, SequenceTheorems, FiniteSetTheorems, WellFoundedInduction, TLAPS

-----------------------------------------------------------------------------
(* A set of natural numbers that is not empty has a least one. *)
LEMMA LeastNumber ==
  ASSUME NEW S \in SUBSET Nat, S # {}
  PROVE  \E m \in S : \A y \in S : m <= y
<1>1. PICK x \in S : \A y \in S : ~(<<y, x>> \in OpToRel(<, Nat))
  BY NatLessThanWellFounded, WFMin, Zenon
<1>2. \A y \in S : ~(y < x)
  BY <1>1 DEF OpToRel
<1> QED
  BY <1>2

(* Induction along a sequence, for a set of positions. *)
LEMMA StepByStep ==
  ASSUME NEW n \in Nat, NEW S, 0 \in S, \A k \in 0 .. n - 1 : k \in S => k + 1 \in S
  PROVE  \A k \in 0 .. n : k \in S
<1> DEFINE Bad == {k \in 0 .. n : k \notin S}
<1> SUFFICES ASSUME Bad # {} PROVE FALSE
  OBVIOUS
<1>1. PICK m \in Bad : \A y \in Bad : m <= y
  <2>1. Bad \in SUBSET Nat
    OBVIOUS
  <2> HIDE DEF Bad
  <2> QED
    BY <2>1, LeastNumber
<1>2. m \in 0 .. n /\ m \notin S /\ m # 0
  BY <1>1
<1>3. m - 1 \in S
  BY <1>1, <1>2
<1> QED
  BY <1>2, <1>3

-----------------------------------------------------------------------------
(* The loop around getopt_long, one word after the other. *)
LEMMA ScanFacts ==
  ASSUME NEW words, NEW known, Len(words) \in Nat
  PROVE  /\ Scan(words, known)[0] = Fresh
         /\ \A k \in 0 .. Len(words) - 1 :
              Scan(words, known)[k + 1] = GetoptStep(known, Scan(words, known)[k], words[k + 1])
<1> DEFINE n == Len(words)
           Next1(g, k) == IF k = 0 THEN Fresh ELSE GetoptStep(known, g[k - 1], words[k])
           Loop(g, m) == g = [k \in 0 .. m |-> Next1(g, k)]
           Defined == {m \in 0 .. n : \E g : Loop(g, m)}
<1>1. 0 \in Defined
  <2> DEFINE g == [k \in 0 .. 0 |-> Fresh]
  <2>1. Loop(g, 0)
    <3>1. \A k \in 0 .. 0 : Next1(g, k) = Fresh
      OBVIOUS
    <3> QED
      BY <3>1
  <2> HIDE DEF g, Loop
  <2> QED
    BY <2>1
<1>2. ASSUME NEW m \in 0 .. n - 1, m \in Defined
      PROVE  m + 1 \in Defined
  <2>1. PICK g : Loop(g, m)
    BY <1>2
  <2> DEFINE h == [k \in 0 .. m + 1 |-> IF k = m + 1 THEN Next1(g, k) ELSE g[k]]
  <2>2. \A k \in 0 .. m : g[k] = Next1(g, k)
    BY <2>1
  <2>3. \A k \in 0 .. m + 1 : Next1(h, k) = Next1(g, k)
    OBVIOUS
  <2>4. \A k \in 0 .. m + 1 : h[k] = Next1(h, k)
    BY <2>2, <2>3
  <2>5. Loop(h, m + 1)
    BY <2>4
  <2> HIDE DEF h, Loop
  <2> QED
    BY <2>5
<1>3. n \in Defined
  <2>1. n \in Nat
    OBVIOUS
  <2> HIDE DEF Defined, n
  <2>2. \A k \in 0 .. n - 1 : k \in Defined => k + 1 \in Defined
    BY <1>2
  <2>3. \A k \in 0 .. n : k \in Defined
    BY <1>1, <2>1, <2>2, StepByStep, Zenon
  <2> QED
    BY <2>1, <2>3
<1>4. PICK g : Loop(g, n)
  BY <1>3
<1>5. Loop(Scan(words, known), n)
  BY <1>4 DEF Scan
<1> HIDE DEF Next1
<1>6. \A k \in 0 .. n : Scan(words, known)[k] = Next1(Scan(words, known), k)
  BY <1>5
<1> QED
  BY <1>6 DEF Next1

(* Words, what getopt_long has found, and the loop's state.  A plain word  *)
(* has the number it stands for, and is always the user's.                 *)
AWord == {w \in [opt : Names \cup {"plain", "policy"}, value : Nat \cup {None}, heap : BOOLEAN] :
            w.opt = "plain" => w.value # None /\ ~w.heap}
AFind == [opt : Names \cup {"policy"}, arg : AWord, n : Nat]
AState == [options : Seq(AWord), plain : Seq(AWord), wanted : Names \cup {"policy", "none"},
           found : Seq(AFind)]
OptionSets == SUBSET (Names \cup {"policy"})

Taken(st, w, new) ==
  /\ st.wanted # "none"
  /\ new.options = Append(st.options, w) /\ new.plain = st.plain /\ new.wanted = "none"
  /\ new.found = Append(st.found, [opt |-> st.wanted, arg |-> w, n |-> Strtoul(w)])

Moved(st, w, new) ==
  /\ st.wanted = "none" /\ w.opt = "plain"
  /\ new.options = st.options /\ new.plain = Append(st.plain, w) /\ new.wanted = "none"
  /\ new.found = st.found

Wanting(known, st, w, new) ==
  /\ st.wanted = "none" /\ w.opt \in known /\ w.value = None
  /\ new.options = Append(st.options, w) /\ new.plain = st.plain /\ new.wanted = w.opt
  /\ new.found = st.found

Valued(known, st, w, new) ==
  /\ st.wanted = "none" /\ w.opt \in known /\ w.value # None
  /\ new.options = Append(st.options, w) /\ new.plain = st.plain /\ new.wanted = "none"
  /\ new.found = Append(st.found, [opt |-> w.opt, arg |-> w, n |-> w.value])

Passed(known, st, w, new) ==
  /\ st.wanted = "none" /\ w.opt \notin known /\ w.opt # "plain"
  /\ new.options = Append(st.options, w) /\ new.plain = st.plain /\ new.wanted = "none"
  /\ new.found = st.found

LEMMA NameFacts ==
  /\ "plain" \notin Names /\ "policy" \notin Names /\ "none" \notin Names
  /\ None \notin Nat
  BY OptionsAssumption DEF None

LEMMA StepCases ==
  ASSUME NEW known \in OptionSets, NEW st \in AState, NEW w \in AWord
  PROVE  LET new == GetoptStep(known, st, w)
         IN  /\ new \in AState
             /\ \/ Taken(st, w, new) \/ Moved(st, w, new) \/ Wanting(known, st, w, new)
                \/ Valued(known, st, w, new) \/ Passed(known, st, w, new)
<1> DEFINE new == GetoptStep(known, st, w)
<1> USE NameFacts
<1>0. /\ w.opt \in Names \cup {"plain", "policy"} /\ w.value \in Nat \cup {None}
      /\ w.opt = "plain" => w.value \in Nat
      /\ st.options \in Seq(AWord) /\ st.plain \in Seq(AWord) /\ st.found \in Seq(AFind)
      /\ st.wanted \in Names \cup {"policy", "none"}
      /\ "plain" \notin known /\ "none" \notin known
  BY DEF AWord, AState, OptionSets
<1>1. Strtoul(w) \in Nat
  BY <1>0 DEF Strtoul
<1>2. CASE st.wanted # "none"
  <2>1. new = [options |-> Append(st.options, w), plain |-> st.plain, wanted |-> "none",
               found |-> Append(st.found, [opt |-> st.wanted, arg |-> w, n |-> Strtoul(w)])]
    BY <1>2 DEF GetoptStep, AState
  <2>2. [opt |-> st.wanted, arg |-> w, n |-> Strtoul(w)] \in AFind
    BY <1>0, <1>1, <1>2 DEF AFind
  <2> QED
    BY <1>0, <1>2, <2>1, <2>2 DEF AState, Taken
<1>3. CASE st.wanted = "none" /\ w.opt = "plain"
  <2>1. new = [options |-> st.options, plain |-> Append(st.plain, w), wanted |-> "none",
               found |-> st.found]
    BY <1>3 DEF GetoptStep, AState
  <2> QED
    BY <1>0, <1>3, <2>1 DEF AState, Moved
<1>4. CASE st.wanted = "none" /\ w.opt \in known /\ w.value = None
  <2>1. new = [options |-> Append(st.options, w), plain |-> st.plain, wanted |-> w.opt,
               found |-> st.found]
    BY <1>0, <1>4 DEF GetoptStep, AState
  <2> QED
    BY <1>0, <1>4, <2>1 DEF AState, Wanting
<1>5. CASE st.wanted = "none" /\ w.opt \in known /\ w.value # None
  <2>1. new = [options |-> Append(st.options, w), plain |-> st.plain, wanted |-> "none",
               found |-> Append(st.found, [opt |-> w.opt, arg |-> w, n |-> w.value])]
    BY <1>0, <1>5 DEF GetoptStep, AState
  <2>2. [opt |-> w.opt, arg |-> w, n |-> w.value] \in AFind
    BY <1>0, <1>5 DEF AFind
  <2> QED
    BY <1>0, <1>5, <2>1, <2>2 DEF AState, Valued
<1>6. CASE st.wanted = "none" /\ w.opt \notin known /\ w.opt # "plain"
  <2>1. new = [options |-> Append(st.options, w), plain |-> st.plain, wanted |-> "none",
               found |-> st.found]
    BY <1>0, <1>6 DEF GetoptStep, AState
  <2> QED
    BY <1>0, <1>6, <2>1 DEF AState, Passed
<1> QED
  BY <1>2, <1>3, <1>4, <1>5, <1>6

LEMMA Appending ==
  ASSUME NEW S, NEW s \in Seq(S), NEW e \in S
  PROVE  /\ Append(s, e) \in Seq(S) /\ Append(s, e) # <<>>
         /\ Len(Append(s, e)) = Len(s) + 1 /\ Len(s) \in Nat
         /\ \A j \in 1 .. Len(s) : Append(s, e)[j] = s[j]
         /\ Append(s, e)[Len(s) + 1] = e
  OBVIOUS

LEMMA Replacing ==
  ASSUME NEW S, NEW s \in Seq(S), NEW e \in S, NEW p
  PROVE  LET t == [s EXCEPT ![p] = e]
         IN  /\ t \in Seq(S) /\ Len(t) = Len(s) /\ Len(s) \in Nat
             /\ \A l \in 1 .. Len(s) : t[l] = IF l = p THEN e ELSE s[l]
<1> DEFINE n == Len(s)
           t == [s EXCEPT ![p] = e]
<1>1. n \in Nat /\ s \in [1 .. n -> S]
  OBVIOUS
<1> HIDE DEF n
<1>2. t \in [1 .. n -> S] /\ \A l \in 1 .. n : t[l] = IF l = p THEN e ELSE s[l]
  BY <1>1
<1> HIDE DEF t
<1>3. t \in Seq(S) /\ Len(t) = n
  BY <1>1, <1>2
<1> QED
  BY <1>1, <1>2, <1>3 DEF n, t

(* What holds after k words, of whatever kind.                             *)
Scanned(words, known, k, st) ==
  /\ st \in AState
  /\ Len(st.options) + Len(st.plain) = k
  /\ \A j \in 1 .. Len(st.plain) : st.plain[j].opt = "plain"
  /\ st.plain = <<>> => \A j \in 1 .. k : st.options[j] = words[j]
  /\ st.wanted # "none" =>
       k >= 1 /\ st.wanted \in known /\ words[k].opt = st.wanted /\ words[k].value = None
  /\ \A f \in 1 .. Len(st.found) : st.found[f].opt \in known
  /\ k >= 1 /\ words[k].opt # "plain" =>
       Len(st.options) >= 1 /\ st.options[Len(st.options)] = words[k]

Drawn(words, k, st) ==
  /\ \A j \in 1 .. Len(st.options) : \E l \in 1 .. k : st.options[j] = words[l]
  /\ \A j \in 1 .. Len(st.plain) : \E l \in 1 .. k : st.plain[j] = words[l]
  /\ \A f \in 1 .. Len(st.found) : \E l \in 1 .. k : st.found[f].opt = words[l].opt

Step(known, st, w, new) ==
  \/ Taken(st, w, new) \/ Moved(st, w, new) \/ Wanting(known, st, w, new)
  \/ Valued(known, st, w, new) \/ Passed(known, st, w, new)

LEMMA ScannedStep ==
  ASSUME NEW words \in Seq(AWord), NEW known \in OptionSets, NEW k \in 0 .. Len(words) - 1,
         NEW st, Scanned(words, known, k, st), NEW new, new \in AState,
         NEW w \in AWord, w = words[k + 1], Step(known, st, w, new)
  PROVE  Scanned(words, known, k + 1, new)
<1>0. w = words[k + 1] /\ w \in AWord /\ k \in Nat /\ "none" \notin known /\ "plain" \notin known
  BY NameFacts DEF OptionSets
<1>1. /\ st.options \in Seq(AWord) /\ st.plain \in Seq(AWord) /\ st.found \in Seq(AFind)
      /\ Len(st.options) \in Nat /\ Len(st.plain) \in Nat
      /\ Len(st.options) + Len(st.plain) = k
  BY DEF Scanned, AState
<1>2. \/ new.options = Append(st.options, w) /\ new.plain = st.plain
         /\ (w.opt = "plain" => st.wanted # "none")
      \/ new.options = st.options /\ new.plain = Append(st.plain, w) /\ w.opt = "plain"
  BY <1>0 DEF Step, Taken, Moved, Wanting, Valued, Passed
<1>3. Len(new.options) + Len(new.plain) = k + 1
  <2>1. Len(Append(st.options, w)) = Len(st.options) + 1
    BY <1>0, <1>1, Appending
  <2>2. Len(Append(st.plain, w)) = Len(st.plain) + 1
    BY <1>0, <1>1, Appending
  <2>3. \/ Len(new.options) = Len(st.options) + 1 /\ Len(new.plain) = Len(st.plain)
        \/ Len(new.options) = Len(st.options) /\ Len(new.plain) = Len(st.plain) + 1
    BY <1>2, <2>1, <2>2, Zenon
  <2> DEFINE a == Len(st.options)
             b == Len(st.plain)
             c == Len(new.options)
             d == Len(new.plain)
  <2>4. a \in Nat /\ b \in Nat /\ a + b = k /\ ((c = a + 1 /\ d = b) \/ (c = a /\ d = b + 1))
    BY <1>1, <2>3
  <2> HIDE DEF a, b, c, d
  <2>5. c + d = k + 1
    BY <1>0, <2>4
  <2> QED
    BY <2>5 DEF c, d
<1>4. \A j \in 1 .. Len(new.plain) : new.plain[j].opt = "plain"
  <2>1. \A j \in 1 .. Len(st.plain) : st.plain[j].opt = "plain"
    BY DEF Scanned
  <2>2. /\ Len(Append(st.plain, w)) = Len(st.plain) + 1
        /\ \A j \in 1 .. Len(st.plain) : Append(st.plain, w)[j] = st.plain[j]
        /\ Append(st.plain, w)[Len(st.plain) + 1] = w
    BY <1>0, <1>1, Appending
  <2>3. CASE new.plain = st.plain
    BY <2>1, <2>3
  <2>4. CASE new.plain = Append(st.plain, w) /\ w.opt = "plain"
    <3> SUFFICES ASSUME NEW j \in 1 .. Len(st.plain) + 1 PROVE Append(st.plain, w)[j].opt = "plain"
      BY <2>2, <2>4
    <3>1. CASE j = Len(st.plain) + 1
      BY <2>2, <2>4, <3>1
    <3>2. CASE j # Len(st.plain) + 1
      BY <1>1, <2>1, <2>2, <3>2
    <3> QED
      BY <3>1, <3>2
  <2> QED
    BY <1>2, <2>3, <2>4
<1>5. new.plain = <<>> => \A j \in 1 .. k + 1 : new.options[j] = words[j]
  <2> SUFFICES ASSUME new.plain = <<>>, NEW j \in 1 .. k + 1
               PROVE  new.options[j] = words[j]
    OBVIOUS
  <2>1. new.options = Append(st.options, w) /\ st.plain = <<>>
    BY <1>0, <1>1, <1>2
  <2>2. Len(st.options) = k
    BY <1>1, <2>1
  <2>3. \A l \in 1 .. k : st.options[l] = words[l]
    BY <2>1 DEF Scanned
  <2>4. /\ \A l \in 1 .. k : Append(st.options, w)[l] = st.options[l]
        /\ Append(st.options, w)[k + 1] = w
    BY <1>0, <1>1, <2>2, Appending
  <2>5. CASE j = k + 1
    BY <1>0, <2>1, <2>4, <2>5
  <2>6. CASE j \in 1 .. k
    BY <2>1, <2>3, <2>4, <2>6
  <2> QED
    BY <1>0, <2>5, <2>6
<1>6. k + 1 >= 1 /\ words[k + 1].opt # "plain" =>
        Len(new.options) >= 1 /\ new.options[Len(new.options)] = words[k + 1]
  BY <1>0, <1>1, <1>2
<1>7. new.wanted # "none" =>
        /\ k + 1 >= 1 /\ new.wanted \in known
        /\ words[k + 1].opt = new.wanted /\ words[k + 1].value = None
  BY <1>0 DEF Step, Taken, Moved, Wanting, Valued, Passed
<1>8. \A f \in 1 .. Len(new.found) : new.found[f].opt \in known
  <2>1. \A f \in 1 .. Len(st.found) : st.found[f].opt \in known
    BY DEF Scanned
  <2>2. st.wanted # "none" => st.wanted \in known
    BY DEF Scanned
  <2>3. \/ new.found = st.found
        \/ \E x : new.found = Append(st.found, x) /\ x.opt \in known
    <3>1. CASE Taken(st, w, new)
      BY <2>2, <3>1 DEF Taken
    <3>2. CASE Valued(known, st, w, new)
      BY <3>2 DEF Valued
    <3> QED
      BY <3>1, <3>2 DEF Step, Moved, Wanting, Passed
  <2> QED
    BY <1>1, <2>1, <2>3
<1> QED
  BY <1>3, <1>4, <1>5, <1>6, <1>7, <1>8 DEF Scanned

LEMMA DrawnStep ==
  ASSUME NEW words \in Seq(AWord), NEW known \in OptionSets, NEW k \in 0 .. Len(words) - 1,
         NEW st \in AState, Drawn(words, k, st), Scanned(words, known, k, st), NEW new,
         NEW w \in AWord, w = words[k + 1], Step(known, st, w, new)
  PROVE  Drawn(words, k + 1, new)
<1>0. w = words[k + 1] /\ w \in AWord /\ k \in Nat /\ k + 1 \in 1 .. k + 1
  OBVIOUS
<1>1. st.options \in Seq(AWord) /\ st.plain \in Seq(AWord)
  BY DEF AState
<1>2. \A f \in 1 .. Len(new.found) : \E l \in 1 .. k + 1 : new.found[f].opt = words[l].opt
  <2>1. \A f \in 1 .. Len(st.found) : \E l \in 1 .. k + 1 : st.found[f].opt = words[l].opt
    BY <1>0 DEF Drawn
  <2>2. st.wanted # "none" => k \in 1 .. k + 1 /\ words[k].opt = st.wanted
    BY <1>0 DEF Scanned
  <2>3. \/ new.found = st.found
        \/ \E x : new.found = Append(st.found, x) /\ \E l \in 1 .. k + 1 : x.opt = words[l].opt
    <3>1. CASE Taken(st, w, new)
      <4> DEFINE x == [opt |-> st.wanted, arg |-> w, n |-> Strtoul(w)]
      <4>1. new.found = Append(st.found, x) /\ x.opt = st.wanted /\ st.wanted # "none"
        BY <3>1 DEF Taken
      <4> HIDE DEF x
      <4> QED
        BY <2>2, <4>1
    <3>2. CASE Valued(known, st, w, new)
      BY <1>0, <3>2 DEF Valued
    <3> QED
      BY <3>1, <3>2 DEF Step, Moved, Wanting, Passed
  <2>4. CASE new.found = st.found
    BY <2>1, <2>4
  <2>5. ASSUME NEW x, new.found = Append(st.found, x), \E l \in 1 .. k + 1 : x.opt = words[l].opt
        PROVE  \A f \in 1 .. Len(new.found) : \E l \in 1 .. k + 1 : new.found[f].opt = words[l].opt
    <3> DEFINE g == st.found
    <3>1. /\ Len(new.found) = Len(g) + 1 /\ new.found[Len(g) + 1] = x /\ Len(g) \in Nat
          /\ \A f \in 1 .. Len(g) : new.found[f] = g[f]
      BY <2>5 DEF AState
    <3> HIDE DEF g
    <3> TAKE f \in 1 .. Len(new.found)
    <3>2. f = Len(g) + 1 \/ f \in 1 .. Len(g)
      BY <3>1
    <3> QED
      BY <2>1, <2>5, <3>1, <3>2 DEF g
  <2> QED
    BY <2>3, <2>4, <2>5
<1>3. CASE new.options = Append(st.options, w) /\ new.plain = st.plain
  <2>1. \A j \in 1 .. Len(new.options) : \E l \in 1 .. k + 1 : new.options[j] = words[l]
    BY <1>0, <1>1, <1>3 DEF Drawn
  <2>2. \A j \in 1 .. Len(new.plain) : \E l \in 1 .. k + 1 : new.plain[j] = words[l]
    BY <1>0, <1>1, <1>3 DEF Drawn
  <2> QED
    BY <1>2, <2>1, <2>2 DEF Drawn
<1>4. CASE new.options = st.options /\ new.plain = Append(st.plain, w)
  <2>1. \A j \in 1 .. Len(new.options) : \E l \in 1 .. k + 1 : new.options[j] = words[l]
    BY <1>0, <1>1, <1>4 DEF Drawn
  <2>2. \A j \in 1 .. Len(new.plain) : \E l \in 1 .. k + 1 : new.plain[j] = words[l]
    BY <1>0, <1>1, <1>4 DEF Drawn
  <2> QED
    BY <1>2, <2>1, <2>2 DEF Drawn
<1> QED
  BY <1>3, <1>4 DEF Step, Taken, Moved, Wanting, Valued, Passed

LEMMA ScanTyped ==
  ASSUME NEW words \in Seq(AWord), NEW known \in OptionSets
  PROVE  \A k \in 0 .. Len(words) :
           Scanned(words, known, k, Scan(words, known)[k]) /\ Drawn(words, k, Scan(words, known)[k])
<1> DEFINE s == Scan(words, known)
           Good1 == {k \in 0 .. Len(words) : Scanned(words, known, k, s[k]) /\ Drawn(words, k, s[k])}
<1>0. Len(words) \in Nat
  OBVIOUS
<1>1. 0 \in Good1
  <2>1. s[0] = Fresh
    BY <1>0, ScanFacts
  <2>2. Fresh \in AState
    BY DEF Fresh, AState
  <2>3. Scanned(words, known, 0, Fresh)
    BY <2>2 DEF Scanned, Fresh
  <2>4. Drawn(words, 0, Fresh)
    BY DEF Drawn, Fresh
  <2> QED
    BY <2>1, <2>3, <2>4
<1>2. ASSUME NEW k \in 0 .. Len(words) - 1, k \in Good1
      PROVE  k + 1 \in Good1
  <2>1. s[k + 1] = GetoptStep(known, s[k], words[k + 1])
    BY <1>0, ScanFacts
  <2>0. s[k] \in AState
    BY <1>2 DEF Scanned
  <2>2. s[k] \in AState /\ words[k + 1] \in AWord
    BY <1>0, <2>0
  <2>3. s[k + 1] \in AState /\ Step(known, s[k], words[k + 1], s[k + 1])
    BY <2>1, <2>2, StepCases DEF Step
  <2>4. Scanned(words, known, k, s[k]) /\ Drawn(words, k, s[k])
    BY <1>2
  <2> HIDE DEF s
  <2>5. Scanned(words, known, k + 1, s[k + 1])
    BY <2>2, <2>3, <2>4, ScannedStep
  <2>6. Drawn(words, k + 1, s[k + 1])
    BY <2>2, <2>3, <2>4, DrawnStep
  <2> QED
    BY <2>5, <2>6
<1> HIDE DEF Good1
<1>3. \A k \in 0 .. Len(words) : k \in Good1
  BY <1>0, <1>1, <1>2, StepByStep, Zenon
<1> QED
  BY <1>3 DEF Good1

(* The loop's state before and after a word.                               *)
LEMMA ScanNext ==
  ASSUME NEW words \in Seq(AWord), NEW known \in OptionSets, NEW k \in 0 .. Len(words) - 1
  PROVE  LET st == Scan(words, known)[k]
             new == Scan(words, known)[k + 1]
         IN  /\ st \in AState /\ new \in AState /\ words[k + 1] \in AWord
             /\ Scanned(words, known, k, st) /\ Scanned(words, known, k + 1, new)
             /\ Step(known, st, words[k + 1], new)
<1> DEFINE s == Scan(words, known)
<1>1. s[k + 1] = GetoptStep(known, s[k], words[k + 1])
  BY ScanFacts
<1>2. Scanned(words, known, k, s[k]) /\ Scanned(words, known, k + 1, s[k + 1])
  BY ScanTyped
<1>3. s[k] \in AState /\ s[k + 1] \in AState /\ words[k + 1] \in AWord
  BY <1>2 DEF Scanned
<1>4. Step(known, s[k], words[k + 1], s[k + 1])
  BY <1>1, <1>3, StepCases DEF Step
<1> QED
  BY <1>2, <1>3, <1>4

-----------------------------------------------------------------------------
(* Where an option occurs last among the first k words.                    *)
LastAt(s, k, b, l) ==
  l \in 1 .. k /\ s[l].opt = b /\ \A r \in l + 1 .. k : s[r].opt # b

LEMMA LastStep ==
  ASSUME NEW s, NEW k \in Nat, NEW b, NEW l
  PROVE  LastAt(s, k + 1, b, l) <=> IF s[k + 1].opt = b THEN l = k + 1 ELSE LastAt(s, k, b, l)
<1>1. CASE s[k + 1].opt = b /\ l # k + 1
  <2>1. LastAt(s, k + 1, b, l) => k + 1 \in l + 1 .. k + 1
    BY <1>1 DEF LastAt
  <2> QED
    BY <1>1, <2>1 DEF LastAt
<1>2. CASE s[k + 1].opt = b /\ l = k + 1
  BY <1>2 DEF LastAt
<1>3. CASE s[k + 1].opt # b
  BY <1>3 DEF LastAt
<1> QED
  BY <1>1, <1>2, <1>3

LEMMA LastUnique ==
  ASSUME NEW s, NEW k \in Nat, NEW b, NEW l, NEW r, LastAt(s, k, b, l), LastAt(s, k, b, r)
  PROVE  l = r
<1>1. l \in 1 .. k /\ r \in 1 .. k /\ s[l].opt = b /\ s[r].opt = b
  BY DEF LastAt
<1>2. ~(r \in l + 1 .. k) /\ ~(l \in r + 1 .. k)
  BY <1>1 DEF LastAt
<1> QED
  BY <1>1, <1>2

(* An option that occurs has a last occurrence, the one LastOf takes.      *)
LEMMA LastExists ==
  ASSUME NEW s, Len(s) \in Nat, NEW b, Occurrences(s, b) # {}
  PROVE  /\ LastAt(s, Len(s), b, Max(Occurrences(s, b)))
         /\ LastOf(s, b) = s[Max(Occurrences(s, b))]
<1> DEFINE O == Occurrences(s, b)
           D == {Len(s) - l : l \in O}
<1>1. O \subseteq 1 .. Len(s) /\ D \subseteq Nat /\ D # {}
  BY DEF Occurrences
<1>2. PICK d \in D : \A e \in D : d <= e
  <2> HIDE DEF D
  <2> QED
    BY <1>1, LeastNumber
<1>3. PICK l \in O : d = Len(s) - l
  OBVIOUS
<1>4. \A r \in O : l >= r
  <2> TAKE r \in O
  <2>1. d <= Len(s) - r
    BY <1>2
  <2>2. l \in 1 .. Len(s) /\ r \in 1 .. Len(s)
    BY <1>1
  <2> QED
    BY <1>3, <2>1, <2>2
<1> DEFINE m == Max(O)
<1>5. m \in O /\ \A r \in O : m >= r
  <2> HIDE DEF O
  <2>1. m = CHOOSE x \in O : \A y \in O : x >= y
    BY DEF Max
  <2> QED
    BY <1>4, <2>1
<1>6. m \in 1 .. Len(s) /\ s[m].opt = b
  BY <1>5 DEF Occurrences
<1>7. \A r \in m + 1 .. Len(s) : s[r].opt # b
  <2> TAKE r \in m + 1 .. Len(s)
  <2>1. ~(m >= r) /\ r \in 1 .. Len(s)
    BY <1>6
  <2>2. r \notin O
    BY <1>5, <2>1
  <2> QED
    BY <2>1, <2>2 DEF Occurrences
<1> QED
  BY <1>6, <1>7 DEF LastAt, LastOf

LEMMA LastOccurs ==
  ASSUME NEW s, Len(s) \in Nat, NEW b, NEW l, LastAt(s, Len(s), b, l)
  PROVE  Occurrences(s, b) # {}
  BY DEF LastAt, Occurrences

(* The value of the option in position l, the last value b has among the   *)
(* first k words, and the last one that was found.                         *)
Value(words, l) ==
  IF words[l].value # None THEN words[l].value ELSE Strtoul(words[l + 1])
Holds(words, k, b, v) == \E l \in 1 .. k : LastAt(words, k, b, l) /\ Value(words, l) = v
Finds(found, b, v) ==
  \E l \in 1 .. Len(found) : LastAt(found, Len(found), b, l) /\ found[l].n = v

LEMMA HoldsStep ==
  ASSUME NEW s, NEW k \in Nat, NEW b, NEW v
  PROVE  Holds(s, k + 1, b, v) <=>
           IF s[k + 1].opt = b THEN v = Value(s, k + 1) ELSE Holds(s, k, b, v)
<1>1. \A l : LastAt(s, k + 1, b, l) <=> IF s[k + 1].opt = b THEN l = k + 1 ELSE LastAt(s, k, b, l)
  BY LastStep
<1>2. \A l : LastAt(s, k, b, l) => l \in 1 .. k + 1 /\ l \in 1 .. k
  BY DEF LastAt
<1>3. k + 1 \in 1 .. k + 1
  OBVIOUS
<1>4. CASE s[k + 1].opt = b
  <2>1. LastAt(s, k + 1, b, k + 1)
    BY <1>1, <1>4
  <2> QED
    BY <1>1, <1>3, <1>4, <2>1 DEF Holds
<1>5. CASE s[k + 1].opt # b
  BY <1>1, <1>2, <1>5 DEF Holds
<1> QED
  BY <1>4, <1>5

LEMMA FindsStep ==
  ASSUME NEW found \in Seq(AFind), NEW f \in AFind, NEW b, NEW v
  PROVE  Finds(Append(found, f), b, v) <=> IF f.opt = b THEN v = f.n ELSE Finds(found, b, v)
<1> DEFINE new == Append(found, f)
           k == Len(found)
<1>0. /\ k \in Nat /\ Len(new) = k + 1 /\ new[k + 1] = f
      /\ \A l \in 1 .. k : new[l] = found[l]
  BY Appending
<1> HIDE DEF new, k
<1>1. \A l : LastAt(new, k + 1, b, l) <=> IF f.opt = b THEN l = k + 1 ELSE LastAt(new, k, b, l)
  <2>1. k \in Nat /\ new[k + 1] = f
    BY <1>0
  <2>2. ASSUME NEW l
        PROVE  LastAt(new, k + 1, b, l) <=>
                 IF new[k + 1].opt = b THEN l = k + 1 ELSE LastAt(new, k, b, l)
    BY <2>1, LastStep
  <2> QED
    BY <2>1, <2>2
<1>2. \A l : LastAt(new, k, b, l) <=> LastAt(found, k, b, l)
  <2> TAKE l
  <2>1. l \in 1 .. k => new[l] = found[l] /\ \A r \in l + 1 .. k : new[r] = found[r]
    BY <1>0
  <2> QED
    BY <2>1 DEF LastAt
<1>3. \A l : LastAt(found, k, b, l) => l \in 1 .. k + 1 /\ l \in 1 .. k
  BY <1>0 DEF LastAt
<1>4. Finds(new, b, v) <=> \E l \in 1 .. k + 1 : LastAt(new, k + 1, b, l) /\ new[l].n = v
  BY <1>0 DEF Finds
<1>5. Finds(found, b, v) <=> \E l \in 1 .. k : LastAt(found, k, b, l) /\ found[l].n = v
  BY DEF Finds, k
<1>6. CASE f.opt = b
  <2>1. LastAt(new, k + 1, b, k + 1) /\ k + 1 \in 1 .. k + 1
    BY <1>0, <1>1, <1>6
  <2> QED
    BY <1>0, <1>1, <1>4, <1>6, <2>1 DEF new
<1>7. CASE f.opt # b
  BY <1>0, <1>1, <1>2, <1>3, <1>4, <1>5, <1>7 DEF new
<1> QED
  BY <1>6, <1>7

-----------------------------------------------------------------------------
(* What main and the benchmarks rely on when they parse: an option with    *)
(* its value in the next word is followed by a word that is none.          *)
Valueless(words, l) == words[l].opt \in Names /\ words[l].value = None
Followed(words) ==
  \A l \in 1 .. Len(words) : Valueless(words, l) => l < Len(words) /\ words[l + 1].opt = "plain"
Tidy(words) == \A l \in 1 .. Len(words) : ~Valueless(words, l)

(* Then a benchmark finds the last value of each of its options.           *)
FoundSoFar(words, known, k, st) ==
  \A b \in known, v \in Nat :
    Finds(st.found, b, v) <=> Holds(words, IF st.wanted = "none" THEN k ELSE k - 1, b, v)

LEMMA FoundStep ==
  ASSUME NEW words \in Seq(AWord), Followed(words), NEW known \in SUBSET Names,
         NEW k \in 0 .. Len(words) - 1, NEW st \in AState, NEW new,
         NEW w \in AWord, w = words[k + 1], Step(known, st, w, new),
         Scanned(words, known, k, st), FoundSoFar(words, known, k, st)
  PROVE  FoundSoFar(words, known, k + 1, new)
<1>0. /\ "plain" \notin known /\ "none" \notin known /\ k \in Nat
      /\ st.found \in Seq(AFind)
  BY NameFacts DEF AState
<1> SUFFICES ASSUME NEW b \in known, NEW v \in Nat
             PROVE  Finds(new.found, b, v) <=>
                      Holds(words, IF new.wanted = "none" THEN k + 1 ELSE k, b, v)
  BY <1>0 DEF FoundSoFar
<1>1. Finds(st.found, b, v) <=> Holds(words, IF st.wanted = "none" THEN k ELSE k - 1, b, v)
  BY DEF FoundSoFar
<1>2. Holds(words, k + 1, b, v) <=>
        IF w.opt = b THEN v = Value(words, k + 1) ELSE Holds(words, k, b, v)
  BY <1>0, HoldsStep
<1>3. CASE Taken(st, w, new)
  <2>1. /\ k >= 1 /\ st.wanted \in known
        /\ words[k].opt = st.wanted /\ words[k].value = None
    BY <1>3 DEF Scanned, Taken
  <2>2. w.opt = "plain"
    BY <2>1 DEF Followed, Valueless
  <2>3. Value(words, k) = Strtoul(w)
    BY <2>1 DEF Value
  <2>4. Holds(words, k, b, v) <=>
          IF words[k].opt = b THEN v = Value(words, k) ELSE Holds(words, k - 1, b, v)
    <3>1. k - 1 \in Nat /\ (k - 1) + 1 = k
      BY <2>1
    <3>2. Holds(words, (k - 1) + 1, b, v) <=>
            IF words[(k - 1) + 1].opt = b THEN v = Value(words, (k - 1) + 1)
            ELSE Holds(words, k - 1, b, v)
      BY <3>1, HoldsStep
    <3> QED
      BY <3>1, <3>2
  <2> DEFINE f == [opt |-> st.wanted, arg |-> w, n |-> Strtoul(w)]
  <2>5. f \in AFind /\ f.opt = st.wanted /\ f.n = Strtoul(w)
    <3>1. Strtoul(w) \in Nat
      BY <2>2, NameFacts DEF Strtoul, AWord
    <3> QED
      BY <2>1, <3>1 DEF AFind
  <2>6. new.found = Append(st.found, f) /\ new.wanted = "none" /\ st.wanted # "none"
    BY <1>3 DEF Taken
  <2> HIDE DEF f
  <2>7. Finds(new.found, b, v) <=> IF st.wanted = b THEN v = Strtoul(w) ELSE Finds(st.found, b, v)
    BY <1>0, <2>5, <2>6, FindsStep
  <2> QED
    BY <1>0, <1>1, <1>2, <2>1, <2>2, <2>3, <2>4, <2>6, <2>7
<1>4. CASE Moved(st, w, new)
  BY <1>0, <1>1, <1>2, <1>4 DEF Moved
<1>5. CASE Wanting(known, st, w, new)
  BY <1>0, <1>1, <1>2, <1>5 DEF Wanting
<1>6. CASE Valued(known, st, w, new)
  <2> DEFINE f == [opt |-> w.opt, arg |-> w, n |-> w.value]
  <2>1. f \in AFind /\ f.opt = w.opt /\ f.n = w.value
    BY <1>6 DEF AFind, AWord, Valued
  <2>2. /\ new.found = Append(st.found, f) /\ new.wanted = "none" /\ st.wanted = "none"
        /\ w.value # None
    BY <1>6 DEF Valued
  <2> HIDE DEF f
  <2>3. Finds(new.found, b, v) <=> IF w.opt = b THEN v = w.value ELSE Finds(st.found, b, v)
    BY <1>0, <2>1, <2>2, FindsStep
  <2>4. Value(words, k + 1) = w.value
    BY <2>2 DEF Value
  <2> QED
    BY <1>1, <1>2, <2>2, <2>3, <2>4
<1>7. CASE Passed(known, st, w, new)
  BY <1>0, <1>1, <1>2, <1>7 DEF Passed
<1> QED
  BY <1>3, <1>4, <1>5, <1>6, <1>7 DEF Step

LEMMA FoundValues ==
  ASSUME NEW words \in Seq(AWord), Followed(words), NEW known \in SUBSET Names
  PROVE  \A b \in known, v \in Nat :
           Finds(Getopt(words, known).found, b, v) <=> Holds(words, Len(words), b, v)
<1> DEFINE s == Scan(words, known)
           n == Len(words)
           Right == {k \in 0 .. n : FoundSoFar(words, known, k, s[k])}
<1>0. n \in Nat /\ known \in OptionSets
  BY DEF OptionSets
<1>1. 0 \in Right
  <2>1. s[0] = Fresh
    BY <1>0, ScanFacts
  <2>2. FoundSoFar(words, known, 0, Fresh)
    BY DEF FoundSoFar, Fresh, Finds, Holds
  <2> QED
    BY <1>0, <2>1, <2>2
<1>2. ASSUME NEW k \in 0 .. n - 1, k \in Right
      PROVE  k + 1 \in Right
  <2>1. /\ s[k] \in AState /\ s[k + 1] \in AState /\ words[k + 1] \in AWord
        /\ Scanned(words, known, k, s[k])
        /\ Step(known, s[k], words[k + 1], s[k + 1])
    BY <1>0, ScanNext
  <2>2. FoundSoFar(words, known, k, s[k])
    BY <1>2
  <2> HIDE DEF s
  <2>3. FoundSoFar(words, known, k + 1, s[k + 1])
    BY <2>1, <2>2, FoundStep
  <2> QED
    BY <2>3
<1> HIDE DEF Right
<1>3. n \in Right
  <2>1. \A k \in 0 .. n : k \in Right
    <3> HIDE DEF n
    <3> QED
      BY <1>0, <1>1, <1>2, StepByStep, Zenon
  <2> QED
    BY <1>0, <2>1
<1>4. FoundSoFar(words, known, n, s[n])
  BY <1>3 DEF Right
<1>5. s[n].wanted = "none"
  <2> SUFFICES ASSUME s[n].wanted # "none" PROVE FALSE
    OBVIOUS
  <2>1. Scanned(words, known, n, s[n])
    BY <1>0, ScanTyped
  <2>2. n >= 1 /\ Valueless(words, n)
    BY <2>1 DEF Scanned, Valueless
  <2> QED
    BY <1>0, <2>2 DEF Followed
<1> QED
  BY <1>4, <1>5 DEF FoundSoFar, Getopt

-----------------------------------------------------------------------------
(* What getopt_long leaves in argv, and what it finds.                     *)
LEMMA Concatenated ==
  ASSUME NEW S, NEW s \in Seq(S), NEW t \in Seq(S)
  PROVE  /\ s \o t \in Seq(S) /\ Len(s) \in Nat /\ Len(t) \in Nat
         /\ Len(s \o t) = Len(s) + Len(t)
         /\ \A l \in 1 .. Len(s) : (s \o t)[l] = s[l]
         /\ \A l \in 1 .. Len(t) : (s \o t)[Len(s) + l] = t[l]
  OBVIOUS

LEMMA SameWords ==
  ASSUME NEW S, NEW s \in Seq(S), NEW t \in Seq(S), Len(s) = Len(t),
         \A l \in 1 .. Len(s) : s[l] = t[l]
  PROVE  s = t
  OBVIOUS

Within(words, others) ==
  \A j \in 1 .. Len(others) : \E l \in 1 .. Len(words) : others[j] = words[l]

LEMMA GetoptFacts ==
  ASSUME NEW words \in Seq(AWord), NEW known \in OptionSets
  PROVE  LET end == Scan(words, known)[Len(words)]
             new == Getopt(words, known)
         IN  /\ Scanned(words, known, Len(words), end)
             /\ end.options \in Seq(AWord) /\ end.plain \in Seq(AWord)
             /\ new.argv = end.options \o end.plain /\ new.found = end.found
             /\ new.argv \in Seq(AWord) /\ Len(new.argv) = Len(words)
             /\ Within(words, new.argv)
             /\ new.found \in Seq(AFind)
             /\ \A f \in 1 .. Len(new.found) : new.found[f].opt \in known
<1> DEFINE n == Len(words)
           end == Scan(words, known)[n]
           new == Getopt(words, known)
           o == end.options
           p == end.plain
<1>0. n \in Nat
  OBVIOUS
<1>1. Scanned(words, known, n, end) /\ Drawn(words, n, end)
  BY ScanTyped
<1>2. /\ new.argv = o \o p /\ new.found = end.found
  BY DEF Getopt
<1>3. o \in Seq(AWord) /\ p \in Seq(AWord) /\ end.found \in Seq(AFind)
  BY <1>1 DEF Scanned, AState
<1>4. Len(o) + Len(p) = n
  BY <1>1 DEF Scanned
<1>5. /\ \A j \in 1 .. Len(o) : \E l \in 1 .. n : o[j] = words[l]
      /\ \A j \in 1 .. Len(p) : \E l \in 1 .. n : p[j] = words[l]
  BY <1>1 DEF Drawn
<1>6. \A f \in 1 .. Len(end.found) : end.found[f].opt \in known
  BY <1>1 DEF Scanned
<1>7. o \o p \in Seq(AWord) /\ Len(o \o p) = n /\ Within(words, o \o p)
  <2> HIDE DEF o, p, n, end
  <2>1. /\ o \o p \in Seq(AWord) /\ Len(o) \in Nat /\ Len(p) \in Nat
        /\ Len(o \o p) = Len(o) + Len(p)
        /\ \A l \in 1 .. Len(o) : (o \o p)[l] = o[l]
        /\ \A l \in 1 .. Len(p) : (o \o p)[Len(o) + l] = p[l]
    BY <1>3, Concatenated
  <2>2. ASSUME NEW j \in 1 .. n
        PROVE  \E l \in 1 .. n : (o \o p)[j] = words[l]
    <3>1. CASE j <= Len(o)
      BY <1>5, <2>1, <3>1
    <3>2. CASE j > Len(o)
      <4>1. j - Len(o) \in 1 .. Len(p) /\ Len(o) + (j - Len(o)) = j
        BY <1>0, <1>4, <2>1, <3>2
      <4>2. (o \o p)[j] = p[j - Len(o)]
        BY <2>1, <4>1
      <4> QED
        BY <1>5, <4>1, <4>2
    <3>3. j <= Len(o) \/ j > Len(o)
      BY <1>0, <2>1
    <3> QED
      BY <3>1, <3>2, <3>3, Zenon
  <2> QED
    BY <1>4, <2>1, <2>2 DEF Within, n
<1> HIDE DEF o, p, n, end, new
<1>8. /\ Scanned(words, known, n, end) /\ o \in Seq(AWord) /\ p \in Seq(AWord)
      /\ new.argv = o \o p /\ new.found = end.found
      /\ new.argv \in Seq(AWord) /\ Len(new.argv) = n
      /\ Within(words, new.argv)
      /\ new.found \in Seq(AFind)
      /\ \A f \in 1 .. Len(new.found) : new.found[f].opt \in known
  BY <1>1, <1>2, <1>3, <1>6, <1>7
<1> QED
  BY <1>8 DEF o, p, n, end, new

(* If no word had to go to the end, argv is as it was.                     *)
LEMMA Unmoved ==
  ASSUME NEW words \in Seq(AWord), NEW known \in OptionSets,
         Scan(words, known)[Len(words)].plain = <<>>
  PROVE  Getopt(words, known).argv = words
<1> DEFINE end == Scan(words, known)[Len(words)]
           o == end.options
<1>1. /\ Scanned(words, known, Len(words), end)
      /\ end.options \in Seq(AWord)
      /\ Getopt(words, known).argv = end.options \o end.plain
      /\ Len(Getopt(words, known).argv) = Len(words)
  BY GetoptFacts
<1>2. o \in Seq(AWord) /\ Getopt(words, known).argv = o
  BY <1>1
<1>3. \A j \in 1 .. Len(words) : o[j] = words[j]
  BY <1>1 DEF Scanned
<1>4. Len(o) = Len(words)
  BY <1>1, <1>2
<1> HIDE DEF o
<1>5. o = words
  BY <1>2, <1>3, <1>4, SameWords
<1> QED
  BY <1>2, <1>5

(* Nor is it changed when all words that are no options are at its end and *)
(* no option before the last one takes the next word.                      *)
Parted(words, k) ==
  /\ k \in 0 .. Len(words)
  /\ \A l \in 1 .. k : words[l].opt # "plain"
  /\ \A l \in k + 1 .. Len(words) : words[l].opt = "plain"

Steals(words, known, k, found) ==
  \E l \in 1 .. k - 1 : /\ words[l].opt \in known /\ words[l].value = None
                        /\ \E f \in 1 .. Len(found) : found[f].arg = words[l + 1]

InPlace(words, k, j, st) ==
  /\ \A l \in 1 .. Len(st.options) : st.options[l] = words[l]
  /\ \A l \in 1 .. Len(st.plain) : st.plain[l] = words[Len(st.options) + l]
  /\ j <= k => st.plain = <<>>
  /\ j >= k + 1 => st.wanted = "none"

LEMMA InPlaceStep ==
  ASSUME NEW words \in Seq(AWord), NEW known \in OptionSets, NEW k, Parted(words, k),
         NEW j \in 0 .. Len(words) - 1, NEW st \in AState, NEW new \in AState,
         NEW w \in AWord, w = words[j + 1], Step(known, st, w, new),
         Scanned(words, known, j, st),
         Steals(words, known, k, st.found) \/ InPlace(words, k, j, st)
  PROVE  Steals(words, known, k, new.found) \/ InPlace(words, k, j + 1, new)
<1> DEFINE o == st.options
           p == st.plain
           a == Len(o)
           c == Len(p)
           g == st.found
           h == Len(g)
<1>0. /\ j \in Nat /\ k \in 0 .. Len(words) /\ "plain" \notin known
      /\ o \in Seq(AWord) /\ p \in Seq(AWord) /\ a \in Nat /\ c \in Nat /\ a + c = j
      /\ g \in Seq(AFind) /\ h \in Nat
  BY NameFacts DEF OptionSets, AState, Parted, Scanned
<1>1. ASSUME Steals(words, known, k, g)
      PROVE  Steals(words, known, k, new.found)
  <2>1. new.found = g \/ \E f \in AFind : new.found = Append(g, f)
    <3>1. new.found \in Seq(AFind)
      BY DEF AState
    <3>2. new.found = g \/ \E f : new.found = Append(g, f)
      BY DEF Step, Taken, Moved, Wanting, Valued, Passed
    <3>3. ASSUME NEW f, new.found = Append(g, f)
          PROVE  f \in AFind
      <4>1. Len(new.found) = h + 1 /\ new.found[h + 1] = f
        BY <1>0, <3>3
      <4> QED
        BY <1>0, <3>1, <4>1
    <3> QED
      BY <3>2, <3>3
  <2>2. \A f \in 1 .. h : f \in 1 .. Len(new.found) /\ new.found[f] = g[f]
    <3>1. CASE new.found = g
      BY <1>0, <3>1
    <3>2. ASSUME NEW f \in AFind, new.found = Append(g, f)
          PROVE  \A l \in 1 .. h : l \in 1 .. Len(new.found) /\ new.found[l] = g[l]
      BY <1>0, <3>2, Appending
    <3> QED
      BY <2>1, <3>1, <3>2
  <2> QED
    BY <1>1, <2>2 DEF Steals
<1> SUFFICES ASSUME InPlace(words, k, j, st)
             PROVE  Steals(words, known, k, new.found) \/ InPlace(words, k, j + 1, new)
  BY <1>1
<1>2. ASSUME p = <<>>, new.options = Append(o, w), new.plain = p,
             j + 1 <= k \/ new.wanted = "none"
      PROVE  InPlace(words, k, j + 1, new)
  <2>1. a = j /\ new.plain = <<>>
    BY <1>0, <1>2
  <2>2. Len(new.options) = j + 1 /\ new.options[j + 1] = w /\ \A l \in 1 .. j : new.options[l] = o[l]
    BY <1>0, <1>2, <2>1, Appending
  <2>3. \A l \in 1 .. j : o[l] = words[l]
    BY <2>1 DEF InPlace
  <2>4. \A l \in 1 .. Len(new.options) : new.options[l] = words[l]
    <3> SUFFICES ASSUME NEW l \in 1 .. j + 1 PROVE new.options[l] = words[l]
      BY <2>2
    <3> QED
      BY <1>0, <2>2, <2>3
  <2>5. Len(new.plain) = 0
    BY <2>1
  <2> QED
    BY <1>0, <1>2, <2>1, <2>4, <2>5 DEF InPlace
<1>3. CASE Taken(st, w, new)
  <2>1. /\ j >= 1 /\ words[j].opt \in known /\ words[j].value = None
    BY <1>3 DEF Scanned, Taken
  <2>2. j <= k /\ p = <<>>
    BY <1>0, <1>3 DEF InPlace, Taken
  <2>3. CASE j < k
    <3> DEFINE f == [opt |-> st.wanted, arg |-> w, n |-> Strtoul(w)]
    <3>1. new.found = Append(g, f) /\ f.arg = words[j + 1]
      BY <1>3 DEF Taken
    <3> HIDE DEF f
    <3>2. Len(new.found) = h + 1 /\ new.found[h + 1] = f
      BY <1>0, <3>1
    <3>3. h + 1 \in 1 .. Len(new.found) /\ new.found[h + 1].arg = words[j + 1] /\ j \in 1 .. k - 1
      BY <1>0, <2>1, <2>3, <3>1, <3>2
    <3>4. Steals(words, known, k, new.found)
      BY <2>1, <3>3 DEF Steals
    <3> QED
      BY <3>4
  <2>4. CASE j = k
    BY <1>2, <1>3, <2>2 DEF Taken
  <2> QED
    BY <1>0, <2>2, <2>3, <2>4
<1>4. CASE Moved(st, w, new)
  <2>1. j >= k
    BY <1>0, <1>4 DEF Parted, Moved
  <2>2. /\ new.options = o /\ new.plain = Append(p, w) /\ new.wanted = "none"
    BY <1>4 DEF Moved
  <2>3. /\ Len(new.plain) = c + 1 /\ new.plain[c + 1] = w
        /\ \A l \in 1 .. c : new.plain[l] = p[l]
    BY <1>0, <2>2, Appending
  <2>4. \A l \in 1 .. c : p[l] = words[a + l]
    BY DEF InPlace
  <2>5. words[a + (c + 1)] = w
    <3>1. a + (c + 1) = j + 1
      <4> HIDE DEF a, c
      <4> QED
        BY <1>0
    <3> QED
      BY <3>1
  <2>6. \A l \in 1 .. c + 1 : new.plain[l] = words[a + l]
    <3> TAKE l \in 1 .. c + 1
    <3>1. l = c + 1 \/ l \in 1 .. c
      <4> HIDE DEF c
      <4> QED
        BY <1>0
    <3> QED
      BY <2>3, <2>4, <2>5, <3>1
  <2>7. \A l \in 1 .. Len(new.options) : new.options[l] = words[l]
    BY <2>2 DEF InPlace
  <2> QED
    BY <1>0, <2>1, <2>2, <2>3, <2>6, <2>7 DEF InPlace
<1>5. ASSUME Wanting(known, st, w, new) \/ Valued(known, st, w, new) \/ Passed(known, st, w, new)
      PROVE  InPlace(words, k, j + 1, new)
  <2>1. /\ w.opt # "plain" /\ new.options = Append(o, w) /\ new.plain = p
    BY <1>0, <1>5 DEF Wanting, Valued, Passed
  <2>2. j + 1 <= k
    BY <1>0, <2>1 DEF Parted
  <2>3. p = <<>>
    BY <1>0, <2>2 DEF InPlace
  <2> QED
    BY <1>2, <2>1, <2>2, <2>3
<1> QED
  BY <1>3, <1>4, <1>5 DEF Step

LEMMA InPlaceAlways ==
  ASSUME NEW words \in Seq(AWord), NEW known \in OptionSets, NEW k, Parted(words, k)
  PROVE  \/ Steals(words, known, k, Getopt(words, known).found)
         \/ Getopt(words, known).argv = words
<1> DEFINE s == Scan(words, known)
           n == Len(words)
           Right == {j \in 0 .. n : Steals(words, known, k, s[j].found) \/ InPlace(words, k, j, s[j])}
<1>0. n \in Nat
  OBVIOUS
<1>1. 0 \in Right
  <2>1. s[0] = Fresh
    BY <1>0, ScanFacts
  <2>2. InPlace(words, k, 0, Fresh)
    BY DEF InPlace, Fresh, Parted
  <2> QED
    BY <1>0, <2>1, <2>2
<1>2. ASSUME NEW j \in 0 .. n - 1, j \in Right
      PROVE  j + 1 \in Right
  <2>1. /\ s[j] \in AState /\ s[j + 1] \in AState /\ words[j + 1] \in AWord
        /\ Scanned(words, known, j, s[j])
        /\ Step(known, s[j], words[j + 1], s[j + 1])
    BY <1>0, ScanNext
  <2>2. Steals(words, known, k, s[j].found) \/ InPlace(words, k, j, s[j])
    BY <1>2
  <2> HIDE DEF s
  <2>3. Steals(words, known, k, s[j + 1].found) \/ InPlace(words, k, j + 1, s[j + 1])
    BY <2>1, <2>2, InPlaceStep
  <2> QED
    BY <2>3
<1> HIDE DEF Right
<1>3. n \in Right
  <2>1. \A j \in 0 .. n : j \in Right
    <3> HIDE DEF n
    <3> QED
      BY <1>0, <1>1, <1>2, StepByStep, Zenon
  <2> QED
    BY <1>0, <2>1
<1>4. /\ Scanned(words, known, n, s[n])
      /\ s[n].options \in Seq(AWord) /\ s[n].plain \in Seq(AWord)
      /\ Getopt(words, known).argv = s[n].options \o s[n].plain
      /\ Getopt(words, known).found = s[n].found
      /\ Len(Getopt(words, known).argv) = n
  BY GetoptFacts
<1>5. ASSUME InPlace(words, k, n, s[n])
      PROVE  Getopt(words, known).argv = words
  <2> DEFINE o == s[n].options
             p == s[n].plain
             r == o \o p
  <2>1. /\ r \in Seq(AWord) /\ Len(o) \in Nat /\ Len(p) \in Nat
        /\ Len(r) = Len(o) + Len(p) /\ Len(r) = n
        /\ \A l \in 1 .. Len(o) : r[l] = o[l]
        /\ \A l \in 1 .. Len(p) : r[Len(o) + l] = p[l]
    <3>1. o \in Seq(AWord) /\ p \in Seq(AWord) /\ Len(r) = n
      BY <1>4
    <3> HIDE DEF o, p
    <3> QED
      BY <3>1, Concatenated
  <2>2. /\ \A l \in 1 .. Len(o) : o[l] = words[l]
        /\ \A l \in 1 .. Len(p) : p[l] = words[Len(o) + l]
    BY <1>5 DEF InPlace
  <2> HIDE DEF o, p
  <2>3. \A l \in 1 .. n : r[l] = words[l]
    <3> TAKE l \in 1 .. n
    <3>1. CASE l <= Len(o)
      BY <2>1, <2>2, <3>1
    <3>2. CASE l > Len(o)
      <4>1. l - Len(o) \in 1 .. Len(p) /\ Len(o) + (l - Len(o)) = l
        BY <1>0, <2>1, <3>2
      <4>2. r[l] = p[l - Len(o)] /\ p[l - Len(o)] = words[l]
        <5> DEFINE e == l - Len(o)
        <5>1. e \in 1 .. Len(p) /\ Len(o) + e = l
          BY <4>1
        <5> HIDE DEF e, r
        <5>2. r[Len(o) + e] = p[e] /\ p[e] = words[Len(o) + e]
          BY <2>1, <2>2, <5>1
        <5> QED
          BY <5>1, <5>2 DEF e
      <4> QED
        BY <4>2
    <3> QED
      BY <1>0, <2>1, <3>1, <3>2
  <2> HIDE DEF r
  <2>4. r = words
    BY <2>1, <2>3, SameWords
  <2> QED
    BY <1>4, <2>4 DEF r, o, p
<1> QED
  BY <1>3, <1>4, <1>5 DEF Right

-----------------------------------------------------------------------------
(* A word that is no option at the end of argv stays there whoever parses, *)
(* unless the word before it takes it.                                     *)
Stuck(words) ==
  LET n == Len(words)
  IN  /\ n >= 2 /\ words[n].opt = "plain"
      /\ words[n - 1].opt = "plain" \/ words[n - 1].value # None

LEMMA StuckStays ==
  ASSUME NEW words \in Seq(AWord), NEW known \in OptionSets, Stuck(words)
  PROVE  Stuck(Getopt(words, known).argv)
<1> DEFINE n == Len(words)
           st == Scan(words, known)[n - 1]
           end == Scan(words, known)[n]
           o == st.options
           p == st.plain
           a == Len(o)
           c == Len(p)
           w == words[n]
           q == Append(p, w)
           r == o \o q
<1>0. n \in Nat /\ n - 1 \in 0 .. n - 1 /\ (n - 1) + 1 = n /\ "plain" \notin known
  BY NameFacts DEF Stuck, OptionSets
<1>1. /\ w.opt = "plain" /\ n >= 2
      /\ words[n - 1].opt = "plain" \/ words[n - 1].value # None
  BY DEF Stuck
<1>2. /\ st \in AState /\ w \in AWord
      /\ Scanned(words, known, n - 1, st) /\ Step(known, st, w, end)
  BY <1>0, ScanNext
<1>3. st.wanted = "none"
  BY <1>0, <1>1, <1>2 DEF Scanned
<1>4. end.options = o /\ end.plain = q
  BY <1>0, <1>1, <1>2, <1>3 DEF Step, Taken, Moved, Wanting, Valued, Passed
<1>5. /\ o \in Seq(AWord) /\ p \in Seq(AWord)
      /\ \A l \in 1 .. c : p[l].opt = "plain"
      /\ p = <<>> => \A l \in 1 .. n - 1 : o[l] = words[l]
  <2>1. o \in Seq(AWord) /\ p \in Seq(AWord)
    BY <1>2 DEF Scanned, AState
  <2>2. \A l \in 1 .. c : p[l].opt = "plain"
    BY <1>2 DEF Scanned
  <2>3. p = <<>> => \A l \in 1 .. n - 1 : o[l] = words[l]
    BY <1>2 DEF Scanned
  <2> QED
    BY <2>1, <2>2, <2>3
<1>6. Getopt(words, known).argv = r
  BY <1>4 DEF Getopt
<1>7. w \in AWord
  BY <1>2
<1>8. a + c = n - 1
  BY <1>2 DEF Scanned
<1> HIDE DEF st, end, w, o, p
<1>9. a \in Nat /\ c \in Nat /\ (c = 0 => p = <<>>)
  BY <1>5
<1>10. /\ q \in Seq(AWord) /\ Len(q) = c + 1 /\ q[c + 1] = w /\ \A l \in 1 .. c : q[l] = p[l]
  BY <1>5, <1>7, Appending
<1> HIDE DEF q
<1>11. /\ Len(r) = a + Len(q)
       /\ \A l \in 1 .. a : r[l] = o[l]
       /\ \A l \in 1 .. Len(q) : r[a + l] = q[l]
  <2>1. o \in Seq(AWord) /\ q \in Seq(AWord)
    BY <1>5, <1>10
  <2> QED
    BY <2>1, Concatenated
<1> HIDE DEF r, a, c
<1>12. Len(r) = n /\ r[n] = w
  <2>1. a + (c + 1) = n /\ c + 1 \in 1 .. Len(q)
    BY <1>8, <1>9, <1>10, <1>0
  <2>2. r[a + (c + 1)] = q[c + 1]
    BY <1>11, <2>1
  <2> QED
    BY <1>10, <1>11, <2>1, <2>2
<1>13. r[n - 1].opt = "plain" \/ r[n - 1].value # None
  <2>1. CASE c = 0
    <3>1. a = n - 1 /\ a \in 1 .. a /\ p = <<>>
      <4>1. n \in Nat /\ n >= 2
        BY <1>0, <1>1
      <4> HIDE DEF n
      <4> QED
        BY <4>1, <1>8, <1>9, <2>1
    <3>2. r[n - 1] = words[n - 1]
      BY <1>5, <1>11, <3>1
    <3> QED
      BY <1>1, <3>2
  <2>2. CASE c # 0
    <3>1. c \in 1 .. c /\ c \in 1 .. Len(q) /\ a + c = n - 1
      BY <1>8, <1>9, <1>10, <2>2
    <3>2. r[a + c] = q[c] /\ q[c] = p[c] /\ p[c].opt = "plain"
      BY <1>5, <1>10, <1>11, <3>1
    <3> QED
      BY <3>1, <3>2
  <2> QED
    BY <2>1, <2>2
<1> QED
  BY <1>1, <1>6, <1>12, <1>13 DEF Stuck

(* And a word that is moved past an option with a value gets stuck.        *)
LEMMA GetsStuck ==
  ASSUME NEW words \in Seq(AWord), NEW known \in OptionSets, Len(words) >= 1,
         words[Len(words)].opt # "plain", words[Len(words)].value # None,
         Scan(words, known)[Len(words)].plain # <<>>
  PROVE  Stuck(Getopt(words, known).argv)
<1> DEFINE n == Len(words)
           end == Scan(words, known)[n]
           o == end.options
           p == end.plain
           a == Len(o)
           c == Len(p)
           r == o \o p
<1>1. /\ Scanned(words, known, n, end) /\ o \in Seq(AWord) /\ p \in Seq(AWord)
      /\ Getopt(words, known).argv = r
  BY GetoptFacts
<1>2. /\ \A l \in 1 .. c : p[l].opt = "plain"
      /\ a >= 1 /\ o[a] = words[n]
  BY <1>1 DEF Scanned
<1>3. p # <<>>
  OBVIOUS
<1> HIDE DEF o, p
<1>4. /\ a \in Nat /\ c \in Nat /\ Len(r) = a + c
      /\ \A l \in 1 .. a : r[l] = o[l]
      /\ \A l \in 1 .. c : r[a + l] = p[l]
  BY <1>1, Concatenated
<1>5. c >= 1
  BY <1>1, <1>3
<1> HIDE DEF r, a, c
<1>6. r[a + c].opt = "plain"
  BY <1>2, <1>4, <1>5
<1>7. r[a + c - 1].opt = "plain" \/ r[a + c - 1].value # None
  <2>1. CASE c = 1
    <3>1. a \in 1 .. a /\ a + c - 1 = a
      BY <1>2, <1>4, <2>1
    <3>2. r[a + c - 1] = words[n]
      BY <1>2, <1>4, <3>1
    <3> QED
      BY <3>2
  <2>2. CASE c # 1
    <3>1. c - 1 \in 1 .. c /\ a + (c - 1) = a + c - 1
      BY <1>4, <1>5, <2>2
    <3>2. r[a + (c - 1)] = p[c - 1] /\ p[c - 1].opt = "plain"
      BY <1>2, <1>4, <3>1
    <3> QED
      BY <3>1, <3>2
  <2> QED
    BY <2>1, <2>2
<1> QED
  BY <1>1, <1>2, <1>4, <1>5, <1>6, <1>7 DEF Stuck

(* What is moved does not depend on the values.                            *)
Alike(words, others) ==
  /\ Len(others) = Len(words)
  /\ \A l \in 1 .. Len(words) :
       others[l].opt = words[l].opt /\ (others[l].value = None <=> words[l].value = None)

LEMMA AlikeMoved ==
  ASSUME NEW words \in Seq(AWord), NEW others \in Seq(AWord), NEW known \in OptionSets,
         Alike(words, others), Scan(words, known)[Len(words)].plain = <<>>
  PROVE  Scan(others, known)[Len(words)].plain = <<>>
<1> DEFINE s == Scan(words, known)
           t == Scan(others, known)
           n == Len(words)
           Same(k) == s[k].wanted = t[k].wanted /\ Len(s[k].plain) = Len(t[k].plain)
           Right == {k \in 0 .. n : Same(k)}
<1>0. n \in Nat /\ "plain" \notin known /\ Len(others) = n /\ "none" \notin known
  BY NameFacts DEF OptionSets, Alike
<1>1. 0 \in Right
  BY <1>0, ScanFacts
<1>2. ASSUME NEW k \in 0 .. n - 1, k \in Right
      PROVE  k + 1 \in Right
  <2> DEFINE v == words[k + 1]
             w == others[k + 1]
             f == s[k]
             g == t[k]
             f1 == s[k + 1]
             g1 == t[k + 1]
  <2>1. /\ f \in AState /\ v \in AWord /\ Step(known, f, v, f1)
        /\ g \in AState /\ w \in AWord /\ Step(known, g, w, g1)
    BY <1>0, ScanNext
  <2>2. f.wanted = g.wanted /\ Len(f.plain) = Len(g.plain)
    BY <1>2
  <2>3. w.opt = v.opt /\ (w.value = None <=> v.value = None)
    BY <1>0 DEF Alike
  <2> HIDE DEF v, w, f, g, f1, g1
  <2>4. f1.wanted = g1.wanted
    BY <1>0, <2>1, <2>2, <2>3 DEF Step, Taken, Moved, Wanting, Valued, Passed
  <2>5. \/ f1.plain = f.plain /\ g1.plain = g.plain
        \/ f1.plain = Append(f.plain, v) /\ g1.plain = Append(g.plain, w)
    BY <1>0, <2>1, <2>2, <2>3 DEF Step, Taken, Moved, Wanting, Valued, Passed
  <2>6. /\ Len(Append(f.plain, v)) = Len(f.plain) + 1
        /\ Len(Append(g.plain, w)) = Len(g.plain) + 1
    BY <2>1, Appending DEF AState
  <2>7. Len(f1.plain) = Len(g1.plain)
    BY <2>2, <2>5, <2>6, Zenon
  <2> QED
    BY <2>4, <2>7 DEF f1, g1
<1> HIDE DEF Right
<1>3. n \in Right
  <2>1. \A k \in 0 .. n : k \in Right
    <3> HIDE DEF n
    <3> QED
      BY <1>0, <1>1, <1>2, StepByStep, Zenon
  <2> QED
    BY <1>0, <2>1
<1>4. Len(t[n].plain) = Len(s[n].plain) /\ s[n].plain = <<>>
  BY <1>3 DEF Right
<1>5. t[n].plain \in Seq(AWord)
  BY <1>0, GetoptFacts
<1> QED
  BY <1>4, <1>5

-----------------------------------------------------------------------------
(* The last values in one list of words after the other.                   *)
LEMMA HoldsConcat ==
  ASSUME NEW s \in Seq(AWord), Followed(s), NEW t \in Seq(AWord), Followed(t),
         NEW b \in Names, NEW v
  PROVE  Holds(s \o t, Len(s) + Len(t), b, v) <=>
           \/ Holds(t, Len(t), b, v)
           \/ Occurrences(t, b) = {} /\ Holds(s, Len(s), b, v)
<1> DEFINE r == s \o t
           a == Len(s)
           c == Len(t)
<1>1. /\ a \in Nat /\ c \in Nat /\ Len(r) = a + c
      /\ \A e \in 1 .. a : r[e] = s[e]
      /\ \A e \in 1 .. c : r[a + e] = t[e]
  BY Concatenated
<1> HIDE DEF r, a, c
<1>2. ASSUME NEW l \in 1 .. a
      PROVE  LastAt(r, a + c, b, l) <=> LastAt(s, a, b, l) /\ Occurrences(t, b) = {}
  <2>1. Occurrences(t, b) = {} <=> \A e \in 1 .. c : r[a + e].opt # b
    BY <1>1 DEF Occurrences, c
  <2>2. (\A e \in 1 .. c : r[a + e].opt # b) <=> (\A f \in a + 1 .. a + c : r[f].opt # b)
    <3>1. \A e \in 1 .. c : a + e \in a + 1 .. a + c
      BY <1>1
    <3>2. \A f \in a + 1 .. a + c : f - a \in 1 .. c /\ a + (f - a) = f
      BY <1>1
    <3> QED
      BY <3>1, <3>2
  <2>3. (\A f \in l + 1 .. a + c : r[f].opt # b) <=>
          /\ \A f \in l + 1 .. a : r[f].opt # b
          /\ \A f \in a + 1 .. a + c : r[f].opt # b
    BY <1>1
  <2>4. (\A f \in l + 1 .. a : r[f].opt # b) <=> (\A f \in l + 1 .. a : s[f].opt # b)
    BY <1>1
  <2>5. r[l] = s[l] /\ l \in 1 .. a + c
    BY <1>1
  <2> QED
    BY <2>1, <2>2, <2>3, <2>4, <2>5 DEF LastAt
<1>3. ASSUME NEW e \in 1 .. c
      PROVE  LastAt(r, a + c, b, a + e) <=> LastAt(t, c, b, e)
  <2>1. (\A f \in a + e + 1 .. a + c : r[f].opt # b) <=> (\A f \in e + 1 .. c : t[f].opt # b)
    <3>1. ASSUME NEW f \in a + e + 1 .. a + c
          PROVE  f - a \in e + 1 .. c /\ r[f] = t[f - a]
      <4>1. f - a \in e + 1 .. c /\ f - a \in 1 .. c /\ a + (f - a) = f
        BY <1>1
      <4>2. r[a + (f - a)] = t[f - a]
        BY <1>1, <4>1
      <4> QED
        BY <4>1, <4>2
    <3>2. ASSUME NEW f \in e + 1 .. c
          PROVE  a + f \in a + e + 1 .. a + c /\ r[a + f] = t[f]
      BY <1>1
    <3> QED
      BY <3>1, <3>2
  <2>2. r[a + e] = t[e] /\ a + e \in 1 .. a + c
    BY <1>1
  <2> QED
    BY <2>1, <2>2 DEF LastAt
<1>4. ASSUME NEW l \in 1 .. a, LastAt(s, a, b, l)
      PROVE  Value(r, l) = Value(s, l)
  <2>1. s[l].opt = b /\ r[l] = s[l]
    BY <1>1, <1>4 DEF LastAt
  <2>2. CASE s[l].value # None
    BY <2>1, <2>2 DEF Value
  <2>3. CASE s[l].value = None
    <3>1. l < a
      BY <2>1, <2>3 DEF Followed, Valueless, a
    <3>2. r[l + 1] = s[l + 1]
      BY <1>1, <3>1
    <3> QED
      BY <2>1, <3>2 DEF Value
  <2> QED
    BY <2>2, <2>3
<1>5. ASSUME NEW e \in 1 .. c, LastAt(t, c, b, e)
      PROVE  Value(r, a + e) = Value(t, e)
  <2>1. r[a + e] = t[e] /\ t[e].opt = b
    BY <1>1, <1>5 DEF LastAt
  <2>2. CASE t[e].value # None
    BY <2>1, <2>2 DEF Value
  <2>3. CASE t[e].value = None
    <3>1. e < c
      BY <2>1, <2>3 DEF Followed, Valueless, c
    <3>2. r[a + (e + 1)] = t[e + 1] /\ a + (e + 1) = a + e + 1
      BY <1>1, <3>1
    <3> QED
      BY <2>1, <2>3, <3>2 DEF Value
  <2> QED
    BY <2>2, <2>3
<1>6. ASSUME Holds(t, c, b, v)
      PROVE  Holds(r, a + c, b, v)
  <2>1. PICK e \in 1 .. c : LastAt(t, c, b, e) /\ Value(t, e) = v
    BY <1>6 DEF Holds
  <2>2. LastAt(r, a + c, b, a + e) /\ Value(r, a + e) = v /\ a + e \in 1 .. a + c
    BY <1>1, <1>3, <1>5, <2>1
  <2> QED
    BY <2>2 DEF Holds
<1>7. ASSUME Occurrences(t, b) = {}, Holds(s, a, b, v)
      PROVE  Holds(r, a + c, b, v)
  <2>1. PICK l \in 1 .. a : LastAt(s, a, b, l) /\ Value(s, l) = v
    BY <1>7 DEF Holds
  <2>2. LastAt(r, a + c, b, l) /\ Value(r, l) = v /\ l \in 1 .. a + c
    BY <1>1, <1>2, <1>4, <1>7, <2>1
  <2> QED
    BY <2>2 DEF Holds
<1>8. ASSUME Holds(r, a + c, b, v)
      PROVE  Holds(t, c, b, v) \/ (Occurrences(t, b) = {} /\ Holds(s, a, b, v))
  <2>1. PICK l \in 1 .. a + c : LastAt(r, a + c, b, l) /\ Value(r, l) = v
    BY <1>8 DEF Holds
  <2>2. CASE l \in 1 .. a
    BY <1>2, <1>4, <2>1, <2>2 DEF Holds
  <2>3. CASE l \notin 1 .. a
    <3> DEFINE e == l - a
    <3>1. e \in 1 .. c /\ a + e = l
      BY <1>1, <2>3
    <3> HIDE DEF e
    <3>2. LastAt(t, c, b, e) /\ Value(t, e) = v
      BY <1>3, <1>5, <2>1, <3>1
    <3> QED
      BY <3>1, <3>2 DEF Holds
  <2> QED
    BY <2>2, <2>3
<1>9. Holds(r, a + c, b, v) <=> Holds(t, c, b, v) \/ (Occurrences(t, b) = {} /\ Holds(s, a, b, v))
  BY <1>6, <1>7, <1>8
<1> QED
  BY <1>9 DEF r, a, c

LEMMA HoldsNothing ==
  ASSUME NEW t, Len(t) \in Nat, NEW b, Occurrences(t, b) = {}, NEW v
  PROVE  ~Holds(t, Len(t), b, v)
  BY LastOccurs DEF Holds

LEMMA HoldsSomething ==
  ASSUME NEW t, Len(t) \in Nat, NEW b, Occurrences(t, b) # {}
  PROVE  \E v : Holds(t, Len(t), b, v)
<1>1. LastAt(t, Len(t), b, Max(Occurrences(t, b)))
  BY LastExists
<1>2. Max(Occurrences(t, b)) \in 1 .. Len(t)
  BY <1>1 DEF LastAt
<1> QED
  BY <1>1, <1>2 DEF Holds

LEMMA HoldsOnce ==
  ASSUME NEW t, NEW k \in Nat, NEW b, NEW v, NEW w, Holds(t, k, b, v), Holds(t, k, b, w)
  PROVE  v = w
  BY LastUnique DEF Holds

-----------------------------------------------------------------------------
(* If all options have their values in their own words, parsing keeps the  *)
(* last value of each, whatever it does to the order.                      *)
LEMMA TidyStays ==
  ASSUME NEW words \in Seq(AWord), NEW known \in OptionSets, Tidy(words)
  PROVE  Tidy(Getopt(words, known).argv)
<1> DEFINE r == Getopt(words, known).argv
<1>1. Within(words, r)
  BY GetoptFacts
<1> HIDE DEF r
<1>2. Tidy(r)
  BY <1>1 DEF Within, Tidy, Valueless
<1> QED
  BY <1>2 DEF r

LEMMA TidyFollowed ==
  ASSUME NEW words, Tidy(words)
  PROVE  Followed(words)
  BY DEF Tidy, Followed

SoFarKept(words, k, st) ==
  \A b \in Names, v \in Nat :
    Holds(st.options, Len(st.options), b, v) <=> Holds(words, k, b, v)

LEMMA KeptStep ==
  ASSUME NEW words \in Seq(AWord), Tidy(words), NEW known \in OptionSets,
         NEW k \in 0 .. Len(words) - 1, NEW st \in AState, NEW new,
         NEW w \in AWord, w = words[k + 1], Step(known, st, w, new),
         Drawn(words, k, st), SoFarKept(words, k, st)
  PROVE  SoFarKept(words, k + 1, new)
<1> SUFFICES ASSUME NEW b \in Names, NEW v \in Nat
             PROVE  Holds(new.options, Len(new.options), b, v) <=> Holds(words, k + 1, b, v)
  BY DEF SoFarKept
<1> DEFINE o == st.options
<1>1. k \in Nat /\ o \in Seq(AWord) /\ k + 1 \in 1 .. Len(words)
  BY DEF AState
<1>2. Holds(o, Len(o), b, v) <=> Holds(words, k, b, v)
  BY DEF SoFarKept
<1>3. Holds(words, k + 1, b, v) <=>
        IF w.opt = b THEN v = Value(words, k + 1) ELSE Holds(words, k, b, v)
  BY <1>1, HoldsStep
<1>4. ~Valueless(words, k + 1)
  BY <1>1 DEF Tidy
<1>5. CASE new.options = o /\ w.opt = "plain"
  BY <1>2, <1>3, <1>5, NameFacts
<1>6. CASE new.options = Append(o, w)
  <2> DEFINE t == <<w>>
  <2>1. t \in Seq(AWord) /\ Len(t) = 1 /\ t[1] = w
    OBVIOUS
  <2>2. Followed(t)
    BY <1>4, <2>1 DEF Followed, Valueless
  <2>3. Followed(o)
    BY <1>1 DEF Followed, Tidy, Valueless, Drawn
  <2>4. new.options = o \o t /\ Len(new.options) = Len(o) + 1
    BY <1>1, <1>6
  <2> HIDE DEF t, o
  <2>5. Holds(new.options, Len(new.options), b, v) <=>
          \/ Holds(t, 1, b, v)
          \/ Occurrences(t, b) = {} /\ Holds(o, Len(o), b, v)
    BY <1>1, <2>1, <2>2, <2>3, <2>4, HoldsConcat
  <2>6. Occurrences(t, b) = {} <=> w.opt # b
    BY <2>1 DEF Occurrences
  <2>7. Holds(t, 1, b, v) <=> w.opt = b /\ v = w.value
    <3>1. LastAt(t, 1, b, 1) <=> w.opt = b
      BY <2>1 DEF LastAt
    <3>2. w.opt = b => Value(t, 1) = w.value
      BY <1>4, <2>1 DEF Value, Valueless
    <3> QED
      BY <3>1, <3>2 DEF Holds
  <2>8. w.opt = b => Value(words, k + 1) = w.value
    BY <1>4 DEF Value, Valueless
  <2> QED
    BY <1>2, <1>3, <2>5, <2>6, <2>7, <2>8
<1> QED
  BY <1>5, <1>6 DEF Step, Taken, Moved, Wanting, Valued, Passed

LEMMA ValuesKept ==
  ASSUME NEW words \in Seq(AWord), Tidy(words), NEW known \in OptionSets
  PROVE  \A b \in Names, v \in Nat :
           Holds(Getopt(words, known).argv, Len(words), b, v) <=> Holds(words, Len(words), b, v)
<1> DEFINE s == Scan(words, known)
           n == Len(words)
           Right == {k \in 0 .. n : SoFarKept(words, k, s[k])}
<1>0. n \in Nat
  OBVIOUS
<1>1. 0 \in Right
  <2>1. s[0] = Fresh
    BY <1>0, ScanFacts
  <2>2. SoFarKept(words, 0, Fresh)
    BY DEF SoFarKept, Fresh, Holds
  <2> QED
    BY <1>0, <2>1, <2>2
<1>2. ASSUME NEW k \in 0 .. n - 1, k \in Right
      PROVE  k + 1 \in Right
  <2>1. /\ s[k] \in AState /\ words[k + 1] \in AWord
        /\ Step(known, s[k], words[k + 1], s[k + 1])
    BY <1>0, ScanNext
  <2>2. SoFarKept(words, k, s[k])
    BY <1>2
  <2>3. Drawn(words, k, s[k])
    BY <1>0, ScanTyped
  <2> HIDE DEF s
  <2>4. SoFarKept(words, k + 1, s[k + 1])
    BY <2>1, <2>2, <2>3, KeptStep
  <2> QED
    BY <2>4
<1> HIDE DEF Right
<1>3. n \in Right
  <2>1. \A k \in 0 .. n : k \in Right
    <3> HIDE DEF n
    <3> QED
      BY <1>0, <1>1, <1>2, StepByStep, Zenon
  <2> QED
    BY <1>0, <2>1
<1> DEFINE o == s[n].options
           p == s[n].plain
<1>4. /\ Scanned(words, known, n, s[n]) /\ Drawn(words, n, s[n]) /\ SoFarKept(words, n, s[n])
      /\ o \in Seq(AWord) /\ p \in Seq(AWord) /\ Getopt(words, known).argv = o \o p
      /\ Len(o \o p) = n
  <2>1. Drawn(words, n, s[n])
    BY <1>0, ScanTyped
  <2>2. SoFarKept(words, n, s[n])
    BY <1>3 DEF Right
  <2>3. /\ Scanned(words, known, n, s[n])
        /\ o \in Seq(AWord) /\ p \in Seq(AWord) /\ Getopt(words, known).argv = o \o p
        /\ Len(Getopt(words, known).argv) = n
    BY GetoptFacts, Zenon
  <2> HIDE DEF o, p, n, s
  <2> QED
    BY <2>1, <2>2, <2>3
<1>5. \A l \in 1 .. Len(p) : p[l].opt = "plain"
  BY <1>4 DEF Scanned
<1>6. Followed(p)
  BY <1>5, NameFacts DEF Followed, Valueless
<1>7. Followed(o)
  BY <1>4 DEF Followed, Tidy, Valueless, Drawn
<1>8. \A b \in Names, v \in Nat : Holds(o, Len(o), b, v) <=> Holds(words, n, b, v)
  BY <1>4 DEF SoFarKept
<1> HIDE DEF o, p, n
<1>9. Len(o) + Len(p) = n
  BY <1>4, Concatenated
<1> SUFFICES ASSUME NEW b \in Names, NEW v \in Nat
             PROVE  Holds(o \o p, n, b, v) <=> Holds(words, n, b, v)
  BY <1>4 DEF n
<1>10. Occurrences(p, b) = {}
  BY <1>5, NameFacts DEF Occurrences
<1>11. ~Holds(p, Len(p), b, v)
  <2>1. Len(p) \in Nat
    BY <1>4
  <2> QED
    BY <1>10, <2>1, HoldsNothing
<1>12. Holds(o \o p, Len(o) + Len(p), b, v) <=>
         \/ Holds(p, Len(p), b, v)
         \/ Occurrences(p, b) = {} /\ Holds(o, Len(o), b, v)
  BY <1>4, <1>6, <1>7, HoldsConcat
<1> QED
  BY <1>8, <1>9, <1>10, <1>11, <1>12

-----------------------------------------------------------------------------
(* argv after main's own loop; and the words main appends, with the first  *)
(* k estimates written into them.                                          *)
Base == Getopt(user, {"policy"}).argv
Mixed(k) ==
  [l \in 1 .. Len(chosen) |-> Appended(chosen[l], IF l <= k THEN est[l] ELSE 10)]

Before == {"parse", "exited", "select", "selected"}
Initialising == {"init10", "init"}

OTypes ==
  /\ opc \in {"parse", "select", "selected", "init10", "estimate", "init", "run",
              "exited", "tuned", "crashed"}
  /\ user \in Seq(AWord) /\ argv \in Seq(AWord)
  /\ names \in Seq(Names \cup {"unknown"}) /\ Len(names) <= MaxNames
  /\ tune \in BOOLEAN /\ auto \in BOOLEAN
  /\ token \in 0 .. Len(names)
  /\ rounds \in [Names -> Nat]
  /\ est \in Seq(Estimates)
  /\ timed \subseteq Names \X Nat

(* Which phases an option leads to, and how far the loops have come.       *)
OPhases ==
  /\ opc \in {"init10", "estimate", "tuned", "crashed"} => tune \/ auto
  /\ opc \in {"init", "run"} => ~tune
  /\ opc = "tuned" => tune
  /\ opc \in Initialising => i \in 0 .. NumInits
  /\ opc = "estimate" => i \in 0 .. Len(chosen)
  /\ opc \in {"run", "tuned"} => i = 0
  /\ opc = "crashed" => i \in 0 .. Len(chosen)
  /\ opc \in Before \cup {"init10"} => est = <<>>
  /\ opc = "estimate" => Len(est) = i
  /\ opc = "tuned" => Len(est) = Len(chosen)
  /\ opc \in {"init", "run"} /\ auto => Len(est) = Len(chosen)

(* The names kept so far are the known ones among those consumed.          *)
KnownIn(all) == {k \in 1 .. Len(all) : all[k] \in Names}
Kept(list, all, m, t) ==
  \E place \in [1 .. m -> KnownIn(all)] :
    /\ \A k, l \in 1 .. m : k < l => place[k] < place[l]
    /\ KnownIn(all) \cap 1 .. t = {place[k] : k \in 1 .. m}
    /\ \A k \in 1 .. m : list[k] = all[place[k]]

OSelection ==
  /\ opc \in {"parse", "exited"} => chosen = <<>> /\ token = 0 /\ i = 0
  /\ opc = "select" =>
       /\ i \in 0 .. token /\ Len(chosen) \in {i, i + 1}
       /\ chosen \in Seq(Names \cup {"none"})
       /\ Kept(chosen, names, i, token)
  /\ opc = "selected" => i \in 0 .. Len(names)
  /\ opc \notin {"parse", "exited", "select"} =>
       /\ chosen \in Seq(Names) /\ Len(chosen) <= Len(Registry) + MaxNames
       /\ IF names = <<>> THEN chosen = Registry ELSE Kept(chosen, names, Len(chosen), Len(names))

(* What --tune's argv is.                                                  *)
OTune ==
  /\ tune /\ opc = "init10" => argv = Mixed(0)
  /\ tune /\ opc = "estimate" => argv = Mixed(i)
  /\ tune /\ opc = "tuned" => argv = Mixed(Len(chosen))

(* Initialised says that the inits that have been called have left the     *)
(* last value of every option of theirs in rounds.                         *)
Has(words, b, v) == Holds(words, Len(words), b, v)

OTimed ==
  NoneApart =>
    /\ opc \in Before \cup {"init10"} => Tidy(argv)
    /\ opc = "init10" =>
         /\ \A b \in Range(chosen) : Has(argv, b, 10)
         /\ \A j \in 1 .. i : \A b \in OptionsOf(Registry[j]) \cap Range(chosen) : rounds[b] = 10
    /\ opc = "estimate" => \A b \in Range(chosen) : rounds[b] = 10
    /\ timed \subseteq Names \X {10}

(* --auto either keeps argv as main has built it or crashes.               *)
Settled ==
  \A j \in 1 .. NumInits :
    Scan(Base \o Mixed(0), OptionsOf(Registry[j]))[Len(user) + Len(chosen)].plain = <<>>

Adding == auto /\ ~tune /\ chosen # <<>>

OAuto ==
  /\ opc = "parse" => argv = user
  /\ opc \in {"select", "selected"} => argv = Base
  /\ opc \notin {"parse", "exited"} => Base \in Seq(AWord) /\ Len(Base) = Len(user)
  /\ Adding /\ opc = "init10" =>
       \/ Stuck(argv) /\ Len(argv) = Len(user) + Len(chosen)
       \/ /\ argv = Base \o Mixed(0)
          /\ \A j \in 1 .. i :
               Scan(argv, OptionsOf(Registry[j]))[Len(user) + Len(chosen)].plain = <<>>
  /\ Adding /\ opc = "estimate" =>
       /\ Len(argv) = Len(user) + Len(chosen)
       /\ \/ argv[Len(user) + Len(chosen)].opt = "plain" /\ i < Len(chosen)
          \/ argv = Base \o Mixed(i) /\ Settled
  /\ Adding /\ opc \in {"init", "run"} => argv = Base \o Mixed(Len(chosen)) /\ Settled

(* What a well-formed command line is parsed into, and that parsing it     *)
(* again leaves it so.                                                     *)
Agree(words) ==
  \A b \in Names, v \in Nat : Has(words, b, v) <=> Has(user, b, v)
Ready(words) ==
  /\ Followed(words) /\ Agree(words)
  /\ \/ Tidy(words)
     \/ \E k \in 0 .. Len(words) : Parted(words, k) /\ \A l \in 1 .. k - 1 : ~Valueless(words, l)

(* Benchmarks no word is about.                                            *)
Untouched(b) == Given(b) = {} /\ ~((tune \/ auto) /\ b \in Range(chosen))

OReady ==
  /\ WellFormed /\ opc \notin {"parse", "exited"} => Ready(Base)
  /\ WellFormed /\ ~Adding /\ ~tune /\ opc \in {"init10", "estimate", "init"} => Ready(argv)
  /\ \A b \in Names : Given(b) = {} /\ opc \in Before => Occurrences(argv, b) = {}
  /\ \A b \in Names :
       Untouched(b) /\ opc \in {"init10", "estimate", "init"} => Occurrences(argv, b) = {}

ORounds ==
  /\ opc \in Before => rounds = Default
  /\ \A b \in Names : Untouched(b) => rounds[b] = Default[b]
  /\ WellFormed /\ opc = "init" =>
       \A j \in 1 .. i : \A b \in OptionsOf(Registry[j]) : rounds[b] = Asked(b)
  /\ RoundsAsAsked

OInv ==
  /\ OTypes /\ OPhases /\ OSelection /\ OTune /\ OTimed /\ OAuto /\ OReady /\ ORounds

-----------------------------------------------------------------------------
(* Every benchmark is initialised by one of the inits, with options of its *)
(* own or the family's.                                                    *)
LEMMA RegistryFacts ==
  /\ Registry \in Seq(Names) /\ Len(Registry) \in Nat
  /\ NumInits \in 1 .. Len(Registry)
  /\ \A j \in 1 .. NumInits : Registry[j] \in Names /\ OptionsOf(Registry[j]) \in SUBSET Names
  /\ \A b \in Names : \E j \in 1 .. NumInits : b \in OptionsOf(Registry[j])
<1> DEFINE n == Len(Registry)
           own == n - Cardinality(Family)
<1>1. n \in Nat /\ Names = {Registry[j] : j \in 1 .. n} /\ Registry \in Seq(Names)
  <2>1. Registry \in Seq(STRING)
    BY OptionsAssumption
  <2>2. n \in Nat /\ DOMAIN Registry = 1 .. n
    BY <2>1
  <2>3. Names = {Registry[j] : j \in 1 .. n}
    BY <2>2 DEF Names, Range
  <2>4. Registry \in Seq(Names)
    <3>1. \A j \in 1 .. n : Registry[j] \in Names
      BY <2>3
    <3> QED
      BY <2>1, <3>1
  <2> QED
    BY <2>2, <2>3, <2>4
<1>2. IsFiniteSet(Names)
  <2>1. Registry \in Surjection(1 .. n, Names)
    BY <1>1 DEF Surjection
  <2>2. IsFiniteSet(1 .. n)
    BY <1>1, FS_Interval
  <2> QED
    BY <2>1, <2>2, FS_Surjection
<1>3. Cardinality(Family) \in 1 .. n
  <2>1. Family \in SUBSET Names /\ Family # {} /\ Cardinality(Names) = n
    BY OptionsAssumption
  <2>2. IsFiniteSet(Family) /\ Cardinality(Family) <= Cardinality(Names)
    BY <1>2, <2>1, FS_Subset
  <2>3. Cardinality(Family) \in Nat
    BY <2>2, FS_CardinalityType
  <2>4. Cardinality(Family) # 0
    BY <2>1, <2>2, FS_EmptySet
  <2> HIDE DEF n
  <2> QED
    BY <1>1, <2>1, <2>2, <2>3, <2>4
<1>4. NumInits = own + 1 /\ own \in 0 .. n - 1
  BY <1>1, <1>3 DEF NumInits
<1>5. Family = {Registry[j] : j \in own + 1 .. n} /\ Family \subseteq Names
  BY OptionsAssumption
<1>6. \A b \in Names : \E j \in 1 .. NumInits : b \in OptionsOf(Registry[j])
  <2> TAKE b \in Names
  <2>1. PICK j \in 1 .. n : b = Registry[j]
    BY <1>1
  <2> HIDE DEF own, n
  <2>2. CASE j <= own
    <3>1. j \in 1 .. NumInits /\ b \in OptionsOf(b)
      BY <1>1, <1>4, <2>1, <2>2 DEF OptionsOf
    <3> QED
      BY <2>1, <3>1
  <2>3. CASE j > own
    <3>1. j \in own + 1 .. n /\ own + 1 \in own + 1 .. n /\ NumInits \in 1 .. NumInits
      BY <1>1, <1>4, <2>3
    <3>2. b \in Family /\ Registry[NumInits] \in Family
      BY <1>4, <1>5, <2>1, <3>1
    <3> QED
      BY <3>1, <3>2 DEF OptionsOf
  <2> QED
    BY <1>1, <1>4, <2>2, <2>3
<1>7. \A j \in 1 .. NumInits : Registry[j] \in Names /\ OptionsOf(Registry[j]) \in SUBSET Names
  BY <1>1, <1>4, <1>5 DEF OptionsOf
<1>8. NumInits \in 1 .. n
  <2> HIDE DEF own, n
  <2> QED
    BY <1>1, <1>4
<1> QED
  BY <1>1, <1>6, <1>7, <1>8

(* The words main appends.                                                 *)
LEMMA MixedFacts ==
  ASSUME OTypes, chosen \in Seq(Names), NEW k \in Nat, k <= Len(est)
  PROVE  /\ Len(chosen) \in Nat
         /\ Mixed(k) \in Seq(AWord) /\ Len(Mixed(k)) = Len(chosen)
         /\ \A l \in 1 .. Len(chosen) :
              /\ Mixed(k)[l] = Appended(chosen[l], IF l <= k THEN est[l] ELSE 10)
              /\ Mixed(k)[l].opt = chosen[l] /\ Mixed(k)[l].opt \in Names
              /\ Mixed(k)[l].value = IF l <= k THEN est[l] ELSE 10
              /\ Mixed(k)[l].value \in Nat /\ Mixed(k)[l].heap
              /\ Mixed(k)[l].opt # "plain"
<1> DEFINE m == Len(chosen)
           W == [l \in 1 .. m |-> Appended(chosen[l], IF l <= k THEN est[l] ELSE 10)]
<1>1. m \in Nat /\ est \in Seq(Nat) /\ chosen \in Seq(Names)
  <2>1. Estimates \subseteq Nat
    BY OptionsAssumption
  <2>2. est \in Seq(Estimates) /\ Len(est) \in Nat
    BY DEF OTypes
  <2>3. \A l \in 1 .. Len(est) : est[l] \in Estimates
    BY <2>2
  <2>4. \A l \in 1 .. Len(est) : est[l] \in Nat
    BY <2>1, <2>3
  <2> QED
    BY <2>2, <2>4
<1>2. ASSUME NEW l \in 1 .. m
      PROVE  /\ chosen[l] \in Names /\ chosen[l] # "plain"
             /\ (IF l <= k THEN est[l] ELSE 10) \in Nat
             /\ Appended(chosen[l], IF l <= k THEN est[l] ELSE 10) \in AWord
  <2>1. chosen[l] \in Names /\ chosen[l] # "plain"
    BY <1>1, NameFacts
  <2>2. (IF l <= k THEN est[l] ELSE 10) \in Nat
    <3>1. l <= k => l \in 1 .. Len(est)
      BY <1>1
    <3> QED
      BY <1>1, <3>1
  <2>3. Appended(chosen[l], IF l <= k THEN est[l] ELSE 10) \in AWord
    BY <2>1, <2>2 DEF Appended, Word, AWord
  <2> QED
    BY <2>1, <2>2, <2>3
<1>3. W \in Seq(AWord) /\ Len(W) = m
  BY <1>1, <1>2
<1>4. Mixed(k) = W
  BY DEF Mixed
<1>5. \A l \in 1 .. m :
        /\ W[l] = Appended(chosen[l], IF l <= k THEN est[l] ELSE 10)
        /\ W[l].opt = chosen[l] /\ W[l].opt \in Names
        /\ W[l].value = IF l <= k THEN est[l] ELSE 10
        /\ W[l].value \in Nat /\ W[l].heap /\ W[l].opt # "plain"
  BY <1>2 DEF Appended, Word
<1> QED
  BY <1>1, <1>3, <1>4, <1>5

(* The rounds after one benchmark's getopt_long loop.                      *)
LEMMA ParsedTypes ==
  ASSUME NEW words \in Seq(AWord), NEW known \in SUBSET Names, rounds \in [Names -> Nat]
  PROVE  LET after == RoundsAfter(Getopt(words, known).found)
         IN  /\ after \in [Names -> Nat]
             /\ \A b \in Names : b \notin known \/ Occurrences(words, b) = {} => after[b] = rounds[b]
<1> DEFINE found == Getopt(words, known).found
           after == RoundsAfter(found)
<1>0. known \in OptionSets
  BY DEF OptionSets
<1>1. /\ found \in Seq(AFind) /\ \A f \in 1 .. Len(found) : found[f].opt \in known
      /\ Drawn(words, Len(words), Scan(words, known)[Len(words)])
      /\ found = Scan(words, known)[Len(words)].found
  <2>1. Len(words) \in 0 .. Len(words)
    OBVIOUS
  <2>2. Drawn(words, Len(words), Scan(words, known)[Len(words)])
    BY <1>0, <2>1, ScanTyped
  <2> QED
    BY <1>0, <2>2, GetoptFacts
<1>2. \A f \in 1 .. Len(found) : \E l \in 1 .. Len(words) : found[f].opt = words[l].opt
  BY <1>1 DEF Drawn
<1> HIDE DEF found
<1>3. \A b \in Names : after[b] = IF Occurrences(found, b) = {} THEN rounds[b] ELSE LastOf(found, b).n
  BY DEF RoundsAfter
<1>4. ASSUME NEW b \in Names, Occurrences(found, b) # {}
      PROVE  LastOf(found, b).n \in Nat /\ b \in known /\ Occurrences(words, b) # {}
  <2> DEFINE l == Max(Occurrences(found, b))
  <2>1. LastAt(found, Len(found), b, l) /\ LastOf(found, b) = found[l]
    <3>1. Len(found) \in Nat
      BY <1>1
    <3> QED
      BY <1>4, <3>1, LastExists
  <2> HIDE DEF l
  <2>2. l \in 1 .. Len(found) /\ found[l].opt = b
    BY <2>1 DEF LastAt
  <2>3. found[l] \in AFind
    BY <1>1, <2>2
  <2>4. PICK e \in 1 .. Len(words) : words[e].opt = b
    BY <1>2, <2>2
  <2> QED
    BY <1>1, <2>1, <2>2, <2>3, <2>4 DEF AFind, Occurrences
<1>5. after \in [Names -> Nat]
  <2>1. after = [b \in Names |-> IF Occurrences(found, b) = {} THEN rounds[b] ELSE LastOf(found, b).n]
    BY DEF RoundsAfter
  <2> QED
    BY <1>4, <2>1
<1>6. \A b \in Names : b \notin known \/ Occurrences(words, b) = {} => after[b] = rounds[b]
  BY <1>3, <1>4
<1> QED
  BY <1>5, <1>6 DEF found

LEMMA ParsedRounds ==
  ASSUME NEW words \in Seq(AWord), NEW known \in SUBSET Names, Followed(words),
         NEW b \in known, NEW v \in Nat, Has(words, b, v)
  PROVE  RoundsAfter(Getopt(words, known).found)[b] = v
<1> DEFINE found == Getopt(words, known).found
<1>1. Finds(found, b, v) /\ found \in Seq(AFind)
  <2>1. Finds(found, b, v)
    BY FoundValues DEF Has
  <2>2. known \in OptionSets
    BY DEF OptionSets
  <2> QED
    BY <2>1, <2>2, GetoptFacts
<1> HIDE DEF found
<1>2. PICK l \in 1 .. Len(found) : LastAt(found, Len(found), b, l) /\ found[l].n = v
  BY <1>1 DEF Finds
<1>3. Len(found) \in Nat
  BY <1>1
<1>4. Occurrences(found, b) # {}
  BY <1>2, <1>3, LastOccurs
<1>5. LastOf(found, b) = found[l]
  <2>1. /\ LastAt(found, Len(found), b, Max(Occurrences(found, b)))
        /\ LastOf(found, b) = found[Max(Occurrences(found, b))]
    BY <1>3, <1>4, LastExists
  <2> QED
    BY <1>2, <1>3, <2>1, LastUnique
<1> QED
  BY <1>2, <1>4, <1>5 DEF RoundsAfter, found

-----------------------------------------------------------------------------
(* The command line stays, and so does what depends on it only.            *)
LEMMA InputStays ==
  ASSUME [Next]_ovars
  PROVE  UNCHANGED input
  BY DEF Next, ovars, input, ParseOptions, SelectAll, Select, SelectDone, Prepare, InitBenchmark,
         InitDone, Estimate, FreeUsersWord, EstimatesDone, Ended

LEMMA Fixed ==
  ASSUME UNCHANGED input
  PROVE  /\ user' = user /\ names' = names /\ tune' = tune /\ auto' = auto
         /\ Base' = Base /\ Known' = Known
         /\ (NoneApart' <=> NoneApart) /\ (WellFormed' <=> WellFormed)
         /\ \A b : Given(b)' = Given(b)
<1>1. user' = user /\ names' = names /\ tune' = tune /\ auto' = auto
  BY DEF input
<1>2. Base' = Base /\ Known' = Known
  BY <1>1 DEF Base, Known
<1>3. NoneApart' <=> NoneApart
  BY <1>1 DEF NoneApart, Apart
<1>4. WellFormed' <=> WellFormed
  BY <1>1 DEF WellFormed, Apart
<1>5. \A b : Given(b)' = Given(b)
  BY <1>1 DEF Given
<1> QED
  BY <1>1, <1>2, <1>3, <1>4, <1>5

LEMMA TenMixed ==
  TenRounds = Mixed(0)
<1>1. \A l \in 1 .. Len(chosen) : (IF l <= 0 THEN est[l] ELSE 10) = 10
  OBVIOUS
<1> QED
  BY <1>1 DEF TenRounds, Mixed

LEMMA InitOInv ==
  ASSUME Init
  PROVE  OInv
<1>1. user \in Seq(AWord)
  <2>1. Words \subseteq AWord
    <3>1. \A n \in Numbers : n \in Nat
      BY OptionsAssumption
    <3>2. None \notin Nat /\ 0 \in Nat
      BY NameFacts
    <3>3. \A n \in Nat : Plain(n) \in AWord
      BY <3>2 DEF Plain, Word, AWord
    <3>4. Word("policy", None, FALSE) \in AWord
      BY DEF Word, AWord
    <3>5. [opt : Names, value : Numbers \cup {None}, heap : {FALSE}] \subseteq AWord
      BY <3>1, NameFacts DEF AWord
    <3>6. {Plain(n) : n \in Numbers} \subseteq AWord
      BY <3>1, <3>3
    <3>7. Pair \in AWord
      BY <3>2, <3>3 DEF Pair
    <3> QED
      BY <3>4, <3>5, <3>6, <3>7 DEF Words
  <2>2. PICK m \in 0 .. MaxWords : user \in [1 .. m -> Words]
    BY DEF Init, SeqOf
  <2>3. m \in Nat
    BY OptionsAssumption
  <2> QED
    BY <2>1, <2>2, <2>3
<1>2. names \in Seq(Names \cup {"unknown"}) /\ Len(names) <= MaxNames
  <2>1. PICK m \in 0 .. MaxNames : names \in [1 .. m -> Names \cup {"unknown"}]
    BY DEF Init, SeqOf
  <2>2. m \in Nat
    BY OptionsAssumption
  <2> QED
    BY <2>1, <2>2
<1>3. /\ opc = "parse" /\ argv = user /\ chosen = <<>> /\ token = 0 /\ i = 0
      /\ rounds = Default /\ est = <<>> /\ timed = {} /\ tune \in BOOLEAN /\ auto \in BOOLEAN
  BY DEF Init
<1>4. OTypes
  <2>1. Default \in [Names -> Nat] /\ Len(names) \in Nat
    BY <1>2, OptionsAssumption
  <2> QED
    BY <1>1, <1>2, <1>3, <2>1 DEF OTypes
<1>5. OPhases
  BY <1>3 DEF OPhases, Initialising, Before
<1>6. OSelection
  BY <1>3 DEF OSelection
<1>7. OTune
  BY <1>3 DEF OTune
<1>8. OTimed
  <2>1. NoneApart => Tidy(user)
    BY NameFacts DEF NoneApart, Apart, Tidy, Valueless
  <2> QED
    BY <1>3, <2>1 DEF OTimed
<1>9. OAuto
  BY <1>3 DEF OAuto
<1>10. OReady
  BY <1>3 DEF OReady, Given
<1>11. ORounds
  BY <1>3 DEF ORounds, RoundsAsAsked
<1> QED
  BY <1>4, <1>5, <1>6, <1>7, <1>8, <1>9, <1>10, <1>11 DEF OInv

-----------------------------------------------------------------------------
LEMMA OTypesStep ==
  ASSUME OInv, [Next]_ovars
  PROVE  OTypes'
<1> USE DEF OTypes
<1>0. OTypes /\ OSelection /\ OPhases
  BY DEF OInv
<1>1. CASE ParseOptions
  <2>1. Getopt(argv, {"policy"}).argv \in Seq(AWord)
    <3>1. {"policy"} \in OptionSets
      BY DEF OptionSets
    <3> QED
      BY <1>0, <3>1, GetoptFacts
  <2> QED
    BY <1>0, <1>1, <2>1 DEF ParseOptions, input
<1>2. CASE SelectAll
  BY <1>0, <1>2 DEF SelectAll, input
<1>3. CASE Select
  BY <1>0, <1>3 DEF Select, input
<1>4. CASE SelectDone
  BY <1>0, <1>4 DEF SelectDone, input
<1>5. CASE Prepare
  <2>1. chosen \in Seq(Names) /\ est = <<>>
    BY <1>0, <1>5 DEF Prepare, OSelection, OPhases, Before
  <2>2. TenRounds \in Seq(AWord)
    BY <1>0, <2>1, MixedFacts, TenMixed
  <2>3. argv \o TenRounds \in Seq(AWord)
    BY <1>0, <2>2
  <2> QED
    BY <1>0, <1>5, <2>2, <2>3 DEF Prepare, input
<1>6. CASE InitBenchmark
  <2> DEFINE known == OptionsOf(Registry[i + 1])
  <2>1. known \in SUBSET Names /\ known \in OptionSets
    <3>1. i + 1 \in 1 .. NumInits
      <4>1. opc \in Initialising /\ i < NumInits
        BY <1>6 DEF InitBenchmark, Initialising
      <4>2. i \in 0 .. NumInits /\ NumInits \in Nat
        BY <1>0, <4>1, RegistryFacts DEF OPhases
      <4> QED
        BY <4>1, <4>2
    <3>2. known \in SUBSET Names
      BY <3>1, RegistryFacts
    <3> QED
      BY <3>2 DEF OptionSets
  <2> HIDE DEF known
  <2>2. Getopt(argv, known).argv \in Seq(AWord)
    BY <1>0, <2>1, GetoptFacts
  <2>3. RoundsAfter(Getopt(argv, known).found) \in [Names -> Nat]
    BY <1>0, <2>1, ParsedTypes
  <2>4. argv' = Getopt(argv, known).argv /\ rounds' = RoundsAfter(Getopt(argv, known).found)
    BY <1>6 DEF InitBenchmark, known
  <2> QED
    BY <1>0, <1>6, <2>2, <2>3, <2>4 DEF InitBenchmark, input
<1>7. CASE InitDone
  BY <1>0, <1>7 DEF InitDone, input
<1>8. CASE Estimate
  <2>1. chosen \in Seq(Names) /\ i \in Nat /\ i + 1 \in 1 .. Len(chosen)
    BY <1>0, <1>8 DEF Estimate, OSelection, OPhases
  <2>2. chosen[i + 1] \in Names /\ chosen[i + 1] # "plain"
    BY <2>1, NameFacts
  <2>3. PICK n \in Estimates :
          argv' = [argv EXCEPT ![Place] = Appended(chosen[i + 1], n)] /\ est' = Append(est, n)
    BY <1>8 DEF Estimate
  <2>4. n \in Nat
    BY OptionsAssumption
  <2>5. Appended(chosen[i + 1], n) \in AWord
    BY <2>2, <2>4 DEF Appended, Word, AWord
  <2>6. argv' \in Seq(AWord)
    BY <1>0, <2>3, <2>5, Replacing
  <2>7. est' \in Seq(Estimates)
    BY <1>0, <2>3
  <2>8. timed' \subseteq Names \X Nat
    BY <1>0, <1>8, <2>2 DEF Estimate
  <2> QED
    BY <1>0, <1>8, <2>6, <2>7, <2>8 DEF Estimate, input
<1>9. CASE FreeUsersWord
  BY <1>0, <1>9 DEF FreeUsersWord, input
<1>10. CASE EstimatesDone
  BY <1>0, <1>10 DEF EstimatesDone, input
<1>11. CASE UNCHANGED ovars
  BY <1>0, <1>11 DEF ovars
<1> QED
  BY <1>1, <1>2, <1>3, <1>4, <1>5, <1>6, <1>7, <1>8, <1>9, <1>10, <1>11 DEF Next, Ended

LEMMA OPhasesStep ==
  ASSUME OInv, [Next]_ovars
  PROVE  OPhases'
<1> USE DEF OPhases, Before, Initialising
<1>0. OTypes /\ OSelection /\ OPhases /\ NumInits \in Nat /\ NumInits' = NumInits
  BY RegistryFacts DEF OInv, NumInits
<1>1. CASE ParseOptions
  BY <1>0, <1>1 DEF ParseOptions, input
<1>2. CASE SelectAll
  BY <1>0, <1>2 DEF SelectAll, input
<1>3. CASE Select
  BY <1>0, <1>3 DEF Select, input
<1>4. CASE SelectDone
  BY <1>0, <1>4 DEF SelectDone, input
<1>5. CASE Prepare
  BY <1>0, <1>5 DEF Prepare, input
<1>6. CASE InitBenchmark
  BY <1>0, <1>6 DEF InitBenchmark, input
<1>7. CASE InitDone
  <2>1. Len(chosen) \in Nat
    BY <1>0, <1>7 DEF OSelection, InitDone
  <2> QED
    BY <1>0, <1>7, <2>1 DEF InitDone, input
<1>8. CASE Estimate
  <2>1. chosen \in Seq(Names) /\ i \in Nat /\ i + 1 \in 0 .. Len(chosen)
    BY <1>0, <1>8 DEF Estimate, OSelection
  <2>2. Len(est') = Len(est) + 1
    BY <1>0, <1>8 DEF Estimate, OTypes
  <2> QED
    BY <1>0, <1>8, <2>1, <2>2 DEF Estimate, input
<1>9. CASE FreeUsersWord
  BY <1>0, <1>9 DEF FreeUsersWord, input
<1>10. CASE EstimatesDone
  BY <1>0, <1>10 DEF EstimatesDone, input
<1>11. CASE UNCHANGED ovars
  BY <1>0, <1>11 DEF ovars
<1> QED
  BY <1>1, <1>2, <1>3, <1>4, <1>5, <1>6, <1>7, <1>8, <1>9, <1>10, <1>11 DEF Next, Ended

(* One more name: it is kept if it is known.                               *)
LEMMA KeptMore ==
  ASSUME NEW all \in Seq(Names \cup {"unknown"}), NEW list, NEW more,
         NEW m \in Nat, NEW t \in Nat, t < Len(all), Kept(list, all, m, t),
         \A k \in 1 .. m : more[k] = list[k],
         all[t + 1] \in Names => more[m + 1] = all[t + 1]
  PROVE  Kept(more, all, IF all[t + 1] \in Names THEN m + 1 ELSE m, t + 1)
<1> DEFINE K == KnownIn(all)
<1>0. Len(all) \in Nat /\ K \subseteq Nat
  BY DEF KnownIn
<1>1. PICK place \in [1 .. m -> K] :
        /\ \A k, l \in 1 .. m : k < l => place[k] < place[l]
        /\ K \cap 1 .. t = {place[k] : k \in 1 .. m}
        /\ \A k \in 1 .. m : list[k] = all[place[k]]
  BY DEF Kept
<1>2. CASE all[t + 1] \in Names
  <2> DEFINE last == m + 1
             next == [k \in 1 .. last |-> IF k = last THEN t + 1 ELSE place[k]]
  <2>1. t + 1 \in K
    BY <1>0, <1>2 DEF KnownIn
  <2> HIDE DEF K
  <2>2. next \in [1 .. last -> K]
    BY <2>1
  <2>3. \A k \in 1 .. m : k \in 1 .. last /\ next[k] = place[k] /\ place[k] \in 1 .. t
    BY <1>1
  <2>4. next[last] = t + 1 /\ last \in 1 .. last /\ \A k \in 1 .. last : k = last \/ k \in 1 .. m
    OBVIOUS
  <2> HIDE DEF next
  <2>5. ASSUME NEW k \in 1 .. last, NEW l \in 1 .. last, k < l
        PROVE  next[k] < next[l]
    <3>1. k \in 1 .. m
      BY <2>5
    <3>2. CASE l = last
      BY <2>3, <2>4, <3>1, <3>2
    <3>3. CASE l \in 1 .. m
      BY <1>1, <2>3, <2>5, <3>1, <3>3
    <3> QED
      BY <2>4, <3>2, <3>3
  <2>6. ASSUME NEW x \in K \cap 1 .. t + 1
        PROVE  \E k \in 1 .. last : x = next[k]
    <3>1. CASE x = t + 1
      BY <2>4, <3>1
    <3>2. CASE x # t + 1
      <4>1. x \in K \cap 1 .. t
        BY <3>2
      <4>2. PICK k \in 1 .. m : x = place[k]
        BY <1>1, <4>1
      <4> QED
        BY <2>3, <4>2
    <3> QED
      BY <3>1, <3>2
  <2>7. ASSUME NEW k \in 1 .. last
        PROVE  next[k] \in K \cap 1 .. t + 1
    <3>1. next[k] \in K
      BY <2>2
    <3>2. CASE k = last
      BY <2>4, <3>1, <3>2
    <3>3. CASE k \in 1 .. m
      BY <2>3, <3>1, <3>3
    <3> QED
      BY <2>4, <3>2, <3>3
  <2>8. K \cap 1 .. t + 1 = {next[k] : k \in 1 .. last}
    BY <2>6, <2>7
  <2>9. \A k \in 1 .. last : more[k] = all[next[k]]
    BY <1>1, <1>2, <2>3, <2>4
  <2>10. Kept(more, all, last, t + 1)
    BY <2>2, <2>5, <2>8, <2>9 DEF Kept, K
  <2> QED
    BY <1>2, <2>10
<1>3. CASE all[t + 1] \notin Names
  <2>1. K \cap 1 .. t + 1 = K \cap 1 .. t
    BY <1>3 DEF KnownIn
  <2>2. \A k \in 1 .. m : more[k] = all[place[k]]
    BY <1>1
  <2> HIDE DEF K
  <2>3. Kept(more, all, m, t + 1)
    BY <1>1, <2>1, <2>2 DEF Kept, K
  <2> QED
    BY <1>3, <2>3
<1> QED
  BY <1>2, <1>3

LEMMA KeptNone ==
  ASSUME NEW all, NEW list
  PROVE  Kept(list, all, 0, 0)
<1> DEFINE none == [k \in 1 .. 0 |-> 1]
<1>1. 1 .. 0 = {}
  OBVIOUS
<1>2. none \in [1 .. 0 -> KnownIn(all)] /\ {none[k] : k \in 1 .. 0} = {}
  BY <1>1
<1> HIDE DEF none
<1>3. KnownIn(all) \cap 1 .. 0 = {none[k] : k \in 1 .. 0}
  BY <1>1, <1>2
<1> QED
  BY <1>1, <1>2, <1>3, Zenon DEF Kept

LEMMA KeptSame ==
  ASSUME NEW all, NEW list, NEW m \in Nat, NEW t, Kept(list, all, m, t),
         NEW other, \A k \in 1 .. m : other[k] = list[k]
  PROVE  Kept(other, all, m, t)
<1>1. PICK place \in [1 .. m -> KnownIn(all)] :
        /\ \A k, l \in 1 .. m : k < l => place[k] < place[l]
        /\ KnownIn(all) \cap 1 .. t = {place[k] : k \in 1 .. m}
        /\ \A k \in 1 .. m : list[k] = all[place[k]]
  BY DEF Kept
<1>2. \A k \in 1 .. m : other[k] = all[place[k]]
  BY <1>1
<1> QED
  BY <1>1, <1>2 DEF Kept

LEMMA Wrap ==
  ASSUME NEW m \in Nat, m < Unsigned
  PROVE  (((m - 1) % Unsigned) + 1) % Unsigned = m /\ (m + 1 < Unsigned => (m + 1) % Unsigned = m + 1)
<1>1. Unsigned \in Nat /\ Unsigned > 0
  BY OptionsAssumption
<1>2. CASE m = 0
  <2>1. (0 - 1) % Unsigned = Unsigned - 1
    BY <1>1
  <2>2. Unsigned % Unsigned = 0 /\ (Unsigned - 1) + 1 = Unsigned
    BY <1>1
  <2>3. 1 < Unsigned => 1 % Unsigned = 1
    BY <1>1
  <2> QED
    BY <1>2, <2>1, <2>2, <2>3
<1>3. CASE m # 0
  <2>1. (m - 1) % Unsigned = m - 1
    BY <1>1, <1>3
  <2>2. m % Unsigned = m /\ (m - 1) + 1 = m
    BY <1>1
  <2>3. m + 1 < Unsigned => (m + 1) % Unsigned = m + 1
    BY <1>1
  <2> QED
    BY <2>1, <2>2, <2>3
<1> QED
  BY <1>2, <1>3

LEMMA OSelectionStep ==
  ASSUME OInv, [Next]_ovars
  PROVE  OSelection'
<1>0. /\ OTypes /\ OSelection /\ OPhases /\ names' = names
      /\ names \in Seq(Names \cup {"unknown"}) /\ Len(names) \in Nat /\ Len(names) <= MaxNames
      /\ MaxNames \in Nat /\ token \in 0 .. Len(names)
  <2>1. UNCHANGED input
    BY InputStays
  <2>2. names' = names
    BY <2>1, Fixed
  <2>3. OTypes /\ OSelection /\ OPhases
    BY DEF OInv
  <2>4. MaxNames \in Nat
    BY OptionsAssumption
  <2>5. /\ names \in Seq(Names \cup {"unknown"}) /\ Len(names) <= MaxNames
        /\ token \in 0 .. Len(names)
    BY <2>3 DEF OTypes
  <2>6. Len(names) \in Nat
    BY <2>5
  <2> QED
    BY <2>2, <2>3, <2>4, <2>5, <2>6
<1> USE DEF OSelection
<1>1. CASE ParseOptions
  <2>1. chosen' = <<>> /\ token' = 0 /\ i' = 0 /\ opc' \in {"select", "exited"}
    BY <1>0, <1>1 DEF ParseOptions
  <2> QED
    BY <2>1, KeptNone
<1>2. CASE SelectAll
  <2>1. chosen' = Registry /\ opc' = "selected" /\ names = <<>> /\ i' = i /\ token' = token
    BY <1>2 DEF SelectAll
  <2>2. i \in 0 .. Len(names)
    BY <1>0, <1>2 DEF SelectAll
  <2> QED
    BY <1>0, <2>1, <2>2, RegistryFacts
<1>3. CASE Select
  <2> DEFINE known == names[token + 1] \in Names
             m == IF known THEN i + 1 ELSE i
             word == IF known THEN names[token + 1] ELSE "none"
  <2>1. /\ i \in 0 .. token /\ Len(chosen) \in {i, i + 1}
        /\ chosen \in Seq(Names \cup {"none"}) /\ Kept(chosen, names, i, token)
        /\ token < Len(names) /\ token \in Nat /\ i \in Nat /\ opc = "select"
    BY <1>0, <1>3 DEF Select
  <2>2. /\ chosen' = [k \in 1 .. i + 1 |-> IF k <= i THEN chosen[k] ELSE word]
        /\ i' = ((IF known THEN i ELSE (i - 1) % Unsigned) + 1) % Unsigned
        /\ token' = token + 1 /\ opc' = "select"
    BY <1>3, <2>1 DEF Select
  <2>3. i < Unsigned /\ i + 1 < Unsigned
    BY <1>0, <2>1, OptionsAssumption
  <2>4. (((i - 1) % Unsigned) + 1) % Unsigned = i /\ (i + 1) % Unsigned = i + 1
    BY <2>1, <2>3, Wrap
  <2>5. word \in Names \cup {"none"} /\ (known => word = names[token + 1])
    OBVIOUS
  <2> HIDE DEF word, known
  <2>6. i' = m
    BY <2>2, <2>4
  <2>7. \A k \in 1 .. i : chosen[k] \in Names \cup {"none"}
    BY <2>1
  <2>8. chosen' \in Seq(Names \cup {"none"}) /\ Len(chosen') = i + 1
    BY <2>1, <2>2, <2>5, <2>7
  <2>9. chosen'[i + 1] = word /\ \A k \in 1 .. i : chosen'[k] = chosen[k]
    BY <2>1, <2>2
  <2>10. Kept(chosen', names, m, token + 1)
    <3>1. names[token + 1] \in Names => chosen'[i + 1] = names[token + 1]
      BY <2>5, <2>9 DEF known
    <3> DEFINE a == chosen'
               b == names
               c == i
               d == token
    <3>2. /\ b \in Seq(Names \cup {"unknown"}) /\ c \in Nat /\ d \in Nat /\ d < Len(b)
          /\ Kept(chosen, b, c, d) /\ \A k \in 1 .. c : a[k] = chosen[k]
          /\ b[d + 1] \in Names => a[c + 1] = b[d + 1]
      BY <1>0, <2>1, <2>9, <3>1
    <3> HIDE DEF a, b, c, d
    <3>3. Kept(a, b, IF b[d + 1] \in Names THEN c + 1 ELSE c, d + 1)
      BY <3>2, KeptMore
    <3> QED
      BY <3>3 DEF a, b, c, d, known
  <2>11. i' \in 0 .. token' /\ Len(chosen') \in {i', i' + 1}
    BY <2>1, <2>2, <2>6, <2>8
  <2> QED
    BY <1>0, <2>2, <2>6, <2>8, <2>10, <2>11
<1>4. CASE SelectDone
  <2>1. /\ i \in 0 .. token /\ Len(chosen) \in {i, i + 1}
        /\ chosen \in Seq(Names \cup {"none"}) /\ Kept(chosen, names, i, token)
        /\ token = Len(names) /\ i \in Nat /\ names # <<>>
    BY <1>0, <1>4 DEF SelectDone
  <2>2. /\ chosen' = SubSeq(chosen, 1, i) /\ i' = i /\ token' = token /\ opc' = "selected"
    BY <1>4 DEF SelectDone
  <2>3. Len(chosen') = i /\ \A k \in 1 .. i : chosen'[k] = chosen[k]
    BY <2>1, <2>2
  <2>4. Kept(chosen', names, i, token)
    BY <2>1, <2>3, KeptSame
  <2>5. chosen' \in Seq(Names)
    <3>1. PICK place \in [1 .. i -> KnownIn(names)] : \A k \in 1 .. i : chosen[k] = names[place[k]]
      BY <2>1 DEF Kept
    <3>2. \A k \in 1 .. i : chosen'[k] \in Names
      BY <2>3, <3>1 DEF KnownIn
    <3>3. chosen' \in Seq(Names \cup {"none"})
      BY <2>1, <2>2
    <3> QED
      BY <2>3, <3>2, <3>3
  <2>6. Len(chosen') <= Len(Registry) + MaxNames
    BY <1>0, <2>1, <2>3, RegistryFacts
  <2>7. Kept(chosen', names', Len(chosen'), Len(names'))
    BY <1>0, <2>1, <2>3, <2>4
  <2> QED
    BY <1>0, <2>1, <2>2, <2>5, <2>6, <2>7
<1>5. ASSUME UNCHANGED <<chosen, token>>, opc \notin {"parse", "exited", "select"},
             opc' \notin {"parse", "exited", "select", "selected"} \/ UNCHANGED <<opc, i>>
      PROVE  OSelection'
  BY <1>0, <1>5
<1>6. CASE UNCHANGED ovars
  BY <1>0, <1>6 DEF ovars
<1> QED
  BY <1>1, <1>2, <1>3, <1>4, <1>5, <1>6
  DEF Next, Ended, Prepare, InitBenchmark, InitDone, Estimate, FreeUsersWord, EstimatesDone

-----------------------------------------------------------------------------
(* The words main appends: parsing leaves them in place, the last one for  *)
(* a benchmark is what holds for it, and an estimate replaces one of them. *)
LEMMA MixedStays ==
  ASSUME UNCHANGED <<chosen, est>>
  PROVE  /\ Mixed(0)' = Mixed(0) /\ Mixed(Len(chosen))' = Mixed(Len(chosen))
         /\ (i' = i => Mixed(i)' = Mixed(i)) /\ (i' = 0 => Mixed(i)' = Mixed(0))
  BY DEF Mixed

LEMMA MixedParsed ==
  ASSUME OTypes, chosen \in Seq(Names), NEW k \in Nat, k <= Len(est), NEW known \in OptionSets
  PROVE  Getopt(Mixed(k), known).argv = Mixed(k)
<1> DEFINE words == Mixed(k)
           m == Len(chosen)
<1>1. /\ words \in Seq(AWord) /\ Len(words) = m /\ m \in Nat
      /\ \A l \in 1 .. m : words[l].opt # "plain" /\ words[l].value # None
  BY MixedFacts, NameFacts
<1> HIDE DEF words
<1>2. Parted(words, m)
  BY <1>1 DEF Parted
<1>3. ~Steals(words, known, m, Getopt(words, known).found)
  BY <1>1 DEF Steals
<1>4. Getopt(words, known).argv = words
  BY <1>1, <1>2, <1>3, InPlaceAlways
<1> QED
  BY <1>4 DEF words

LEMMA MixedTidy ==
  ASSUME OTypes, chosen \in Seq(Names), NEW k \in Nat, k <= Len(est)
  PROVE  Tidy(Mixed(k)) /\ Followed(Mixed(k))
<1>1. Tidy(Mixed(k))
  BY MixedFacts, NameFacts DEF Tidy, Valueless
<1> QED
  BY <1>1, TidyFollowed

LEMMA MixedHas ==
  ASSUME OTypes, chosen \in Seq(Names), NEW k \in Nat, k <= Len(est), NEW b \in Names
  PROVE  /\ b \in Range(chosen) <=> Occurrences(Mixed(k), b) # {}
         /\ b \in Range(chosen) =>
              /\ LastChosen(b) \in 1 .. Len(chosen)
              /\ Has(Mixed(k), b, IF LastChosen(b) <= k THEN est[LastChosen(b)] ELSE 10)
<1> DEFINE words == Mixed(k)
           m == Len(chosen)
           v(l) == IF l <= k THEN est[l] ELSE 10
<1>1. /\ words \in Seq(AWord) /\ Len(words) = m /\ m \in Nat
      /\ \A l \in 1 .. m : /\ words[l].opt = chosen[l] /\ words[l].value = v(l)
                           /\ words[l].value \in Nat
  BY MixedFacts
<1> HIDE DEF words
<1>2. b \in Range(chosen) <=> Occurrences(words, b) # {}
  <2>1. b \in Range(chosen) <=> \E l \in 1 .. m : chosen[l] = b
    BY DEF Range
  <2>2. Occurrences(words, b) # {} <=> \E l \in 1 .. m : chosen[l] = b
    BY <1>1 DEF Occurrences
  <2> QED
    BY <2>1, <2>2
<1>3. ASSUME b \in Range(chosen)
      PROVE  LastChosen(b) \in 1 .. m /\ Has(words, b, v(LastChosen(b)))
  <2> DEFINE l == Max(Occurrences(words, b))
  <2>1. LastAt(words, m, b, l)
    BY <1>1, <1>2, <1>3, LastExists
  <2> HIDE DEF l
  <2>2. /\ l \in 1 .. m /\ chosen[l] = b
        /\ \A r \in l + 1 .. m : chosen[r] # b
    BY <1>1, <2>1 DEF LastAt
  <2>3. \A r \in 1 .. m : chosen[r] = b => r <= l
    BY <2>2
  <2>4. \A r \in 1 .. m : chosen[r] = b /\ (\A e \in 1 .. m : chosen[e] = b => e <= r) => r = l
    BY <2>2, <2>3
  <2>5. LastChosen(b) = l
    <3>1. LastChosen(b) = CHOOSE r \in 1 .. m :
                            chosen[r] = b /\ \A e \in 1 .. m : chosen[e] = b => e <= r
      BY DEF LastChosen
    <3> HIDE DEF m
    <3> QED
      BY <2>2, <2>3, <2>4, <3>1
  <2>6. Value(words, l) = v(l)
    BY <1>1, <2>2, NameFacts DEF Value
  <2> QED
    BY <1>1, <2>1, <2>2, <2>5, <2>6 DEF Has, Holds
<1> QED
  BY <1>2, <1>3 DEF words

LEMMA MixedWritten ==
  ASSUME OTypes, chosen \in Seq(Names), UNCHANGED chosen, NEW n \in Estimates,
         est' = Append(est, n), Len(est) = i, i' = i + 1, i < Len(chosen)
  PROVE  Mixed(i)' = [l \in 1 .. Len(chosen) |->
                        IF l = i + 1 THEN Appended(chosen[i + 1], n) ELSE Mixed(i)[l]]
<1> DEFINE m == Len(chosen)
<1>1. /\ m \in Nat /\ i \in Nat
      /\ \A l \in 1 .. i : est'[l] = est[l]
      /\ est'[i + 1] = n
  <2>1. i \in Nat /\ est \in Seq(Estimates) /\ m \in Nat
    BY DEF OTypes
  <2> QED
    BY <2>1, Appending
<1>2. Mixed(i)' = [l \in 1 .. m |-> Appended(chosen[l], IF l <= i + 1 THEN est'[l] ELSE 10)]
  BY DEF Mixed
<1>3. Mixed(i) = [l \in 1 .. m |-> Appended(chosen[l], IF l <= i THEN est[l] ELSE 10)]
  BY DEF Mixed
<1> HIDE DEF m
<1>4. ASSUME NEW l \in 1 .. m
      PROVE  Appended(chosen[l], IF l <= i + 1 THEN est'[l] ELSE 10) =
               IF l = i + 1 THEN Appended(chosen[i + 1], n) ELSE Mixed(i)[l]
  <2>1. CASE l = i + 1
    BY <1>1, <2>1
  <2>2. CASE l # i + 1
    <3>1. (l <= i + 1 <=> l <= i) /\ (l <= i => est'[l] = est[l])
      BY <1>1, <2>2
    <3>2. (IF l <= i + 1 THEN est'[l] ELSE 10) = (IF l <= i THEN est[l] ELSE 10)
      BY <3>1
    <3> QED
      BY <1>3, <2>2, <3>2
  <2> QED
    BY <2>1, <2>2
<1> QED
  BY <1>2, <1>4 DEF m

LEMMA OTuneStep ==
  ASSUME OInv, [Next]_ovars
  PROVE  OTune'
<1> USE DEF OTune
<1>0. /\ OTypes /\ OSelection /\ OPhases /\ OTune /\ tune' = tune
      /\ opc \notin {"parse", "exited", "select"} => chosen \in Seq(Names) /\ Len(chosen) \in Nat
  BY InputStays, Fixed DEF OInv, OSelection
<1>1. CASE Prepare
  <2>1. tune => argv' = Mixed(0) /\ UNCHANGED <<chosen, est>> /\ opc' = "init10"
    BY <1>1, TenMixed DEF Prepare
  <2>2. tune => argv' = Mixed(0)'
    BY <2>1, MixedStays
  <2> QED
    BY <1>0, <1>1, <2>1, <2>2
<1>2. CASE InitBenchmark
  <2> DEFINE known == OptionsOf(Registry[i + 1])
  <2>1. argv' = Getopt(argv, known).argv /\ UNCHANGED <<opc, chosen, est>>
    BY <1>2 DEF InitBenchmark
  <2>2. known \in OptionSets /\ chosen \in Seq(Names) /\ 0 <= Len(est)
    <3>1. i + 1 \in 1 .. NumInits /\ opc \in Initialising
      BY <1>0, <1>2, RegistryFacts DEF InitBenchmark, OPhases, Initialising
    <3>2. known \in SUBSET Names
      BY <3>1, RegistryFacts
    <3> QED
      BY <1>0, <3>1, <3>2 DEF OptionSets, OTypes, Initialising
  <2> HIDE DEF known
  <2>3. tune /\ opc = "init10" => argv' = Mixed(0)
    BY <1>0, <2>1, <2>2, MixedParsed
  <2>4. Mixed(0)' = Mixed(0)
    BY <2>1, MixedStays
  <2>5. opc \in {"init10", "init"}
    BY <1>2 DEF InitBenchmark
  <2> QED
    BY <1>0, <2>1, <2>3, <2>4, <2>5
<1>3. CASE InitDone
  <2>1. /\ UNCHANGED <<chosen, est, argv>> /\ i' = 0
        /\ (opc = "init10" /\ opc' = "estimate") \/ (opc = "init" /\ opc' = "run")
    BY <1>3 DEF InitDone
  <2>2. Mixed(i)' = Mixed(0)
    BY <2>1, MixedStays
  <2> QED
    BY <1>0, <2>1, <2>2
<1>4. CASE Estimate
  <2>1. PICK n \in Estimates :
          argv' = [argv EXCEPT ![Place] = Appended(chosen[i + 1], n)] /\ est' = Append(est, n)
    BY <1>4 DEF Estimate
  <2>2. UNCHANGED <<opc, chosen>> /\ i' = i + 1 /\ i < Len(chosen) /\ opc = "estimate"
    BY <1>4 DEF Estimate
  <2>3. Len(est) = i /\ i \in Nat /\ i <= Len(est) /\ chosen \in Seq(Names)
    BY <1>0, <2>2 DEF OPhases
  <2>4. Mixed(i)' = [l \in 1 .. Len(chosen) |->
                       IF l = i + 1 THEN Appended(chosen[i + 1], n) ELSE Mixed(i)[l]]
    BY <1>0, <2>1, <2>2, <2>3, MixedWritten
  <2>5. ASSUME tune
        PROVE  argv' = Mixed(i)'
    <3>1. Place = i + 1 /\ argv = Mixed(i)
      BY <1>0, <2>2, <2>3, <2>5 DEF Place
    <3>2. DOMAIN Mixed(i) = 1 .. Len(chosen)
      BY DEF Mixed
    <3>3. argv' = [l \in 1 .. Len(chosen) |->
                     IF l = i + 1 THEN Appended(chosen[i + 1], n) ELSE Mixed(i)[l]]
      BY <2>1, <3>1, <3>2
    <3> QED
      BY <2>4, <3>3
  <2> QED
    BY <1>0, <2>2, <2>5
<1>5. CASE EstimatesDone
  <2>1. UNCHANGED <<chosen, est, argv>> /\ i = Len(chosen) /\ opc = "estimate"
    BY <1>5 DEF EstimatesDone
  <2>2. opc' \in {"tuned", "init"}
    BY <1>5 DEF EstimatesDone
  <2>3. Mixed(Len(chosen))' = Mixed(Len(chosen))
    BY <2>1, MixedStays
  <2> QED
    BY <1>0, <2>1, <2>2, <2>3
<1>6. ASSUME opc' \notin {"init10", "estimate", "tuned"}
      PROVE  OTune'
  BY <1>6
<1>7. ASSUME UNCHANGED <<opc, argv, chosen, est, i>>
      PROVE  OTune'
  <2>1. Mixed(0)' = Mixed(0) /\ Mixed(i)' = Mixed(i) /\ Mixed(Len(chosen))' = Mixed(Len(chosen))
    BY <1>7, MixedStays
  <2> QED
    BY <1>0, <1>7, <2>1
<1> QED
  BY <1>1, <1>2, <1>3, <1>4, <1>5, <1>6, <1>7
  DEF Next, Ended, ParseOptions, SelectAll, Select, SelectDone, FreeUsersWord, ovars

-----------------------------------------------------------------------------
(* One benchmark's init.                                                   *)
Own == OptionsOf(Registry[i + 1])

LEMMA InitFacts ==
  ASSUME OInv, InitBenchmark
  PROVE  /\ Own \in SUBSET Names /\ Own \in OptionSets
         /\ i \in Nat /\ i + 1 \in 1 .. NumInits /\ i' = i + 1
         /\ opc \in Initialising /\ UNCHANGED <<opc, input, chosen, token, est, timed>>
         /\ argv \in Seq(AWord) /\ argv' \in Seq(AWord) /\ Len(argv') = Len(argv)
         /\ argv' = Getopt(argv, Own).argv
         /\ rounds \in [Names -> Nat]
         /\ rounds' = RoundsAfter(Getopt(argv, Own).found)
         /\ chosen \in Seq(Names) /\ Len(chosen) \in Nat
<1>1. OTypes /\ OPhases /\ OSelection
  BY DEF OInv
<1>2. /\ opc \in Initialising /\ i < NumInits /\ i' = i + 1
      /\ UNCHANGED <<opc, input, chosen, token, est, timed>>
      /\ argv' = Getopt(argv, Own).argv
      /\ rounds' = RoundsAfter(Getopt(argv, Own).found)
  BY DEF InitBenchmark, Initialising, Own
<1>3. i \in Nat /\ i + 1 \in 1 .. NumInits
  BY <1>1, <1>2, RegistryFacts DEF OPhases
<1>4. Own \in SUBSET Names
  BY <1>3, RegistryFacts DEF Own
<1>5. Own \in OptionSets
  BY <1>4 DEF OptionSets
<1>6. argv \in Seq(AWord) /\ rounds \in [Names -> Nat]
  BY <1>1 DEF OTypes
<1>7. argv' \in Seq(AWord) /\ Len(argv') = Len(argv)
  BY <1>2, <1>5, <1>6, GetoptFacts
<1>8. chosen \in Seq(Names) /\ Len(chosen) \in Nat
  BY <1>1, <1>2 DEF OSelection, Initialising
<1> QED
  BY <1>2, <1>3, <1>4, <1>5, <1>6, <1>7, <1>8

(* What the benchmarks are first initialised with.                         *)
LEMMA PrepareFacts ==
  ASSUME OInv, Prepare
  PROVE  /\ chosen \in Seq(Names) /\ Len(chosen) \in Nat /\ est = <<>>
         /\ Mixed(0) \in Seq(AWord) /\ Len(Mixed(0)) = Len(chosen)
         /\ Tidy(Mixed(0)) /\ Followed(Mixed(0))
         /\ argv = Base /\ argv \in Seq(AWord) /\ Len(argv) = Len(user) /\ Len(user) \in Nat
         /\ opc = "selected" /\ i' = 0 /\ UNCHANGED <<input, chosen, token, rounds, est, timed>>
         /\ \/ tune /\ argv' = Mixed(0) /\ opc' = "init10"
            \/ ~tune /\ auto /\ argv' = argv \o Mixed(0) /\ opc' = "init10"
            \/ ~tune /\ ~auto /\ argv' = argv /\ opc' = "init"
<1>1. OTypes /\ OPhases /\ OSelection /\ OAuto
  BY DEF OInv
<1>2. opc = "selected" /\ i' = 0 /\ UNCHANGED <<input, chosen, token, rounds, est, timed>>
  BY DEF Prepare
<1>3. /\ \/ tune /\ argv' = Mixed(0) /\ opc' = "init10"
         \/ ~tune /\ auto /\ argv' = argv \o Mixed(0) /\ opc' = "init10"
         \/ ~tune /\ ~auto /\ argv' = argv /\ opc' = "init"
  BY TenMixed DEF Prepare
<1>4. chosen \in Seq(Names) /\ Len(chosen) \in Nat /\ est = <<>> /\ 0 <= Len(est)
  BY <1>1, <1>2 DEF OSelection, OPhases, Before
<1>5. Mixed(0) \in Seq(AWord) /\ Len(Mixed(0)) = Len(chosen)
  BY <1>1, <1>4, MixedFacts
<1>6. Tidy(Mixed(0)) /\ Followed(Mixed(0))
  BY <1>1, <1>4, MixedTidy
<1>7. argv = Base /\ Len(Base) = Len(user)
  BY <1>1, <1>2 DEF OAuto
<1>8. argv \in Seq(AWord) /\ Len(user) \in Nat
  BY <1>1 DEF OTypes
<1> QED
  BY <1>2, <1>3, <1>4, <1>5, <1>6, <1>7, <1>8

LEMMA TidyConcat ==
  ASSUME NEW s \in Seq(AWord), NEW t \in Seq(AWord), Tidy(s), Tidy(t)
  PROVE  Tidy(s \o t)
<1> DEFINE r == s \o t
<1>1. /\ Len(s) \in Nat /\ Len(t) \in Nat /\ Len(r) = Len(s) + Len(t)
      /\ \A l \in 1 .. Len(s) : r[l] = s[l]
      /\ \A l \in 1 .. Len(t) : r[Len(s) + l] = t[l]
  BY Concatenated
<1> HIDE DEF r
<1>2. ASSUME NEW l \in 1 .. Len(r)
      PROVE  ~Valueless(r, l)
  <2>1. CASE l <= Len(s)
    BY <1>1, <2>1 DEF Tidy, Valueless
  <2>2. CASE l > Len(s)
    <3> DEFINE e == l - Len(s)
    <3>1. e \in 1 .. Len(t) /\ Len(s) + e = l
      BY <1>1, <2>2
    <3> HIDE DEF e
    <3>2. r[l] = t[e]
      BY <1>1, <3>1
    <3> QED
      BY <3>1, <3>2 DEF Tidy, Valueless
  <2> QED
    BY <1>1, <2>1, <2>2
<1> QED
  BY <1>2 DEF Tidy, r

LEMMA OTimedStep ==
  ASSUME OInv, [Next]_ovars
  PROVE  OTimed'
<1> USE DEF Before
<1>0. OTypes /\ OSelection /\ OPhases /\ OTimed /\ (NoneApart' <=> NoneApart)
  BY InputStays, Fixed DEF OInv
<1> SUFFICES ASSUME NoneApart PROVE OTimed'
  BY <1>0 DEF OTimed
<1>1. /\ opc \in Before \cup {"init10"} => Tidy(argv)
      /\ opc = "init10" =>
           /\ \A b \in Range(chosen) : Has(argv, b, 10)
           /\ \A j \in 1 .. i : \A b \in OptionsOf(Registry[j]) \cap Range(chosen) : rounds[b] = 10
      /\ opc = "estimate" => \A b \in Range(chosen) : rounds[b] = 10
      /\ timed \subseteq Names \X {10}
  BY <1>0 DEF OTimed
<1>2. CASE ParseOptions
  <2>1. {"policy"} \in OptionSets /\ argv \in Seq(AWord) /\ opc = "parse"
    BY <1>0, <1>2 DEF OptionSets, OTypes, ParseOptions
  <2>2. Tidy(Getopt(argv, {"policy"}).argv)
    BY <1>1, <2>1, TidyStays
  <2>3. Tidy(argv')
    BY <1>2, <2>2 DEF ParseOptions
  <2>4. opc' \in {"select", "exited"} /\ timed' = timed
    BY <1>2 DEF ParseOptions
  <2> QED
    BY <1>1, <2>3, <2>4 DEF OTimed
<1>3. ASSUME UNCHANGED <<argv, timed>>, opc \in Before, opc' \in Before
      PROVE  OTimed'
  BY <1>1, <1>3 DEF OTimed
<1>4. CASE Prepare
  <2>1. /\ chosen \in Seq(Names) /\ 0 <= Len(est) /\ opc = "selected"
        /\ Mixed(0) \in Seq(AWord) /\ Tidy(Mixed(0)) /\ argv \in Seq(AWord) /\ Tidy(argv)
        /\ i' = 0 /\ UNCHANGED <<chosen, timed>>
        /\ Followed(Mixed(0))
    BY <1>1, <1>4, PrepareFacts
  <2>2. \A b \in Range(chosen) : b \in Names /\ Has(Mixed(0), b, 10)
    <3> TAKE b \in Range(chosen)
    <3>1. b \in Names
      BY <2>1 DEF Range
    <3>2. LastChosen(b) \in 1 .. Len(chosen)
      BY <1>0, <2>1, <3>1, MixedHas
    <3>3. Has(Mixed(0), b, IF LastChosen(b) <= 0 THEN est[LastChosen(b)] ELSE 10)
      BY <1>0, <2>1, <3>1, MixedHas
    <3> QED
      BY <3>1, <3>2, <3>3
  <2>3. CASE tune /\ argv' = Mixed(0) /\ opc' = "init10"
    BY <1>1, <2>1, <2>2, <2>3 DEF OTimed
  <2>4. CASE argv' = argv \o Mixed(0) /\ opc' = "init10"
    <3>1. Tidy(argv')
      BY <2>1, <2>4, TidyConcat
    <3>2. \A b \in Range(chosen) : Has(argv', b, 10)
      <4> TAKE b \in Range(chosen)
      <4>1. Followed(argv)
        BY <2>1, TidyFollowed
      <4>2. Holds(argv \o Mixed(0), Len(argv) + Len(Mixed(0)), b, 10)
        BY <2>1, <2>2, <4>1, HoldsConcat DEF Has
      <4>3. Len(argv \o Mixed(0)) = Len(argv) + Len(Mixed(0))
        BY <2>1, Concatenated
      <4> QED
        BY <2>4, <4>2, <4>3 DEF Has
    <3> QED
      BY <1>1, <2>1, <2>4, <3>1, <3>2 DEF OTimed
  <2>5. CASE opc' = "init"
    BY <1>1, <2>1, <2>5 DEF OTimed
  <2> QED
    BY <1>4, <2>3, <2>4, <2>5, PrepareFacts
<1>5. CASE InitBenchmark
  <2>1. /\ Own \in SUBSET Names /\ Own \in OptionSets /\ i \in Nat /\ i' = i + 1
        /\ opc \in Initialising /\ UNCHANGED <<opc, chosen, timed>>
        /\ argv \in Seq(AWord) /\ argv' = Getopt(argv, Own).argv /\ Len(argv') = Len(argv)
        /\ rounds \in [Names -> Nat] /\ rounds' = RoundsAfter(Getopt(argv, Own).found)
        /\ chosen \in Seq(Names)
    BY <1>5, InitFacts
  <2>2. CASE opc = "init"
    BY <1>1, <2>1, <2>2 DEF OTimed
  <2>3. CASE opc = "init10"
    <3>1. Tidy(argv) /\ Followed(argv) /\ Tidy(argv')
      BY <1>1, <2>1, <2>3, TidyStays, TidyFollowed
    <3>2. ASSUME NEW b \in Range(chosen)
          PROVE  b \in Names /\ Has(argv, b, 10) /\ Has(argv', b, 10)
      <4>1. b \in Names
        BY <2>1 DEF Range
      <4> QED
        BY <1>1, <2>1, <2>3, <3>1, <4>1, ValuesKept DEF Has
    <3>3. ASSUME NEW b \in Range(chosen)
          PROVE  /\ b \in Own => rounds'[b] = 10
                 /\ rounds[b] = 10 => rounds'[b] = 10
      <4>1. b \in Own => rounds'[b] = 10
        BY <2>1, <3>1, <3>2, ParsedRounds
      <4>2. b \notin Own => rounds'[b] = rounds[b]
        BY <2>1, <3>2, ParsedTypes
      <4> QED
        BY <4>1, <4>2
    <3>4. \A j \in 1 .. i + 1 : \A b \in OptionsOf(Registry[j]) \cap Range(chosen) : rounds'[b] = 10
      <4> TAKE j \in 1 .. i + 1
      <4> TAKE b \in OptionsOf(Registry[j]) \cap Range(chosen)
      <4>1. CASE j = i + 1
        BY <3>3, <4>1 DEF Own
      <4>2. CASE j # i + 1
        <5>1. j \in 1 .. i
          BY <2>1, <4>2
        <5> QED
          BY <1>1, <2>3, <3>3, <5>1
      <4> QED
        BY <4>1, <4>2
    <3> QED
      BY <1>1, <2>1, <2>3, <3>1, <3>2, <3>4 DEF OTimed
  <2> QED
    BY <2>1, <2>2, <2>3 DEF Initialising
<1>6. CASE InitDone
  <2>1. /\ UNCHANGED <<chosen, rounds, timed>> /\ i = NumInits
        /\ (opc = "init10" /\ opc' = "estimate") \/ (opc = "init" /\ opc' = "run")
    BY <1>6 DEF InitDone
  <2>2. ASSUME opc = "init10", NEW b \in Range(chosen)
        PROVE  rounds[b] = 10
    <3>1. b \in Names
      BY <1>0, <2>2 DEF OSelection, Range
    <3>2. PICK j \in 1 .. NumInits : b \in OptionsOf(Registry[j])
      BY <3>1, RegistryFacts
    <3> QED
      BY <1>1, <2>1, <2>2, <3>2
  <2> QED
    BY <1>1, <2>1, <2>2 DEF OTimed
<1>7. CASE Estimate
  <2>1. /\ opc = "estimate" /\ i < Len(chosen) /\ UNCHANGED <<opc, chosen, rounds>>
        /\ timed' = timed \cup {<<chosen[i + 1], rounds[chosen[i + 1]]>>}
    BY <1>7 DEF Estimate
  <2>2. chosen \in Seq(Names) /\ i + 1 \in 1 .. Len(chosen)
    BY <1>0, <2>1 DEF OSelection, OPhases
  <2>3. chosen[i + 1] \in Names /\ chosen[i + 1] \in Range(chosen)
    BY <2>2 DEF Range
  <2>4. rounds[chosen[i + 1]] = 10
    BY <1>1, <2>1, <2>3
  <2> QED
    BY <1>1, <2>1, <2>3, <2>4 DEF OTimed
<1>8. ASSUME UNCHANGED timed, opc' \notin Before \cup {"init10", "estimate"}
      PROVE  OTimed'
  BY <1>1, <1>8 DEF OTimed
<1>9. CASE UNCHANGED ovars
  BY <1>1, <1>9 DEF OTimed, ovars
<1> QED
  BY <1>2, <1>3, <1>4, <1>5, <1>6, <1>7, <1>8, <1>9
  DEF Next, Ended, SelectAll, Select, SelectDone, FreeUsersWord, EstimatesDone

-----------------------------------------------------------------------------
(* One list of words after another of known length.                        *)
LEMMA Joined ==
  ASSUME NEW S, NEW s \in Seq(S), NEW t \in Seq(S), NEW m, Len(t) = m
  PROVE  /\ s \o t \in Seq(S) /\ Len(s) \in Nat /\ m \in Nat
         /\ Len(s \o t) = Len(s) + m
         /\ \A l \in 1 .. Len(s) : (s \o t)[l] = s[l]
         /\ \A l \in 1 .. m : (s \o t)[Len(s) + l] = t[l]
  OBVIOUS

LEMMA MixedAlike ==
  ASSUME OTypes, chosen \in Seq(Names), NEW k \in Nat, k <= Len(est),
         NEW s \in Seq(AWord)
  PROVE  Alike(s \o Mixed(0), s \o Mixed(k))
<1> DEFINE a == Mixed(0)
           b == Mixed(k)
           m == Len(chosen)
           n == Len(s)
           r == s \o a
           t == s \o b
<1>0. 0 <= Len(est) /\ 0 \in Nat
  BY DEF OTypes
<1>1. /\ a \in Seq(AWord) /\ Len(a) = m
      /\ \A l \in 1 .. m : a[l].opt = chosen[l] /\ a[l].value # None
  BY <1>0, MixedFacts, NameFacts
<1>2. /\ b \in Seq(AWord) /\ Len(b) = m /\ m \in Nat
      /\ \A l \in 1 .. m : b[l].opt = chosen[l] /\ b[l].value # None
  BY MixedFacts, NameFacts
<1> HIDE DEF a, b, m
<1>3. /\ Len(r) = n + m /\ n \in Nat
      /\ \A l \in 1 .. n : r[l] = s[l]
      /\ \A l \in 1 .. m : r[n + l] = a[l]
  <2>1. s \in Seq(AWord) /\ a \in Seq(AWord) /\ Len(a) = m
    BY <1>1
  <2> QED
    BY <2>1, Joined
<1>4. /\ Len(t) = n + m
      /\ \A l \in 1 .. n : t[l] = s[l]
      /\ \A l \in 1 .. m : t[n + l] = b[l]
  <2>1. s \in Seq(AWord) /\ b \in Seq(AWord) /\ Len(b) = m
    BY <1>2
  <2> QED
    BY <2>1, Joined
<1> HIDE DEF n, r, t
<1>5. ASSUME NEW l \in 1 .. n + m
      PROVE  t[l].opt = r[l].opt /\ (t[l].value = None <=> r[l].value = None)
  <2>1. CASE l <= n
    BY <1>3, <1>4, <2>1
  <2>2. CASE l > n
    <3> DEFINE e == l - n
    <3>1. e \in 1 .. m /\ n + e = l
      BY <1>2, <1>3, <2>2
    <3> HIDE DEF e
    <3>2. r[l] = a[e] /\ t[l] = b[e]
      BY <1>3, <1>4, <3>1
    <3> QED
      BY <1>1, <1>2, <3>1, <3>2
  <2> QED
    BY <1>2, <1>3, <2>1, <2>2
<1>6. Alike(r, t)
  BY <1>3, <1>4, <1>5 DEF Alike
<1> QED
  BY <1>6 DEF r, t, a, b

(* The last word of a command line that words were appended to.            *)
LEMMA AppendedLast ==
  ASSUME OTypes, chosen \in Seq(Names), chosen # <<>>, NEW k \in Nat, k <= Len(est),
         NEW s \in Seq(AWord)
  PROVE  LET r == s \o Mixed(k)
             n == Len(s) + Len(chosen)
         IN  /\ r \in Seq(AWord) /\ Len(r) = n /\ n \in Nat /\ n >= 1
             /\ r[n].opt # "plain" /\ r[n].value # None
<1> DEFINE a == Mixed(k)
           m == Len(chosen)
           r == s \o a
<1>1. /\ a \in Seq(AWord) /\ Len(a) = m /\ m \in Nat
      /\ \A l \in 1 .. m : a[l].opt # "plain" /\ a[l].value # None
  BY MixedFacts, NameFacts
<1>2. m >= 1
  OBVIOUS
<1> HIDE DEF a, m
<1>3. /\ r \in Seq(AWord) /\ Len(r) = Len(s) + m /\ Len(s) \in Nat
      /\ \A l \in 1 .. m : r[Len(s) + l] = a[l]
  <2>1. s \in Seq(AWord) /\ a \in Seq(AWord) /\ Len(a) = m
    BY <1>1
  <2> QED
    BY <2>1, Joined
<1>4. m \in 1 .. m /\ r[Len(s) + m] = a[m]
  BY <1>1, <1>2, <1>3
<1>5. a[m].opt # "plain" /\ a[m].value # None
  BY <1>1, <1>4
<1> QED
  BY <1>1, <1>2, <1>3, <1>4, <1>5 DEF a, m

(* Writing an estimate into its place.                                     *)
LEMMA AppendedWritten ==
  ASSUME OTypes, chosen \in Seq(Names), UNCHANGED chosen, NEW n \in Estimates,
         est' = Append(est, n), Len(est) = i, i' = i + 1, i < Len(chosen),
         NEW s \in Seq(AWord)
  PROVE  [s \o Mixed(i) EXCEPT ![Len(s) + i + 1] = Appended(chosen[i + 1], n)] = s \o Mixed(i)'
<1> DEFINE a == Mixed(i)
           b == Mixed(i)'
           m == Len(chosen)
           w == Appended(chosen[i + 1], n)
           r == s \o a
           p == Len(s) + i + 1
           new == [r EXCEPT ![p] = w]
           t == s \o b
<1>1. i \in Nat /\ i <= Len(est) /\ i + 1 \in 1 .. m
  BY DEF OTypes
<1>2. a \in Seq(AWord) /\ Len(a) = m /\ m \in Nat
  BY <1>1, MixedFacts
<1>3. w \in AWord
  <2>1. n \in Nat
    BY OptionsAssumption
  <2>2. chosen[i + 1] \in Names /\ chosen[i + 1] # "plain"
    BY <1>1, NameFacts
  <2> QED
    BY <2>1, <2>2 DEF Appended, Word, AWord
<1>4. b = [l \in 1 .. m |-> IF l = i + 1 THEN w ELSE a[l]]
  BY <1>1, MixedWritten
<1> HIDE DEF a, b, m, w
<1>5. /\ b \in Seq(AWord) /\ Len(b) = m
      /\ \A l \in 1 .. m : b[l] = IF l = i + 1 THEN w ELSE a[l]
  BY <1>2, <1>3, <1>4
<1>6. /\ r \in Seq(AWord) /\ Len(r) = Len(s) + m /\ Len(s) \in Nat
      /\ \A l \in 1 .. Len(s) : r[l] = s[l]
      /\ \A l \in 1 .. m : r[Len(s) + l] = a[l]
  <2>1. s \in Seq(AWord) /\ a \in Seq(AWord) /\ Len(a) = m
    BY <1>2
  <2> QED
    BY <2>1, Joined
<1>7. /\ t \in Seq(AWord) /\ Len(t) = Len(s) + m
      /\ \A l \in 1 .. Len(s) : t[l] = s[l]
      /\ \A l \in 1 .. m : t[Len(s) + l] = b[l]
  <2>1. s \in Seq(AWord) /\ b \in Seq(AWord) /\ Len(b) = m
    BY <1>5
  <2> QED
    BY <2>1, Joined
<1> HIDE DEF r, t
<1>8. /\ new \in Seq(AWord) /\ Len(new) = Len(r)
      /\ \A l \in 1 .. Len(r) : new[l] = IF l = p THEN w ELSE r[l]
  BY <1>3, <1>6, Replacing
<1>9. p = Len(s) + (i + 1)
  BY <1>1, <1>6
<1> HIDE DEF new, p
<1>10. ASSUME NEW l \in 1 .. Len(new)
       PROVE  new[l] = t[l]
  <2>1. CASE l <= Len(s)
    BY <1>1, <1>2, <1>6, <1>7, <1>8, <1>9, <2>1
  <2>2. CASE l > Len(s)
    <3> DEFINE e == l - Len(s)
    <3>1. e \in 1 .. m /\ Len(s) + e = l /\ (l = p <=> e = i + 1)
      <4>1. Len(r) = Len(s) + m /\ Len(s) \in Nat /\ m \in Nat /\ Len(new) = Len(r) /\ l \in Nat
        BY <1>1, <1>2, <1>6, <1>8, <1>10
      <4> QED
        BY <1>1, <1>9, <1>10, <2>2, <4>1
    <3> HIDE DEF e
    <3>2. r[l] = a[e] /\ t[l] = b[e]
      BY <1>6, <1>7, <3>1
    <3> QED
      BY <1>5, <1>6, <1>8, <3>1, <3>2
  <2> QED
    BY <1>2, <1>6, <1>8, <2>1, <2>2
<1>11. new = t
  BY <1>6, <1>7, <1>8, <1>10, SameWords
<1> QED
  BY <1>11 DEF new, t, r, a, b, w, p

LEMMA SettledStays ==
  ASSUME UNCHANGED input, UNCHANGED chosen
  PROVE  /\ Mixed(0)' = Mixed(0) /\ Base' = Base /\ user' = user
         /\ (Settled' <=> Settled) /\ (Adding' <=> Adding)
<1>1. user' = user /\ tune' = tune /\ auto' = auto /\ Base' = Base
  BY Fixed
<1>2. Mixed(0)' = Mixed(0)
  <2>1. \A l \in 1 .. Len(chosen) :
          (IF l <= 0 THEN est[l] ELSE 10) = 10 /\ (IF l <= 0 THEN est'[l] ELSE 10) = 10
    OBVIOUS
  <2>2. Mixed(0)' = [l \in 1 .. Len(chosen) |-> Appended(chosen[l], IF l <= 0 THEN est'[l] ELSE 10)]
    BY DEF Mixed
  <2> QED
    BY <2>1, <2>2 DEF Mixed
<1>3. Settled' <=> Settled
  BY <1>1, <1>2 DEF Settled, NumInits
<1>4. Adding' <=> Adding
  BY <1>1 DEF Adding
<1> QED
  BY <1>1, <1>2, <1>3, <1>4

LEMMA OAutoInit ==
  ASSUME OInv, InitBenchmark, Adding
  PROVE  LET n == Len(user) + Len(chosen)
         IN  /\ opc = "init10" =>
                  \/ Stuck(argv') /\ Len(argv') = n
                  \/ /\ argv' = Base \o Mixed(0)
                     /\ \A j \in 1 .. i + 1 :
                          Scan(argv', OptionsOf(Registry[j]))[n].plain = <<>>
             /\ opc = "init" => argv' = argv /\ argv = Base \o Mixed(Len(chosen)) /\ Settled
<1> DEFINE n == Len(user) + Len(chosen)
           first == Base \o Mixed(0)
<1>1. OTypes /\ OPhases /\ OAuto
  BY DEF OInv
<1>2. /\ Own \in OptionSets /\ i \in Nat /\ i + 1 \in 1 .. NumInits /\ opc \in Initialising
      /\ argv \in Seq(AWord) /\ argv' = Getopt(argv, Own).argv /\ Len(argv') = Len(argv)
      /\ chosen \in Seq(Names) /\ Len(chosen) \in Nat
  BY InitFacts
<1>3. /\ Base \in Seq(AWord) /\ Len(Base) = Len(user) /\ chosen # <<>>
      /\ 0 <= Len(est) /\ 0 \in Nat
  BY <1>1, <1>2 DEF OAuto, Initialising, Adding, OTypes
<1>4. /\ first \in Seq(AWord) /\ Len(first) = n /\ n \in Nat /\ n >= 1
      /\ first[n].opt # "plain" /\ first[n].value # None
  BY <1>1, <1>2, <1>3, AppendedLast
<1>5. CASE opc = "init10"
  <2>1. CASE Stuck(argv) /\ Len(argv) = n
    <3>1. Stuck(argv')
      BY <1>2, <2>1, StuckStays
    <3> QED
      BY <1>2, <1>5, <2>1, <3>1
  <2>2. CASE /\ argv = first
             /\ \A j \in 1 .. i : Scan(argv, OptionsOf(Registry[j]))[n].plain = <<>>
    <3> HIDE DEF first, n
    <3>1. CASE Scan(argv, Own)[n].plain = <<>>
      <4>1. argv' = argv
        BY <1>2, <1>4, <2>2, <3>1, Unmoved
      <4>2. ASSUME NEW j \in 1 .. i + 1
            PROVE  Scan(argv', OptionsOf(Registry[j]))[n].plain = <<>>
        <5>1. CASE j = i + 1
          BY <3>1, <4>1, <5>1 DEF Own
        <5>2. CASE j # i + 1
          <6>1. j \in 1 .. i
            BY <1>2, <5>2
          <6> QED
            BY <2>2, <4>1, <6>1
        <5> QED
          BY <5>1, <5>2
      <4> QED
        BY <1>5, <2>2, <4>1, <4>2 DEF first, n
    <3>2. CASE Scan(argv, Own)[n].plain # <<>>
      <4>1. Stuck(argv')
        BY <1>2, <1>4, <2>2, <3>2, GetsStuck
      <4> QED
        BY <1>2, <1>4, <1>5, <2>2, <4>1 DEF n
    <3> QED
      BY <3>1, <3>2
  <2>3. \/ Stuck(argv) /\ Len(argv) = n
        \/ /\ argv = first
           /\ \A j \in 1 .. i : Scan(argv, OptionsOf(Registry[j]))[n].plain = <<>>
    BY <1>1, <1>5 DEF OAuto
  <2> QED
    BY <2>1, <2>2, <2>3
<1>6. CASE opc = "init"
  <2> DEFINE m == Len(chosen)
             last == Base \o Mixed(m)
  <2>1. argv = last /\ Settled
    BY <1>1, <1>6 DEF OAuto
  <2>2. m <= Len(est) /\ m \in Nat
    BY <1>1, <1>2, <1>6 DEF OPhases, Adding
  <2>3. Alike(first, last)
    BY <1>1, <1>2, <1>3, <2>2, MixedAlike
  <2>4. last \in Seq(AWord) /\ Len(last) = n
    BY <1>1, <1>2, <1>3, <2>2, AppendedLast
  <2>5. Scan(first, Own)[n].plain = <<>>
    BY <1>2, <2>1 DEF Settled, Own
  <2> HIDE DEF first, last, n
  <2>6. Scan(last, Own)[n].plain = <<>>
    BY <1>2, <1>4, <2>3, <2>4, <2>5, AlikeMoved
  <2>7. argv' = argv
    BY <1>2, <2>1, <2>4, <2>6, Unmoved
  <2> QED
    BY <1>6, <2>1, <2>7 DEF last
<1> QED
  BY <1>2, <1>5, <1>6 DEF Initialising

LEMMA OAutoEstimate ==
  ASSUME OInv, Estimate, Adding
  PROVE  LET n == Len(user) + Len(chosen)
         IN  /\ Len(argv') = n
             /\ \/ argv'[n].opt = "plain" /\ i' < Len(chosen)
                \/ argv' = Base \o Mixed(i)' /\ Settled
<1> DEFINE n == Len(user) + Len(chosen)
<1>1. OTypes /\ OPhases /\ OAuto /\ OSelection
  BY DEF OInv
<1>2. /\ opc = "estimate" /\ i < Len(chosen) /\ i' = i + 1 /\ UNCHANGED chosen
      /\ argv[Place].heap /\ Place = Len(user) + i + 1
  BY DEF Estimate, Place, Adding
<1>3. PICK e \in Estimates :
        argv' = [argv EXCEPT ![Place] = Appended(chosen[i + 1], e)] /\ est' = Append(est, e)
  BY DEF Estimate
<1>4. /\ chosen \in Seq(Names) /\ i \in Nat /\ i + 1 \in 1 .. Len(chosen) /\ Len(chosen) \in Nat
      /\ Len(est) = i
  BY <1>1, <1>2 DEF OSelection, OPhases
<1>5. Appended(chosen[i + 1], e) \in AWord
  <2>1. e \in Nat
    BY OptionsAssumption
  <2>2. chosen[i + 1] \in Names /\ chosen[i + 1] # "plain"
    BY <1>4, NameFacts
  <2> QED
    BY <2>1, <2>2 DEF Appended, Word, AWord
<1>6. /\ argv \in Seq(AWord) /\ Len(argv) = n /\ Len(user) \in Nat
      /\ \/ argv[n].opt = "plain"
         \/ argv = Base \o Mixed(i) /\ Settled
      /\ Base \in Seq(AWord) /\ Len(Base) = Len(user)
  BY <1>1, <1>2 DEF OAuto, OTypes
<1>7. /\ Len(argv') = Len(argv)
      /\ \A l \in 1 .. Len(argv) : argv'[l] = IF l = Place THEN Appended(chosen[i + 1], e) ELSE argv[l]
  BY <1>3, <1>5, <1>6, Replacing
<1>8. n \in 1 .. Len(argv)
  BY <1>4, <1>6
<1>9. CASE argv[n].opt = "plain"
  <2>1. argv[n] \in AWord
    BY <1>6, <1>8
  <2>2. ~argv[n].heap
    BY <1>9, <2>1 DEF AWord
  <2>3. Place # n
    BY <1>2, <2>2
  <2>4. i + 1 < Len(chosen)
    <3>1. Len(user) \in Nat
      BY <1>6
    <3>2. Place = Len(user) + i + 1 /\ i < Len(chosen)
      BY <1>2
    <3> QED
      BY <1>4, <2>3, <3>1, <3>2
  <2>5. argv'[n] = argv[n]
    BY <1>7, <1>8, <2>3
  <2> QED
    BY <1>2, <1>6, <1>7, <1>9, <2>4, <2>5
<1>10. CASE argv = Base \o Mixed(i) /\ Settled
  <2>1. [Base \o Mixed(i) EXCEPT ![Len(Base) + i + 1] = Appended(chosen[i + 1], e)] = Base \o Mixed(i)'
    BY <1>1, <1>2, <1>3, <1>4, <1>6, AppendedWritten
  <2>2. argv' = Base \o Mixed(i)'
    BY <1>2, <1>3, <1>6, <1>10, <2>1
  <2> QED
    BY <1>6, <1>7, <1>10, <2>2
<1> QED
  BY <1>6, <1>9, <1>10

LEMMA OAutoStep ==
  ASSUME OInv, [Next]_ovars
  PROVE  OAuto'
<1>0. /\ OTypes /\ OPhases /\ OAuto /\ OSelection /\ UNCHANGED input
      /\ Base' = Base /\ user' = user
  BY InputStays, Fixed DEF OInv
<1>1. CASE ParseOptions
  <2>1. argv = user /\ user \in Seq(AWord) /\ {"policy"} \in OptionSets /\ opc = "parse"
    BY <1>0, <1>1 DEF OAuto, OTypes, ParseOptions, OptionSets
  <2>2. Base \in Seq(AWord) /\ Len(Base) = Len(user)
    BY <2>1, GetoptFacts DEF Base
  <2>3. argv' = Base /\ opc' \in {"select", "exited"}
    BY <1>1, <2>1 DEF ParseOptions, Base
  <2> QED
    BY <1>0, <2>2, <2>3 DEF OAuto
<1>2. ASSUME opc \notin {"parse", "exited"}, opc' \notin {"parse", "init10", "estimate", "init", "run"},
             \/ opc' \notin {"select", "selected"}
             \/ opc \in {"select", "selected"} /\ argv' = argv
      PROVE  OAuto'
  BY <1>0, <1>2 DEF OAuto
<1>3. CASE Prepare
  <2>1. /\ argv = Base /\ opc = "selected" /\ i' = 0 /\ UNCHANGED chosen /\ Mixed(0)' = Mixed(0)
        /\ (Adding' <=> Adding)
        /\ \/ tune /\ argv' = Mixed(0) /\ opc' = "init10"
           \/ ~tune /\ auto /\ argv' = argv \o Mixed(0) /\ opc' = "init10"
           \/ ~tune /\ ~auto /\ argv' = argv /\ opc' = "init"
    BY <1>0, <1>3, PrepareFacts, SettledStays
  <2>2. Base \in Seq(AWord) /\ Len(Base) = Len(user)
    BY <1>0, <2>1 DEF OAuto
  <2>3. CASE Adding
    <3>1. argv' = Base' \o Mixed(0)' /\ opc' = "init10"
      BY <1>0, <2>1, <2>3 DEF Adding
    <3>2. \A j \in 1 .. i' : FALSE
      BY <2>1
    <3> QED
      BY <1>0, <2>2, <3>1, <3>2 DEF OAuto
  <2>4. CASE ~Adding
    <3>1. opc' \in {"init10", "init"}
      BY <2>1
    <3> QED
      BY <1>0, <2>1, <2>2, <2>4, <3>1 DEF OAuto
  <2> QED
    BY <2>3, <2>4
<1>4. CASE InitBenchmark
  <2>1. /\ opc \in Initialising /\ UNCHANGED <<opc, chosen, est>> /\ i' = i + 1
    BY <1>4, InitFacts
  <2>2. /\ Mixed(0)' = Mixed(0) /\ Mixed(Len(chosen))' = Mixed(Len(chosen))
        /\ (Settled' <=> Settled) /\ (Adding' <=> Adding)
    BY <1>0, <2>1, SettledStays, MixedStays
  <2>3. Base \in Seq(AWord) /\ Len(Base) = Len(user)
    BY <1>0, <2>1 DEF OAuto, Initialising
  <2>4. CASE Adding
    <3> DEFINE n == Len(user) + Len(chosen)
    <3>1. /\ opc = "init10" =>
               \/ Stuck(argv') /\ Len(argv') = n
               \/ /\ argv' = Base \o Mixed(0)
                  /\ \A j \in 1 .. i + 1 : Scan(argv', OptionsOf(Registry[j]))[n].plain = <<>>
          /\ opc = "init" => argv' = argv /\ argv = Base \o Mixed(Len(chosen)) /\ Settled
      BY <1>0, <1>4, <2>4, OAutoInit DEF OInv
    <3>2. n' = n
      BY <1>0, <2>1
    <3> HIDE DEF n
    <3>3. /\ opc' = "init10" =>
               \/ Stuck(argv') /\ Len(argv') = n'
               \/ /\ argv' = Base' \o Mixed(0)'
                  /\ \A j \in 1 .. i' : Scan(argv', OptionsOf(Registry[j]))[n'].plain = <<>>
          /\ opc' = "init" => argv' = Base' \o Mixed(Len(chosen))' /\ Settled'
      BY <1>0, <2>1, <2>2, <3>1, <3>2
    <3> QED
      BY <1>0, <2>1, <2>3, <3>3 DEF OAuto, n, Initialising
  <2>5. CASE ~Adding
    BY <1>0, <2>1, <2>2, <2>3, <2>5 DEF OAuto, Initialising
  <2> QED
    BY <2>4, <2>5
<1>5. CASE InitDone
  <2>1. /\ UNCHANGED <<chosen, est, argv>> /\ i' = 0 /\ i = NumInits
        /\ (opc = "init10" /\ opc' = "estimate") \/ (opc = "init" /\ opc' = "run")
    BY <1>5 DEF InitDone
  <2>2. /\ Mixed(i)' = Mixed(0) /\ Mixed(Len(chosen))' = Mixed(Len(chosen))
        /\ (Settled' <=> Settled) /\ (Adding' <=> Adding)
    BY <1>0, <2>1, SettledStays, MixedStays
  <2>3. Base \in Seq(AWord) /\ Len(Base) = Len(user)
    BY <1>0, <2>1 DEF OAuto
  <2>4. ASSUME Adding, opc = "init10"
        PROVE  /\ Len(argv) = Len(user) + Len(chosen)
               /\ \/ argv[Len(user) + Len(chosen)].opt = "plain" /\ 0 < Len(chosen)
                  \/ argv = Base \o Mixed(0) /\ Settled
    <3> DEFINE n == Len(user) + Len(chosen)
    <3>1. chosen \in Seq(Names) /\ chosen # <<>> /\ Len(chosen) > 0
      BY <1>0, <2>4 DEF OSelection, Adding
    <3>2. CASE Stuck(argv) /\ Len(argv) = n
      BY <3>1, <3>2 DEF Stuck
    <3>3. CASE /\ argv = Base \o Mixed(0)
               /\ \A j \in 1 .. i : Scan(argv, OptionsOf(Registry[j]))[n].plain = <<>>
      <4>1. Settled
        BY <2>1, <3>3 DEF Settled
      <4>2. 0 <= Len(est) /\ 0 \in Nat
        BY <1>0 DEF OTypes
      <4>3. Len(argv) = n
        BY <1>0, <2>3, <3>1, <3>3, <4>2, AppendedLast
      <4> QED
        BY <3>3, <4>1, <4>3
    <3> QED
      BY <1>0, <2>4, <3>2, <3>3 DEF OAuto
  <2>5. CASE opc' = "estimate"
    BY <1>0, <2>1, <2>2, <2>3, <2>4, <2>5 DEF OAuto
  <2>6. CASE opc' = "run"
    BY <1>0, <2>1, <2>2, <2>3, <2>6 DEF OAuto
  <2> QED
    BY <2>1, <2>5, <2>6
<1>6. CASE Estimate
  <2>1. opc = "estimate" /\ UNCHANGED <<opc, chosen>>
    BY <1>6 DEF Estimate
  <2>2. (Settled' <=> Settled) /\ (Adding' <=> Adding)
    BY <1>0, <2>1, SettledStays
  <2>3. Base \in Seq(AWord) /\ Len(Base) = Len(user)
    BY <1>0, <2>1 DEF OAuto
  <2>4. Adding =>
          /\ Len(argv') = Len(user) + Len(chosen)
          /\ \/ argv'[Len(user) + Len(chosen)].opt = "plain" /\ i' < Len(chosen)
             \/ argv' = Base \o Mixed(i)' /\ Settled
    BY <1>6, OAutoEstimate
  <2> QED
    BY <1>0, <2>1, <2>2, <2>3, <2>4 DEF OAuto
<1>7. CASE EstimatesDone
  <2>1. /\ UNCHANGED <<chosen, est, argv>> /\ i = Len(chosen) /\ opc = "estimate"
        /\ opc' = IF tune THEN "tuned" ELSE "init"
    BY <1>7 DEF EstimatesDone
  <2>2. /\ Mixed(Len(chosen))' = Mixed(Len(chosen)) /\ (Settled' <=> Settled)
        /\ (Adding' <=> Adding)
    BY <1>0, <2>1, SettledStays, MixedStays
  <2>3. Base \in Seq(AWord) /\ Len(Base) = Len(user)
    BY <1>0, <2>1 DEF OAuto
  <2>4. Adding => argv = Base \o Mixed(Len(chosen)) /\ Settled
    BY <1>0, <2>1 DEF OAuto, OSelection
  <2> QED
    BY <1>0, <2>1, <2>2, <2>3, <2>4 DEF OAuto
<1>8. CASE UNCHANGED ovars
  <2>1. /\ UNCHANGED <<opc, argv, i, chosen, est>>
    BY <1>8 DEF ovars
  <2>2. /\ Mixed(0)' = Mixed(0) /\ Mixed(i)' = Mixed(i) /\ Mixed(Len(chosen))' = Mixed(Len(chosen))
        /\ (Settled' <=> Settled) /\ (Adding' <=> Adding)
    BY <1>0, <2>1, SettledStays, MixedStays
  <2> QED
    BY <1>0, <2>1, <2>2 DEF OAuto
<1> QED
  BY <1>1, <1>2, <1>3, <1>4, <1>5, <1>6, <1>7, <1>8
  DEF Next, Ended, SelectAll, Select, SelectDone, FreeUsersWord

-----------------------------------------------------------------------------
(* What WellFormed asks of the command line is what the parsers need, and  *)
(* they leave it so.                                                       *)
LEMMA UserFollowed ==
  ASSUME OTypes, WellFormed
  PROVE  /\ Followed(user)
         /\ \/ Tidy(user)
            \/ \E k \in 1 .. Len(user) :
                 Parted(user, k) /\ \A l \in 1 .. k - 1 : ~Valueless(user, l)
<1>0. user \in Seq(AWord) /\ Len(user) \in Nat
  BY DEF OTypes
<1>1. ASSUME NEW k \in 1 .. Len(user), Valueless(user, k)
      PROVE  /\ k < Len(user) /\ user[k + 1] \in {Plain(n) : n \in Numbers}
             /\ \A l \in 1 .. k - 1 : user[l].opt # "plain"
             /\ \A l \in k + 1 .. Len(user) : user[l].opt = "plain"
  <2>1. user[k].opt \in Names /\ Apart(k)
    BY <1>1, NameFacts DEF Valueless, Apart
  <2> QED
    BY <2>1 DEF WellFormed
<1>2. \A k \in 1 .. Len(user) : Valueless(user, k) => k < Len(user) /\ user[k + 1].opt = "plain"
  BY <1>0, <1>1
<1>3. ASSUME ~Tidy(user)
      PROVE  \E k \in 1 .. Len(user) :
               Parted(user, k) /\ \A l \in 1 .. k - 1 : ~Valueless(user, l)
  <2>1. PICK k \in 1 .. Len(user) : Valueless(user, k)
    BY <1>3 DEF Tidy
  <2>2. user[k].opt # "plain"
    BY <2>1, NameFacts DEF Valueless
  <2>3. \A l \in 1 .. k : user[l].opt # "plain"
    <3> TAKE l \in 1 .. k
    <3>1. l = k \/ l \in 1 .. k - 1
      BY <1>0
    <3> QED
      BY <1>1, <2>1, <2>2, <3>1
  <2>4. Parted(user, k)
    BY <1>0, <1>1, <2>1, <2>3 DEF Parted
  <2>5. ASSUME NEW l \in 1 .. k - 1, Valueless(user, l)
        PROVE  FALSE
    <3>1. l \in 1 .. Len(user) /\ k \in l + 1 .. Len(user)
      BY <1>0
    <3>2. user[k].opt = "plain"
      BY <1>1, <2>5, <3>1
    <3> QED
      BY <2>2, <3>2
  <2> QED
    BY <2>4, <2>5
<1> QED
  BY <1>2, <1>3 DEF Followed

(* The value the user gave last.                                           *)
LEMMA UserHas ==
  ASSUME OTypes, WellFormed, NEW b \in Names, Given(b) # {}
  PROVE  LET k == LastGiven(b)
             v == IF user[k].value # None THEN user[k].value ELSE Strtoul(user[k + 1])
         IN  v \in Nat /\ Has(user, b, v)
<1> DEFINE k == LastGiven(b)
           v == IF user[k].value # None THEN user[k].value ELSE Strtoul(user[k + 1])
<1>0. user \in Seq(AWord) /\ Len(user) \in Nat
  BY DEF OTypes
<1>1. LastAt(user, Len(user), b, k)
  BY <1>0, LastExists DEF Given, LastGiven
<1> HIDE DEF k
<1>2. k \in 1 .. Len(user) /\ user[k].opt = b /\ user[k] \in AWord
  BY <1>0, <1>1 DEF LastAt
<1>3. Value(user, k) = v
  BY DEF Value
<1>4. Has(user, b, v)
  BY <1>1, <1>2, <1>3 DEF Has, Holds
<1>5. v \in Nat
  <2>1. CASE user[k].value # None
    BY <1>2, <2>1 DEF AWord
  <2>2. CASE user[k].value = None
    <3>1. user[k].opt \in Names /\ Apart(k)
      BY <1>2, <2>2, NameFacts DEF Apart
    <3>2. user[k + 1] \in {Plain(n) : n \in Numbers}
      BY <1>2, <3>1 DEF WellFormed
    <3>3. PICK n \in Numbers : user[k + 1] = Plain(n)
      BY <3>2
    <3>4. n \in Nat
      BY OptionsAssumption
    <3> QED
      BY <2>2, <3>3, <3>4 DEF Strtoul, Plain, Word
  <2> QED
    BY <2>1, <2>2
<1> QED
  BY <1>4, <1>5 DEF k

LEMMA BaseReady ==
  ASSUME OTypes, WellFormed,
         \A f \in Range(Getopt(user, {"policy"}).found) : f.arg = Pair
  PROVE  Ready(Base)
<1>0. user \in Seq(AWord) /\ Len(user) \in Nat /\ {"policy"} \in OptionSets
  BY DEF OTypes, OptionSets
<1>1. CASE Tidy(user)
  <2>1. Tidy(Base) /\ Len(Base) = Len(user)
    BY <1>0, <1>1, TidyStays, GetoptFacts DEF Base
  <2>2. Followed(Base)
    BY <2>1, TidyFollowed
  <2>3. Agree(Base)
    <3>1. \A b \in Names, v \in Nat : Holds(Base, Len(user), b, v) <=> Holds(user, Len(user), b, v)
      BY <1>0, <1>1, ValuesKept DEF Base
    <3> QED
      BY <2>1, <3>1 DEF Agree, Has
  <2> QED
    BY <2>1, <2>2, <2>3 DEF Ready
<1>2. CASE ~Tidy(user)
  <2>1. PICK k \in 1 .. Len(user) : Parted(user, k) /\ \A l \in 1 .. k - 1 : ~Valueless(user, l)
    BY <1>2, UserFollowed
  <2> DEFINE found == Getopt(user, {"policy"}).found
  <2>2. ASSUME Steals(user, {"policy"}, k, found)
        PROVE  FALSE
    <3>1. PICK l \in 1 .. k - 1 : \E f \in 1 .. Len(found) : found[f].arg = user[l + 1]
      BY <2>2 DEF Steals
    <3>2. PICK f \in 1 .. Len(found) : found[f].arg = user[l + 1]
      BY <3>1
    <3>3. found \in Seq(AFind)
      BY <1>0, GetoptFacts
    <3> HIDE DEF found
    <3>4. found[f] \in Range(found)
      BY <3>2, <3>3 DEF Range
    <3>5. user[l + 1] = Pair
      BY <3>2, <3>4 DEF found
    <3>6. l + 1 \in 1 .. k
      BY <1>0
    <3>7. user[l + 1].opt # "plain"
      BY <2>1, <3>6 DEF Parted
    <3> QED
      BY <3>5, <3>7 DEF Pair, Plain, Word
  <2>3. Base = user
    BY <1>0, <2>1, <2>2, InPlaceAlways DEF Base
  <2>4. k \in 0 .. Len(user)
    BY <1>0
  <2> QED
    BY <2>1, <2>3, <2>4, UserFollowed DEF Ready, Agree
<1> QED
  BY <1>1, <1>2

LEMMA ReadyStays ==
  ASSUME NEW words \in Seq(AWord), Ready(words), NEW known \in SUBSET Names
  PROVE  Ready(Getopt(words, known).argv)
<1> DEFINE r == Getopt(words, known).argv
<1>0. known \in OptionSets
  BY DEF OptionSets
<1>1. CASE Tidy(words)
  <2>1. Tidy(r) /\ Len(r) = Len(words)
    BY <1>0, <1>1, TidyStays, GetoptFacts
  <2>2. \A b \in Names, v \in Nat : Holds(r, Len(words), b, v) <=> Holds(words, Len(words), b, v)
    BY <1>0, <1>1, ValuesKept
  <2> HIDE DEF r
  <2>3. Followed(r)
    BY <2>1, TidyFollowed
  <2>4. Agree(r)
    BY <2>1, <2>2 DEF Ready, Agree, Has
  <2>5. Ready(r)
    BY <2>1, <2>3, <2>4 DEF Ready
  <2> QED
    BY <2>5 DEF r
<1>2. CASE ~Tidy(words)
  <2>1. PICK k \in 0 .. Len(words) : Parted(words, k) /\ \A l \in 1 .. k - 1 : ~Valueless(words, l)
    BY <1>2 DEF Ready
  <2>2. ~Steals(words, known, k, Getopt(words, known).found)
    BY <2>1 DEF Steals, Valueless
  <2>3. r = words
    BY <1>0, <2>1, <2>2, InPlaceAlways
  <2> QED
    BY <2>3
<1> QED
  BY <1>1, <1>2

(* Parsing adds no option.                                                 *)
LEMMA NoneAdded ==
  ASSUME NEW words \in Seq(AWord), NEW known \in OptionSets, NEW b, Occurrences(words, b) = {}
  PROVE  Occurrences(Getopt(words, known).argv, b) = {}
<1> DEFINE r == Getopt(words, known).argv
<1>1. Within(words, r)
  BY GetoptFacts
<1> HIDE DEF r
<1>2. Occurrences(r, b) = {}
  BY <1>1 DEF Within, Occurrences
<1> QED
  BY <1>2 DEF r

LEMMA NoneConcat ==
  ASSUME NEW s \in Seq(AWord), NEW t \in Seq(AWord), NEW b,
         Occurrences(s, b) = {}, Occurrences(t, b) = {}
  PROVE  Occurrences(s \o t, b) = {}
<1> DEFINE r == s \o t
<1>1. /\ Len(s) \in Nat /\ Len(t) \in Nat /\ Len(r) = Len(s) + Len(t)
      /\ \A l \in 1 .. Len(s) : r[l] = s[l]
      /\ \A l \in 1 .. Len(t) : r[Len(s) + l] = t[l]
  BY Concatenated
<1> HIDE DEF r
<1>2. ASSUME NEW l \in 1 .. Len(r)
      PROVE  r[l].opt # b
  <2>1. CASE l <= Len(s)
    BY <1>1, <2>1 DEF Occurrences
  <2>2. CASE l > Len(s)
    <3> DEFINE e == l - Len(s)
    <3>1. e \in 1 .. Len(t) /\ Len(s) + e = l
      BY <1>1, <2>2
    <3> HIDE DEF e
    <3>2. r[l] = t[e]
      BY <1>1, <3>1
    <3> QED
      BY <3>1, <3>2 DEF Occurrences
  <2> QED
    BY <1>1, <2>1, <2>2
<1>3. Occurrences(r, b) = {}
  BY <1>2 DEF Occurrences
<1> QED
  BY <1>3 DEF r

(* Without words of main's own, the benchmarks parse what main has left.   *)
LEMMA OReadyPrepare ==
  ASSUME OInv, Prepare
  PROVE  /\ WellFormed /\ ~Adding /\ ~tune => Ready(argv')
         /\ \A b \in Names : Untouched(b) => Occurrences(argv', b) = {}
<1>1. OTypes /\ OReady
  BY DEF OInv
<1>2. /\ chosen \in Seq(Names) /\ Len(chosen) \in Nat /\ 0 <= Len(est) /\ 0 \in Nat
      /\ Mixed(0) \in Seq(AWord) /\ Len(Mixed(0)) = Len(chosen)
      /\ argv = Base /\ argv \in Seq(AWord) /\ opc = "selected"
      /\ \/ tune /\ argv' = Mixed(0)
         \/ ~tune /\ auto /\ argv' = argv \o Mixed(0)
         \/ ~tune /\ ~auto /\ argv' = argv
  BY PrepareFacts
<1>3. /\ WellFormed => Ready(argv)
      /\ \A b \in Names : Given(b) = {} => Occurrences(argv, b) = {}
  BY <1>1, <1>2 DEF OReady, Before
<1>4. ASSUME ~Adding, ~tune
      PROVE  argv' = argv
  <2>1. CASE chosen = <<>>
    <3>1. Mixed(0) = <<>>
      BY <1>2, <2>1
    <3> QED
      BY <1>2, <1>4, <3>1
  <2>2. CASE ~auto
    BY <1>2, <1>4, <2>2
  <2> QED
    BY <1>4, <2>1, <2>2 DEF Adding
<1>5. ASSUME NEW b \in Names, Untouched(b)
      PROVE  Occurrences(argv', b) = {}
  <2>1. Occurrences(argv, b) = {}
    BY <1>3, <1>5 DEF Untouched
  <2>2. tune \/ auto => Occurrences(Mixed(0), b) = {}
    <3>1. tune \/ auto => b \notin Range(chosen)
      BY <1>5 DEF Untouched
    <3> QED
      BY <1>1, <1>2, <3>1, MixedHas
  <2>3. auto => Occurrences(argv \o Mixed(0), b) = {}
    BY <1>2, <2>1, <2>2, NoneConcat
  <2> QED
    BY <1>2, <2>1, <2>2, <2>3
<1> QED
  BY <1>3, <1>4, <1>5

LEMMA OReadyStep ==
  ASSUME OInv, [Next]_ovars
  PROVE  OReady'
<1> USE DEF Before
<1>0. /\ OTypes /\ OPhases /\ OSelection /\ OAuto /\ OReady
      /\ user' = user /\ tune' = tune /\ auto' = auto /\ Base' = Base
      /\ (WellFormed' <=> WellFormed) /\ \A b : Given(b)' = Given(b)
  BY InputStays, Fixed DEF OInv
<1>2. Ready(Base)' <=> Ready(Base)
  BY <1>0 DEF Ready, Agree
<1>3. CASE ParseOptions
  <2>1. /\ argv = user /\ user \in Seq(AWord) /\ {"policy"} \in OptionSets /\ opc = "parse"
        /\ argv' = Base /\ opc' \in {"select", "exited"}
        /\ opc' = "select" => \A f \in Range(Getopt(user, {"policy"}).found) : f.arg = Pair
    BY <1>0, <1>3 DEF OAuto, OTypes, ParseOptions, OptionSets, Base
  <2>2. WellFormed /\ opc' = "select" => Ready(Base)
    BY <1>0, <2>1, BaseReady
  <2>3. \A b : Given(b) = {} => Occurrences(Base, b) = {}
    BY <2>1, NoneAdded DEF Given, Base
  <2> QED
    BY <1>0, <1>2, <2>1, <2>2, <2>3 DEF OReady
<1>4. ASSUME opc \notin {"parse", "exited"}, WellFormed
      PROVE  Ready(Base)'
  BY <1>0, <1>2, <1>4 DEF OReady
<1>5. ASSUME opc \in Before, opc \notin {"parse", "exited"}, UNCHANGED argv,
             opc' \in Before \cup {"run", "tuned", "crashed"}
      PROVE  OReady'
  BY <1>0, <1>4, <1>5 DEF OReady
<1>6. CASE Prepare
  <2>1. /\ opc = "selected" /\ opc' \in {"init10", "init"} /\ UNCHANGED chosen
    BY <1>6 DEF Prepare
  <2>2. /\ WellFormed /\ ~Adding /\ ~tune => Ready(argv')
        /\ \A b \in Names : Untouched(b) => Occurrences(argv', b) = {}
    BY <1>6, OReadyPrepare
  <2>3. (Adding' <=> Adding) /\ \A b : Untouched(b)' <=> Untouched(b)
    BY <1>0, <2>1 DEF Adding, Untouched
  <2>4. Ready(argv)' <=> Ready(argv')
    BY <1>0 DEF Ready, Agree
  <2> QED
    BY <1>0, <1>4, <2>1, <2>2, <2>3, <2>4 DEF OReady
<1>7. CASE InitBenchmark
  <2>1. /\ Own \in SUBSET Names /\ Own \in OptionSets /\ opc \in Initialising
        /\ UNCHANGED <<opc, chosen>>
        /\ argv \in Seq(AWord) /\ argv' = Getopt(argv, Own).argv
    BY <1>7, InitFacts
  <2>2. /\ WellFormed /\ ~Adding /\ ~tune => Ready(argv)
        /\ \A b \in Names : Untouched(b) => Occurrences(argv, b) = {}
    BY <1>0, <2>1 DEF OReady, Initialising
  <2>3. WellFormed /\ ~Adding /\ ~tune => Ready(argv')
    BY <2>1, <2>2, ReadyStays
  <2>4. \A b \in Names : Untouched(b) => Occurrences(argv', b) = {}
    BY <2>1, <2>2, NoneAdded
  <2>5. (Adding' <=> Adding) /\ \A b : Untouched(b)' <=> Untouched(b)
    BY <1>0, <2>1 DEF Adding, Untouched
  <2>6. Ready(argv)' <=> Ready(argv')
    BY <1>0 DEF Ready, Agree
  <2> QED
    BY <1>0, <1>4, <2>1, <2>3, <2>4, <2>5, <2>6 DEF OReady, Initialising
<1>8. CASE Estimate
  <2>1. /\ opc = "estimate" /\ UNCHANGED <<opc, chosen>> /\ i < Len(chosen)
    BY <1>8 DEF Estimate
  <2>2. chosen \in Seq(Names) /\ i + 1 \in 1 .. Len(chosen) /\ chosen # <<>> /\ (tune \/ auto)
    BY <1>0, <2>1 DEF OSelection, OPhases
  <2>3. PICK e \in Estimates : argv' = [argv EXCEPT ![Place] = Appended(chosen[i + 1], e)]
    BY <1>8 DEF Estimate
  <2> DEFINE w == Appended(chosen[i + 1], e)
  <2>4. w \in AWord /\ w.opt = chosen[i + 1]
    <3>1. e \in Nat
      BY OptionsAssumption
    <3>2. chosen[i + 1] \in Names /\ chosen[i + 1] # "plain"
      BY <2>2, NameFacts
    <3> QED
      BY <3>1, <3>2 DEF Appended, Word, AWord
  <2>5. argv \in Seq(AWord)
    BY <1>0 DEF OTypes
  <2> HIDE DEF w
  <2>6. /\ Len(argv') = Len(argv)
        /\ \A l \in 1 .. Len(argv) : argv'[l] = IF l = Place THEN w ELSE argv[l]
    BY <2>3, <2>4, <2>5, Replacing DEF w
  <2>7. ASSUME NEW b \in Names, Untouched(b)
        PROVE  Occurrences(argv', b) = {}
    <3>1. Occurrences(argv, b) = {}
      BY <1>0, <2>1, <2>7 DEF OReady
    <3>2. b # chosen[i + 1]
      BY <2>2, <2>7 DEF Untouched, Range
    <3> QED
      BY <2>4, <2>6, <3>1, <3>2 DEF Occurrences
  <2>8. (Adding' <=> Adding) /\ \A b : Untouched(b)' <=> Untouched(b)
    BY <1>0, <2>1 DEF Adding, Untouched
  <2>9. Adding \/ tune
    BY <2>2 DEF Adding
  <2> QED
    BY <1>0, <1>4, <2>1, <2>7, <2>8, <2>9 DEF OReady
<1>9. ASSUME opc \in {"init10", "estimate", "init"}, UNCHANGED <<argv, chosen>>,
             opc' \notin Before
      PROVE  OReady'
  <2>1. (Adding' <=> Adding) /\ \A b : Untouched(b)' <=> Untouched(b)
    BY <1>0, <1>9 DEF Adding, Untouched
  <2>2. Ready(argv)' <=> Ready(argv)
    BY <1>0, <1>9 DEF Ready, Agree
  <2> QED
    BY <1>0, <1>4, <1>9, <2>1, <2>2 DEF OReady
<1>10. CASE UNCHANGED ovars
  <2>1. /\ UNCHANGED <<opc, argv, chosen>>
    BY <1>10 DEF ovars
  <2>2. (Adding' <=> Adding) /\ \A b : Untouched(b)' <=> Untouched(b)
    BY <1>0, <2>1 DEF Adding, Untouched
  <2>3. Ready(argv)' <=> Ready(argv)
    BY <1>0, <2>1 DEF Ready, Agree
  <2> QED
    BY <1>0, <1>2, <2>1, <2>2, <2>3 DEF OReady
<1> QED
  BY <1>3, <1>5, <1>6, <1>7, <1>8, <1>9, <1>10
  DEF Next, Ended, SelectAll, Select, SelectDone, InitDone, FreeUsersWord, EstimatesDone

-----------------------------------------------------------------------------
LEMMA FollowedConcat ==
  ASSUME NEW s \in Seq(AWord), NEW t \in Seq(AWord), Followed(s), Followed(t)
  PROVE  Followed(s \o t)
<1> DEFINE r == s \o t
<1>1. /\ Len(s) \in Nat /\ Len(t) \in Nat /\ Len(r) = Len(s) + Len(t)
      /\ \A l \in 1 .. Len(s) : r[l] = s[l]
      /\ \A l \in 1 .. Len(t) : r[Len(s) + l] = t[l]
  BY Concatenated
<1> HIDE DEF r
<1>2. ASSUME NEW l \in 1 .. Len(r), Valueless(r, l)
      PROVE  l < Len(r) /\ r[l + 1].opt = "plain"
  <2>1. CASE l <= Len(s)
    <3>1. l < Len(s) /\ s[l + 1].opt = "plain"
      BY <1>1, <1>2, <2>1 DEF Followed, Valueless
    <3> QED
      <4>1. l + 1 \in 1 .. Len(s) /\ Len(s) <= Len(r)
        BY <1>1, <1>2, <2>1, <3>1
      <4>2. r[l + 1] = s[l + 1]
        BY <1>1, <4>1
      <4> QED
        BY <1>1, <3>1, <4>1, <4>2
  <2>2. CASE l > Len(s)
    <3> DEFINE e == l - Len(s)
    <3>1. e \in 1 .. Len(t) /\ Len(s) + e = l
      BY <1>1, <2>2
    <3> HIDE DEF e
    <3>2. r[l] = t[e]
      BY <1>1, <3>1
    <3>3. e < Len(t) /\ t[e + 1].opt = "plain"
      BY <1>2, <3>1, <3>2 DEF Followed, Valueless
    <3>4. e + 1 \in 1 .. Len(t) /\ Len(s) + (e + 1) = l + 1 /\ l < Len(r)
      <4> DEFINE a == Len(s)
                 c == Len(t)
                 n == Len(r)
      <4>1. a \in Nat /\ c \in Nat /\ n = a + c /\ e \in 1 .. c /\ a + e = l /\ e < c
        BY <1>1, <3>1, <3>3
      <4> HIDE DEF a, c, n
      <4>2. e + 1 \in 1 .. c /\ a + (e + 1) = l + 1 /\ l < n
        BY <4>1
      <4> QED
        BY <4>2 DEF a, c, n
    <3>5. r[Len(s) + (e + 1)] = t[e + 1]
      BY <1>1, <3>4
    <3>6. r[l + 1] = t[e + 1]
      BY <3>4, <3>5
    <3> QED
      BY <3>3, <3>4, <3>6
  <2> QED
    BY <1>1, <2>1, <2>2
<1>3. Followed(r)
  BY <1>2 DEF Followed
<1> QED
  BY <1>3 DEF r

(* When the benchmarks are initialised for the last time, argv has for     *)
(* each of them what the user asked for, if it has anything.               *)
LEMMA InitHas ==
  ASSUME OInv, WellFormed, opc = "init"
  PROVE  /\ Followed(argv)
         /\ \A b \in Names : ~Untouched(b) => Asked(b) \in Nat /\ Has(argv, b, Asked(b))
<1> DEFINE m == Len(chosen)
           k(b) == LastGiven(b)
           v(b) == IF user[k(b)].value # None THEN user[k(b)].value ELSE Strtoul(user[k(b) + 1])
<1>1. /\ OTypes /\ ~tune /\ chosen \in Seq(Names) /\ m \in Nat
      /\ Ready(Base) /\ Base \in Seq(AWord)
      /\ Adding => argv = Base \o Mixed(m) /\ m <= Len(est)
      /\ ~Adding => Ready(argv)
  BY DEF OInv, OPhases, OSelection, OAuto, OReady, Adding
<1>2. ASSUME NEW b \in Names, ~Untouched(b), ~(auto /\ b \in Range(chosen))
      PROVE  Asked(b) = v(b) /\ v(b) \in Nat /\ Has(user, b, v(b))
  <2>1. Given(b) # {}
    BY <1>1, <1>2 DEF Untouched
  <2>2. Asked(b) = v(b)
    BY <1>2, <2>1 DEF Asked
  <2> QED
    BY <1>1, <2>1, <2>2, UserHas
<1> HIDE DEF v
<1>3. CASE Adding
  <2> DEFINE mixed == Mixed(m)
  <2>1. /\ mixed \in Seq(AWord) /\ Len(mixed) = m /\ Followed(mixed) /\ m <= Len(est)
        /\ argv = Base \o mixed /\ auto
    BY <1>1, <1>3, MixedFacts, MixedTidy DEF Adding
  <2>2. Followed(Base) /\ Agree(Base)
    BY <1>1 DEF Ready
  <2>3. Followed(argv)
    BY <1>1, <2>1, <2>2, FollowedConcat
  <2>4. ASSUME NEW b \in Names, NEW e
        PROVE  Has(argv, b, e) <=> Has(mixed, b, e) \/ (Occurrences(mixed, b) = {} /\ Has(Base, b, e))
    <3> HIDE DEF mixed
    <3>1. Len(argv) = Len(Base) + Len(mixed)
      BY <1>1, <2>1, Concatenated
    <3>2. Holds(Base \o mixed, Len(Base) + Len(mixed), b, e) <=>
            \/ Holds(mixed, Len(mixed), b, e)
            \/ Occurrences(mixed, b) = {} /\ Holds(Base, Len(Base), b, e)
      BY <1>1, <2>1, <2>2, HoldsConcat
    <3> QED
      BY <2>1, <3>1, <3>2 DEF Has
  <2>5. ASSUME NEW b \in Names, b \in Range(chosen)
        PROVE  Asked(b) \in Nat /\ Has(argv, b, Asked(b))
    <3> DEFINE l == LastChosen(b)
    <3>1. l \in 1 .. m /\ Has(mixed, b, IF l <= m THEN est[l] ELSE 10)
      BY <1>1, <2>1, <2>5, MixedHas
    <3>2. Asked(b) = est[l]
      BY <2>1, <2>5 DEF Asked
    <3> HIDE DEF l, mixed
    <3>3. est[l] \in Estimates /\ l <= m
      BY <1>1, <2>1, <3>1 DEF OTypes
    <3>4. est[l] \in Nat
      BY <3>3, OptionsAssumption
    <3> QED
      BY <2>4, <3>1, <3>2, <3>3, <3>4
  <2>6. ASSUME NEW b \in Names, b \notin Range(chosen), ~Untouched(b)
        PROVE  Asked(b) \in Nat /\ Has(argv, b, Asked(b))
    <3>1. Asked(b) = v(b) /\ v(b) \in Nat /\ Has(user, b, v(b))
      BY <1>2, <2>6
    <3>2. Has(Base, b, v(b))
      BY <2>2, <3>1 DEF Agree
    <3>3. Occurrences(mixed, b) = {}
      BY <1>1, <2>1, <2>6, MixedHas
    <3> HIDE DEF mixed
    <3> QED
      BY <2>4, <3>1, <3>2, <3>3
  <2> QED
    BY <2>3, <2>5, <2>6
<1>4. CASE ~Adding
  <2>1. Followed(argv) /\ Agree(argv)
    BY <1>1, <1>4 DEF Ready
  <2>2. \A b : ~(auto /\ b \in Range(chosen))
    BY <1>1, <1>4 DEF Adding, Range
  <2>3. ASSUME NEW b \in Names, ~Untouched(b)
        PROVE  Asked(b) \in Nat /\ Has(argv, b, Asked(b))
    <3>1. Asked(b) = v(b) /\ v(b) \in Nat /\ Has(user, b, v(b))
      BY <1>2, <2>2, <2>3
    <3> QED
      BY <2>1, <3>1 DEF Agree
  <2> QED
    BY <2>1, <2>3
<1> QED
  BY <1>3, <1>4

LEMMA ORoundsStep ==
  ASSUME OInv, [Next]_ovars
  PROVE  ORounds'
<1> USE DEF Before
<1>0. /\ OTypes /\ OPhases /\ OSelection /\ OAuto /\ OReady /\ ORounds
      /\ user' = user /\ tune' = tune /\ auto' = auto
      /\ (WellFormed' <=> WellFormed) /\ \A b : Given(b)' = Given(b)
  BY InputStays, Fixed DEF OInv
<1>1. /\ opc \in Before => rounds = Default
      /\ \A b \in Names : Untouched(b) => rounds[b] = Default[b]
      /\ WellFormed /\ opc = "init" =>
           \A j \in 1 .. i : \A b \in OptionsOf(Registry[j]) : rounds[b] = Asked(b)
      /\ opc = "run" /\ WellFormed => \A b \in Names : rounds[b] = Asked(b)
  BY <1>0 DEF ORounds, RoundsAsAsked
<1>2. ASSUME opc \in Before, opc' \in Before, UNCHANGED rounds
      PROVE  ORounds'
  BY <1>1, <1>2 DEF ORounds, RoundsAsAsked
<1>3. ASSUME UNCHANGED chosen
      PROVE  \A b : Untouched(b)' <=> Untouched(b)
  BY <1>0, <1>3 DEF Untouched
<1>4. ASSUME UNCHANGED <<chosen, est>>
      PROVE  \A b : Asked(b)' = Asked(b)
  BY <1>0, <1>4 DEF Asked, LastGiven, LastChosen
<1>5. ASSUME UNCHANGED <<chosen, rounds>>, opc \notin Before \/ opc' \notin Before,
             opc' \notin Before, opc' # "run", opc' = "init" => i' = 0
      PROVE  ORounds'
  <2>1. \A j \in 1 .. i' : opc' # "init"
    BY <1>5
  <2> QED
    BY <1>1, <1>3, <1>5, <2>1 DEF ORounds, RoundsAsAsked
<1>6. CASE InitBenchmark
  <2>1. /\ Own \in SUBSET Names /\ Own \in OptionSets /\ opc \in Initialising
        /\ UNCHANGED <<opc, chosen, est>> /\ i \in Nat /\ i + 1 \in 1 .. NumInits /\ i' = i + 1
        /\ argv \in Seq(AWord) /\ rounds \in [Names -> Nat]
        /\ rounds' = RoundsAfter(Getopt(argv, Own).found)
    BY <1>6, InitFacts
  <2>2. \A b \in Names : b \notin Own \/ Occurrences(argv, b) = {} => rounds'[b] = rounds[b]
    BY <2>1, ParsedTypes
  <2>3. \A b \in Names : Untouched(b) => rounds'[b] = Default[b]
    BY <1>0, <1>1, <2>1, <2>2 DEF OReady, Initialising
  <2>4. ASSUME WellFormed, opc = "init", NEW b \in Names,
               b \in Own \/ rounds[b] = Asked(b)
        PROVE  rounds'[b] = Asked(b)
    <3>1. CASE Untouched(b)
      <4>1. Asked(b) = Default[b]
        BY <3>1 DEF Asked, Untouched
      <4> QED
        BY <2>3, <3>1, <4>1
    <3>2. CASE ~Untouched(b) /\ b \in Own
      <4>1. Followed(argv) /\ Asked(b) \in Nat /\ Has(argv, b, Asked(b))
        BY <2>4, <3>2, InitHas
      <4> QED
        BY <2>1, <3>2, <4>1, ParsedRounds
    <3>3. CASE b \notin Own
      BY <2>2, <2>4, <3>3
    <3> QED
      BY <3>1, <3>2, <3>3
  <2>5. ASSUME WellFormed, opc = "init", NEW j \in 1 .. i + 1, NEW b \in OptionsOf(Registry[j])
        PROVE  rounds'[b] = Asked(b)
    <3>1. j \in 1 .. NumInits
      BY <2>1, RegistryFacts
    <3>2. b \in Names
      BY <3>1, RegistryFacts
    <3>3. CASE j = i + 1
      BY <2>4, <2>5, <3>2, <3>3 DEF Own
    <3>4. CASE j # i + 1
      <4>1. j \in 1 .. i
        BY <2>1, <3>4
      <4> QED
        BY <1>1, <2>4, <2>5, <3>2, <4>1
    <3> QED
      BY <3>3, <3>4
  <2> QED
    BY <1>0, <1>3, <1>4, <2>1, <2>3, <2>5 DEF ORounds, RoundsAsAsked, Initialising
<1>7. CASE InitDone /\ opc = "init"
  <2>1. i = NumInits /\ opc' = "run" /\ UNCHANGED <<chosen, est, rounds>>
    BY <1>7 DEF InitDone
  <2>2. ASSUME WellFormed, NEW b \in Names
        PROVE  rounds[b] = Asked(b)
    <3>1. PICK j \in 1 .. NumInits : b \in OptionsOf(Registry[j])
      BY RegistryFacts
    <3> QED
      BY <1>1, <1>7, <2>1, <2>2, <3>1
  <2> QED
    BY <1>0, <1>1, <1>3, <1>4, <2>1, <2>2 DEF ORounds, RoundsAsAsked
<1>8. CASE UNCHANGED ovars
  <2>1. UNCHANGED <<opc, i, chosen, est, rounds>>
    BY <1>8 DEF ovars
  <2> QED
    BY <1>0, <1>1, <1>3, <1>4, <2>1 DEF ORounds, RoundsAsAsked
<1> QED
  BY <1>2, <1>5, <1>6, <1>7, <1>8
  DEF Next, Ended, ParseOptions, SelectAll, Select, SelectDone, Prepare, InitDone, Estimate,
      FreeUsersWord, EstimatesDone

-----------------------------------------------------------------------------
(* The invariant holds of every run of main (main.cc:577-766).             *)
THEOREM OptionsInvariant ==
  Spec => []OInv
<1>1. Init => OInv
  BY InitOInv
<1>2. OInv /\ [Next]_ovars => OInv'
  <2> SUFFICES ASSUME OInv, [Next]_ovars PROVE OInv'
    OBVIOUS
  <2>1. OTypes' /\ OPhases' /\ OSelection' /\ OTune'
    BY OTypesStep, OPhasesStep, OSelectionStep, OTuneStep
  <2>2. OTimed' /\ OAuto' /\ OReady' /\ ORounds'
    BY OTimedStep, OAutoStep, OReadyStep, ORoundsStep
  <2> QED
    BY <2>1, <2>2 DEF OInv
<1> QED
  BY <1>1, <1>2, PTL DEF Spec

LEMMA InvTypes ==
  ASSUME OInv
  PROVE  OptionsTypeOK
<1>1. OTypes /\ OPhases /\ OSelection
  BY DEF OInv
<1>2. argv \in Seq([opt : Names \cup {"plain", "policy"}, value : Nat \cup {None}, heap : BOOLEAN])
  <2>1. argv \in Seq(AWord)
    BY <1>1 DEF OTypes
  <2> DEFINE R == [opt : Names \cup {"plain", "policy"}, value : Nat \cup {None}, heap : BOOLEAN]
  <2>2. AWord \subseteq R
    BY DEF AWord
  <2> HIDE DEF R
  <2>3. argv \in Seq(R)
    BY <2>1, <2>2
  <2> QED
    BY <2>3 DEF R
<1>3. chosen \in Seq(Names \cup {"none"})
  <2>1. CASE opc \in {"parse", "exited"}
    <3>1. chosen = <<>>
      BY <1>1, <2>1 DEF OSelection
    <3> QED
      BY <3>1
  <2>2. CASE opc = "select"
    BY <1>1, <2>2 DEF OSelection
  <2>3. CASE opc \notin {"parse", "exited", "select"}
    <3>1. chosen \in Seq(Names)
      BY <1>1, <2>3 DEF OSelection
    <3> QED
      BY <3>1
  <2> QED
    BY <2>1, <2>2, <2>3
<1>4. i \in 0 .. Len(argv) + Len(Registry) + MaxNames
  <2>1. /\ Len(argv) \in Nat /\ Len(Registry) \in Nat /\ MaxNames \in Nat /\ NumInits <= Len(Registry)
        /\ NumInits \in Nat /\ Len(names) \in Nat /\ Len(names) <= MaxNames /\ token \in 0 .. Len(names)
    BY <1>1, RegistryFacts, OptionsAssumption DEF OTypes
  <2>2. opc \in {"init10", "init"} => i \in 0 .. Len(Registry)
    BY <1>1, <2>1 DEF OPhases, Initialising
  <2>3. opc \in {"select", "selected"} => i \in 0 .. MaxNames
    BY <1>1, <2>1 DEF OSelection
  <2>4. opc \in {"parse", "exited", "run", "tuned"} => i = 0
    BY <1>1 DEF OSelection, OPhases
  <2>5. opc \in {"estimate", "crashed"} =>
          /\ Len(chosen) \in Nat /\ Len(chosen) <= Len(Registry) + MaxNames
          /\ i \in 0 .. Len(chosen)
    BY <1>1 DEF OSelection, OPhases
  <2> DEFINE a == Len(argv)
             n == Len(Registry)
             c == Len(chosen)
  <2>6. /\ a \in Nat /\ n \in Nat /\ MaxNames \in Nat
        /\ \/ i \in 0 .. n \/ i \in 0 .. MaxNames \/ i = 0
           \/ c \in Nat /\ c <= n + MaxNames /\ i \in 0 .. c
    BY <1>1, <2>1, <2>2, <2>3, <2>4, <2>5 DEF OTypes
  <2> HIDE DEF a, n, c
  <2>7. i \in 0 .. a + n + MaxNames
    BY <2>6
  <2> QED
    BY <2>7 DEF a, n
<1> QED
  BY <1>1, <1>2, <1>3, <1>4 DEF OptionsTypeOK, OTypes

LEMMA InvChosen ==
  ASSUME OInv
  PROVE  ChosenInOrder
<1>1. OTypes /\ OSelection
  BY DEF OInv
<1>2. SUFFICES ASSUME opc \notin {"parse", "select", "exited"}, names # <<>>
               PROVE  \E place \in [1 .. Len(chosen) -> Known] :
                        /\ \A k, l \in 1 .. Len(chosen) : k < l => place[k] < place[l]
                        /\ Known = {place[k] : k \in 1 .. Len(chosen)}
                        /\ \A k \in 1 .. Len(chosen) : chosen[k] = names[place[k]]
  BY <1>1 DEF ChosenInOrder, OSelection
<1>3. Known = KnownIn(names) /\ KnownIn(names) \cap 1 .. Len(names) = KnownIn(names)
  BY DEF Known, KnownIn
<1>4. PICK place \in [1 .. Len(chosen) -> KnownIn(names)] :
        /\ \A k, l \in 1 .. Len(chosen) : k < l => place[k] < place[l]
        /\ KnownIn(names) \cap 1 .. Len(names) = {place[k] : k \in 1 .. Len(chosen)}
        /\ \A k \in 1 .. Len(chosen) : chosen[k] = names[place[k]]
  BY <1>1, <1>2 DEF OSelection, Kept
<1> QED
  BY <1>3, <1>4

LEMMA InvTune ==
  ASSUME OInv
  PROVE  TunePrints
<1> SUFFICES ASSUME opc = "tuned"
             PROVE  argv = [k \in 1 .. Len(chosen) |-> Appended(chosen[k], est[k])]
  BY DEF TunePrints
<1>1. argv = Mixed(Len(chosen)) /\ Len(chosen) \in Nat
  BY DEF OInv, OTune, OPhases, OSelection
<1>2. \A k \in 1 .. Len(chosen) : (IF k <= Len(chosen) THEN est[k] ELSE 10) = est[k]
  BY <1>1
<1> QED
  BY <1>1, <1>2 DEF Mixed

(* Every registry, command line and list of names: main's and the          *)
(* benchmarks' data have their types, and main's unsigned counter, though  *)
(* it wraps below zero, is back in range after every name                  *)
(* (main.cc:690-706).                                                      *)
THEOREM OptionsTyped ==
  Spec => []OptionsTypeOK
<1>1. OInv => OptionsTypeOK
  BY InvTypes
<1> QED
  BY <1>1, OptionsInvariant, PTL

(* --benchmarks runs the benchmarks it names, in that order, and nothing   *)
(* else (main.cc:685-713).                                                 *)
THEOREM ChosenAreInOrder ==
  Spec => []ChosenInOrder
<1>1. OInv => ChosenInOrder
  BY InvChosen
<1> QED
  BY <1>1, OptionsInvariant, PTL

(* What --tune prints: one option for each chosen benchmark, in order,     *)
(* with its estimate (main.cc:464-475).                                    *)
THEOREM TunePrintsEstimates ==
  Spec => []TunePrints
<1>1. OInv => TunePrints
  BY InvTune
<1> QED
  BY <1>1, OptionsInvariant, PTL

(* tune_time finds each benchmark initialised with the ten rounds it       *)
(* divides by (main.cc:417-423), whatever rounds the user gave with "=".   *)
THEOREM TimedWithTenRounds ==
  Spec => []TimedAsInitialised
<1>1. OInv => TimedAsInitialised
  BY DEF OInv, OTimed, TimedAsInitialised
<1> QED
  BY <1>1, OptionsInvariant, PTL

(* However main and the benchmarks permute and parse the same argv, every  *)
(* benchmark runs with the rounds that were asked for (main.cc:577-766).   *)
THEOREM RoundsAreAsAsked ==
  Spec => []RoundsAsAsked
<1>1. OInv => RoundsAsAsked
  BY DEF OInv, ORounds
<1> QED
  BY <1>1, OptionsInvariant, PTL

-----------------------------------------------------------------------------
(* What it takes for main to free a word that is not its own: a word that  *)
(* belongs to no option, or an option's value in a word of its own, and    *)
(* --auto without --tune.                                                  *)
HasPlain == \E k \in 1 .. Len(user) : user[k].opt = "plain"
NonePlain(words) == \A l \in 1 .. Len(words) : words[l].opt # "plain"

CrashedBy == opc = "crashed" => ~tune /\ HasPlain

OCrash ==
  /\ CrashedBy
  /\ ~HasPlain /\ Adding /\ opc \in {"init10", "estimate"} => NonePlain(argv)

LEMMA PlainStays ==
  ASSUME NEW words \in Seq(AWord), NEW known \in OptionSets, NonePlain(words)
  PROVE  NonePlain(Getopt(words, known).argv)
<1> DEFINE r == Getopt(words, known).argv
<1>1. Within(words, r)
  BY GetoptFacts
<1> HIDE DEF r
<1>2. NonePlain(r)
  BY <1>1 DEF Within, NonePlain
<1> QED
  BY <1>2 DEF r

LEMMA PlainPrepared ==
  ASSUME OInv, Prepare, ~HasPlain, Adding
  PROVE  NonePlain(argv')
<1>1. /\ argv = Base /\ argv \in Seq(AWord) /\ chosen \in Seq(Names)
      /\ argv' = argv \o Mixed(0)
  BY PrepareFacts DEF Adding
<1>2. OTypes /\ 0 <= Len(est) /\ 0 \in Nat
  BY DEF OInv, OTypes
<1>3. NonePlain(argv)
  <2>1. user \in Seq(AWord) /\ {"policy"} \in OptionSets /\ NonePlain(user)
    BY <1>2 DEF OTypes, OptionSets, HasPlain, NonePlain
  <2> QED
    BY <1>1, <2>1, PlainStays DEF Base
<1>4. \A l \in 1 .. Len(chosen) : Mixed(0)[l].opt # "plain"
  BY <1>1, <1>2, MixedFacts
<1> DEFINE a == Mixed(0)
           m == Len(chosen)
           r == argv \o a
<1>5. /\ Len(argv) \in Nat /\ m \in Nat /\ Len(r) = Len(argv) + m
      /\ \A l \in 1 .. Len(argv) : r[l] = argv[l]
      /\ \A l \in 1 .. m : r[Len(argv) + l] = a[l]
  <2>1. a \in Seq(AWord) /\ Len(a) = m
    BY <1>1, <1>2, MixedFacts
  <2> HIDE DEF a, m
  <2> QED
    BY <1>1, <2>1, Joined
<1> HIDE DEF a, m, r
<1>6. ASSUME NEW l \in 1 .. Len(r)
      PROVE  r[l].opt # "plain"
  <2>1. CASE l <= Len(argv)
    BY <1>3, <1>5, <2>1 DEF NonePlain
  <2>2. CASE l > Len(argv)
    <3> DEFINE e == l - Len(argv)
    <3>1. e \in 1 .. m /\ Len(argv) + e = l
      BY <1>5, <2>2
    <3> HIDE DEF e
    <3>2. r[l] = a[e]
      BY <1>5, <3>1
    <3> QED
      BY <1>4, <3>1, <3>2 DEF a, m
  <2> QED
    BY <1>5, <2>1, <2>2
<1> QED
  BY <1>1, <1>6 DEF NonePlain, r, a

(* While estimates are written, main's own words are where it looks.       *)
LEMMA OwnWord ==
  ASSUME OInv, opc = "estimate", i < Len(chosen), ~argv[Place].heap
  PROVE  Adding /\ argv[Len(user) + Len(chosen)].opt = "plain"
         /\ Len(user) + Len(chosen) \in 1 .. Len(argv)
<1>1. OTypes /\ OPhases /\ OAuto /\ OTune
  BY DEF OInv
<1>2. /\ chosen \in Seq(Names) /\ i \in Nat /\ i + 1 \in 1 .. Len(chosen) /\ Len(chosen) \in Nat
      /\ Len(est) = i /\ i <= Len(est) /\ (tune \/ auto) /\ chosen # <<>>
  BY DEF OInv, OSelection, OPhases
<1>3. \A l \in 1 .. Len(chosen) : Mixed(i)[l].heap
  BY <1>1, <1>2, MixedFacts
<1>4. ~tune
  <2> SUFFICES ASSUME tune PROVE FALSE
    OBVIOUS
  <2>1. argv = Mixed(i) /\ Place = i + 1
    BY <1>1, <1>2 DEF OTune, Place
  <2> QED
    BY <1>2, <1>3, <2>1
<1>5. Adding
  BY <1>2, <1>4 DEF Adding
<1>6. /\ Len(argv) = Len(user) + Len(chosen) /\ Base \in Seq(AWord) /\ Len(Base) = Len(user)
      /\ argv[Len(user) + Len(chosen)].opt = "plain" \/ argv = Base \o Mixed(i)
      /\ Len(user) \in Nat /\ Place = Len(user) + i + 1
  BY <1>1, <1>4, <1>5 DEF OAuto, OTypes, Place
<1>7. ASSUME argv = Base \o Mixed(i)
      PROVE  FALSE
  <2> DEFINE a == Mixed(i)
             m == Len(chosen)
  <2>1. a \in Seq(AWord) /\ Len(a) = m
    BY <1>1, <1>2, MixedFacts
  <2>2. i + 1 \in 1 .. m /\ a[i + 1].heap
    BY <1>2, <1>3
  <2> HIDE DEF a, m
  <2>3. \A l \in 1 .. m : (Base \o a)[Len(Base) + l] = a[l]
    BY <1>6, <2>1, Joined
  <2>4. (Base \o a)[Len(Base) + (i + 1)] = a[i + 1]
    BY <2>2, <2>3
  <2>5. Len(Base) + (i + 1) = Place
    BY <1>2, <1>6
  <2>6. argv = Base \o a
    BY <1>7 DEF a
  <2> QED
    BY <2>2, <2>4, <2>5, <2>6
<1>8. Len(user) + Len(chosen) \in 1 .. Len(argv)
  BY <1>2, <1>6
<1> QED
  BY <1>5, <1>6, <1>7, <1>8

LEMMA OCrashStep ==
  ASSUME OInv, OCrash, [Next]_ovars
  PROVE  OCrash'
<1> USE DEF OCrash, CrashedBy
<1>0. /\ OTypes /\ OPhases /\ user' = user /\ tune' = tune /\ auto' = auto
      /\ (HasPlain' <=> HasPlain)
  <2>1. user' = user /\ tune' = tune /\ auto' = auto
    BY InputStays, Fixed
  <2> QED
    BY <2>1 DEF OInv, HasPlain
<1>1. ASSUME UNCHANGED chosen
      PROVE  Adding' <=> Adding
  BY <1>0, <1>1 DEF Adding
<1>2. ASSUME opc' \notin {"init10", "estimate", "crashed"}
      PROVE  OCrash'
  BY <1>2
<1>3. CASE Prepare
  <2>1. UNCHANGED chosen /\ opc' \in {"init10", "init"}
    BY <1>3 DEF Prepare
  <2>2. ~HasPlain /\ Adding => NonePlain(argv')
    BY <1>3, PlainPrepared
  <2>3. NonePlain(argv)' <=> NonePlain(argv')
    BY DEF NonePlain
  <2> QED
    BY <1>0, <1>1, <2>1, <2>2, <2>3
<1>4. CASE InitBenchmark
  <2>1. /\ Own \in OptionSets /\ opc \in Initialising /\ UNCHANGED <<opc, chosen>>
        /\ argv \in Seq(AWord) /\ argv' = Getopt(argv, Own).argv
    BY <1>4, InitFacts
  <2>2. NonePlain(argv) => NonePlain(argv)'
    BY <2>1, PlainStays DEF NonePlain
  <2> QED
    BY <1>0, <1>1, <2>1, <2>2 DEF Initialising
<1>5. CASE InitDone
  <2>1. UNCHANGED <<argv, chosen>> /\ opc \in {"init10", "init"} /\ opc' \in {"estimate", "run"}
        /\ (opc' = "estimate" => opc = "init10")
    BY <1>5 DEF InitDone
  <2>2. NonePlain(argv)' <=> NonePlain(argv)
    BY <2>1 DEF NonePlain
  <2> QED
    BY <1>0, <1>1, <2>1, <2>2
<1>6. CASE Estimate
  <2>1. /\ opc = "estimate" /\ UNCHANGED <<opc, chosen>> /\ i < Len(chosen)
    BY <1>6 DEF Estimate
  <2>2. chosen \in Seq(Names) /\ i + 1 \in 1 .. Len(chosen)
    BY <1>0, <2>1 DEF OInv, OSelection, OPhases
  <2>3. PICK e \in Estimates : argv' = [argv EXCEPT ![Place] = Appended(chosen[i + 1], e)]
    BY <1>6 DEF Estimate
  <2> DEFINE w == Appended(chosen[i + 1], e)
  <2>4. w \in AWord /\ w.opt # "plain"
    <3>1. e \in Nat
      BY OptionsAssumption
    <3>2. chosen[i + 1] \in Names /\ chosen[i + 1] # "plain"
      BY <2>2, NameFacts
    <3> QED
      BY <3>1, <3>2 DEF Appended, Word, AWord
  <2>5. argv \in Seq(AWord)
    BY <1>0 DEF OTypes
  <2> HIDE DEF w
  <2>6. /\ Len(argv') = Len(argv)
        /\ \A l \in 1 .. Len(argv) : argv'[l] = IF l = Place THEN w ELSE argv[l]
    BY <2>3, <2>4, <2>5, Replacing DEF w
  <2>7. NonePlain(argv) => NonePlain(argv)'
    BY <2>4, <2>6 DEF NonePlain
  <2> QED
    BY <1>0, <1>1, <2>1, <2>7
<1>7. CASE FreeUsersWord
  <2>1. /\ opc = "estimate" /\ i < Len(chosen) /\ ~argv[Place].heap /\ opc' = "crashed"
    BY <1>7 DEF FreeUsersWord
  <2>2. /\ Adding /\ argv[Len(user) + Len(chosen)].opt = "plain"
        /\ Len(user) + Len(chosen) \in 1 .. Len(argv)
    BY <2>1, OwnWord
  <2>3. HasPlain /\ ~tune
    BY <2>1, <2>2 DEF NonePlain, Adding
  <2> QED
    BY <1>0, <2>1, <2>3
<1>8. CASE UNCHANGED ovars
  <2>1. UNCHANGED <<opc, argv, chosen>>
    BY <1>8 DEF ovars
  <2>2. NonePlain(argv)' <=> NonePlain(argv)
    BY <2>1 DEF NonePlain
  <2> QED
    BY <1>0, <1>1, <2>1, <2>2
<1> QED
  BY <1>2, <1>3, <1>4, <1>5, <1>6, <1>7, <1>8
  DEF Next, Ended, ParseOptions, SelectAll, Select, SelectDone, EstimatesDone

(* AutoRuns does not hold, but main frees a word that it has not allocated *)
(* (main.cc:430-457) only with --auto, and only if the command line has    *)
(* such a word: --tune never does, nor does --auto when all options have   *)
(* their values after "=".                                                 *)
THEOREM CrashNeedsPlainWord ==
  Spec => []CrashedBy
<1>1. Init => OCrash
  BY DEF Init, OCrash, CrashedBy
<1>2. OInv /\ OInv' /\ OCrash /\ [Next]_ovars => OCrash'
  BY OCrashStep
<1>3. OCrash => CrashedBy
  BY DEF OCrash
<1> QED
  BY <1>1, <1>2, <1>3, OptionsInvariant, PTL DEF Spec

(* Where main looks for the words it has appended when it is done.         *)
FreedAreOwn ==
  /\ opc = "tuned" => \A l \in 1 .. Len(chosen) : argv[l].heap
  /\ opc = "run" /\ auto => \A l \in 1 .. Len(chosen) : argv[Len(user) + l].heap

LEMMA InvFreed ==
  ASSUME OInv
  PROVE  FreedAreOwn
<1> DEFINE a == Mixed(Len(chosen))
           m == Len(chosen)
<1>1. OTypes /\ OPhases /\ OAuto /\ OTune /\ OSelection
  BY DEF OInv
<1>2. ASSUME opc \in {"tuned", "run"}, opc = "tuned" \/ auto
      PROVE  /\ chosen \in Seq(Names) /\ m \in Nat /\ a \in Seq(AWord) /\ Len(a) = m
             /\ \A l \in 1 .. m : a[l].heap
  <2>1. chosen \in Seq(Names) /\ m \in Nat
    BY <1>1, <1>2 DEF OSelection
  <2>2. m <= Len(est)
    BY <1>1, <1>2, <2>1 DEF OPhases, OTypes
  <2> QED
    BY <1>1, <2>1, <2>2, MixedFacts
<1> HIDE DEF a
<1>3. ASSUME opc = "tuned", NEW l \in 1 .. m
      PROVE  argv[l].heap
  <2>1. argv = a
    BY <1>1, <1>3 DEF OTune, OPhases, a
  <2> QED
    BY <1>2, <1>3, <2>1
<1>4. ASSUME opc = "run", auto, NEW l \in 1 .. m
      PROVE  argv[Len(user) + l].heap
  <2>1. chosen # <<>> /\ ~tune
    BY <1>1, <1>2, <1>4 DEF OPhases
  <2>2. argv = Base \o a /\ Base \in Seq(AWord) /\ Len(Base) = Len(user)
    BY <1>1, <1>4, <2>1 DEF OAuto, Adding, a
  <2>3. a \in Seq(AWord) /\ Len(a) = m /\ a[l].heap
    BY <1>2, <1>4
  <2> HIDE DEF m
  <2>4. \A e \in 1 .. m : (Base \o a)[Len(Base) + e] = a[e]
    BY <2>2, <2>3, Joined
  <2>5. argv[Len(Base) + l] = a[l]
    BY <1>4, <2>2, <2>4
  <2> QED
    BY <2>2, <2>3, <2>5
<1> QED
  BY <1>3, <1>4 DEF FreedAreOwn

(* Nor does main free a word of the user's when it is done and frees those *)
(* it has appended (main.cc:742-744 and 760-762), although all parsers     *)
(* have permuted them with the user's in between.                          *)
THEOREM FreedWordsAreOwn ==
  Spec => []FreedAreOwn
<1>1. OInv => FreedAreOwn
  BY InvFreed
<1> QED
  BY <1>1, OptionsInvariant, PTL

=============================================================================
