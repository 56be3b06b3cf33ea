------------------------------ MODULE Options ------------------------------
(***************************************************************************)
(* What main does between its first line and the first round: it parses    *)
(* its options (main.cc:577-667), selects benchmarks (main.cc:685-713),    *)
(* lets every benchmark look for its own option in the same argv           *)
(* (benchmark.c:28-40 and each benchmark's init) and, with --tune or       *)
(* --auto, appends options of its own to find a number of rounds that      *)
(* takes the desired time (main.cc:425-476, 735-766).                      *)
(*                                                                         *)
(* getopt_long is modelled after glibc's: it moves words that are no       *)
(* options to the end of argv, and it keeps doing so for the benchmarks,   *)
(* whose option string begins with "-", because only optind is reset       *)
(* between them.  Left out: abbreviated options, "--", short options, and  *)
(* numbers that are out of range.                                          *)
(***************************************************************************)
EXTENDS Integers, Sequences, FiniteSets, SequencesExt

CONSTANTS
  Registry,     (* the array `benchmarks': names, in order                  *)
  Family,       (* those with one init function, all but the first of them  *)
                (* at the end of Registry                                   *)
  Default,      (* each one's rounds as compiled                            *)
  Estimates,    (* what tune_time may find                                  *)
  Numbers,      (* numbers of rounds a user may ask for                     *)
  MaxWords,     (* bound on the number of words on the command line         *)
  MaxNames,     (* bound on the number of names after --benchmarks          *)
  Unsigned      (* 2^32                                                     *)

Names == Range(Registry)

ASSUME OptionsAssumption ==
  /\ Registry \in Seq(STRING) /\ Names \cap {"plain", "policy", "none"} = {}
  /\ Len(Registry) = Cardinality(Names)
  /\ Family \subseteq Names /\ Family # {}
  /\ LET own == Len(Registry) - Cardinality(Family)
     IN  Family = {Registry[i] : i \in own + 1 .. Len(Registry)}
  /\ Default \in [Names -> Nat]
  /\ Estimates \subseteq Nat \ {0}
  /\ Numbers \subseteq Nat \ {0}
  /\ MaxWords \in Nat /\ MaxNames \in Nat
  /\ Unsigned \in Nat /\ Unsigned > MaxNames

VARIABLES
  opc,      (* "parse", "select", "init10", "estimate", "init", "run"; or   *)
            (* how it ended: "exited", "tuned", "crashed"                   *)
  user,     (* the words of the command line that are not modelled by ...   *)
  names,    (* ... --benchmarks; <<>> if it is not given, an empty list is  *)
            (* left out                                                     *)
  tune,     (* ... --tune                                                   *)
  auto,     (* ... --auto                                                   *)
  argv,     (* argv or myargv, without the program's name                   *)
  chosen,   (* the array `benchmarks' of main                               *)
  token,    (* names consumed by strtok                                     *)
  i,        (* main's loop counters                                         *)
  rounds,   (* each benchmark's own variable                                *)
  est,      (* history: results of tune_time                                *)
  timed     (* history: rounds of the benchmark while it was timed          *)

ovars == <<opc, user, names, tune, auto, argv, chosen, token, i, rounds, est, timed>>
input == <<user, names, tune, auto>>

(* A word: an option or "plain"; its value or, in a plain word, the number *)
(* it is; whether it was allocated by main.                                *)
None == -1
Word(opt, value, heap) == [opt |-> opt, value |-> value, heap |-> heap]
Plain(n) == Word("plain", n, FALSE)
Pair == Plain(0)
Words ==
  {Plain(n) : n \in Numbers} \cup {Pair, Word("policy", None, FALSE)}
    \cup [opt : Names, value : Numbers \cup {None}, heap : {FALSE}]

(* "--<name>-rounds=<n>" as written by asprintf. *)
Appended(b, n) == Word(b, n, TRUE)

(* strtoul: words that are no numbers give 0. *)
Strtoul(word) == IF word.opt = "plain" THEN word.value ELSE 0

(* Where an option occurs, and its last occurrence. *)
Occurrences(seq, b) == {k \in 1 .. Len(seq) : seq[k].opt = b}
LastOf(seq, b) == seq[Max(Occurrences(seq, b))]

(* One loop around getopt_long for the options in known: the words in      *)
(* their new order, and which options were found with which arguments.     *)
Fresh == [options |-> <<>>, plain |-> <<>>, wanted |-> "none", found |-> <<>>]

GetoptStep(known, state, word) ==
  IF state.wanted # "none"
  THEN [state EXCEPT !.options = Append(@, word), !.wanted = "none",
                     !.found = Append(@, [opt |-> state.wanted, arg |-> word, n |-> Strtoul(word)])]
  ELSE IF word.opt = "plain"
  THEN [state EXCEPT !.plain = Append(@, word)]
  ELSE [state EXCEPT !.options = Append(@, word),
                     !.wanted = IF word.opt \in known /\ word.value = None THEN word.opt ELSE "none",
                     !.found = IF word.opt \in known /\ word.value # None
                                 THEN Append(@, [opt |-> word.opt, arg |-> word, n |-> word.value])
                                 ELSE @]

Scan(words, known) ==
  LET scan[k \in 0 .. Len(words)] ==
        IF k = 0 THEN Fresh ELSE GetoptStep(known, scan[k - 1], words[k])
  IN  scan

Getopt(words, known) ==
  LET end == Scan(words, known)[Len(words)]
  IN  [argv |-> end.options \o end.plain, found |-> end.found]

(* Each occurrence of an option overwrites the rounds. *)
RoundsAfter(found) ==
  [b \in Names |-> IF Occurrences(found, b) = {} THEN rounds[b] ELSE LastOf(found, b).n]

Init ==
  /\ opc = "parse"
  /\ user \in SeqOf(Words, MaxWords)
  /\ names \in SeqOf(Names \cup {"unknown"}, MaxNames)
  /\ tune \in BOOLEAN /\ auto \in BOOLEAN
  /\ argv = user
  /\ chosen = <<>> /\ token = 0 /\ i = 0
  /\ rounds = Default
  /\ est = <<>> /\ timed = {}

-----------------------------------------------------------------------------
(* main's own loop; an unknown policy exits. *)
ParseOptions ==
  /\ opc = "parse"
  /\ LET parsed == Getopt(argv, {"policy"})
     IN  /\ argv' = parsed.argv
         /\ opc' = IF \A f \in Range(parsed.found) : f.arg = Pair THEN "select" ELSE "exited"
  /\ UNCHANGED <<input, chosen, token, i, rounds, est, timed>>

(* Without --benchmarks all of them are chosen, in their order. *)
SelectAll ==
  /\ opc = "select"
  /\ names = <<>>
  /\ chosen' = Registry
  /\ opc' = "selected"
  /\ UNCHANGED <<input, argv, token, i, rounds, est, timed>>

(* Put the next name into benchmarks[i]; the mutant forgets `--i'.         *)
SelectWithHoles ==
  /\ opc = "select"
  /\ token < Len(names)
  /\ LET name == names[token + 1]
     IN  chosen' = [k \in 1 .. i + 1 |-> IF k <= i THEN chosen[k]
                                         ELSE IF name \in Names THEN name ELSE "none"]
  /\ i' = (i + 1) % Unsigned
  /\ token' = token + 1
  /\ UNCHANGED <<opc, input, argv, rounds, est, timed>>

Select ==
  /\ opc = "select"
  /\ token < Len(names)
  /\ LET name == names[token + 1]
         known == name \in Names
     IN  /\ chosen' = [k \in 1 .. i + 1 |-> IF k <= i THEN chosen[k]
                                            ELSE IF known THEN name ELSE "none"]
         /\ i' = ((IF known THEN i ELSE (i - 1) % Unsigned) + 1) % Unsigned
  /\ token' = token + 1
  /\ UNCHANGED <<opc, input, argv, rounds, est, timed>>

(* num_benchmarks = i. *)
SelectDone ==
  /\ opc = "select"
  /\ names # <<>> /\ token = Len(names)
  /\ chosen' = SubSeq(chosen, 1, i)
  /\ opc' = "selected"
  /\ UNCHANGED <<input, argv, token, i, rounds, est, timed>>

(* Build the argv the benchmarks are initialised with. *)
TenRounds == [k \in 1 .. Len(chosen) |-> Appended(chosen[k], 10)]

Prepare ==
  /\ opc = "selected"
  /\ i' = 0
  /\ IF tune THEN argv' = TenRounds /\ opc' = "init10"
     ELSE IF auto THEN argv' = argv \o TenRounds /\ opc' = "init10"
     ELSE opc' = "init" /\ UNCHANGED argv
  /\ UNCHANGED <<input, chosen, token, rounds, est, timed>>

(* init_benchmarks: the family's init is called only once.  Mutant: once   *)
(* less than that.                                                         *)
OneInitLess == Len(Registry) - Cardinality(Family)
NumInits == Len(Registry) - (Cardinality(Family) - 1)

OptionsOf(b) == IF b \in Family THEN Family ELSE {b}

(* One benchmark's init.  Mutant: nothing is parsed again for --auto. *)
InitOnce ==
  /\ opc \in {"init10", "init"}
  /\ i < NumInits
  /\ LET parsed == Getopt(argv, OptionsOf(Registry[i + 1]))
     IN  /\ argv' = parsed.argv
         /\ rounds' = IF opc = "init" /\ auto THEN rounds ELSE RoundsAfter(parsed.found)
  /\ i' = i + 1
  /\ UNCHANGED <<opc, input, chosen, token, est, timed>>

InitBenchmark ==
  /\ opc \in {"init10", "init"}
  /\ i < NumInits
  /\ LET parsed == Getopt(argv, OptionsOf(Registry[i + 1]))
     IN  /\ argv' = parsed.argv
         /\ rounds' = RoundsAfter(parsed.found)
  /\ i' = i + 1
  /\ UNCHANGED <<opc, input, chosen, token, est, timed>>

InitDone ==
  /\ opc \in {"init10", "init"}
  /\ i = NumInits
  /\ opc' = IF opc = "init" THEN "run" ELSE "estimate"
  /\ i' = 0
  /\ UNCHANGED <<input, argv, chosen, token, rounds, est, timed>>

(* The i-th word after the user's: free it, time the benchmark and write   *)
(* the estimate in its place.  Freeing a word of the user's is undefined;  *)
(* glibc aborts.  Mutant: the option is not replaced.                      *)
Place == (IF tune THEN 0 ELSE Len(user)) + i + 1

EstimateKeepsTen ==
  /\ opc = "estimate"
  /\ i < Len(chosen)
  /\ argv[Place].heap
  /\ timed' = timed \cup {<<chosen[i + 1], rounds[chosen[i + 1]]>>}
  /\ \E n \in Estimates : est' = Append(est, n)
  /\ i' = i + 1
  /\ UNCHANGED <<opc, input, argv, chosen, token, rounds>>

Estimate ==
  /\ opc = "estimate"
  /\ i < Len(chosen)
  /\ argv[Place].heap
  /\ timed' = timed \cup {<<chosen[i + 1], rounds[chosen[i + 1]]>>}
  /\ \E n \in Estimates :
       /\ argv' = [argv EXCEPT ![Place] = Appended(chosen[i + 1], n)]
       /\ est' = Append(est, n)
  /\ i' = i + 1
  /\ UNCHANGED <<opc, input, chosen, token, rounds>>

FreeUsersWord ==
  /\ opc = "estimate"
  /\ i < Len(chosen)
  /\ ~argv[Place].heap
  /\ opc' = "crashed"
  /\ UNCHANGED <<input, argv, chosen, token, i, rounds, est, timed>>

(* --tune prints the options and exits; --auto initialises all again. *)
EstimatesDone ==
  /\ opc = "estimate"
  /\ i = Len(chosen)
  /\ opc' = IF tune THEN "tuned" ELSE "init"
  /\ i' = 0
  /\ UNCHANGED <<input, argv, chosen, token, rounds, est, timed>>

Ended == opc \in {"run", "exited", "tuned", "crashed"} /\ UNCHANGED ovars

Next ==
  \/ ParseOptions
  \/ SelectAll \/ Select \/ SelectDone
  \/ Prepare \/ InitBenchmark \/ InitDone
  \/ Estimate \/ FreeUsersWord \/ EstimatesDone
  \/ Ended

Spec == Init /\ [][Next]_ovars

-----------------------------------------------------------------------------
OptionsTypeOK ==
  /\ opc \in {"parse", "select", "selected", "init10", "estimate", "init", "run",
              "exited", "tuned", "crashed"}
  /\ argv \in Seq([opt : Names \cup {"plain", "policy"}, value : Nat \cup {None}, heap : BOOLEAN])
  /\ chosen \in Seq(Names \cup {"none"})
  /\ token \in 0 .. Len(names)
  /\ i \in 0 .. Len(argv) + Len(Registry) + MaxNames
  /\ rounds \in [Names -> Nat]
  /\ est \in Seq(Estimates)
  /\ timed \subseteq Names \X Nat

(* --benchmarks runs the benchmarks it names, in that order; unknown names *)
(* are skipped, though skipping the first one makes an unsigned counter    *)
(* negative for a moment (main.cc:699-701).                                *)
Known == {k \in 1 .. Len(names) : names[k] \in Names}

ChosenInOrder ==
  opc \notin {"parse", "select", "exited"} =>
    IF names = <<>> THEN chosen = Registry
    ELSE \E place \in [1 .. Len(chosen) -> Known] :
           /\ \A k, l \in 1 .. Len(chosen) : k < l => place[k] < place[l]
           /\ Known = {place[k] : k \in 1 .. Len(chosen)}
           /\ \A k \in 1 .. Len(chosen) : chosen[k] = names[place[k]]

(* Options with their value in the next word. *)
Apart(k) == user[k].opt # "plain" /\ user[k].value = None
NoneApart == \A k \in 1 .. Len(user) : user[k].opt \in Names => ~Apart(k)

(* tune_time relies on the benchmark having been initialised with the      *)
(* number of rounds it is told (main.cc:423): whatever rounds the user     *)
(* gave with "=", and whatever the other benchmarks' parsers did to argv,  *)
(* it is 10.                                                               *)
TimedAsInitialised == NoneApart => timed \subseteq Names \X {10}

(* --tune prints an option for each chosen benchmark, in order, with its   *)
(* estimate (main.cc:464-475).                                             *)
TunePrints ==
  opc = "tuned" => argv = [k \in 1 .. Len(chosen) |-> Appended(chosen[k], est[k])]

(* What the user asked for: with --auto the estimate; otherwise the last   *)
(* value given, in the same word or the next; otherwise the default.       *)
Given(b) == Occurrences(user, b)
LastGiven(b) == Max(Given(b))
LastChosen(b) == CHOOSE k \in 1 .. Len(chosen) :
                   chosen[k] = b /\ \A l \in 1 .. Len(chosen) : chosen[l] = b => l <= k
Asked(b) ==
  IF auto /\ b \in Range(chosen) THEN est[LastChosen(b)]
  ELSE IF Given(b) = {} THEN Default[b]
  ELSE LET k == LastGiven(b)
       IN  IF user[k].value # None THEN user[k].value ELSE Strtoul(user[k + 1])

(* Rounds are given with "=", or in a word of their own that is followed   *)
(* by no option and preceded by options with "=" only.  The latter is all  *)
(* the order that getopt leaves argv in permits: "--x-rounds 5 --y=..."    *)
(* and "--policy pair --x-rounds 5" do not work.                           *)
WellFormed ==
  \A k \in 1 .. Len(user) :
    user[k].opt \in Names /\ Apart(k) =>
      /\ k < Len(user) /\ user[k + 1] \in {Plain(n) : n \in Numbers}
      /\ \A l \in 1 .. k - 1 : user[l].opt # "plain"
      /\ \A l \in k + 1 .. Len(user) : user[l].opt = "plain"

(* The benchmarks run with the rounds that were asked for (README.md:77    *)
(* and 91), however main and the benchmarks permute and parse the same     *)
(* argv.                                                                   *)
RoundsAsAsked ==
  opc = "run" /\ WellFormed => \A b \in Names : rounds[b] = Asked(b)

(* README.md:91: "The --auto parameter additionally runs the               *)
(* benchmark(s) with the estimated rounds values", also when another       *)
(* option's value is the next word, as getopt_long lets users write it,    *)
(* and there are no words that belong to no option.                        *)
AutoRuns ==
  (\A k \in 1 .. Len(user) : user[k].opt = "plain" => k > 1 /\ Apart(k - 1))
    => opc # "crashed"

=============================================================================
