------------------------- MODULE PhaseBarrierProofs -------------------------
(***************************************************************************)
(* src/barrier.c is a barrier for any number of threads, any number of     *)
(* calls and any range of the phase number that has two values at least.   *)
(***************************************************************************)
EXTENDS PhaseBarrier, FiniteSetTheorems, TLAPS

(* Where each thread stands with respect to the episodes: outside having   *)
(* passed them all, waiting for the next one, or about to return from the  *)
(* last one.  Nobody lags behind further than that, and therefore two      *)
(* values of the phase are enough to tell the last episode from the next.  *)
Outside(t) == pc[t] = "out" /\ calls[t] = episode /\ passes[t] = episode

WaitsForNext(t) ==
  /\ pc[t] = "waiting" /\ saved[t] = phase
  /\ calls[t] = episode + 1 /\ passes[t] = episode

LeavesLast(t) == Released(t) /\ calls[t] = episode /\ passes[t] = episode - 1

EpisodeInv ==
  /\ \A t \in Threads : Outside(t) \/ WaitsForNext(t) \/ LeavesLast(t)
  /\ SleepersAreCounted

BInv == TypeOK /\ EpisodeInv

-----------------------------------------------------------------------------
LEMMA LimitFacts == Limit \in Nat /\ Limit > 0
  BY BarrierAssumption, FS_CardinalityType, FS_EmptySet DEF Limit

(* The next phase is another one. *)
LEMMA NextPhase ==
  ASSUME NEW p \in 0 .. PhaseMod - 1
  PROVE  (p + 1) % PhaseMod \in 0 .. PhaseMod - 1 /\ (p + 1) % PhaseMod # p
<1>1. CASE p + 1 = PhaseMod
  BY <1>1, BarrierAssumption
<1>2. CASE p + 1 < PhaseMod
  BY <1>2, BarrierAssumption
<1> QED
  BY <1>1, <1>2, BarrierAssumption

(* When the last thread arrives, all the others wait for this episode.     *)
LEMMA LastArrival ==
  ASSUME NEW t \in Threads, NEW S \in SUBSET (Threads \ {t}),
         Cardinality(S) + 1 >= Limit
  PROVE  S = Threads \ {t}
<1>1. IsFiniteSet(Threads \ {t}) /\ Cardinality(Threads \ {t}) = Limit - 1
  BY BarrierAssumption, FS_RemoveElement DEF Limit
<1>2. Cardinality(S) <= Cardinality(Threads \ {t}) /\ Cardinality(S) \in Nat
  BY <1>1, FS_Subset, FS_CardinalityType
<1>3. Cardinality(S) = Cardinality(Threads \ {t})
  BY <1>1, <1>2, LimitFacts
<1> QED
  BY <1>1, <1>3, FS_Subset

LEMMA WaitingFinite == IsFiniteSet(Waiting) /\ Waiting \subseteq Threads
  BY BarrierAssumption, FS_Subset DEF Waiting

LEMMA InitBInv == Init => BInv
<1> SUFFICES ASSUME Init PROVE BInv
  OBVIOUS
<1>1. TypeOK
  BY LimitFacts, BarrierAssumption DEF Init, TypeOK
<1>2. Waiting = {}
  BY DEF Init, Waiting
<1> QED
  BY <1>1, <1>2, FS_EmptySet DEF Init, BInv, EpisodeInv, SleepersAreCounted, Outside

LEMMA BlockStep == \A t \in Threads : BInv /\ Block(t) => BInv'
<1> SUFFICES ASSUME NEW t \in Threads, BInv, Block(t) PROVE BInv'
  OBVIOUS
<1> USE DEF BInv, Block, Enter
<1>1. TypeOK'
  BY LimitFacts DEF TypeOK
<1>2. Waiting' = Waiting \cup {t} /\ t \notin Waiting
  BY DEF TypeOK, Waiting
<1>3. SleepersAreCounted'
  BY <1>2, WaitingFinite, FS_AddElement DEF EpisodeInv, SleepersAreCounted
<1>4. ASSUME NEW u \in Threads
      PROVE  (Outside(u) \/ WaitsForNext(u) \/ LeavesLast(u))'
  BY DEF TypeOK, EpisodeInv, Outside, WaitsForNext, LeavesLast, Released
<1> QED
  BY <1>1, <1>3, <1>4 DEF EpisodeInv

LEMMA OpenStep == \A t \in Threads : BInv /\ Open(t) => BInv'
<1> SUFFICES ASSUME NEW t \in Threads, BInv, Open(t) PROVE BInv'
  OBVIOUS
<1> USE DEF BInv, Open, Enter
<1>1. TypeOK'
  BY LimitFacts, NextPhase DEF TypeOK
<1>2. Waiting = Threads \ {t}
  BY LastArrival DEF Waiting, EpisodeInv, SleepersAreCounted
<1>3. Waiting' = {} /\ \A u \in Threads \ {t} : Released(u)'
  BY <1>2, NextPhase DEF TypeOK, Waiting, Released
<1>4. SleepersAreCounted'
  BY <1>3, FS_EmptySet DEF SleepersAreCounted
<1>5. ASSUME NEW u \in Threads
      PROVE  LeavesLast(u)'
  BY <1>2, <1>3
  DEF TypeOK, Waiting, EpisodeInv, Outside, WaitsForNext, LeavesLast, Released
<1> QED
  BY <1>1, <1>4, <1>5 DEF EpisodeInv

LEMMA WaitAgainStep == \A t \in Threads : BInv /\ WaitAgain(t) => BInv'
  BY DEF BInv, WaitAgain, TypeOK, EpisodeInv, SleepersAreCounted, Waiting, Outside,
         WaitsForNext, LeavesLast, Released

LEMMA ReturnStep == \A t \in Threads : BInv /\ Return(t) => BInv'
<1> SUFFICES ASSUME NEW t \in Threads, BInv, Return(t) PROVE BInv'
  OBVIOUS
<1> USE DEF BInv, Return
<1>1. TypeOK'
  BY DEF TypeOK
<1>2. Waiting' = Waiting
  BY DEF TypeOK, Waiting, Released
<1>3. SleepersAreCounted'
  BY <1>2 DEF EpisodeInv, SleepersAreCounted
<1>4. ASSUME NEW u \in Threads
      PROVE  (Outside(u) \/ WaitsForNext(u) \/ LeavesLast(u))'
  BY DEF TypeOK, EpisodeInv, Outside, WaitsForNext, LeavesLast, Released
<1> QED
  BY <1>1, <1>3, <1>4 DEF EpisodeInv

LEMMA SpuriousWakeupStep == \A t \in Threads : BInv /\ SpuriousWakeup(t) => BInv'
  BY DEF BInv, SpuriousWakeup, TypeOK, EpisodeInv, SleepersAreCounted, Waiting, Outside,
         WaitsForNext, LeavesLast, Released

LEMMA NextBInv == BInv /\ [Next]_vars => BInv'
<1> SUFFICES ASSUME BInv, [Next]_vars PROVE BInv'
  OBVIOUS
<1>1. CASE UNCHANGED vars
  BY <1>1 DEF vars, BInv, TypeOK, EpisodeInv, SleepersAreCounted, Waiting, Outside,
              WaitsForNext, LeavesLast, Released
<1> QED
  BY <1>1, BlockStep, OpenStep, WaitAgainStep, ReturnStep, SpuriousWakeupStep
  DEF Next, Step, Finished

THEOREM BarrierInductive == Spec => []BInv
  BY InitBInv, NextBInv, PTL DEF Spec

(* Type correctness for any number of threads.                             *)
THEOREM BarrierTypeCorrect == Spec => []TypeOK
<1>1. BInv => TypeOK
  BY DEF BInv
<1> QED
  BY <1>1, BarrierInductive, PTL

(* Nobody passes the barrier for the k-th time before everybody has come   *)
(* to it for the k-th time (barrier.c:65-82), although the phase wraps     *)
(* around.                                                                 *)
THEOREM NobodyLeavesEarly == Spec => []NoEarlyLeave
<1>1. BInv => NoEarlyLeave
  <2> SUFFICES ASSUME BInv, NEW t \in Threads, NEW u \in Threads
               PROVE  passes[t] <= calls[u]
    BY DEF NoEarlyLeave
  <2>1. passes[t] <= episode /\ episode <= calls[u] /\ episode \in Nat
    BY DEF BInv, TypeOK, EpisodeInv, Outside, WaitsForNext, LeavesLast
  <2> QED
    BY <2>1 DEF BInv, TypeOK
<1> QED
  BY <1>1, BarrierInductive, PTL

(* No thread sleeps through the opening it waits for (barrier.c:67-78).    *)
THEOREM NobodySleepsThrough == Spec => []SleepersAreCounted
<1>1. BInv => SleepersAreCounted
  BY DEF BInv, EpisodeInv
<1> QED
  BY <1>1, BarrierInductive, PTL

(* barrier.c implements the barrier that worker.c is written against.      *)
THEOREM ImplementsBarrier == Spec => ContractSpec
<1> USE DEF Contract!Inside, Contract!bvars
<1>0. \A S : Contract!Cardinality(S) = Cardinality(S)
  BY DEF Contract!Cardinality, Cardinality
<1>1. Init => Contract!Init
  BY LimitFacts DEF Init, Contract!Init, Waiting, Released
<1>2. BInv /\ [Next]_vars => [Contract!Next]_(Contract!bvars)
  <2> SUFFICES ASSUME BInv, [Next]_vars
               PROVE  Contract!Next \/ UNCHANGED <<Waiting, {t \in Threads : Released(t)}>>
    OBVIOUS
  <2> USE DEF BInv
  <2>1. ASSUME NEW t \in Threads, Block(t)
        PROVE  Contract!Block(t)
    <3>1. t \notin Waiting /\ t \notin {u \in Threads : Released(u)}
      BY <2>1 DEF Block, Enter, Waiting, Released
    <3>2. Waiting' = Waiting \cup {t}
      BY <2>1 DEF Block, Enter, TypeOK, Waiting
    <3>3. {u \in Threads : Released(u)}' = {u \in Threads : Released(u)}
      <4>1. \A u \in Threads : Released(u)' <=> Released(u)
        BY <2>1 DEF Block, Enter, TypeOK, Released
      <4> QED
        BY <4>1
    <3>4. Cardinality(Waiting) + 1 < Limit
      BY <2>1 DEF Block, EpisodeInv, SleepersAreCounted
    <3>5. Limit' = Limit
      BY DEF Limit
    <3> QED
      BY <1>0, <3>1, <3>2, <3>3, <3>4, <3>5 DEF Contract!Block
  <2>2. ASSUME NEW t \in Threads, Open(t)
        PROVE  Contract!Open(t)
    <3>1. Waiting = Threads \ {t}
      BY <2>2, LastArrival DEF Open, Enter, Waiting, EpisodeInv, SleepersAreCounted
    <3>2. Waiting' = {} /\ \A u \in Threads : Released(u)'
      BY <2>2, <3>1, NextPhase DEF Open, Enter, TypeOK, Waiting, Released
    <3>3. t \notin Waiting /\ t \notin {u \in Threads : Released(u)}
      BY <2>2 DEF Open, Enter, Waiting, Released
    <3>4. {u \in Threads : Released(u)}' =
             {u \in Threads : Released(u)} \cup Waiting \cup {t}
      BY <3>1, <3>2
    <3>5. Cardinality(Waiting) + 1 >= Limit
      BY <2>2 DEF Open, EpisodeInv, SleepersAreCounted
    <3>6. Limit' = Limit
      BY DEF Limit
    <3> QED
      BY <1>0, <3>2, <3>3, <3>4, <3>5, <3>6 DEF Contract!Open
  <2>3. ASSUME NEW t \in Threads, Return(t)
        PROVE  Contract!Leave(t)
    BY <2>3 DEF Contract!Leave, Return, TypeOK, Waiting, Released
  <2>4. ASSUME NEW t \in Threads, WaitAgain(t) \/ SpuriousWakeup(t)
        PROVE  UNCHANGED <<Waiting, {u \in Threads : Released(u)}>>
    BY <2>4 DEF WaitAgain, SpuriousWakeup, Waiting, Released
  <2>5. CASE UNCHANGED vars
    BY <2>5 DEF vars, Waiting, Released
  <2> QED
    BY <2>1, <2>2, <2>3, <2>4, <2>5 DEF Next, Step, Finished, Contract!Next, Contract!Arrive
<1> QED
  BY <1>1, <1>2, BarrierInductive, PTL DEF Spec, ContractSpec, Contract!Spec

=============================================================================
