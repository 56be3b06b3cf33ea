------------------------------ MODULE Barrier ------------------------------
(***************************************************************************)
(* The POSIX barrier worker.c relies on: pthread_barrier_wait returns to   *)
(* a thread only after `limit' threads have entered it.  On every platform *)
(* but one the C library provides it, so this module is the external       *)
(* contract; PhaseBarrier shows that the replacement in src/barrier.c      *)
(* keeps it, and Workers builds on it.                                     *)
(*                                                                         *)
(* A thread inside pthread_barrier_wait is in `arrived' until the barrier  *)
(* opens and in `leaving' from then until its call returns.                *)
(***************************************************************************)
EXTENDS Naturals, FiniteSets

CONSTANT Threads

VARIABLES
  limit,     (* the count given to pthread_barrier_init                     *)
  arrived,   (* threads blocked, waiting for the others                     *)
  leaving    (* threads released whose call has not returned yet            *)

bvars == <<limit, arrived, leaving>>

Inside == arrived \cup leaving

(* pthread_barrier_init(&barrier, NULL, n) *)
Create(n) ==
  /\ limit' = n
  /\ arrived' = {}
  /\ leaving' = {}

(* A thread enters pthread_barrier_wait and is not the last one. *)
Block(t) ==
  /\ t \notin Inside
  /\ Cardinality(arrived) + 1 < limit
  /\ arrived' = arrived \cup {t}
  /\ UNCHANGED <<limit, leaving>>

(* A thread enters as the last one: everybody is released. *)
Open(t) ==
  /\ t \notin Inside
  /\ Cardinality(arrived) + 1 >= limit
  /\ arrived' = {}
  /\ leaving' = leaving \cup arrived \cup {t}
  /\ UNCHANGED limit

Arrive(t) == Block(t) \/ Open(t)

(* The call of a released thread returns. *)
Leave(t) ==
  /\ t \in leaving
  /\ leaving' = leaving \ {t}
  /\ UNCHANGED <<limit, arrived>>

Init ==
  /\ limit \in Nat
  /\ arrived = {}
  /\ leaving = {}

Next == \E t \in Threads : Arrive(t) \/ Leave(t)

Spec == Init /\ [][Next]_bvars

=============================================================================
