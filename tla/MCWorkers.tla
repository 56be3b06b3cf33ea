----------------------------- MODULE MCWorkers -----------------------------
(***************************************************************************)
(* Instances of Workers for TLC: a few threads on as many PUs, every other *)
(* of them in cpuset-1.                                                    *)
(***************************************************************************)
EXTENDS WorkersResults

MCCpus == {10 + t : t \in Threads}
MCHome == [t \in Threads |-> 10 + t]
MCSet1 == {10 + t : t \in {u \in Threads : u % 2 = 0}}

=============================================================================
