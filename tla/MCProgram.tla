----------------------------- MODULE MCProgram -----------------------------
(***************************************************************************)
(* Instances of Program for TLC: cores with one or two PUs, the second PUs *)
(* numbered after all first ones, as Linux often does, and one core that   *)
(* is not in the order of the numbers.  The user leaves that one out, and  *)
(* may name a PU that does not exist.                                      *)
(***************************************************************************)
EXTENDS Program

MCCpus == 0 .. 4
MCCores == <<{0, 4}, {2}, {1}, {3}>>
MCCpuset == {0, 1, 3}
MCHome == [t \in Threads |-> <<0, 1, 3>>[t + 1]]
MCLists == {{}, MCCpuset, {3}, {0, 7}}

(* --no-ht with the default cpuset. *)
MCAllCpus == 0 .. 5
MCThreeCores == <<{0, 3}, {1, 4}, {2, 5}>>
MCFirstPUs == [t \in Threads |-> t]
MCNoList == {{}}

=============================================================================
