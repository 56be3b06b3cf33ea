----------------------------- MODULE MCOptions -----------------------------
(***************************************************************************)
(* Instances of Options for TLC: a benchmark of its own and the first two  *)
(* members of the STREAM family.                                           *)
(***************************************************************************)
EXTENDS Options

MCRegistry == <<"fwq", "STREAM", "STREAM_Scale">>
MCFamily == {"STREAM", "STREAM_Scale"}
MCDefault == [b \in Names |-> 3]

=============================================================================
