----------------------------- MODULE Benchmark -----------------------------
(***************************************************************************)
(* A benchmark's init, init_arg and calls (Kernels) together with the hash *)
(* state of sha256 (Sha256): SHA256_Init, which init_benchmarks calls      *)
(* whatever is to be run, tests the hash functions (sha256.c:479-531), and *)
(* each call continues the message of the calls before (sha256.c:586-594). *)
(***************************************************************************)
EXTENDS Kernels, Sha256

CONSTANTS
  Messages,    (* the lengths of the test vectors, <<3, 56>>                *)
  MaxFed       (* bound on the bytes that calls of sha256 are followed for  *)

ASSUME BenchmarkAssumption == Messages \in Seq(Nat) /\ MaxFed \in Nat

VARIABLES
  hpc,       (* where sha256_process is called: "free", "test", "call"      *)
  tested     (* the test vectors that have been compared                    *)

bvars == <<kvars, hvars, hpc, tested>>

BenchmarkInit == KernelsInit /\ HashInit /\ hpc = "free" /\ tested = 0

-----------------------------------------------------------------------------
(* sha256_test, at the beginning of an init. *)
TestBegin ==
  /\ ReadyForInit
  /\ hpc = "free" /\ tested < Len(Messages)
  /\ Restart
  /\ inlen' = Messages[tested + 1]
  /\ hpc' = "test"
  /\ UNCHANGED <<kvars, tested>>

Take ==
  /\ hpc \in {"test", "call"}
  /\ TakeBlock \/ TakePart
  /\ UNCHANGED <<kvars, hpc, tested>>

TestDone ==
  /\ hpc = "test"
  /\ Done
  /\ UNCHANGED <<kvars, hpc, tested>>

TestEnd ==
  /\ hpc = "test" /\ finished
  /\ hpc' = "free"
  /\ tested' = tested + 1
  /\ UNCHANGED <<kvars, hvars>>

Initialise ==
  /\ tested = Len(Messages)
  /\ InitKernel
  /\ tested' = 0
  /\ UNCHANGED <<hvars, hpc>>

(* init_arg; sha256's calls sha256_init. *)
Argument ==
  /\ InitArg
  /\ IF kernel = "sha256" THEN Restart /\ UNCHANGED inlen ELSE UNCHANGED hvars
  /\ UNCHANGED <<hpc, tested>>

(* SHA256_call: the whole buffer is hashed. *)
Hashes == kernel = "sha256" /\ fed + copied <= MaxFed

CallBegin ==
  /\ Hashes /\ Accessing
  /\ hpc = "free" /\ tested = 0
  /\ Process(copied)
  /\ hpc' = "call"
  /\ UNCHANGED <<kvars, tested>>

CallStep ==
  /\ tested = 0
  /\ \/ hpc = "call" /\ inlen = 0
     \/ hpc = "free" /\ ~Hashes
  /\ CallPass
  /\ hpc' = "free"
  /\ UNCHANGED <<hvars, tested>>

Return ==
  /\ hpc = "free" /\ tested = 0
  /\ CallReturns
  /\ UNCHANGED <<hvars, hpc, tested>>

BenchmarkNext ==
  \/ TestBegin \/ Take \/ TestDone \/ TestEnd
  \/ Initialise \/ Argument \/ CallBegin \/ CallStep \/ Return

BenchmarkSpec == BenchmarkInit /\ [][BenchmarkNext]_bvars

-----------------------------------------------------------------------------
(* A type invariant. *)
BenchmarkTypeOK ==
  /\ KernelsTypeOK
  /\ HashTypeOK
  /\ hpc \in {"free", "test", "call"}
  /\ tested \in 0 .. Len(Messages)

=============================================================================
