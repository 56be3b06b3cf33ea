----------------------------- MODULE MCKernels -----------------------------
(***************************************************************************)
(* An instance of Benchmark for TLC with the real sizes of numbers, cache  *)
(* lines of 32 and 64 bytes, and sizes around those at which HACCmk's      *)
(* vectors are adjusted and at which nothing fits.  Buffers of 32 to 224   *)
(* bytes are followed into the hash functions.                             *)
(***************************************************************************)
EXTENDS Benchmark

MCSizes == {0, 100, 150, 512, 4000, 12445, 12480, 16384, 32768, 500000}
MCConfigs == {Config(size, line, fill) :
                size \in MCSizes, line \in {32, 64}, fill \in {0, 90, 150}}

MCMessages == <<3, 56>>

=============================================================================
