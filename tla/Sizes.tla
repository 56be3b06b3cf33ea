------------------------------- MODULE Sizes -------------------------------
(***************************************************************************)
(* How many elements a benchmark works on (benchmark.c:68-108).            *)
(*                                                                         *)
(* The code computes with doubles; here numbers are whole, the fill factor *)
(* is in percent, and every intermediate result is rounded down, which     *)
(* gives what the code gets when it rounds down at the end.  Rounding      *)
(* errors of doubles are left out, and so are more than 2^32 elements.     *)
(***************************************************************************)
EXTENDS Integers

(* config->size, config->line_size and config->fill_factor.                *)
Config(size, line, fill) == [size |-> size, line |-> line, fill |-> fill]

(* The bytes to fill. *)
Capacity(config) == (config.size * config.fill) \div 100

(* Elements of a data set of `power' dimensions; only 1 and 2 are used. *)
Elements(n, power) == IF power = 1 THEN n ELSE n * n

PerDim(elems, power) ==
  CHOOSE d \in 0 .. elems : Elements(d, power) <= elems /\ elems < Elements(d + 1, power)

(* tune_size: whole lines in each dimension.  Mutant: for one data set.    *)
SizeForOneSet(config, data_size, datasets, power) ==
  LET perDim == PerDim(Capacity(config) \div data_size, power)
      lines == perDim \div (config.line \div data_size)
  IN  (lines * config.line) \div data_size

TuneSize(config, data_size, datasets, power) ==
  LET perDim == PerDim((Capacity(config) \div datasets) \div data_size, power)
      lines == perDim \div (config.line \div data_size)
  IN  (lines * config.line) \div data_size

(* What the comment says of the result n: it fits ("the cache is 90%       *)
(* full"), an "integer number of cache lines are used", and with one line  *)
(* more in each dimension it would not fit.                                *)
Bytes(n, data_size, datasets, power) == Elements(n, power) * data_size * datasets

WellTuned(n, config, data_size, datasets, power) ==
  /\ Bytes(n, data_size, datasets, power) <= Capacity(config)
  /\ (n * data_size) % config.line = 0
  /\ Bytes(n + config.line \div data_size, data_size, datasets, power) > Capacity(config)

=============================================================================
