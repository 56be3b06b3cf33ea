SPECIFICATION Spec
CONSTANTS
  N = 2
  Policy = "parallel"
  NBench = 1
  Iterations = 1
  Cpus <- MCCpus
  Home <- MCHome
  Set1 <- MCSet1
  DoBinding = TRUE
  NoWork = NoWork
INVARIANTS
  BoundWhenMeasuring
