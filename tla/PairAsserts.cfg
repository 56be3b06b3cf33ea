SPECIFICATION Spec
CONSTANTS
  N = 2
  Policy = "pair"
  NBench = 3
  Iterations = 1
  Cpus <- MCCpus
  Home <- MCHome
  Set1 <- MCSet1
  DoBinding = TRUE
  NoWork = NoWork
INVARIANT
  AssertionsHold
