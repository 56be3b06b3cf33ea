SPECIFICATION ProgramSpec
CONSTANTS
  N = 3
  Policy = "parallel"
  NBench = 1
  Iterations = 1
  Cpus <- MCAllCpus
  Home <- MCFirstPUs
  Set1 <- MCAllCpus
  DoBinding = TRUE
  NoWork = NoWork
  Type = "CORE"
  Objects <- MCThreeCores
  Cpuset <- MCAllCpus
  Lists <- MCNoList
INVARIANTS
  WeightsAgree
