SPECIFICATION ProgramSpec
CONSTANTS
  N = 3
  Policy = "onebyone"
  NBench = 2
  Iterations = 2
  Cpus <- MCCpus
  Home <- MCHome
  Set1 <- MCCpuset
  DoBinding = TRUE
  NoWork = NoWork
  Type = "CORE"
  Objects <- MCCores
  Cpuset <- MCCpuset
  Lists <- MCLists
INVARIANTS
  ProgramTypeOK
  RunsetIsUsable
  OneThreadPerPU
  AssertionsHold
  OneAtATime
  LabelsAreHome
  MatrixComplete
PROPERTIES
  ImplementsWorkers
  ProgramEnds
