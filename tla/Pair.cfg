SPECIFICATION FairSpec
CONSTANTS
  N = 3
  Policy = "pair"
  NBench = 3
  Iterations = 2
  Cpus <- MCCpus
  Home <- MCHome
  Set1 <- MCSet1
  DoBinding = FALSE
  NoWork = NoWork
INVARIANTS
  TypeOK
  IInv
  RInv
  NoLostWakeup
  StepInUse
  StartTogether
  CpuIsSettled
  MatrixComplete
PROPERTIES
  CampaignSpec
  Terminates
