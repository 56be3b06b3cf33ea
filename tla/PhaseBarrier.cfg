SPECIFICATION FairSpec
CONSTANTS
  Threads = {t1, t2, t3}
  PhaseMod = 2
  MaxCalls = 3
INVARIANTS
  TypeOK
  NoEarlyLeave
  SleepersAreCounted
PROPERTIES
  EveryCallReturns
  ContractSpec
