SPECIFICATION Spec
CONSTANTS
  Rows = 1
  Reps = 1
  NumPmcs = 1
  MayFail = {}
  NumCounters = 1
  Word = 18
INVARIANT
  CtrlGivenBackOnLinux
