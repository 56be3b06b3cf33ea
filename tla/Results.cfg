SPECIFICATION Spec
CONSTANTS
  Rows = 3
  Reps = 2
  NumPmcs = 2
  MayFail = {1}
  NumCounters = 1
  Word = 18
INVARIANTS
  ResultsTypeOK
  PrintedIsOwn
  NothingWrong
  OpenedColumns
  CtrlGivenBack
