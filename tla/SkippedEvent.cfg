SPECIFICATION Spec
CONSTANTS
  Rows = 1
  Reps = 1
  NumPmcs = 2
  MayFail = {1}
  NumCounters = 1
  Word = 18
INVARIANT
  ColumnsAreTheirEvents
