SPECIFICATION Spec
CONSTANTS
  Registry <- MCRegistry
  Family <- MCFamily
  Default <- MCDefault
  Estimates = {1, 2}
  Numbers = {5, 7}
  MaxWords = 3
  MaxNames = 0
  Unsigned = 4
INVARIANTS
  AutoRuns
