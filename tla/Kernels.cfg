SPECIFICATION BenchmarkSpec
CONSTANTS
  Configs <- MCConfigs
  Double = 8
  Float = 4
  MinVector = 400
  MaxVector = 15000
  Stride = 20
  BlockSize = 64
  LengthSize = 8
  Messages <- MCMessages
  MaxFed = 450
INVARIANTS
  BenchmarkTypeOK
  InBounds
  ReadsInitialised
  WorkingSetAsTuned
  BytesInOrder
  PaddedRight
