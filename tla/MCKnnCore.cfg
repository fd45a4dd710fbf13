SPECIFICATION MCSpec
CONSTANTS
  Half = 4
  NumPts = 4
  MaxWrites = 7
  DataInputs <- MCDataInputs
  TestInputs <- MCTestInputs
  ReadAddrs <- MCReadAddrs
INVARIANTS
  TypeOK
  ResultsCorrect
  NoOverrun
  PipelineInv
PROPERTIES
  StableWhileValid
  Answered
