SPECIFICATION DriverSpec
CONSTANTS
  Half = 4
  NumPts = 4
  NumTests = 2
  MinGap = 2
  DataInputs <- MCDataInputs
  TestInputs <- MCTestInputs
  ReadAddrs <- MCReadAddrs
INVARIANTS
  ReadsThisTestPoint
PROPERTIES
  LoadedOnce
  Terminates
  ServiceSpec
