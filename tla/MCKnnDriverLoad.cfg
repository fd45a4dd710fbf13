SPECIFICATION DriverSpec
CONSTANTS
  Half = 4
  NumPts = 4
  NumTests = 1
  MinGap = 2
  DataInputs <- MCPlainInputs
  TestInputs <- MCPlainInputs
  ReadAddrs <- MCReadAddrs
INVARIANT DatasetLoaded
