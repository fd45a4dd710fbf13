SPECIFICATION Spec
CONSTANTS
  N = 4
  K = 3
  C = 2
  NumTests = 2
  Delay = 1
  INFINITE = 4
  Dists <- MCDists
INVARIANT IdxIsDatasetIndex
CHECK_DEADLOCK FALSE
