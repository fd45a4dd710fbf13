SPECIFICATION Spec
CONSTANTS
  N = 4
  K = 3
  C = 3
  NumTests = 2
  Delay = 1
  INFINITE = 4
  Dists <- MCDists
INVARIANT NearestFirst
PROPERTY Plurality
CHECK_DEADLOCK FALSE
