SPECIFICATION Spec
CONSTANTS
  B = 3
  NumCalls = 2
  Horizon = 14
INVARIANTS
  CountOfThisCall
CHECK_DEADLOCK FALSE
