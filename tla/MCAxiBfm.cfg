SPECIFICATION Spec
CONSTANTS
  BW = 2
  Page = 8
  MaxBurst = 2
  NumIds = 2
  Size = 8
  NumCalls = 2
  Calls <- MCCalls
INVARIANTS
  AssertsHold
  WaitMeansDone
  ReadsBack
PROPERTIES
  Completes
CHECK_DEADLOCK FALSE
