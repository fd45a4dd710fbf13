SPECIFICATION MCSpec
CONSTANTS
  Bits = 8
  Div = 4
  Bytes <- MCBytes
  ENQ <- MCENQ
  Reply <- MCReply
  MessageLength = 2
  MaxGap = 2
  Calm = 3
  None = None
INVARIANTS
  NothingCut
PROPERTIES
  ToHostSpec
  ToBoardSpec
  OneClockClean
  ToHostArrives
  Connects
