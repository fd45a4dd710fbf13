SPECIFICATION Spec
CONSTANTS
  Base = 10
  Width = 3
  File <- MCFile
  Buffer = 4
  Garbage = {0, 1}
  None = None
INVARIANTS
  FirmwareLoaded
  EchoWhole
PROPERTIES
  ShortReadSparesProgram
  NothingOverwritten
  Starts
  Exits
