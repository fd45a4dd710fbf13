SPECIFICATION Spec
CONSTANTS
  N_WAYS = 2
  REP_POLICY = "plru_mru"
  t0 = t0
  t1 = t1
  t2 = t2
  Tag <- MCTag
  Index <- MCIndex
  WORDS = 2
  DEPTH = 1
  Lines <- MCLines
  ReadAddr <- MCReadAddr
  WriteAddr <- MCWriteAddr
  Data = {d0, d1}
  Junk = Junk
  NotYet = NotYet
INVARIANTS
  OneCopy
  ChannelsApart
  CachedIsCurrent
  FetchedOnce
PROPERTIES
  MemorySpec
  Answered
