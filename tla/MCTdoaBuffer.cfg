SPECIFICATION FairSpec
CONSTANTS
  Nodes = {n1, n2, n3}
  Times <- Jitter
  KeyResolution = 2
  Interval = 2
  Copies = 1
  BufferLimit = 2
  MinUsed = 3
  MaxUsed = 3
  MaxQueue = 2
INVARIANTS CollectorInv NoUseAfterFree Conservation
PROPERTIES GivenUpOnlyWhenOvertaken CollectorKeepsUp
CHECK_DEADLOCK FALSE
