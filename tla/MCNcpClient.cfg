SPECIFICATION FairSpec
CONSTANTS
  MaxConnects = 2
  MaxData = 1
  MaxStream = 4
  SendBuffer = 2
  HeaderSize = 2
INVARIANTS ClientInv
PROPERTIES FirstConnectionIsChannel LossIsNoticed ConnectReturns
CHECK_DEADLOCK FALSE
