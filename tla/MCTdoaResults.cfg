SPECIFICATION Spec
CONSTANTS
  Nodes = {n1, n2, n3, n4}
  Times <- ThreeKeys
  KeyResolution = 2
  Interval = 2
  Copies = 1
  BufferLimit = 1
  MinUsed = 2
  MaxUsed = 2
  MaxQueue = 2
SYMMETRY NodeSymmetry
INVARIANTS OneResultPerKey StragglersDiscarded
CHECK_DEADLOCK FALSE
