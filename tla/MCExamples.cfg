SPECIFICATION FairSpec
CONSTANTS
  Programs <- AllPrograms
  MaxSegments = 3
  Captures = 2
  Receives = 3
INVARIANTS ExamplesInv
PROPERTIES EndsUnlessLost
