SPECIFICATION FairSpec
CONSTANTS
  Producers = {p1, p2, p3}
  Consumer = c
  Nobody = nobody
  MaxItems = 3
INVARIANTS QueueInv
PROPERTIES ImplementsChannel ImplementsFairChannel
