SPECIFICATION FairSpec
CONSTANTS
  Hosts = {"a", "host"}
  Ports = {"5000"}
  MaxEntries = 2
  Needed = 2
  MaxQueue = 2
INVARIANTS ProgramInv
PROPERTIES ImplementsLifecycle ClosingEnds
CHECK_DEADLOCK FALSE
