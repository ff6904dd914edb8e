SPECIFICATION FairSpec
CONSTANTS
  MaxBreaks = 1
  MaxRefusals = 1
  MaxData = 6
  MaxWire = 2
  MaxTries = 3
  MaxFails = 3
INVARIANTS LinkInv MissionRestarted OneLossSurvived FewCapturesDropped
PROPERTIES ImplementsSource LinkWorks
CHECK_DEADLOCK FALSE
