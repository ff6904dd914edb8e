SPECIFICATION Spec
CONSTANTS
  Captures = {c1, c2, c3, c4}
  Powers = {1, 2}
  ThreeDimensions = FALSE
  MaxRounds = 2
SYMMETRY CaptureSymmetry
INVARIANTS GeolocateInv ResultsPaired LostOnlyAfterFailure
PROPERTIES CorrelatesWithConjugate
CHECK_DEADLOCK FALSE
