SPECIFICATION Spec
CONSTANTS
  Captures = {c1, c2, c3, c4}
  Powers = {1, 2}
  ThreeDimensions = TRUE
  MaxRounds = 1
SYMMETRY CaptureSymmetry
INVARIANTS ResultsPaired
CHECK_DEADLOCK FALSE
