SPECIFICATION NumericsSpec
CONSTANTS
  Captured = {5, 9, 17}
  Delays = {0, 1, 6}
  Rates = {1, 2, 4}
  Rotations = {0, 1}
  Slopes = {1, 3}
  RmsError = 5
  Start = 4
  Spread = 2
  MinorSpread = 1
  Threshold = 1
  MaxIterations = 6
INVARIANTS NumericsInv SpectraAreExact TimeDifferenceFound
PROPERTIES SearchDescends
