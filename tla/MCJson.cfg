SPECIFICATION Spec
CONSTANTS
  Trees <- MCTrees
  Garbage <- MCGarbage
  CodePoints <- MCCodePoints
  RightMargin = 12
  StackLimit = 4
INVARIANTS ReaderInv RoundTrip AnswersAreExact
CHECK_DEADLOCK FALSE
