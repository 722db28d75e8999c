CONSTANTS
  NumThreads = 3
  MaxTotal = 5
  Width = 256
SPECIFICATION Spec
CHECK_DEADLOCK FALSE
INVARIANTS
  ReturnsAfterWork
  BarIsHonest
PROPERTIES
  Returns
