CONSTANTS
  Words <- MCWords
  Files <- MCFiles
  Null = Null
  Added <- MCAdded
  MaxOps = 4
SPECIFICATION UserSpec
CHECK_DEADLOCK FALSE
INVARIANTS
  LoadsAddUp
PROPERTIES
  SortOrders
