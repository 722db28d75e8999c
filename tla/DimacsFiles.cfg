CONSTANTS
  GraphFiles <- ShortGraphFiles
  QueryFiles <- ShortQueryFiles
  LexOrders <- SomeOrders
  MaxRest = 2
  MaxLoads = 3
  INF32 = INF32
  Wrap = 8
SPECIFICATION Spec
CHECK_DEADLOCK FALSE
INVARIANTS
  GraphIsLoaded
  TrueMeansAllRead
  PrintedReloads
  QueriesAreLoaded
  MetisIsTheGraph
PROPERTIES
  LoadReturns
