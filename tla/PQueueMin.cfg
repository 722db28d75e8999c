CONSTANTS
  Node = {n1, n2, n3, n4}
  Null = Null
  IsMin = TRUE
  InitSize = 1
  MinSize = 2
  INF32 = 99
  MCKeys = {11, 10, 20}
  Keys <- SomeKeys
SPECIFICATION Spec
SYMMETRY Symmetric
INVARIANTS
  QueueInv
PROPERTIES
  IsAPriorityQueue
