CONSTANTS
  Slots = 3
  InitChunks = 1
  ChunkLimit = 3
  Bases = {0, 2, 3, 6}
  Width = 9
  Null = Null
SPECIFICATION Spec
CHECK_DEADLOCK FALSE
INVARIANTS
  PoolInv
  StackFits
PROPERTIES
  GrowsWhenFull
  IsAnAllocator
