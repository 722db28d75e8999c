CONSTANTS
  Slots = 2
  InitChunks = 1
  ChunkLimit = 2
  Bases = {0, 2}
  Width = 9
  Null = Null
  NBS = 8
  NumNodes = 17
  Ids = {7, 8, 16, 32}
  Nums = {0}
  Unused = Unused
  ListSize = 1
  ListLimit = 3
SPECIFICATION SpecPolicy
INVARIANTS
  NodesInv
  SuccessorsAreAdded
PROPERTIES
  OneRecordPerId
