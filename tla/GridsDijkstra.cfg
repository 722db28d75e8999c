CONSTANTS
  HeaderWidth = 6
  HeaderHeight = 4
  WordBits = 4
  Cardinal = 70
  Diagonal = 99
  MCBlocked = 2
  MCStart <- FarSide
  Queries <- GridQueries
  Params <- DefaultParams
  AC = "any"
  FC = "until_exhaustion"
  RP = "no"
  IdOps = {"convert"}
  UnitOf <- SourceUnits
  IdMod = 8
  MaxCalls = 1
  Node <- GridNode
  Null = Null
  CostMax = CostMax
  Maps <- GridMaps
  Successors <- GridSuccessors
  LowerBound <- GridLowerBound
  Startable <- GridStartable
SPECIFICATION Spec
CHECK_DEADLOCK FALSE
INVARIANTS
  SumIsOptimal
