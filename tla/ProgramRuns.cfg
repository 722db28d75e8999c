CONSTANTS
  MCBlocked = 2
  Numeral <- MCNumeral
  Newline = "nl"
  GridDimensionMax = 3
  NaN = NaN
  WordBits = 4
  Cardinal = 100
  Diagonal = 140
  Half = 50
  Quarter = 35
  Arguments <- MCArguments
  ScenarioAt <- MCScenarioAt
  GarbageCells = {".", "@", "x"}
  MapAt <- MCMapAt
  NameOf <- MCNameOf
  Words <- MCWords
  SizeWrap = 256
  Aborted = 134
  Queries <- MCQueries
  Params <- MCParams
  AC = "any"
  FC = "until_exhaustion"
  RP = "no"
  IdOps = {"convert"}
  UnitOf <- SourceUnits
  IdMod = 32
  MaxCalls = 4
  Node <- MCNode
  Null = Null
  CostMax = CostMax
  Maps <- MCMaps
  Successors <- MCSuccessors
  LowerBound <- MCLowerBound
  Startable <- MCStartable
SPECIFICATION ProgramSpec
CHECK_DEADLOCK FALSE
INVARIANTS
  RowsAreTrue
  StatusIsHonest
  CellsAreDrawn
  SumIsNearOptimal
  HeuristicIsConsistent
  ClosedIsFinal
PROPERTIES
  LowerBoundGrows
