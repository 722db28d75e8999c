CONSTANTS
  MCEdgeCount = 7
  MCCosts = {1, 3}
  MCEstimates = {0, 3}
  MCAdmissible = TRUE
  Queries <- OneQuery
  Params <- HeapParams
  AC = "eps_admissible"
  FC = "until_cutoff"
  RP = "yes"
  IdOps = {"convert"}
  UnitOf <- SourceUnits
  IdMod = 8
  MaxCalls = 2
  InitSize = 1
  MinSize = 2
  INF32 = 999
  Node <- GraphNode
  Null = Null
  CostMax = CostMax
  Maps <- HeapMaps
  Successors <- HeapSuccessors
  LowerBound <- HeapLowerBound
  Startable <- HeapStartable
SPECIFICATION HeapSpec
CHECK_DEADLOCK FALSE
INVARIANTS
  PathWithinEps
  CutoffIsExact
  HeapIsOpen
PROPERTIES
  Terminates
