CONSTANTS
  MCEdgeCount = 6
  MCCosts = {1, 3}
  MCEstimates = {0, 3}
  MCAdmissible = FALSE
  Queries <- ThreeQueries
  Params <- DefaultParams
  AC = "any"
  FC = "until_exhaustion"
  RP = "no"
  IdOps = {"construct"}
  UnitOf <- SourceUnits
  IdMod = 5
  MaxCalls = 2
  Node <- GraphNode
  Null = Null
  CostMax = CostMax
  Maps <- GraphMaps
  Successors <- GraphSuccessors
  LowerBound <- GraphLowerBound
  Startable <- GraphStartable
SPECIFICATION Spec
CHECK_DEADLOCK FALSE
INVARIANTS
  SearchInv
  PathIsReal
  FailureMeansUnreachable
PROPERTIES
  ExpandsOnce
  KeepsPromise
