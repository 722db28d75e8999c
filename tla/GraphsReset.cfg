CONSTANTS
  MCEdgeCount = 5
  MCCosts = {1}
  MCEstimates = {0}
  MCAdmissible = TRUE
  Queries <- ThreeQueries
  Params <- DefaultParams
  AC = "any"
  FC = "until_exhaustion"
  RP = "no"
  IdOps = {"construct", "reset"}
  UnitOf <- SourceUnits
  IdMod = 8
  MaxCalls = 2
  Node <- GraphNode
  Null = Null
  CostMax = CostMax
  Maps <- GraphMaps
  Successors <- GraphSuccessors
  LowerBound <- GraphLowerBound
  Startable <- GraphStartable
SPECIFICATION Spec
CHECK_DEADLOCK FALSE
INVARIANT FailureIsRight
