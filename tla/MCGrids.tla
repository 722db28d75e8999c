-------------------------------- MODULE MCGrids --------------------------------
(***************************************************************************)
(* The engine that run_dijkstra of apps/warthog.cpp builds, on all gridmaps *)
(* of a size with a few blocked cells.                                     *)
(***************************************************************************)
EXTENDS SearchCorrectness, GridmapExpansionPolicy

CONSTANTS
  MCBlocked,     \* BOUND: number of blocked cells
  MCStart        \* BOUND: the point that the search starts from

GridNode == Cells

GridMaps == {cells \in SUBSET GridNode : Cardinality(GridNode \ cells) <= MCBlocked}

GridSuccessors == [m \in GridMaps |-> [n \in GridNode |-> Expansion(m, n, FALSE)]]

\* zero_heuristic
GridLowerBound == [m \in GridMaps |-> [n \in GridNode |-> [t \in GridNode |-> 0]]]

GridStartable == [m \in GridMaps |-> StartNodes(m)]

GridQueries == {ProblemInstance(MCStart, <<0, 0>>)}

FarSide == <<HeaderWidth - 1, HeaderHeight - 2>>

DefaultParams ==
  {[w |-> 1, eps |-> 0, cost_cutoff |-> CostMax, exp_cutoff |-> 1000,
    timed |-> FALSE]}
=============================================================================
