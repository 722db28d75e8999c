--------------------------- MODULE MCGraphsOverHeap ---------------------------
(***************************************************************************)
(* The graphs of MCGraphs in which the start has at least two successors,  *)
(* searched by the engine over its heap.                                   *)
(***************************************************************************)
EXTENDS MCGraphs, SearchOverHeap

HeapMaps ==
  {m \in GraphMaps : m.edge[<<1, 2>>] # 0 /\ m.edge[<<1, 3>>] # 0}

HeapSuccessors == [m \in HeapMaps |-> GraphSuccessors[m]]
HeapLowerBound == [m \in HeapMaps |-> GraphLowerBound[m]]
HeapStartable  == [m \in HeapMaps |-> GraphStartable[m]]

\* A search that is timed may be stopped after any expansion, or never.
HeapParams ==
  {p \in LimitParams :
     \/ p.timed /\ p.exp_cutoff = 1000 /\ p.eps = 0 /\ p.cost_cutoff # 2
     \/ p.timed /\ p.exp_cutoff = 1000 /\ p.eps = 2 /\ p.cost_cutoff = CostMax
     \/ ~p.timed /\ p.exp_cutoff = 1 /\ p.eps = 0 /\ p.cost_cutoff = CostMax}
=============================================================================
