------------------------------- MODULE MCGraphs -------------------------------
(***************************************************************************)
(* The search over all graphs of a family: any of the edges MCEdges        *)
(* between a start (1), a target (4) and the nodes in between, with a      *)
(* circle between 2 and 3, and any estimates for these two.                *)
(***************************************************************************)
EXTENDS SearchCorrectness

CONSTANTS
  MCEdgeCount,    \* BOUND: the edges are the first ones of the list below
  MCCosts,        \* BOUND: costs of the edges
  MCEstimates,    \* BOUND: estimates of the nodes 2 and 3
  MCAdmissible    \* whether only estimates that are lower bounds are taken

EdgeList ==
  << <<1, 2>>, <<1, 3>>, <<2, 3>>, <<3, 2>>, <<2, 4>>, <<3, 4>>, <<1, 4>>,
     <<1, 5>>, <<5, 3>> >>

GraphNode == 1 .. 5
Edges == {EdgeList[k] : k \in 1 .. MCEdgeCount}

\* cost 0 stands for no edge
Graphs == [edge : [Edges -> MCCosts \cup {0}], h : [{2, 3} -> MCEstimates]]

Estimate(m, n) == IF n \in {2, 3} THEN m.h[n] ELSE 0

\* The cost of the paths from n to the target, by way of the other node too.
WaysToTarget(m, n) ==
  LET o == 5 - n
      Cost(u, v) == IF <<u, v>> \in Edges THEN m.edge[<<u, v>>] ELSE 0
  IN  {c \in {Cost(n, 4)} : c # 0} \cup
      {Cost(n, o) + c : c \in {d \in {Cost(o, 4)} : d # 0 /\ Cost(n, o) # 0}}

GraphMaps ==
  {m \in Graphs : MCAdmissible =>
     \A n \in {2, 3} : \A c \in WaysToTarget(m, n) : m.h[n] <= c}

GraphSuccessors ==
  [m \in GraphMaps |-> [n \in GraphNode |->
     LET to == SelectSeq(<<1, 2, 3, 4, 5>>,
                 LAMBDA v : <<n, v>> \in Edges /\ m.edge[<<n, v>>] # 0)
     IN  [k \in DOMAIN to |->
            [node |-> to[k], cost |-> m.edge[<<n, to[k]>>]]]]]

GraphLowerBound ==
  [m \in GraphMaps |-> [n \in GraphNode |-> [t \in GraphNode |->
     IF t = 4 THEN Estimate(m, n) ELSE 0]]]

GraphStartable == [m \in GraphMaps |-> GraphNode]

OneQuery == {<<1, 4>>}
ThreeQueries == {<<1, 4>>, <<2, 4>>, <<3, 2>>}

DefaultParams ==
  {[w |-> 1, eps |-> 0, cost_cutoff |-> CostMax, exp_cutoff |-> 1000,
    timed |-> FALSE]}

LimitParams ==
  {[p EXCEPT !.eps = e, !.cost_cutoff = c, !.exp_cutoff = x, !.timed = b] :
     p \in DefaultParams, e \in {0, 2}, c \in {CostMax, 2, 4},
     x \in {1, 1000}, b \in BOOLEAN}
=============================================================================
