---------------------------- MODULE ShortestPaths ----------------------------
(***************************************************************************)
(* The reference the searches are compared with: shortest distances in the *)
(* graphs the expansion policies define, computed by rounds of relaxation  *)
(* over all edges (Bellman and Ford) and not by a best-first search.       *)
(***************************************************************************)
EXTENDS Integers, Sequences, FiniteSetsExt

CONSTANTS Node, Maps, Successors

\* The costs of the edges from u to v, none or several.
EdgeCosts(m, u, v) ==
  {Successors[m][u][k].cost :
     k \in {j \in DOMAIN Successors[m][u] : Successors[m][u][j].node = v}}

\* A shortest edge; the edge is known to exist.
EdgeCost(m, u, v) == Min(EdgeCosts(m, u, v))

\* All that is reached from the pairs <<node, cost>> of r by one more edge.
Reached(succ, r) ==
  r \cup UNION {{<<succ[x[1]][k].node, x[2] + succ[x[1]][k].cost>> :
                  k \in DOMAIN succ[x[1]]} : x \in r}

\* The cheapest pair of each node.
Cheapest(r) ==
  {<<n, Min({x[2] : x \in {y \in r : y[1] = n}})>> : n \in {x[1] : x \in r}}

(* The pairs <<n, c>> where n can be reached from s and c is the cost of a *)
(* shortest path, which has fewer edges than there are nodes.              *)
ShortestFrom(m, s) ==
  LET succ == Successors[m]
      round[k \in 1 .. Cardinality(Node)] ==
        IF k = 1 THEN {<<s, 0>>} ELSE Cheapest(Reached(succ, round[k - 1]))
  IN  round[Cardinality(Node)]

\* p is a path of the map m from s to t.
IsPath(m, p, s, t) ==
  /\ p # <<>>
  /\ p[1] = s /\ p[Len(p)] = t
  /\ \A k \in 1 .. Len(p) - 1 : EdgeCosts(m, p[k], p[k + 1]) # {}

\* The cost of a path, with the shortest of parallel edges.
PathCost(m, p) ==
  LET upto[k \in 1 .. Len(p)] ==
        IF k = 1 THEN 0 ELSE upto[k - 1] + EdgeCost(m, p[k - 1], p[k])
  IN  upto[Len(p)]
=============================================================================
