-------------------------- MODULE SearchCorrectness --------------------------
(***************************************************************************)
(* The answers of the search compared with the shortest paths of the map,  *)
(* and what a consistent heuristic adds: nodes are closed in the order of  *)
(* their f-values, and by a shortest path.                                 *)
(***************************************************************************)
EXTENDS SearchInvariants

Reference == INSTANCE ShortestPaths

\* The cost of a shortest path, as a set that is empty when there is none.
Optimum ==
  {x[2] : x \in {y \in Reference!ShortestFrom(map, pi.start) :
                   y[1] = pi.target}}

Found == Answered /\ sol.s_node # Null
AnswerCost == Reference!PathCost(map, sol.path)

(* get_path returns a path of the map from start to target, without a      *)
(* circle, that costs no more than sum_of_edge_costs_.                     *)
PathIsReal ==
  Found =>
    /\ Reference!IsPath(map, sol.path, pi.start, pi.target)
    /\ \A j, k \in DOMAIN sol.path : sol.path[j] = sol.path[k] => j = k
    /\ AnswerCost <= sol.sum

(* The reported cost is the cost of a shortest path.                       *)
SumIsOptimal == Found => Optimum = {sol.sum}

(* A search that fails, and is not cut off, has no path to find: "Search   *)
(* failed; no solution exists." (unidirectional_search.h:322).             *)
FailureIsRight ==
  (Answered /\ StartExists /\ FC = "until_exhaustion" /\ sol.s_node = Null)
    => Optimum = {}

\* No limit of cost, expansions or time can have stopped the search.
Unlimited ==
  /\ par.cost_cutoff = CostMax
  /\ sol.nodes_expanded < par.exp_cutoff
  /\ ~sol.late

(* The returned path is within eps of the cost of a shortest path          *)
(* (search_parameters.h:99).                                               *)
PathWithinEps ==
  Found /\ Unlimited => \A c \in Optimum : AnswerCost <= par.eps + c

(* A search that a cost cutoff has stopped, and no other limit, has no     *)
(* path to find that costs at most the cutoff, if no estimate is too high. *)
CutoffIsExact ==
  (Answered /\ StartExists /\ sol.s_node = Null
     /\ sol.nodes_expanded < par.exp_cutoff /\ ~sol.late)
    => \A c \in Optimum : Lt(par.cost_cutoff, c)

(* A call of get_path returns.                                             *)
Terminates == (pc # "idle") ~> (pc = "idle")

-----------------------------------------------------------------------------
(* Consistent heuristics.                                                  *)

\* The triangle inequality along the edges from n towards t.
ConsistentAt(succ, low, n, t) ==
  \A k \in DOMAIN succ[n] : low[n][t] <= succ[n][k].cost + low[succ[n][k].node][t]

Targets == {q[2] : q \in Queries}

\* The nodes that edges lead to.
Entered(succ) == UNION {{succ[n][k].node : k \in DOMAIN succ[n]} : n \in Node}

\* The targets that the heuristic is consistent towards, at all entered nodes.
ConsistentIn(succ, low) ==
  LET entered == Entered(succ) IN
  {t \in Targets : low[t][t] = 0 /\ \A n \in entered : ConsistentAt(succ, low, n, t)}

ConsistentTargets == [m \in Maps |-> ConsistentIn(Successors[m], LowerBound[m])]

\* The same, and at the start as well; the estimates are not weighted.
Consistent ==
  /\ par.w = 1
  /\ pi.target \in ConsistentTargets[map]
  /\ pi.start # Null =>
       ConsistentAt(Successors[map], LowerBound[map], pi.start, pi.target)

(* The heuristics for grids are consistent with the moves the expansion    *)
(* policies make: no move lowers the estimate by more than it costs, but   *)
(* for the moves out of an obstacle, which no move leads to.               *)
HeuristicIsConsistent == calls > 0 => pi.target \in ConsistentTargets[map]

\* The costs of shortest paths from s on a map, as pairs <<n, c>>.
ShortestCosts ==
  [m \in Maps |-> [s \in {q[1] : q \in Queries} \ {Null} |-> Reference!ShortestFrom(m, s)]]

IsShortest(n, c) == <<n, c>> \in ShortestCosts[map][pi.start]

(* With a consistent heuristic a node is closed by a shortest path, so its *)
(* g-value is final: no edge looked at later can improve it, and that      *)
(* reopen_policy::no never reopens it loses nothing.                       *)
ClosedIsFinal ==
  pc = "loop" /\ Consistent =>
    \A n \in Generated :
      node[n].expanded => IsShortest(n, node[n].g)

\* How uneven the estimates are along the edges into t, as to how much lower
\* they are than what is left.
Spread(succ, low, t) ==
  LET slacks == UNION {{succ[n][k].cost - low[n][t] :
                          k \in {l \in DOMAIN succ[n] : succ[n][l].node = t}} :
                        n \in Node}
  IN  Reference!Max(slacks) - Reference!Min(slacks)

(* With the default traits the first path to the target is returned.  It   *)
(* is as far from a shortest one as the estimates are uneven next to the   *)
(* target: not at all for A* on a gridmap, where they are exact, and by up *)
(* to DBL_ROOT_TWO - 1 for run_dijkstra.                                   *)
SumIsNearOptimal ==
  Found /\ Consistent =>
    \A c \in Optimum :
      /\ c <= sol.sum
      /\ sol.sum # c => sol.sum <= c + Spread(Successors[map], LowerBound[map], pi.target)

(* The lower bound met_.lb_ never falls in the course of a search, if the  *)
(* heuristic is consistent: an obstacle to start from can make it fall.    *)
LowerBoundGrows ==
  [][pc = "loop" /\ pc' = "succ" /\ sol.lb # CostMax /\ Consistent
       => sol.lb <= sol'.lb]_vars
=============================================================================
