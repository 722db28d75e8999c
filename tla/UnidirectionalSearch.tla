------------------------- MODULE UnidirectionalSearch -------------------------
(***************************************************************************)
(* warthog::search::unidirectional_search<H, E, Q, L, AC, FC, RP>: the     *)
(* best-first search behind every algorithm of the library.  One engine    *)
(* answers a sequence of get_path() calls over one map.  It keeps its      *)
(* search_node objects between the calls, so the records left behind by    *)
(* one search are the (stale) initial state of the next; only the          *)
(* instance id of a call separates the two.                                *)
(*                                                                         *)
(* The expansion policy E, the heuristic H and the priority queue Q are    *)
(* used through their interfaces.  E is the table Successors (in the order *)
(* in which add_neighbour was called) and the set Startable, H is the      *)
(* table LowerBound (the heuristics of the library set lb_ only, never     *)
(* feasible_ or ub_), Q is the set open from which pop() takes an element  *)
(* that no other precedes.  Costs are integers in a fixed unit.            *)
(***************************************************************************)
EXTENDS Integers, Sequences, FiniteSets

CONSTANTS
  Node,         \* ids of the search nodes of the pool
  Null,         \* pad_id::max(), also the null search_node pointer
  Maps,         \* the maps an engine may be built over
  Successors,   \* Successors[m][n]: sequence of [node, cost] expand() adds
  LowerBound,   \* LowerBound[m][n][t]: the heuristic's lb_ from n to t
  Startable,    \* Startable[m]: where generate_start_node is not null
  Queries,      \* the <<start, target>> pairs asked
  Params,       \* the search_parameters passed
  AC, FC, RP,   \* the traits of the template
  CostMax,      \* COST_MAX, above every cost
  IdOps,        \* how the problem instance of the next call is obtained
  UnitOf,       \* UnitOf[f]: the translation unit in whose counter f counts
  IdMod,        \* instance ids are 0 .. IdMod - 1 (2^32 in the code)
  MaxCalls      \* BOUND: number of get_path calls

Parameters ==
  [w : Nat \ {0}, eps : Nat, cost_cutoff : Nat \cup {CostMax},
   exp_cutoff : Nat, timed : BOOLEAN]

(* instance_counter_ is static in a header: every translation unit counts  *)
(* for itself.  The functions that count are the constructor of a          *)
(* problem_instance, its conversion, the constructor of a                  *)
(* search_problem_instance, and reset (copy and assignment likewise).      *)
(* A linker that keeps one copy of an inline function for all units makes  *)
(* it count in another one.                                                *)
Unit == {"caller", "policy"}
Counting == {"instance", "convert", "construct", "reset"}

\* As the sources have it: the policy's unit converts.
SourceUnits == [f \in Counting |-> IF f = "convert" THEN "policy" ELSE "caller"]

\* A successor: the node added and the cost of the edge to it.
Edge == [node : Node, cost : Nat]

ASSUME MapsAssumption ==
  /\ Null \notin Node
  /\ CostMax \notin Nat
  /\ Successors \in [Maps -> [Node -> Seq(Edge)]]
  /\ LowerBound \in [Maps -> [Node -> [Node -> Nat]]]
  /\ Startable \in [Maps -> SUBSET Node]

ASSUME CallsAssumption ==
  /\ Queries \subseteq (Node \cup {Null}) \X Node
  /\ Params # {} /\ Params \subseteq Parameters
  /\ IdOps \subseteq {"convert", "construct", "reset", "reuse"}
  /\ UnitOf \in [Counting -> Unit]
  /\ IdMod \in Nat \ {0}
  /\ MaxCalls \in Nat

ASSUME TraitsAssumption ==
  /\ AC \in {"any", "w_admissible", "eps_admissible"}
  /\ FC \in {"until_exhaustion", "until_cutoff"}
  /\ RP \in {"yes", "no"}

VARIABLES
  map,      \* the map of the expander and the heuristic
  node,     \* the search_node objects, which survive a search
  open,     \* contents of the priority queue
  pi,       \* the search_problem_instance of the latest call
  par,      \* its search_parameters
  sol,      \* its solution
  counter,  \* instance_counter_ of every unit
  calls,    \* number of get_path calls so far
  pc,       \* "idle", at the "loop" test, in the "succ" loop, in "extract"
  current,  \* the node being expanded, or the next one of the path
  i         \* index of the next successor

vars == <<map, node, open, pi, par, sol, counter, calls, pc, current, i>>

-----------------------------------------------------------------------------
(* Costs: COST_MAX is above every sum of costs.  The assertions of         *)
(* initialise_node_ exclude the overflow of a sum.                         *)
Lt(a, b) == a # CostMax /\ (b # CostMax => a < b)

\* An unused search_node; UINT32_MAX is the search number of no search yet.
FreshNode ==
  [num |-> IdMod - 1, parent |-> Null, g |-> CostMax, f |-> CostMax,
   expanded |-> FALSE]

\* solution::reset, with the metrics the search reads back.
EmptySolution ==
  [s_node |-> Null, sum |-> CostMax, path |-> <<>>,
   lb |-> CostMax, nodes_expanded |-> 0, late |-> FALSE]

\* Mutant: ties are ordered before estimates are.
PrecedesByG(m, n) ==
  \/ node[m].g > node[n].g
  \/ node[m].g = node[n].g /\ node[m].f < node[n].f

\* search_node::operator<
Precedes(m, n) ==
  \/ node[m].f < node[n].f
  \/ node[m].f = node[n].f /\ node[m].g > node[n].g

\* What pqueue::peek may return.
Best == {n \in open : \A m \in open : ~Precedes(m, n)}

\* ++instance_counter_ on a uint32_t
Bump(c) == IF c = IdMod - 1 THEN 0 ELSE c + 1

\* The counters c after a call of f.
CountIn(f, c) == [c EXCEPT ![UnitOf[f]] = Bump(@)]

(* problem_instance.h.  "convert": get_path(problem_instance* ) on a new   *)
(* instance, which is counted, and its conversion, which is counted again. *)
(* "construct": a search_problem_instance built by its constructor.        *)
(* "reset": the previous one after reset(), copying or assignment, which   *)
(* take the counter before its increment.  "reuse": the previous one.      *)
NewCounter(op) ==
  CASE op = "convert" -> CountIn("convert", CountIn("instance", counter))
    [] op \in {"construct", "reset"} -> CountIn(op, counter)
    [] op = "reuse" -> counter

NewId(op) ==
  CASE op \in {"convert", "construct"} -> NewCounter(op)[UnitOf[op]]
    [] op = "reset" -> counter[UnitOf[op]]
    [] op = "reuse" -> pi.id

\* Mutant: the first incumbent will do, whatever the trait.
AdmissibleFirst(lb) == sol.sum # CostMax

\* uds_traits.h: is the incumbent good enough, given the lower bound lb?
Admissible(lb) ==
  CASE AC = "any"            -> sol.sum # CostMax
    [] AC = "w_admissible"   -> sol.sum # CostMax /\ sol.sum <= par.w * lb
    [] AC = "eps_admissible" -> sol.sum # CostMax /\ sol.sum <= par.eps + lb

\* Mutant: a node at the cutoff is beyond it.
FeasibleBelow(n) ==
  FC = "until_cutoff" =>
    /\ Lt(node[n].f, par.cost_cutoff)
    /\ sol.nodes_expanded < par.exp_cutoff
    /\ ~sol.late

\* uds_traits.h: is it worth expanding n, the top of OPEN?
Feasible(n) ==
  FC = "until_cutoff" =>
    /\ ~Lt(par.cost_cutoff, node[n].f)
    /\ sol.nodes_expanded < par.exp_cutoff
    /\ ~sol.late

-----------------------------------------------------------------------------
\* The engine before its first call.
Unused ==
  /\ node = [n \in Node |-> FreshNode]
  /\ open = {}
  /\ pi = [start |-> Null, target |-> Null, id |-> IdMod - 1]
  /\ par = CHOOSE p \in Params : TRUE
  /\ sol = EmptySolution
  /\ counter = [u \in Unit |-> IdMod - 1]
  /\ calls = 0
  /\ pc = "idle"
  /\ current = Null
  /\ i = 1

Init == map \in Maps /\ Unused

\* The search_node that search_node::init makes of n in this search.
Initialised(q, p, n, parent, g) ==
  [num |-> q.id, parent |-> parent, g |-> g,
   f |-> g + p.w * LowerBound[map][n][q.target], expanded |-> FALSE]

\* Mutant: any node improves the incumbent.
IncumbentAny(s, q, n, g) ==
  IF Lt(g, s.sum) THEN [s EXCEPT !.s_node = n, !.sum = g] ELSE s

\* The incumbent after initialise_node_(n) with the given g-value.
Incumbent(s, q, n, g) ==
  IF n = q.target /\ Lt(g, s.sum)
  THEN [s EXCEPT !.s_node = n, !.sum = g]
  ELSE s

(* A call of get_path with a solution that has been reset: the prologue of *)
(* search(), which gives up when there is no start node.                   *)
GetPath(op, start, target, p) ==
  LET q == [start |-> start, target |-> target, id |-> NewId(op)]
  IN
  /\ pc = "idle"
  /\ calls < MaxCalls
  /\ op \in {"reset", "reuse"} => calls > 0
  /\ calls' = calls + 1
  /\ counter' = NewCounter(op)
  /\ pi' = q
  /\ par' = p
  /\ IF start # Null /\ start \in Startable[map]
     THEN /\ node' = [node EXCEPT ![start] = Initialised(q, p, start, Null, 0)]
          /\ sol' = Incumbent(EmptySolution, q, start, 0)
          /\ open' = {start}
          /\ pc' = "loop"
     ELSE /\ sol' = EmptySolution
          /\ open' = {}
          /\ UNCHANGED <<node, pc>>
  /\ UNCHANGED <<map, current, i>>

\* The loop goes on: pop the top of OPEN and expand it.
Expand(n) ==
  /\ pc = "loop"
  /\ n \in Best
  /\ Feasible(n)
  /\ ~Admissible(node[n].f)
  /\ open' = open \ {n}
  /\ node' = [node EXCEPT ![n].expanded = TRUE]
  /\ sol' = [sol EXCEPT !.lb = node[n].f, !.nodes_expanded = @ + 1]
  /\ current' = n
  /\ i' = 1
  /\ pc' = "succ"
  /\ UNCHANGED <<map, pi, par, counter, calls>>

\* The i-th successor of the node being expanded, and its g-value through it.
Succ == Successors[map][current]
Child == Succ[i].node

\* Mutant: the cost of the node being expanded is left out.
GValOfEdge == Succ[i].cost

GVal == node[current].g + Succ[i].cost

AtSuccessor == pc = "succ" /\ i <= Len(Succ)

\* Mutant: only a node that was never used is new.
IsNewUnused == node[Child].num = IdMod - 1

IsNew == node[Child].num # node[current].num
NewNode == Initialised(pi, par, Child, current, GVal)
NewSol == Incumbent(sol, pi, Child, GVal)

\* gval + n->get_f() - n->get_g(); DBL_MAX absorbs gval on an unused node.
RelaxedF ==
  IF node[Child].f = CostMax THEN 0 ELSE GVal + node[Child].f - node[Child].g

CanRelax ==
  /\ ~IsNew
  /\ Lt(GVal, node[Child].g)
  /\ Lt(RelaxedF, sol.sum)

\* Mutant: the parent is not updated.
RelaxedKeepsParent ==
  [node[Child] EXCEPT
     !.f = IF node[Child].f = CostMax THEN GVal ELSE RelaxedF,
     !.g = GVal]

\* search_node::relax
Relaxed ==
  [node[Child] EXCEPT
     !.f = IF node[Child].f = CostMax THEN GVal ELSE RelaxedF,
     !.g = GVal, !.parent = current]

\* First reached in this search and below the incumbent: push.
Generate ==
  /\ AtSuccessor /\ IsNew
  /\ Lt(NewNode.f, NewSol.sum)
  /\ node' = [node EXCEPT ![Child] = NewNode]
  /\ sol' = NewSol
  /\ open' = open \cup {Child}
  /\ i' = i + 1
  /\ UNCHANGED <<map, pi, par, counter, calls, pc, current>>

\* First reached in this search, not below the incumbent: never pushed.
Prune ==
  /\ AtSuccessor /\ IsNew
  /\ ~Lt(NewNode.f, NewSol.sum)
  /\ node' = [node EXCEPT ![Child] = NewNode]
  /\ sol' = NewSol
  /\ i' = i + 1
  /\ UNCHANGED <<map, open, pi, par, counter, calls, pc, current>>

\* A shorter way to a node in OPEN: decrease_key.
Decrease ==
  /\ AtSuccessor /\ CanRelax /\ Child \in open
  /\ node' = [node EXCEPT ![Child] = Relaxed]
  /\ i' = i + 1
  /\ UNCHANGED <<map, open, pi, par, sol, counter, calls, pc, current>>

\* Mutant: the trait RP is ignored.
ReopenedAlways == open \cup {Child}

\* reopen_policy: does a node that was expanded go back to OPEN?
Reopened == IF RP = "yes" THEN open \cup {Child} ELSE open

\* A shorter way to a node that is not in OPEN.
Reopen ==
  /\ AtSuccessor /\ CanRelax /\ Child \notin open
  /\ node' = [node EXCEPT ![Child] = Relaxed]
  /\ open' = Reopened
  /\ i' = i + 1
  /\ UNCHANGED <<map, pi, par, sol, counter, calls, pc, current>>

Dominated ==
  /\ AtSuccessor /\ ~IsNew /\ ~CanRelax
  /\ i' = i + 1
  /\ UNCHANGED <<map, node, open, pi, par, sol, counter, calls, pc, current>>

\* End of an iteration; until_cutoff reads the timer.
EndExpansion ==
  /\ pc = "succ" /\ i > Len(Succ)
  /\ \E late \in {sol.late, FC = "until_cutoff" /\ par.timed} :
       sol' = [sol EXCEPT !.late = @ \/ late]
  /\ pc' = "loop"
  /\ UNCHANGED <<map, node, open, pi, par, counter, calls, current, i>>

\* Mutant: the loop does not end when OPEN is empty.
DoneIgnoresEmpty == \E n \in Best : ~Feasible(n) \/ Admissible(node[n].f)

\* The tests that end the loop.
Done == open = {} \/ \E n \in Best : ~Feasible(n) \/ Admissible(node[n].f)

\* The loop stops; get_path goes on only if there is an incumbent.
Stop ==
  /\ pc = "loop"
  /\ Done
  /\ current' = sol.s_node
  /\ pc' = IF sol.s_node = Null THEN "idle" ELSE "extract"
  /\ UNCHANGED <<map, node, open, pi, par, sol, counter, calls, i>>

(* One step along the backpointers.  The code appends and reverses the     *)
(* path at the end.                                                        *)
Extract ==
  /\ pc = "extract"
  /\ sol' = [sol EXCEPT !.path = <<current>> \o @]
  /\ current' = node[current].parent
  /\ pc' = IF current' = Null THEN "idle" ELSE "extract"
  /\ UNCHANGED <<map, node, open, pi, par, counter, calls, i>>

SuccessorStep == Generate \/ Prune \/ Decrease \/ Reopen \/ Dominated

Step ==
  \/ \E n \in Node : Expand(n)
  \/ SuccessorStep \/ EndExpansion \/ Stop \/ Extract

Call ==
  \E op \in IdOps, q \in Queries, p \in Params : GetPath(op, q[1], q[2], p)

Next == Call \/ Step

\* A call runs to its end: it is a sequential computation.
Spec == Init /\ [][Next]_vars /\ WF_vars(Step)

-----------------------------------------------------------------------------
(* Types of the variables; pc tells when a current node exists.            *)
NodeRecord ==
  [num : 0 .. IdMod - 1, parent : Node \cup {Null},
   g : Nat \cup {CostMax}, f : Nat \cup {CostMax}, expanded : BOOLEAN]

Instance ==
  [start : Node \cup {Null}, target : Node \cup {Null}, id : 0 .. IdMod - 1]

Solution ==
  [s_node : Node \cup {Null}, sum : Nat \cup {CostMax}, path : Seq(Node),
   lb : Nat \cup {CostMax}, nodes_expanded : Nat, late : BOOLEAN]

TypeOK ==
  /\ map \in Maps
  /\ node \in [Node -> NodeRecord]
  /\ open \in SUBSET Node
  /\ pi \in Instance
  /\ par \in Parameters
  /\ sol \in Solution
  /\ counter \in [Unit -> 0 .. IdMod - 1]
  /\ calls \in 0 .. MaxCalls
  /\ pc \in {"idle", "loop", "succ", "extract"}
  /\ current \in Node \cup {Null}
  /\ pc \in {"succ", "extract"} => current # Null
  /\ i \in Nat \ {0}
=============================================================================
