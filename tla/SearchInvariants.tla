--------------------------- MODULE SearchInvariants ---------------------------
(***************************************************************************)
(* What holds of every search whose instance id is its own, for every map: *)
(* the state of the search_node objects, of OPEN and of the incumbent.     *)
(* Walks and distances are not mentioned: unreachability is stated by a    *)
(* set of nodes that no edge leaves.  At the end the search as an          *)
(* implementation of PathFinder.                                           *)
(***************************************************************************)
EXTENDS UnidirectionalSearch

\* Nodes whose record belongs to the latest search.
Generated == IF calls = 0 THEN {} ELSE {n \in Node : node[n].num = pi.id}

\* An edge of the map from u to v accounts for the g-value of v.
Supports(u, v) ==
  \E k \in DOMAIN Successors[map][u] :
    /\ Successors[map][u][k].node = v
    /\ node[u].g + Successors[map][u][k].cost <= node[v].g

(* Every generated node but the start hangs under an expanded node of the  *)
(* same search by an edge that accounts for its g-value, however often and *)
(* in whatever order the node was relaxed, and whatever earlier searches   *)
(* left in the records: the backpointers get_path follows never leave the  *)
(* search and never run in a circle.                                       *)
Backpointers ==
  \A n \in Generated :
    \/ n = pi.start /\ node[n].parent = Null /\ node[n].g = 0
    \/ \E u \in Generated :
         node[n].parent = u /\ node[u].expanded /\ Supports(u, n)

(* OPEN holds nodes of the latest search only, none that is closed unless  *)
(* nodes are reopened: nothing an earlier search left there is popped.     *)
OpenIsLive ==
  \A n \in open : n \in Generated /\ (RP = "no" => ~node[n].expanded)

(* The incumbent is the target, and its backpointers are worth at least    *)
(* the cost that is reported for it.                                       *)
IncumbentIsTarget ==
  /\ sol.s_node = Null <=> sol.sum = CostMax
  /\ sol.s_node # Null =>
       /\ sol.s_node = pi.target
       /\ pi.target \in Generated
       /\ node[pi.target].g <= sol.sum

\* The successors of n that the search has looked at.
Visited(n) ==
  {Successors[map][n][k].node :
     k \in {j \in DOMAIN Successors[map][n] :
              pc = "succ" /\ n = current => j < i}}

(* As long as there is no incumbent no node is dropped: a generated node   *)
(* is in OPEN or it is closed and its successors are generated.            *)
NothingDropped ==
  sol.sum = CostMax =>
    \A n \in Generated :
      \/ n \in open
      \/ node[n].expanded /\ Visited(n) \subseteq Generated

\* No edge leaves S, which contains s and not t: t cannot be reached from s.
Separates(S, s, t) ==
  /\ s \in S /\ t \notin S
  /\ \A n \in S : \A k \in DOMAIN Successors[map][n] :
       Successors[map][n][k].node \in S

Answered == pc = "idle" /\ calls > 0
StartExists == pi.start # Null /\ pi.start \in Startable[map]

(* "Search failed; no solution exists." (unidirectional_search.h:322):     *)
(* a search that ends without an incumbent, and is not cut off, has        *)
(* generated a set of nodes that the start is in, no edge leaves, and the  *)
(* target is not in.                                                       *)
FailureMeansUnreachable ==
  (Answered /\ StartExists /\ FC = "until_exhaustion" /\ sol.s_node = Null)
    => Separates(Generated, pi.start, pi.target)

(* The path that get_path returns starts at the start node (the assertion  *)
(* at unidirectional_search.h:89), ends at the target and follows, from    *)
(* node to node of this search, edges that account for the g-values along  *)
(* it; those begin at 0 and end at the reported cost or below.             *)
PathIsSupported ==
  (Answered /\ sol.s_node # Null) =>
    LET p == sol.path
    IN  /\ p # <<>>
        /\ p[1] = pi.start /\ node[p[1]].g = 0
        /\ p[Len(p)] = pi.target /\ node[p[Len(p)]].g <= sol.sum
        /\ \A k \in 1 .. Len(p) : p[k] \in Generated
        /\ \A k \in 1 .. Len(p) - 1 : Supports(p[k], p[k + 1])

(* Under reopen_policy::no a search expands a node at most once.           *)
ExpandsOnce ==
  [][RP = "no" /\ pc = "loop" /\ pc' = "succ" => ~node[current'].expanded]_vars

-----------------------------------------------------------------------------
(* The inductive invariant behind these properties.                        *)

(* Every call has an id that no node carries yet.  Conversions alone give  *)
(* such ids, and constructors alone, two for a call at most, until they    *)
(* reach UINT32_MAX; both together only where they count in one unit.      *)
FreshIds ==
  /\ IdOps \subseteq {"convert", "construct"}
  /\ \A a, b \in IdOps : UnitOf[a] = UnitOf[b]
  /\ 2 * MaxCalls < IdMod

IdsGrow ==
  IF calls = 0
  THEN /\ \A u \in Unit : counter[u] = IdMod - 1
       /\ \A n \in Node : node[n].num = IdMod - 1
  ELSE /\ \A op \in IdOps : counter[UnitOf[op]] = pi.id
       /\ pi.id < 2 * calls
       /\ \A n \in Node : node[n].num = IdMod - 1 \/ node[n].num <= pi.id

\* A node of the search has been given a cost.
GeneratedHaveCosts == \A n \in Generated : node[n].g # CostMax

\* The start node is the root of the search, and is never relaxed.
StartIsRoot ==
  /\ pc # "idle" => StartExists
  /\ calls > 0 /\ StartExists =>
       /\ pi.start \in Generated
       /\ node[pi.start].g = 0 /\ node[pi.start].parent = Null

\* The node being expanded is a closed node of the search.
CurrentIsClosed ==
  pc = "succ" => current \in Generated /\ node[current].expanded

\* The target is an incumbent as soon as it is generated.
TargetIsIncumbent ==
  calls > 0 /\ pi.target \in Generated => sol.s_node # Null

\* Only an empty OPEN ends an exhaustive search without an incumbent.
FailureIsExhaustion ==
  (Answered /\ StartExists /\ FC = "until_exhaustion" /\ sol.s_node = Null)
    => open = {}

\* The part of the path that has been extracted hangs below current.
PathSoFar ==
  /\ pc \in {"loop", "succ"} => sol.path = <<>>
  /\ pc = "extract" =>
       LET p == sol.path
       IN  /\ sol.s_node # Null /\ current \in Generated
           /\ \A k \in 1 .. Len(p) : p[k] \in Generated
           /\ p = <<>> => current = sol.s_node
           /\ p # <<>> =>
                /\ p[Len(p)] = sol.s_node
                /\ Supports(current, p[1])
                /\ \A k \in 1 .. Len(p) - 1 : Supports(p[k], p[k + 1])

SearchInv ==
  /\ IdsGrow
  /\ GeneratedHaveCosts
  /\ Backpointers
  /\ OpenIsLive
  /\ IncumbentIsTarget
  /\ NothingDropped
  /\ StartIsRoot
  /\ CurrentIsClosed
  /\ TargetIsIncumbent
  /\ FailureIsExhaustion
  /\ PathSoFar
  /\ PathIsSupported

-----------------------------------------------------------------------------
(* get_path as its caller sees it: the query, and the answer with the      *)
(* g-values along the path as bounds of the cost of reaching its nodes.    *)
Promise == INSTANCE PathFinder WITH
  query    <- [start |-> pi.start, target |-> pi.target],
  status   <- IF pc = "idle" THEN "ready" ELSE "asked",
  answer   <-
    IF pc = "idle" /\ sol.s_node # Null
    THEN [path |-> [k \in 1 .. Len(sol.path) |->
                      [node |-> sol.path[k], g |-> node[sol.path[k]].g]],
          cost |-> sol.sum]
    ELSE [path |-> <<>>, cost |-> Null],
  Complete <- FC = "until_exhaustion"

(* The search implements that promise, call after call.                    *)
KeepsPromise == Promise!Spec
=============================================================================
