------------------------------ MODULE PathFinder ------------------------------
(***************************************************************************)
(* What get_path promises to its caller, whatever happened before: one     *)
(* answer per query.  It is a path of the map from the start to the        *)
(* target, together with a bound on the cost of reaching each of its       *)
(* nodes, the last bound being at most the reported cost; or it is no      *)
(* path, and then a set of nodes cuts the target off from the start.       *)
(***************************************************************************)
EXTENDS Integers, Sequences

CONSTANTS
  Node, Null, Maps, Successors, Startable,
  Complete    \* whether the search may not give up early

VARIABLES
  map,     \* the map, which never changes
  query,   \* start and target of the latest query
  status,  \* "ready" for a query, or "asked"
  answer   \* the latest answer; its path is empty when there is none

avars == <<map, query, status, answer>>

NoAnswer == [path |-> <<>>, cost |-> Null]

Edge(u, v, c) ==
  \E k \in DOMAIN Successors[map][u] :
    Successors[map][u][k].node = v /\ Successors[map][u][k].cost <= c

\* a.path is a sequence of [node, g]: g bounds the cost of reaching node.
IsAnswer(a, q) ==
  LET p == a.path
  IN  /\ p # <<>>
      /\ p[1].node = q.start /\ p[1].g = 0
      /\ p[Len(p)].node = q.target /\ p[Len(p)].g <= a.cost
      /\ \A k \in 1 .. Len(p) - 1 :
           Edge(p[k].node, p[k + 1].node, p[k + 1].g - p[k].g)

\* Some set of nodes with the start and without the target has no way out.
CutOff(q) ==
  \E S \in SUBSET Node :
    /\ q.start \in S /\ q.target \notin S
    /\ \A n \in S : \A k \in DOMAIN Successors[map][n] :
         Successors[map][n][k].node \in S

Init ==
  /\ map \in Maps
  /\ query = [start |-> Null, target |-> Null]
  /\ status = "ready"
  /\ answer = NoAnswer

\* A query; it fails at once when it has no start node.
Ask(start, target) ==
  /\ status = "ready"
  /\ query' = [start |-> start, target |-> target]
  /\ status' = IF start # Null /\ start \in Startable[map]
               THEN "asked" ELSE "ready"
  /\ answer' = NoAnswer
  /\ UNCHANGED map

Answer ==
  /\ status = "asked"
  /\ status' = "ready"
  /\ \/ IsAnswer(answer', query)
     \/ answer' = NoAnswer /\ (Complete => CutOff(query))
  /\ UNCHANGED <<map, query>>

Next ==
  \/ \E start \in Node \cup {Null}, target \in Node : Ask(start, target)
  \/ Answer

Spec == Init /\ [][Next]_avars
=============================================================================
