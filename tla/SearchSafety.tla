----------------------------- MODULE SearchSafety -----------------------------
(***************************************************************************)
(* What the search keeps up, for every map, heuristic, trait, parameter    *)
(* and number of calls, proved action by action.  The types are right also *)
(* for stale and repeated instance ids.  When every call has an id of its  *)
(* own, SearchInv is an invariant; a returned path is a path of the map    *)
(* without a circle, which costs no more than is reported; and call after  *)
(* call the search implements PathFinder.  The second half is about how    *)
(* good the answers are: first if nodes are reopened, then what a          *)
(* consistent heuristic gives, with which nodes are closed in the order of *)
(* their f-values, and by a shortest path.                                 *)
(***************************************************************************)
EXTENDS SearchCorrectness, WellFoundedInduction, FiniteSetTheorems, TLAPS

-----------------------------------------------------------------------------
(* Types.                                                                  *)

\* A node has both costs or none, and its estimate is not negative.
CostsOK ==
  \A n \in Node :
    \/ node[n].g = CostMax /\ node[n].f = CostMax
    \/ node[n].g \in Nat /\ node[n].f \in Nat /\ node[n].g <= node[n].f

\* The nodes that may be expanded have costs.
LiveOK ==
  /\ \A n \in open : node[n].g \in Nat
  /\ pc = "succ" => node[current].g \in Nat

\* A call has a target; something runs only in a call.
CallOK ==
  /\ pc # "idle" => calls > 0
  /\ calls > 0 => pi.target \in Node

\* The inductive invariant: TypeOK with what its preservation needs.
TypeInv == TypeOK /\ CostsOK /\ LiveOK /\ CallOK

(* The i-th successor, while there is one, is a node with a cost, and the  *)
(* g-value through it is a cost.                                           *)
LEMMA SuccessorType ==
  ASSUME TypeInv, AtSuccessor
  PROVE  Child \in Node /\ current \in Node /\ GVal \in Nat
         /\ node[current].g \in Nat /\ node[current].g <= GVal
<1>1. current \in Node /\ map \in Maps /\ i \in Nat \ {0} /\ i <= Len(Succ)
  BY DEF TypeInv, TypeOK, AtSuccessor
<1>2. Succ \in Seq(Edge)
  BY <1>1, MapsAssumption DEF Succ
<1>3. Succ[i] \in Edge
  <2> HIDE DEF Succ
  <2>1. Len(Succ) \in Nat /\ i \in 1 .. Len(Succ)
    BY <1>1, <1>2
  <2> QED
    BY <1>2, <2>1
<1>4. node[current].g \in Nat
  BY DEF TypeInv, LiveOK, AtSuccessor
<1>5. Child \in Node /\ Succ[i].cost \in Nat
  BY <1>3 DEF Child, Edge
<1>6. GVal \in Nat /\ node[current].g <= GVal
  BY <1>4, <1>5 DEF GVal
<1> QED
  BY <1>1, <1>4, <1>5, <1>6

(* initialise_node_ makes a well-typed node with f = g + w * lb.           *)
LEMMA InitialisedType ==
  ASSUME map \in Maps, NEW q \in Instance, NEW p \in Parameters,
         NEW n \in Node, NEW parent \in Node \cup {Null}, NEW g \in Nat,
         q.target \in Node
  PROVE  LET x == Initialised(q, p, n, parent, g)
         IN  /\ x \in NodeRecord
             /\ x.f \in Nat /\ x.g = g /\ x.g <= x.f
             /\ x.num = q.id /\ x.parent = parent /\ ~x.expanded
<1>1. LowerBound[map][n][q.target] \in Nat
  BY MapsAssumption
<1>2. p.w \in Nat
  BY DEF Parameters
<1>3. ASSUME NEW w \in Nat, NEW lb \in Nat
      PROVE  g + w * lb \in Nat /\ g <= g + w * lb
  BY <1>3, SMT
<1>4. g + p.w * LowerBound[map][n][q.target] \in Nat
      /\ g <= g + p.w * LowerBound[map][n][q.target]
  BY <1>1, <1>2, <1>3
<1> QED
  BY <1>4 DEF Initialised, NodeRecord, Instance

(* The incumbent that initialise_node_ leaves is well typed.               *)
LEMMA IncumbentType ==
  ASSUME NEW s \in Solution, NEW q, NEW n \in Node, NEW g \in Nat
  PROVE  Incumbent(s, q, n, g) \in Solution
  BY DEF Incumbent, Solution

(* A node that can be relaxed has costs, or none at all; relaxing it       *)
(* lowers its g-value and keeps its estimate.                              *)
LEMMA RelaxedType ==
  ASSUME TypeInv, AtSuccessor, CanRelax
  PROVE  /\ Relaxed \in NodeRecord
         /\ Relaxed.g = GVal /\ Relaxed.f \in Nat /\ GVal <= Relaxed.f
         /\ Relaxed.num = node[Child].num /\ Relaxed.parent = current
         /\ Relaxed.expanded = node[Child].expanded
<1>1. Child \in Node /\ current \in Node /\ GVal \in Nat
  BY SuccessorType
<1>2. node[Child] \in NodeRecord
  BY <1>1 DEF TypeInv, TypeOK
<1>3. PICK f \in Nat :
        /\ GVal <= f
        /\ Relaxed = [node[Child] EXCEPT !.f = f, !.g = GVal, !.parent = current]
  <2>1. CASE node[Child].f = CostMax
    <3>1. Relaxed = [node[Child] EXCEPT !.f = GVal, !.g = GVal, !.parent = current]
      BY <2>1 DEF Relaxed
    <3>2. GVal <= GVal
      BY <1>1
    <3> QED
      BY <1>1, <3>1, <3>2
  <2>2. CASE node[Child].f # CostMax
    <3>1. node[Child].g \in Nat /\ node[Child].f \in Nat
          /\ node[Child].g <= node[Child].f
      BY <1>1, <2>2 DEF TypeInv, CostsOK
    <3>2. RelaxedF \in Nat /\ GVal <= RelaxedF
      BY <1>1, <2>2, <3>1 DEF RelaxedF
    <3> QED
      BY <2>2, <3>2 DEF Relaxed
  <2> QED
    BY <2>1, <2>2
<1>4. Relaxed \in NodeRecord /\ Relaxed.f = f /\ Relaxed.g = GVal
      /\ Relaxed.parent = current /\ Relaxed.num = node[Child].num
      /\ Relaxed.expanded = node[Child].expanded
  <2> HIDE DEF Relaxed
  <2> DEFINE y == [node[Child] EXCEPT !.f = f, !.g = GVal, !.parent = current]
  <2>1. y \in NodeRecord /\ y.f = f /\ y.g = GVal /\ y.parent = current
        /\ y.num = node[Child].num /\ y.expanded = node[Child].expanded
    BY <1>1, <1>2, <1>3 DEF NodeRecord
  <2>2. Relaxed = y
    BY <1>3
  <2> HIDE DEF y
  <2> QED
    BY <2>1, <2>2
<1> QED
  BY <1>3, <1>4

-----------------------------------------------------------------------------
(* Every action preserves TypeInv.                                         *)

LEMMA TypeInit ==
  ASSUME Init
  PROVE  TypeInv
<1>1. IdMod - 1 \in 0 .. IdMod - 1
  BY CallsAssumption
<1>2. TypeOK
  BY <1>1, CallsAssumption
     DEF Init, Unused, TypeOK, FreshNode, NodeRecord, EmptySolution, Solution, Instance
<1>3. CostsOK /\ LiveOK /\ CallOK
  BY DEF Init, Unused, CostsOK, LiveOK, CallOK, FreshNode
<1> QED
  BY <1>2, <1>3 DEF TypeInv

(* What changing one record to one with costs does to all the records.     *)
LEMMA NodeUpdate ==
  ASSUME TypeInv, NEW n \in Node, NEW x \in NodeRecord,
         x.g \in Nat, x.f \in Nat, x.g <= x.f,
         node' = [node EXCEPT ![n] = x]
  PROVE  /\ node' \in [Node -> NodeRecord]
         /\ CostsOK'
         /\ node'[n] = x
         /\ \A m \in Node : m # n => node'[m] = node[m]
         /\ \A m \in Node : node[m].g \in Nat => node'[m].g \in Nat
<1>1. node \in [Node -> NodeRecord]
  BY DEF TypeInv, TypeOK
<1>2. node' \in [Node -> NodeRecord] /\ node'[n] = x
      /\ \A m \in Node : m # n => node'[m] = node[m]
  BY <1>1
<1>3. CostsOK'
  BY <1>2 DEF TypeInv, CostsOK
<1> QED
  BY <1>2, <1>3

\* Ids stay within their width, however they are made.
LEMMA IdType ==
  ASSUME TypeInv, NEW op \in IdOps
  PROVE  NewCounter(op) \in [Unit -> 0 .. IdMod - 1] /\ NewId(op) \in 0 .. IdMod - 1
<1>1. \A c \in 0 .. IdMod - 1 : Bump(c) \in 0 .. IdMod - 1
  BY CallsAssumption DEF Bump
<1>2. counter \in [Unit -> 0 .. IdMod - 1] /\ pi.id \in 0 .. IdMod - 1
  BY DEF TypeInv, TypeOK, Instance
<1>3. op \in {"convert", "construct", "reset", "reuse"}
  BY CallsAssumption
<1>4. \A f \in Counting : UnitOf[f] \in Unit
  BY CallsAssumption
<1>5. ASSUME NEW f \in Counting, NEW c \in [Unit -> 0 .. IdMod - 1]
      PROVE  CountIn(f, c) \in [Unit -> 0 .. IdMod - 1]
  BY <1>1, <1>4 DEF CountIn
<1>6. NewCounter(op) \in [Unit -> 0 .. IdMod - 1]
  <2>1. CountIn("convert", CountIn("instance", counter)) \in [Unit -> 0 .. IdMod - 1]
    BY <1>2, <1>5 DEF Counting
  <2>2. op \in {"construct", "reset"} => CountIn(op, counter) \in [Unit -> 0 .. IdMod - 1]
    BY <1>2, <1>5 DEF Counting
  <2> QED
    BY <1>2, <1>3, <2>1, <2>2 DEF NewCounter
<1>7. op # "reuse" => UnitOf[op] \in Unit
  BY <1>3, <1>4 DEF Counting
<1> QED
  BY <1>2, <1>3, <1>6, <1>7 DEF NewId

LEMMA GetPathType ==
  ASSUME TypeInv, NEW op \in IdOps, NEW q \in Queries, NEW p \in Params,
         GetPath(op, q[1], q[2], p)
  PROVE  TypeInv'
<1> DEFINE start == q[1]
           target == q[2]
           pinst == [start |-> start, target |-> target, id |-> NewId(op)]
<1>1. start \in Node \cup {Null} /\ target \in Node /\ p \in Parameters
  BY CallsAssumption
<1>2. pinst \in Instance /\ pinst.target \in Node
  BY <1>1, IdType DEF Instance
<1>3. /\ map' = map /\ current' = current /\ i' = i
      /\ pc = "idle" /\ calls < MaxCalls /\ calls' = calls + 1
      /\ counter' = NewCounter(op) /\ pi' = pinst /\ par' = p
  BY DEF GetPath
<1>4. calls' \in 0 .. MaxCalls /\ calls' > 0 /\ counter' \in [Unit -> 0 .. IdMod - 1]
  BY <1>3, IdType, CallsAssumption DEF TypeInv, TypeOK
<1>5. EmptySolution \in Solution
  BY DEF EmptySolution, Solution
<1>6. CASE start # Null /\ start \in Startable[map]
  <2> DEFINE x == Initialised(pinst, p, start, Null, 0)
  <2>1. /\ node' = [node EXCEPT ![start] = x]
        /\ sol' = Incumbent(EmptySolution, pinst, start, 0)
        /\ open' = {start} /\ pc' = "loop"
    BY <1>6 DEF GetPath
  <2>2. x \in NodeRecord /\ x.f \in Nat /\ x.g = 0 /\ x.g <= x.f
    <3> HIDE DEF start, target, pinst
    <3>1. start \in Node /\ 0 \in Nat /\ Null \in Node \cup {Null} /\ map \in Maps
      BY <1>1, <1>6 DEF TypeInv, TypeOK
    <3> QED
      BY <1>1, <1>2, <3>1, InitialisedType, ZenonT(30)
  <2> HIDE DEF start, target, pinst, x
  <2>3. start \in Node
    BY <1>1, <1>6
  <2>4. x.g \in Nat
    BY <2>2
  <2>5. node' \in [Node -> NodeRecord] /\ CostsOK' /\ node'[start] = x
    BY <2>1, <2>2, <2>3, <2>4, NodeUpdate
  <2>6. sol' \in Solution
    BY <1>5, <2>1, <2>3, IncumbentType
  <2>7. TypeOK'
    BY <1>1, <1>2, <1>3, <1>4, <2>1, <2>3, <2>5, <2>6 DEF TypeInv, TypeOK
  <2>8. LiveOK' /\ CallOK'
    BY <1>2, <1>3, <1>4, <2>1, <2>2, <2>5 DEF LiveOK, CallOK
  <2> QED
    BY <2>5, <2>7, <2>8 DEF TypeInv
<1>7. CASE ~(start # Null /\ start \in Startable[map])
  <2>1. sol' = EmptySolution /\ open' = {} /\ node' = node /\ pc' = pc
    BY <1>7 DEF GetPath
  <2> HIDE DEF start, target, pinst
  <2>2. TypeOK'
    BY <1>1, <1>2, <1>3, <1>4, <1>5, <2>1 DEF TypeInv, TypeOK
  <2>3. CostsOK' /\ LiveOK' /\ CallOK'
    BY <1>2, <1>3, <1>4, <2>1 DEF TypeInv, CostsOK, LiveOK, CallOK
  <2> QED
    BY <2>2, <2>3 DEF TypeInv
<1> QED
  BY <1>6, <1>7

LEMMA ExpandType ==
  ASSUME TypeInv, NEW n \in Node, Expand(n)
  PROVE  TypeInv'
<1> DEFINE x == [node[n] EXCEPT !.expanded = TRUE]
<1>1. /\ node' = [node EXCEPT ![n] = x]
      /\ sol' = [sol EXCEPT !.lb = node[n].f, !.nodes_expanded = @ + 1]
      /\ open' = open \ {n} /\ current' = n /\ i' = 1 /\ pc' = "succ"
      /\ n \in open /\ pc = "loop"
      /\ UNCHANGED <<map, pi, par, counter, calls>>
  BY DEF Expand, Best
<1>2. node[n] \in NodeRecord /\ node[n].g \in Nat /\ node[n].f \in Nat
      /\ node[n].g <= node[n].f
  BY <1>1, MapsAssumption DEF TypeInv, TypeOK, CostsOK, LiveOK
<1>3. x \in NodeRecord /\ x.g = node[n].g /\ x.f = node[n].f
  BY <1>2 DEF NodeRecord
<1>4. sol' \in Solution
  <2>1. sol \in Solution /\ sol.nodes_expanded + 1 \in Nat
    BY DEF TypeInv, TypeOK, Solution
  <2>2. sol' = [sol EXCEPT !.lb = node[n].f,
                          !.nodes_expanded = sol.nodes_expanded + 1]
    BY <1>1
  <2> QED
    BY <1>2, <2>1, <2>2 DEF Solution
<1> HIDE DEF x
<1>5. /\ node' \in [Node -> NodeRecord] /\ CostsOK' /\ node'[n] = x
      /\ \A m \in Node : node[m].g \in Nat => node'[m].g \in Nat
  BY <1>1, <1>2, <1>3, NodeUpdate
<1>6. TypeOK'
  BY <1>1, <1>4, <1>5, MapsAssumption DEF TypeInv, TypeOK
<1>7. LiveOK' /\ CallOK'
  BY <1>1, <1>2, <1>3, <1>5 DEF TypeInv, TypeOK, LiveOK, CallOK
<1> QED
  BY <1>5, <1>6, <1>7 DEF TypeInv

(* The four steps that look at a successor change its record at most, and  *)
(* put at most that successor into OPEN.                                   *)
LEMMA SuccessorStepType ==
  ASSUME TypeInv, SuccessorStep
  PROVE  TypeInv'
<1>1. /\ AtSuccessor
      /\ i' = i + 1
      /\ UNCHANGED <<map, pi, par, counter, calls, pc, current>>
  BY DEF SuccessorStep, Generate, Prune, Decrease, Reopen, Dominated
<1>2. Child \in Node /\ current \in Node /\ GVal \in Nat
  BY <1>1, SuccessorType
<1>3. pc = "succ" /\ map \in Maps /\ pi \in Instance /\ par \in Parameters
      /\ pi.target \in Node /\ sol \in Solution
  BY <1>1 DEF TypeInv, TypeOK, CallOK, AtSuccessor
<1>4. NewNode \in NodeRecord /\ NewNode.g = GVal /\ NewNode.f \in Nat
      /\ NewNode.g <= NewNode.f
  BY <1>2, <1>3, InitialisedType DEF NewNode
<1>5. NewSol \in Solution
  BY <1>2, <1>3, IncumbentType DEF NewSol
<1>6. /\ sol' \in {sol, NewSol} /\ open' \in {open, open \cup {Child}}
      /\ \/ /\ node' = node /\ open' = open
         \/ node' = [node EXCEPT ![Child] = NewNode]
         \/ /\ node' = [node EXCEPT ![Child] = Relaxed]
            /\ CanRelax
  BY DEF SuccessorStep, Generate, Prune, Decrease, Reopen,
       Reopened, Dominated
<1>7. /\ node' \in [Node -> NodeRecord] /\ CostsOK'
      /\ \A m \in Node : node[m].g \in Nat => node'[m].g \in Nat
      /\ open' = open \/ node'[Child].g \in Nat
  <2>1. CASE node' = node /\ open' = open
    BY <2>1 DEF TypeInv, TypeOK, CostsOK
  <2>2. CASE node' = [node EXCEPT ![Child] = NewNode]
    BY <1>2, <1>4, <2>2, NodeUpdate
  <2>3. CASE node' = [node EXCEPT ![Child] = Relaxed] /\ CanRelax
    <3>1. Relaxed \in NodeRecord /\ Relaxed.g = GVal /\ Relaxed.f \in Nat
          /\ Relaxed.g <= Relaxed.f
      BY <1>1, <2>3, RelaxedType
    <3> QED
      BY <1>2, <2>3, <3>1, NodeUpdate
  <2> QED
    BY <1>6, <2>1, <2>2, <2>3
<1>8. sol' \in Solution
  BY <1>3, <1>5, <1>6
<1>9. i' \in Nat \ {0}
  BY <1>1 DEF TypeInv, TypeOK
<1>10. TypeOK'
  BY <1>1, <1>2, <1>6, <1>7, <1>8, <1>9 DEF TypeInv, TypeOK
<1>11. LiveOK' /\ CallOK'
  BY <1>1, <1>2, <1>3, <1>6, <1>7 DEF TypeInv, TypeOK, LiveOK, CallOK
<1> QED
  BY <1>7, <1>10, <1>11 DEF TypeInv

LEMMA EndExpansionType ==
  ASSUME TypeInv, EndExpansion
  PROVE  TypeInv'
<1>1. /\ pc = "succ" /\ pc' = "loop"
      /\ UNCHANGED <<map, node, open, pi, par, counter, calls, current, i>>
  BY DEF EndExpansion
<1>2. PICK late \in BOOLEAN : sol' = [sol EXCEPT !.late = @ \/ late]
  <2>1. par.timed \in BOOLEAN /\ sol.late \in BOOLEAN
    BY DEF TypeInv, TypeOK, Parameters, Solution
  <2> QED
    BY <2>1 DEF EndExpansion
<1>3. sol' \in Solution
  BY <1>2 DEF TypeInv, TypeOK, Solution
<1>4. TypeOK'
  BY <1>1, <1>3 DEF TypeInv, TypeOK
<1> QED
  BY <1>1, <1>4 DEF TypeInv, CostsOK, LiveOK, CallOK

LEMMA StopType ==
  ASSUME TypeInv, Stop
  PROVE  TypeInv'
<1>1. /\ pc = "loop" /\ current' = sol.s_node
      /\ pc' = IF sol.s_node = Null THEN "idle" ELSE "extract"
      /\ UNCHANGED <<map, node, open, pi, par, sol, counter, calls, i>>
  BY DEF Stop
<1>2. sol.s_node \in Node \cup {Null}
  BY DEF TypeInv, TypeOK, Solution
<1>3. TypeOK'
  BY <1>1, <1>2 DEF TypeInv, TypeOK
<1> QED
  BY <1>1, <1>3 DEF TypeInv, CostsOK, LiveOK, CallOK

LEMMA ExtractType ==
  ASSUME TypeInv, Extract
  PROVE  TypeInv'
<1>1. /\ pc = "extract" /\ sol' = [sol EXCEPT !.path = <<current>> \o @]
      /\ current' = node[current].parent
      /\ pc' = IF current' = Null THEN "idle" ELSE "extract"
      /\ UNCHANGED <<map, node, open, pi, par, counter, calls, i>>
  BY DEF Extract
<1>2. current \in Node /\ sol.path \in Seq(Node)
  BY <1>1 DEF TypeInv, TypeOK, Solution
<1>3. <<current>> \o sol.path \in Seq(Node)
  BY <1>2
<1>4. sol' \in Solution
  BY <1>1, <1>3 DEF TypeInv, TypeOK, Solution
<1>5. current' \in Node \cup {Null}
  BY <1>1, <1>2 DEF TypeInv, TypeOK, NodeRecord
<1>6. TypeOK'
  BY <1>1, <1>4, <1>5 DEF TypeInv, TypeOK
<1> QED
  BY <1>1, <1>6 DEF TypeInv, CostsOK, LiveOK, CallOK

LEMMA TypeStep ==
  ASSUME TypeInv, [Next]_vars
  PROVE  TypeInv'
<1>1. CASE Call
  <2>1. PICK op \in IdOps, q \in Queries, p \in Params :
          GetPath(op, q[1], q[2], p)
    BY <1>1 DEF Call
  <2> QED
    BY <2>1, GetPathType
<1>2. CASE \E n \in Node : Expand(n)
  BY <1>2, ExpandType
<1>3. CASE SuccessorStep
  BY <1>3, SuccessorStepType
<1>4. CASE EndExpansion
  BY <1>4, EndExpansionType
<1>5. CASE Stop
  BY <1>5, StopType
<1>6. CASE Extract
  BY <1>6, ExtractType
<1>7. CASE UNCHANGED vars
  BY <1>7 DEF vars, TypeInv, TypeOK, CostsOK, LiveOK, CallOK
<1> QED
  BY <1>1, <1>2, <1>3, <1>4, <1>5, <1>6, <1>7 DEF Next, Step

(* The inductive invariant holds of every state of the search.             *)
THEOREM TypesInvariant == Spec => []TypeInv
<1>1. Init => TypeInv
  BY TypeInit
<1>2. TypeInv /\ [Next]_vars => TypeInv'
  BY TypeStep
<1> QED
  BY <1>1, <1>2, PTL DEF Spec

(* The variables of the search have their types in every state, for all    *)
(* maps, traits, parameters and instance ids.                              *)
THEOREM TypeCorrect == Spec => []TypeOK
<1>1. TypeInv => TypeOK
  BY DEF TypeInv
<1> QED
  BY <1>1, TypesInvariant, PTL

Inv == TypeInv /\ SearchInv

-----------------------------------------------------------------------------
(* Facts about the operators the invariant is built from.                  *)

LEMMA GeneratedNow ==
  ASSUME TypeInv, calls > 0
  PROVE  Generated = {n \in Node : node[n].num = pi.id}
  BY DEF Generated, TypeInv, TypeOK

LEMMA InitInv ==
  ASSUME Init
  PROVE  SearchInv
<1>1. calls = 0 /\ pc = "idle" /\ open = {} /\ (\A u \in Unit : counter[u] = IdMod - 1)
      /\ sol.s_node = Null /\ sol.sum = CostMax /\ Generated = {}
      /\ \A n \in Node : node[n].num = IdMod - 1
  BY DEF Init, Unused, EmptySolution, FreshNode, Generated
<1>2. IdsGrow
  BY <1>1 DEF IdsGrow
<1>3. GeneratedHaveCosts /\ Backpointers /\ OpenIsLive /\ NothingDropped
  BY <1>1 DEF GeneratedHaveCosts, Backpointers, OpenIsLive, NothingDropped
<1>4. IncumbentIsTarget
  BY <1>1 DEF IncumbentIsTarget
<1>5. StartIsRoot /\ CurrentIsClosed /\ TargetIsIncumbent /\ PathSoFar
  BY <1>1 DEF StartIsRoot, CurrentIsClosed, TargetIsIncumbent, PathSoFar
<1>6. FailureIsExhaustion /\ PathIsSupported
  BY <1>1 DEF FailureIsExhaustion, PathIsSupported, Answered
<1> QED
  BY <1>2, <1>3, <1>4, <1>5, <1>6 DEF SearchInv

(* A new call has an id that no node carries.                              *)
LEMMA FreshCall ==
  ASSUME Inv, FreshIds, NEW op \in IdOps, calls < MaxCalls
  PROVE  /\ \A o \in IdOps : NewCounter(op)[UnitOf[o]] = NewId(op)
         /\ NewId(op) < 2 * (calls + 1)
         /\ NewId(op) # IdMod - 1
         /\ \A n \in Node : node[n].num # NewId(op)
         /\ \A n \in Node : node[n].num = IdMod - 1
                              \/ node[n].num <= NewId(op)
<1> DEFINE last == counter[UnitOf[op]]
<1>1. /\ op \in {"convert", "construct"}
      /\ \A o \in IdOps : UnitOf[o] = UnitOf[op]
      /\ UnitOf[op] \in Unit /\ UnitOf["instance"] \in Unit
  BY CallsAssumption DEF FreshIds, Counting
<1>2. NewId(op) \in {Bump(last), Bump(Bump(last))}
      /\ \A o \in IdOps : NewCounter(op)[UnitOf[o]] = NewId(op)
  <2>1. counter \in [Unit -> 0 .. IdMod - 1]
    BY DEF Inv, TypeInv, TypeOK
  <2>2. NewId(op) = NewCounter(op)[UnitOf[op]]
    BY <1>1 DEF NewId
  <2>3. CASE op = "construct"
    <3>1. NewCounter(op) = [counter EXCEPT ![UnitOf[op]] = Bump(counter[UnitOf[op]])]
      BY <2>3 DEF NewCounter, CountIn
    <3>2. NewCounter(op)[UnitOf[op]] = Bump(last)
      BY <1>1, <2>1, <3>1
    <3> QED
      BY <1>1, <2>2, <3>2
  <2>4. CASE op = "convert"
    <3> DEFINE c == CountIn("instance", counter)
    <3>1. NewCounter(op) = [c EXCEPT ![UnitOf[op]] = Bump(c[UnitOf[op]])]
      BY <2>4 DEF NewCounter, CountIn
    <3>2. /\ DOMAIN c = Unit
          /\ c[UnitOf[op]] \in {last, Bump(last)}
      BY <1>1, <2>1 DEF CountIn
    <3> HIDE DEF c
    <3>3. NewCounter(op)[UnitOf[op]] = Bump(c[UnitOf[op]])
      BY <1>1, <3>1, <3>2
    <3> QED
      BY <1>1, <2>2, <3>2, <3>3
  <2> QED
    BY <1>1, <2>3, <2>4
<1>3. last \in 0 .. IdMod - 1 /\ calls \in Nat /\ MaxCalls \in Nat
      /\ IdMod \in Nat /\ \A n \in Node : node[n].num \in 0 .. IdMod - 1
  BY <1>1, CallsAssumption DEF Inv, TypeInv, TypeOK, NodeRecord
<1>4. 2 * (calls + 1) < IdMod
  BY <1>3 DEF FreshIds
<1>5. CASE calls = 0
  <2>1. last = IdMod - 1 /\ \A n \in Node : node[n].num = IdMod - 1
    BY <1>1, <1>5 DEF Inv, SearchInv, IdsGrow
  <2>2. Bump(last) = 0 /\ Bump(Bump(last)) = 1
    BY <1>3, <1>4, <1>5, <2>1 DEF Bump
  <2> QED
    BY <1>2, <1>3, <1>4, <1>5, <2>1, <2>2
<1>6. CASE calls # 0
  <2>1. /\ last < 2 * calls
        /\ \A n \in Node : node[n].num = IdMod - 1 \/ node[n].num <= last
    BY <1>6 DEF Inv, SearchInv, IdsGrow
  <2>2. Bump(last) = last + 1 /\ Bump(Bump(last)) = last + 2
    BY <1>3, <1>4, <2>1 DEF Bump
  <2> QED
    BY <1>2, <1>3, <1>4, <2>1, <2>2
<1> QED
  BY <1>5, <1>6

-----------------------------------------------------------------------------
(* Every action preserves the invariant.                                   *)

LEMMA GetPathInv ==
  ASSUME Inv, TypeInv', FreshIds, NEW op \in IdOps, NEW q \in Queries,
         NEW p \in Params, GetPath(op, q[1], q[2], p)
  PROVE  SearchInv'
<1> DEFINE start == q[1]
           pinst == [start |-> start, target |-> q[2], id |-> NewId(op)]
           x == Initialised(pinst, p, start, Null, 0)
           Starts == start # Null /\ start \in Startable[map]
<1>1. /\ map' = map /\ calls < MaxCalls /\ calls' = calls + 1 /\ pc = "idle"
      /\ pi' = pinst /\ counter' = NewCounter(op)
      /\ Starts => /\ node' = [node EXCEPT ![start] = x] /\ open' = {start}
                   /\ sol' = Incumbent(EmptySolution, pinst, start, 0)
                   /\ pc' = "loop"
      /\ ~Starts => /\ node' = node /\ open' = {}
                    /\ sol' = EmptySolution /\ pc' = pc
  BY DEF GetPath
<1>2. /\ pinst.start = start /\ pinst.target = q[2] /\ pinst.id = NewId(op)
      /\ start \in Node \cup {Null} /\ q[2] \in Node
      /\ calls' > 0 /\ calls' # 0
      /\ node \in [Node -> NodeRecord]
  BY <1>1, CallsAssumption DEF Inv, TypeInv, TypeOK
<1>3. /\ x.num = NewId(op) /\ x.parent = Null /\ x.g = 0 /\ ~x.expanded
  BY <1>2 DEF Initialised
<1> HIDE DEF start, pinst, x
<1>4. /\ \A o \in IdOps : counter'[UnitOf[o]] = NewId(op)
      /\ NewId(op) < 2 * calls' /\ NewId(op) # IdMod - 1
      /\ \A n \in Node : node[n].num # NewId(op)
      /\ \A n \in Node : node[n].num = IdMod - 1 \/ node[n].num <= NewId(op)
  BY <1>1, FreshCall
<1>5. Generated' = {n \in Node : node'[n].num = NewId(op)}
  BY <1>1, <1>2 DEF Generated
<1>6. StartExists' <=> Starts
  BY <1>1, <1>2 DEF StartExists
<1>7. CASE Starts
  <2>1. start \in Node /\ node'[start] = x
        /\ \A n \in Node : n # start => node'[n] = node[n]
    BY <1>1, <1>2, <1>7
  <2>2. Generated' = {start}
    BY <1>3, <1>4, <1>5, <2>1
  <2>3. sol' = IF start = q[2] THEN [EmptySolution EXCEPT !.s_node = start, !.sum = 0]
               ELSE EmptySolution
    BY <1>1, <1>2, <1>7, MapsAssumption DEF Incumbent, Lt, EmptySolution
  <2>4. sol'.path = <<>> /\ IF start = q[2] THEN sol'.s_node = start /\ sol'.sum = 0
                            ELSE sol'.s_node = Null /\ sol'.sum = CostMax
    BY <2>3 DEF EmptySolution
  <2>5. IdsGrow'
    <3>1. NewId(op) <= NewId(op)
      BY IdType DEF Inv
    <3> QED
      BY <1>1, <1>2, <1>3, <1>4, <2>1, <3>1 DEF IdsGrow
  <2>6. GeneratedHaveCosts'
    BY <1>3, <2>1, <2>2, MapsAssumption DEF GeneratedHaveCosts
  <2>7. Backpointers' /\ StartIsRoot'
    BY <1>1, <1>2, <1>3, <1>6, <1>7, <2>1, <2>2 DEF Backpointers, StartIsRoot
  <2>8. OpenIsLive' /\ NothingDropped'
    BY <1>1, <1>3, <1>7, <2>1, <2>2 DEF OpenIsLive, NothingDropped
  <2>9. IncumbentIsTarget' /\ TargetIsIncumbent'
    BY <1>1, <1>2, <1>3, <2>1, <2>2, <2>4, MapsAssumption
       DEF IncumbentIsTarget, TargetIsIncumbent
  <2>10. CurrentIsClosed' /\ FailureIsExhaustion' /\ PathSoFar' /\ PathIsSupported'
    BY <1>1, <1>7, <2>4
       DEF CurrentIsClosed, FailureIsExhaustion, PathSoFar, PathIsSupported, Answered
  <2> QED
    BY <2>5, <2>6, <2>7, <2>8, <2>9, <2>10 DEF SearchInv
<1>8. CASE ~Starts
  <2>1. node' = node /\ open' = {} /\ pc' = "idle"
        /\ sol'.s_node = Null /\ sol'.sum = CostMax
    BY <1>1, <1>8 DEF EmptySolution
  <2>2. Generated' = {}
    BY <1>4, <1>5, <2>1
  <2>3. IdsGrow'
    BY <1>1, <1>2, <1>4, <2>1 DEF IdsGrow
  <2>4. /\ GeneratedHaveCosts' /\ Backpointers' /\ OpenIsLive' /\ NothingDropped'
        /\ IncumbentIsTarget' /\ TargetIsIncumbent'
    BY <2>1, <2>2 DEF GeneratedHaveCosts, Backpointers, OpenIsLive,
         NothingDropped, IncumbentIsTarget, TargetIsIncumbent
  <2>5. /\ StartIsRoot' /\ CurrentIsClosed' /\ FailureIsExhaustion'
        /\ PathSoFar' /\ PathIsSupported'
    BY <1>6, <1>8, <2>1 DEF StartIsRoot, CurrentIsClosed, FailureIsExhaustion,
         PathSoFar, PathIsSupported
  <2> QED
    BY <2>3, <2>4, <2>5 DEF SearchInv
<1> QED
  BY <1>7, <1>8

(* Closing the top of OPEN changes neither costs nor parents.              *)
LEMMA ExpandInv ==
  ASSUME Inv, TypeInv', NEW n \in Node, Expand(n)
  PROVE  SearchInv'
<1>1. /\ pc = "loop" /\ n \in open /\ pc' = "succ" /\ current' = n /\ i' = 1
      /\ node' = [node EXCEPT ![n].expanded = TRUE] /\ open' = open \ {n}
      /\ sol' = [sol EXCEPT !.lb = node[n].f, !.nodes_expanded = @ + 1]
      /\ UNCHANGED <<map, pi, par, counter, calls>>
  BY DEF Expand, Best
<1>2. calls > 0 /\ calls \in Nat /\ pi \in Instance /\ sol \in Solution
      /\ node \in [Node -> NodeRecord]
  BY <1>1 DEF Inv, TypeInv, TypeOK, CallOK
<1>3. sol'.s_node = sol.s_node /\ sol'.sum = sol.sum /\ sol'.path = sol.path
  BY <1>1, <1>2 DEF Solution
<1>4. /\ node'[n].expanded
      /\ \A m \in Node : /\ node'[m].num = node[m].num /\ node'[m].g = node[m].g
                         /\ node'[m].parent = node[m].parent
                         /\ node[m].expanded => node'[m].expanded
                         /\ m # n => node'[m].expanded = node[m].expanded
  BY <1>1, <1>2 DEF NodeRecord
<1>5. Generated' = Generated
  BY <1>1, <1>2, <1>4 DEF Generated
<1>6. \A u, v \in Node : Supports(u, v)' <=> Supports(u, v)
  BY <1>1, <1>4 DEF Supports
<1>7. Generated \subseteq Node /\ n \in Generated
  BY <1>1 DEF Generated, Inv, SearchInv, OpenIsLive
<1>8. IdsGrow'
  BY <1>1, <1>4 DEF Inv, SearchInv, IdsGrow
<1>9. GeneratedHaveCosts'
  BY <1>4, <1>5, <1>7 DEF Inv, SearchInv, GeneratedHaveCosts
<1>10. Backpointers'
  BY <1>1, <1>4, <1>5, <1>6, <1>7 DEF Inv, SearchInv, Backpointers
<1>11. OpenIsLive'
  BY <1>1, <1>4, <1>5, <1>7 DEF Inv, SearchInv, OpenIsLive
<1>12. IncumbentIsTarget' /\ TargetIsIncumbent'
  BY <1>1, <1>3, <1>4, <1>5, <1>7
     DEF Inv, SearchInv, IncumbentIsTarget, TargetIsIncumbent
<1>13. NothingDropped'
  <2> SUFFICES ASSUME sol.sum = CostMax, NEW m \in Generated
               PROVE  \/ m \in open'
                      \/ node'[m].expanded /\ Visited(m)' \subseteq Generated
    BY <1>3, <1>5 DEF NothingDropped
  <2>1. CASE m = n
    <3>1. \A j \in DOMAIN Successors[map][n] : ~(j < 1)
      <4>1. Successors[map][n] \in Seq(Edge)
        BY MapsAssumption DEF Inv, TypeInv, TypeOK
      <4> QED
        BY <4>1
    <3>2. Visited(n)' = {}
      BY <1>1, <3>1 DEF Visited
    <3> QED
      BY <1>4, <2>1, <3>2
  <2>2. CASE m # n
    <3>1. Visited(m)' = Visited(m)
      BY <1>1, <2>2 DEF Visited
    <3> QED
      BY <1>1, <1>4, <1>7, <2>2, <3>1 DEF Inv, SearchInv, NothingDropped
  <2> QED
    BY <2>1, <2>2
<1>14. StartIsRoot'
  BY <1>1, <1>4, <1>5, <1>7 DEF Inv, SearchInv, StartIsRoot, StartExists
<1>15. CurrentIsClosed' /\ FailureIsExhaustion' /\ PathSoFar' /\ PathIsSupported'
  BY <1>1, <1>3, <1>4, <1>5, <1>7 DEF Inv, SearchInv, CurrentIsClosed,
       FailureIsExhaustion, PathSoFar, PathIsSupported, Answered
<1> QED
  BY <1>8, <1>9, <1>10, <1>11, <1>12, <1>13, <1>14, <1>15 DEF SearchInv

(* What the steps that look at a successor have in common.                 *)
LEMMA AtChild ==
  ASSUME Inv, SuccessorStep
  PROVE  /\ AtSuccessor /\ pc = "succ" /\ calls > 0
         /\ UNCHANGED <<map, pi, par, counter, calls, pc, current>>
         /\ Child \in Node /\ current \in Generated /\ node[current].expanded
         /\ GVal \in Nat /\ node[current].g \in Nat /\ node[current].g <= GVal
         /\ IsNew <=> Child \notin Generated
         /\ i \in DOMAIN Succ
         /\ \A m \in Node : Visited(m)' \subseteq Visited(m) \cup {Child}
<1>1. /\ AtSuccessor /\ pc = "succ" /\ i' = i + 1
      /\ UNCHANGED <<map, pi, par, counter, calls, pc, current>>
  BY DEF SuccessorStep, Generate, Prune, Decrease, Reopen, Dominated, AtSuccessor
<1>2. TypeInv /\ calls > 0 /\ current \in Node /\ map \in Maps /\ i \in Nat \ {0}
      /\ i <= Len(Succ)
  BY <1>1 DEF Inv, TypeInv, TypeOK, CallOK, AtSuccessor
<1>3. Child \in Node /\ GVal \in Nat /\ node[current].g \in Nat
      /\ node[current].g <= GVal
  BY <1>1, <1>2, SuccessorType
<1>4. current \in Generated /\ node[current].expanded
  BY <1>1 DEF Inv, SearchInv, CurrentIsClosed
<1>5. IsNew <=> Child \notin Generated
  BY <1>2, <1>3, <1>4, GeneratedNow DEF IsNew
<1>6. Succ \in Seq(Edge)
  BY <1>2, MapsAssumption DEF Succ
<1>7. DOMAIN Succ \subseteq Nat /\ i \in DOMAIN Succ
  <2> HIDE DEF Succ
  <2> QED
    BY <1>2, <1>6
<1>8. ASSUME NEW m \in Node
      PROVE  Visited(m)' \subseteq Visited(m) \cup {Child}
  <2>1. CASE m = current
    <3>1. \A j \in DOMAIN Succ : j < i + 1 => j < i \/ j = i
      BY <1>2, <1>7
    <3> QED
      BY <1>1, <2>1, <3>1 DEF Visited, Succ, Child
  <2>2. CASE m # current
    BY <1>1, <2>2 DEF Visited
  <2> QED
    BY <2>1, <2>2
<1> QED
  BY <1>1, <1>2, <1>3, <1>4, <1>5, <1>7, <1>8

(* A node that is reached for the first time hangs under the current one.  *)
LEMMA InitialiseInv ==
  ASSUME Inv, TypeInv', Generate \/ Prune
  PROVE  SearchInv'
<1>1. /\ IsNew /\ node' = [node EXCEPT ![Child] = NewNode] /\ sol' = NewSol
      /\ \/ open' = open \cup {Child}
         \/ open' = open /\ ~Lt(NewNode.f, NewSol.sum)
      /\ SuccessorStep
  BY DEF Generate, Prune, SuccessorStep
<1>2. /\ AtSuccessor /\ pc = "succ" /\ calls > 0
      /\ UNCHANGED <<map, pi, par, counter, calls, pc, current>>
      /\ Child \in Node /\ current \in Generated /\ node[current].expanded
      /\ GVal \in Nat
      /\ Child \notin Generated
      /\ i \in DOMAIN Succ
      /\ \A m \in Node : Visited(m)' \subseteq Visited(m) \cup {Child}
  BY <1>1, AtChild
<1>3. /\ node \in [Node -> NodeRecord] /\ pi \in Instance /\ par \in Parameters
      /\ pi.target \in Node /\ pi.id \in Nat /\ sol \in Solution /\ map \in Maps
  BY <1>2, CallsAssumption DEF Inv, TypeInv, TypeOK, CallOK, Instance
<1>4. /\ NewNode.num = pi.id /\ NewNode.parent = current /\ NewNode.g = GVal
      /\ NewNode.f \in Nat /\ ~NewNode.expanded
  <2>1. current \in Node \cup {Null}
    BY DEF Inv, TypeInv, TypeOK
  <2> QED
    BY <1>2, <1>3, <2>1, InitialisedType DEF NewNode
<1> HIDE DEF NewNode
<1>5. node'[Child] = NewNode /\ \A m \in Node : m # Child => node'[m] = node[m]
  BY <1>1, <1>2, <1>3
<1>6. Generated \subseteq Node /\ Generated' = Generated \cup {Child}
      /\ current # Child
  BY <1>2, <1>4, <1>5 DEF Generated
<1>7. \A u, v \in Generated : Supports(u, v)' <=> Supports(u, v)
  BY <1>2, <1>5, <1>6 DEF Supports
<1>8. ASSUME NEW u, NEW v, u = current, v = Child
      PROVE  Supports(u, v)'
  <2>1. node'[u].g + Succ[i].cost <= node'[v].g
    BY <1>2, <1>4, <1>5, <1>6, <1>8 DEF GVal
  <2> QED
    BY <1>2, <1>8, <2>1 DEF Supports, Succ, Child
<1>9. \/ /\ Child = pi.target /\ Lt(GVal, sol.sum)
         /\ sol'.s_node = Child /\ sol'.sum = GVal
      \/ /\ ~(Child = pi.target /\ Lt(GVal, sol.sum))
         /\ sol'.s_node = sol.s_node /\ sol'.sum = sol.sum
  BY <1>1, <1>3 DEF NewSol, Incumbent, Solution
<1>10. sol'.path = sol.path
  BY <1>1, <1>3 DEF NewSol, Incumbent, Solution
<1>11. IdsGrow'
  BY <1>2, <1>3, <1>4, <1>5 DEF Inv, SearchInv, IdsGrow
<1>12. GeneratedHaveCosts'
  BY <1>2, <1>4, <1>5, <1>6, MapsAssumption DEF Inv, SearchInv, GeneratedHaveCosts
<1>13. Backpointers'
  <2> SUFFICES ASSUME NEW m \in Generated'
               PROVE  \/ m = pi.start /\ node'[m].parent = Null /\ node'[m].g = 0
                      \/ \E u \in Generated' : /\ node'[m].parent = u
                                              /\ node'[u].expanded
                                              /\ Supports(u, m)'
    BY <1>2 DEF Backpointers
  <2>1. CASE m = Child
    BY <1>2, <1>4, <1>5, <1>6, <1>8, <2>1
  <2>2. CASE m # Child
    <3>1. m \in Generated /\ node'[m] = node[m]
      BY <1>5, <1>6, <2>2
    <3>2. CASE m = pi.start /\ node[m].parent = Null /\ node[m].g = 0
      BY <3>1, <3>2
    <3>3. ASSUME NEW u \in Generated, node[m].parent = u, node[u].expanded,
                 Supports(u, m)
          PROVE  u \in Generated' /\ node'[u].expanded /\ Supports(u, m)'
      BY <1>2, <1>5, <1>6, <1>7, <3>1, <3>3
    <3> QED
      BY <3>1, <3>2, <3>3 DEF Inv, SearchInv, Backpointers
  <2> QED
    BY <2>1, <2>2
<1>14. OpenIsLive'
  BY <1>1, <1>2, <1>4, <1>5, <1>6 DEF Inv, SearchInv, OpenIsLive
<1>15. IncumbentIsTarget'
  <2>1. CASE Child = pi.target /\ Lt(GVal, sol.sum)
    <3>1. GVal <= GVal
      BY <1>2
    <3> QED
      BY <1>2, <1>3, <1>4, <1>5, <1>6, <1>9, <2>1, <3>1, MapsAssumption
         DEF IncumbentIsTarget
  <2>2. CASE ~(Child = pi.target /\ Lt(GVal, sol.sum))
    BY <1>2, <1>3, <1>5, <1>6, <1>9, <2>2 DEF Inv, SearchInv, IncumbentIsTarget
  <2> QED
    BY <2>1, <2>2
<1>16. TargetIsIncumbent'
  <2>1. CASE Child = pi.target /\ sol.sum = CostMax
    BY <1>2, <1>9, <2>1, MapsAssumption DEF TargetIsIncumbent, Lt
  <2>2. CASE ~(Child = pi.target /\ sol.sum = CostMax)
    BY <1>2, <1>6, <1>9, <2>2, MapsAssumption
       DEF Inv, SearchInv, TargetIsIncumbent, IncumbentIsTarget
  <2> QED
    BY <2>1, <2>2
<1>17. NothingDropped'
  <2> SUFFICES ASSUME sol'.sum = CostMax, NEW m \in Generated'
               PROVE  \/ m \in open'
                      \/ node'[m].expanded /\ Visited(m)' \subseteq Generated'
    BY DEF NothingDropped
  <2>1. sol.sum = CostMax
    BY <1>2, <1>9, MapsAssumption
  <2>2. open' = open \cup {Child}
    BY <1>1, <1>4, MapsAssumption DEF Lt
  <2>3. CASE m = Child
    BY <2>2, <2>3
  <2>4. CASE m # Child
    <3>1. m \in Generated /\ m \in Node /\ node'[m] = node[m]
      BY <1>5, <1>6, <2>4
    <3>2. m \in open \/ (node[m].expanded /\ Visited(m) \subseteq Generated)
      BY <2>1, <3>1 DEF Inv, SearchInv, NothingDropped
    <3> QED
      BY <1>2, <1>6, <2>2, <3>1, <3>2
  <2> QED
    BY <2>3, <2>4
<1>18. StartIsRoot'
  BY <1>2, <1>5, <1>6 DEF Inv, SearchInv, StartIsRoot, StartExists
<1>19. CurrentIsClosed' /\ FailureIsExhaustion' /\ PathSoFar' /\ PathIsSupported'
  BY <1>2, <1>5, <1>6, <1>10 DEF Inv, SearchInv, CurrentIsClosed,
       FailureIsExhaustion, PathSoFar, PathIsSupported, Answered
<1> QED
  BY <1>11, <1>12, <1>13, <1>14, <1>15, <1>16, <1>17, <1>18, <1>19 DEF SearchInv

(* A node that is relaxed moves under the current node; the nodes that     *)
(* hang under it still can.                                                *)
LEMMA RelaxInv ==
  ASSUME Inv, TypeInv', Decrease \/ Reopen
  PROVE  SearchInv'
<1>1. /\ CanRelax /\ ~IsNew /\ node' = [node EXCEPT ![Child] = Relaxed]
      /\ open \subseteq open' /\ sol' = sol
      /\ open' = open \/ (RP = "yes" /\ open' = open \cup {Child})
      /\ SuccessorStep
  BY DEF Decrease, Reopen, Reopened, SuccessorStep, CanRelax
<1>2. /\ AtSuccessor /\ pc = "succ" /\ calls > 0
      /\ UNCHANGED <<map, pi, par, counter, calls, pc, current>>
      /\ Child \in Node /\ current \in Generated /\ node[current].expanded
      /\ GVal \in Nat /\ node[current].g \in Nat /\ node[current].g <= GVal
      /\ Child \in Generated
      /\ i \in DOMAIN Succ
      /\ \A m \in Node : Visited(m)' \subseteq Visited(m) \cup {Child}
  BY <1>1, AtChild
<1>3. /\ node \in [Node -> NodeRecord] /\ pi \in Instance
      /\ pi.target \in Node /\ sol \in Solution /\ map \in Maps
  BY <1>2 DEF Inv, TypeInv, TypeOK, CallOK
<1>4. /\ Relaxed.num = node[Child].num /\ Relaxed.parent = current
      /\ Relaxed.g = GVal /\ Relaxed.expanded = node[Child].expanded
  BY <1>1, <1>2, RelaxedType DEF Inv
<1>5. node'[Child] = Relaxed /\ \A m \in Node : m # Child => node'[m] = node[m]
  BY <1>1, <1>2, <1>3
<1> HIDE DEF Relaxed
<1>6. /\ Generated \subseteq Node /\ Generated' = Generated
      /\ \A m \in Node : /\ node'[m].num = node[m].num
                         /\ node'[m].expanded = node[m].expanded
  BY <1>2, <1>4, <1>5 DEF Generated
<1>7. /\ node[Child].g \in Nat /\ GVal < node[Child].g
      /\ Child # current /\ Child # pi.start
  <2>1. node[Child].g \in Nat
    BY <1>2, <1>3 DEF Inv, SearchInv, GeneratedHaveCosts, NodeRecord
  <2>2. GVal < node[Child].g
    BY <1>1, <2>1, MapsAssumption DEF CanRelax, Lt
  <2>3. Child # current
    BY <1>2, <2>2
  <2>4. StartExists
    BY <1>2 DEF Inv, SearchInv, StartIsRoot
  <2>5. node[pi.start].g = 0
    BY <1>2, <2>4 DEF Inv, SearchInv, StartIsRoot
  <2>6. Child # pi.start
    BY <1>2, <2>2, <2>5
  <2> QED
    BY <2>1, <2>2, <2>3, <2>6
<1>8. ASSUME NEW u, NEW v, u = current, v = Child
      PROVE  Supports(u, v)'
  <2>1. node'[u].g + Succ[i].cost <= node'[v].g
    BY <1>2, <1>4, <1>5, <1>6, <1>7, <1>8 DEF GVal
  <2> QED
    BY <1>2, <1>8, <2>1 DEF Supports, Succ, Child
<1>9. ASSUME NEW u \in Generated, NEW v \in Generated, v # Child, Supports(u, v)
      PROVE  Supports(u, v)'
  <2>1. PICK k \in DOMAIN Successors[map][u] :
          /\ Successors[map][u][k].node = v
          /\ node[u].g + Successors[map][u][k].cost <= node[v].g
    BY <1>9 DEF Supports
  <2>2. node'[v] = node[v] /\ node[v].g \in Nat
    BY <1>3, <1>5, <1>6, <1>9 DEF Inv, SearchInv, GeneratedHaveCosts, NodeRecord
  <2>3. node[u].g \in Nat /\ node'[u].g \in Nat /\ node'[u].g <= node[u].g
    BY <1>2, <1>3, <1>4, <1>5, <1>6, <1>7, <1>9
       DEF Inv, SearchInv, GeneratedHaveCosts, NodeRecord
  <2>4. Successors[map][u][k].cost \in Nat
    <3>1. Successors[map][u] \in Seq(Edge)
      BY <1>3, <1>6, <1>9, MapsAssumption
    <3>2. Successors[map][u][k] \in Edge
      BY <2>1, <3>1
    <3> QED
      BY <3>2 DEF Edge
  <2>5. node'[u].g + Successors[map][u][k].cost <= node'[v].g
    BY <2>1, <2>2, <2>3, <2>4
  <2> QED
    BY <1>2, <2>1, <2>5 DEF Supports
<1>10. IdsGrow'
  BY <1>2, <1>3, <1>6 DEF Inv, SearchInv, IdsGrow
<1>11. GeneratedHaveCosts'
  BY <1>2, <1>4, <1>5, <1>6, MapsAssumption DEF Inv, SearchInv, GeneratedHaveCosts
<1>12. Backpointers'
  <2> SUFFICES ASSUME NEW m \in Generated
               PROVE  \/ m = pi.start /\ node'[m].parent = Null /\ node'[m].g = 0
                      \/ \E u \in Generated : /\ node'[m].parent = u
                                             /\ node'[u].expanded
                                             /\ Supports(u, m)'
    BY <1>2, <1>6 DEF Backpointers
  <2>1. CASE m = Child
    BY <1>2, <1>4, <1>5, <1>6, <1>8, <2>1
  <2>2. CASE m # Child
    BY <1>5, <1>6, <1>9, <2>2 DEF Inv, SearchInv, Backpointers
  <2> QED
    BY <2>1, <2>2
<1>13. OpenIsLive'
  BY <1>1, <1>2, <1>6 DEF Inv, SearchInv, OpenIsLive
<1>14. IncumbentIsTarget'
  <2>1. CASE sol.s_node = Null
    BY <1>1, <2>1 DEF Inv, SearchInv, IncumbentIsTarget
  <2>2. CASE sol.s_node # Null
    <3>1. /\ sol.s_node = pi.target /\ pi.target \in Generated
          /\ node[pi.target].g <= sol.sum /\ sol.sum # CostMax
      BY <2>2 DEF Inv, SearchInv, IncumbentIsTarget
    <3>2. node'[pi.target].g <= sol.sum
      <4>1. sol.sum \in Nat
        BY <1>3, <3>1 DEF Solution
      <4>2. CASE Child = pi.target
        BY <1>2, <1>4, <1>5, <1>7, <3>1, <4>1, <4>2
      <4>3. CASE Child # pi.target
        BY <1>3, <1>5, <3>1, <4>3
      <4> QED
        BY <4>2, <4>3
    <3> QED
      BY <1>1, <1>2, <1>6, <2>2, <3>1, <3>2 DEF IncumbentIsTarget
  <2> QED
    BY <2>1, <2>2
<1>15. TargetIsIncumbent'
  BY <1>1, <1>2, <1>6 DEF Inv, SearchInv, TargetIsIncumbent
<1>16. NothingDropped'
  BY <1>1, <1>2, <1>6 DEF Inv, SearchInv, NothingDropped
<1>17. StartIsRoot'
  BY <1>2, <1>5, <1>6, <1>7 DEF Inv, SearchInv, StartIsRoot, StartExists
<1>18. CurrentIsClosed' /\ FailureIsExhaustion' /\ PathSoFar' /\ PathIsSupported'
  BY <1>1, <1>2, <1>6 DEF Inv, SearchInv, CurrentIsClosed,
       FailureIsExhaustion, PathSoFar, PathIsSupported, Answered
<1> QED
  BY <1>10, <1>11, <1>12, <1>13, <1>14, <1>15, <1>16, <1>17, <1>18 DEF SearchInv

(* Steps that change no record and no part of OPEN.                        *)
LEMMA StillInv ==
  ASSUME Inv, TypeInv', UNCHANGED <<map, node, open, pi, counter, calls>>
  PROVE  /\ IdsGrow' /\ GeneratedHaveCosts' /\ Backpointers' /\ OpenIsLive'
         /\ Generated' = Generated
         /\ \A u, v \in Node : Supports(u, v)' <=> Supports(u, v)
         /\ StartExists' <=> StartExists
<1>1. Generated' = Generated
  BY DEF Generated
<1>2. \A u, v : Supports(u, v)' <=> Supports(u, v)
  BY DEF Supports
<1>3. IdsGrow' /\ GeneratedHaveCosts' /\ OpenIsLive'
  BY <1>1 DEF Inv, SearchInv, IdsGrow, GeneratedHaveCosts, OpenIsLive
<1>4. Backpointers'
  BY <1>1, <1>2 DEF Inv, SearchInv, Backpointers
<1> QED
  BY <1>1, <1>2, <1>3, <1>4 DEF StartExists

LEMMA DominatedInv ==
  ASSUME Inv, TypeInv', Dominated
  PROVE  SearchInv'
<1>1. ~IsNew /\ SuccessorStep
      /\ UNCHANGED <<map, node, open, pi, par, sol, counter, calls, pc, current>>
  BY DEF Dominated, SuccessorStep
<1>2. /\ Child \in Generated /\ pc = "succ"
      /\ \A m \in Node : Visited(m)' \subseteq Visited(m) \cup {Child}
  BY <1>1, AtChild
<1>3. Generated \subseteq Node
  BY DEF Generated
<1>4. NothingDropped'
  BY <1>1, <1>2, <1>3, StillInv DEF Inv, SearchInv, NothingDropped
<1>5. /\ IncumbentIsTarget' /\ StartIsRoot' /\ CurrentIsClosed'
      /\ TargetIsIncumbent'
  BY <1>1, StillInv DEF Inv, SearchInv, IncumbentIsTarget, StartIsRoot,
       CurrentIsClosed, TargetIsIncumbent
<1>6. FailureIsExhaustion' /\ PathSoFar' /\ PathIsSupported'
  BY <1>1, <1>2 DEF Inv, SearchInv, FailureIsExhaustion, PathSoFar,
       PathIsSupported, Answered
<1> QED
  BY <1>1, <1>4, <1>5, <1>6, StillInv DEF SearchInv

LEMMA EndExpansionInv ==
  ASSUME Inv, TypeInv', EndExpansion
  PROVE  SearchInv'
<1>1. /\ pc = "succ" /\ i > Len(Succ) /\ pc' = "loop"
      /\ UNCHANGED <<map, node, open, pi, par, counter, calls, current, i>>
  BY DEF EndExpansion
<1>2. PICK late : sol' = [sol EXCEPT !.late = @ \/ late]
  BY DEF EndExpansion
<1>3. sol'.s_node = sol.s_node /\ sol'.sum = sol.sum /\ sol'.path = sol.path
  BY <1>2 DEF Inv, TypeInv, TypeOK, Solution
<1>4. ASSUME NEW m \in Node
      PROVE  Visited(m)' = Visited(m)
  <2>1. Succ \in Seq(Edge) /\ i \in Nat
    BY <1>1, MapsAssumption DEF Inv, TypeInv, TypeOK, Succ
  <2>2. \A j \in DOMAIN Succ : j < i
    <3> HIDE DEF Succ
    <3> QED
      BY <1>1, <2>1
  <2> QED
    BY <1>1, <2>2 DEF Visited, Succ
<1>5. NothingDropped'
  <2>1. Generated \subseteq Node
    BY DEF Generated
  <2> QED
    BY <1>1, <1>3, <1>4, <2>1, StillInv DEF Inv, SearchInv, NothingDropped
<1>6. /\ IncumbentIsTarget' /\ StartIsRoot' /\ CurrentIsClosed'
      /\ TargetIsIncumbent'
  BY <1>1, <1>3, StillInv DEF Inv, SearchInv, IncumbentIsTarget, StartIsRoot,
       CurrentIsClosed, TargetIsIncumbent
<1>7. FailureIsExhaustion' /\ PathSoFar' /\ PathIsSupported'
  BY <1>1, <1>3 DEF Inv, SearchInv, FailureIsExhaustion, PathSoFar,
       PathIsSupported, Answered
<1> QED
  BY <1>1, <1>5, <1>6, <1>7, StillInv DEF SearchInv

(* Without an incumbent nothing but an empty OPEN stops until_exhaustion.  *)
LEMMA StopInv ==
  ASSUME Inv, TypeInv', Stop
  PROVE  SearchInv'
<1>1. /\ pc = "loop" /\ current' = sol.s_node
      /\ pc' = IF sol.s_node = Null THEN "idle" ELSE "extract"
      /\ open = {} \/ \E n \in Best : ~Feasible(n) \/ Admissible(node[n].f)
      /\ UNCHANGED <<map, node, open, pi, par, sol, counter, calls, i>>
  BY DEF Stop, Done
<1>2. FC = "until_exhaustion" /\ sol.s_node = Null => open = {}
  <2>1. sol.s_node = Null => sol.sum = CostMax
    BY DEF Inv, SearchInv, IncumbentIsTarget
  <2>2. sol.sum = CostMax => \A lb : ~Admissible(lb)
    BY TraitsAssumption DEF Admissible
  <2>3. FC = "until_exhaustion" => \A n : Feasible(n)
    BY DEF Feasible
  <2> QED
    BY <1>1, <2>1, <2>2, <2>3
<1>3. \A m : Visited(m)' = Visited(m)
  BY <1>1 DEF Visited
<1>4. NothingDropped'
  BY <1>1, <1>3, StillInv DEF Inv, SearchInv, NothingDropped
<1>5. /\ IncumbentIsTarget' /\ StartIsRoot' /\ CurrentIsClosed'
      /\ TargetIsIncumbent' /\ FailureIsExhaustion'
  BY <1>1, <1>2, StillInv DEF Inv, SearchInv, IncumbentIsTarget, StartIsRoot,
       CurrentIsClosed, TargetIsIncumbent, FailureIsExhaustion
<1>6. sol.path = <<>>
  BY <1>1 DEF Inv, SearchInv, PathSoFar
<1>7. PathSoFar'
  BY <1>1, <1>6, StillInv
     DEF Inv, SearchInv, PathSoFar, IncumbentIsTarget
<1>8. PathIsSupported'
  BY <1>1 DEF PathIsSupported, Answered
<1> QED
  BY <1>1, <1>4, <1>5, <1>7, <1>8, StillInv DEF SearchInv

LEMMA Prepended ==
  ASSUME NEW S, NEW x \in S, NEW p \in Seq(S)
  PROVE  LET q == <<x>> \o p
         IN  /\ q \in Seq(S) /\ q # <<>> /\ Len(q) = Len(p) + 1 /\ q[1] = x
             /\ Len(p) \in Nat /\ p # <<>> => Len(p) >= 1
             /\ p # <<>> => q[Len(q)] = p[Len(p)]
             /\ \A k \in 1 .. Len(p) : q[k + 1] = p[k]
  OBVIOUS

(* Only the start has no parent, so the path begins there.                 *)
LEMMA ExtractInv ==
  ASSUME Inv, TypeInv', Extract
  PROVE  SearchInv'
<1> DEFINE p == sol.path
           q == <<current>> \o p
<1>1. /\ pc = "extract" /\ sol' = [sol EXCEPT !.path = q]
      /\ current' = node[current].parent
      /\ pc' = IF current' = Null THEN "idle" ELSE "extract"
      /\ UNCHANGED <<map, node, open, pi, par, counter, calls, i>>
  BY DEF Extract
<1>2. sol'.s_node = sol.s_node /\ sol'.sum = sol.sum /\ sol'.path = q
  BY <1>1 DEF Inv, TypeInv, TypeOK, Solution
<1>3. current \in Node /\ p \in Seq(Node) /\ calls > 0
  BY <1>1 DEF Inv, TypeInv, TypeOK, CallOK, Solution
<1>4. /\ q # <<>> /\ Len(q) = Len(p) + 1 /\ q[1] = current /\ Len(p) \in Nat
      /\ p # <<>> => Len(p) >= 1 /\ q[Len(q)] = p[Len(p)]
      /\ \A k \in 1 .. Len(p) : q[k + 1] = p[k]
  BY <1>3, Prepended
<1> HIDE DEF q
<1>5. /\ sol.s_node # Null /\ current \in Generated
      /\ \A k \in 1 .. Len(p) : p[k] \in Generated
      /\ p = <<>> => current = sol.s_node
      /\ p # <<>> => /\ p[Len(p)] = sol.s_node
                     /\ Supports(current, p[1])
                     /\ \A k \in 1 .. Len(p) - 1 : Supports(p[k], p[k + 1])
  BY <1>1 DEF Inv, SearchInv, PathSoFar
<1>6. q[Len(q)] = sol.s_node
  BY <1>3, <1>4, <1>5
<1>7. \A k \in 1 .. Len(q) : q[k] \in Generated
  <2> SUFFICES ASSUME NEW k \in 1 .. Len(q), k # 1
               PROVE  q[k] \in Generated
    BY <1>4, <1>5
  <2>1. k - 1 \in 1 .. Len(p) /\ k - 1 + 1 = k
    BY <1>4
  <2>2. q[k] = p[k - 1]
    BY <1>4, <2>1
  <2> QED
    BY <1>5, <2>1, <2>2
<1>8. \A k \in 1 .. Len(q) - 1 : Supports(q[k], q[k + 1])
  <2> SUFFICES ASSUME NEW k \in 1 .. Len(q) - 1
               PROVE  Supports(q[k], q[k + 1])
    OBVIOUS
  <2>1. k \in 1 .. Len(p) /\ p # <<>> /\ q[k + 1] = p[k]
    BY <1>3, <1>4
  <2>2. CASE k = 1
    BY <1>4, <1>5, <2>1, <2>2
  <2>3. CASE k # 1
    <3>1. k - 1 \in 1 .. Len(p) - 1 /\ k - 1 + 1 = k
      BY <1>4, <2>1, <2>3
    <3>2. q[k] = p[k - 1]
      BY <1>4, <2>1, <3>1
    <3>3. Supports(p[k - 1], p[k])
      BY <1>5, <2>1, <3>1
    <3> QED
      BY <2>1, <3>2, <3>3
  <2> QED
    BY <2>2, <2>3
<1>9. \A u, v : Supports(u, v)' <=> Supports(u, v)
  BY <1>1 DEF Supports
<1>10. \/ current = pi.start /\ node[current].parent = Null /\ node[current].g = 0
      \/ \E u \in Generated : node[current].parent = u /\ Supports(u, current)
  BY <1>5 DEF Inv, SearchInv, Backpointers
<1>11. Generated \subseteq Node /\ Null \notin Node
  BY MapsAssumption DEF Generated
<1>12. NothingDropped'
  <2>1. \A m : Visited(m)' = Visited(m)
    BY <1>1 DEF Visited
  <2> QED
    BY <1>1, <1>2, <2>1, StillInv DEF Inv, SearchInv, NothingDropped
<1>13. /\ IncumbentIsTarget' /\ StartIsRoot' /\ CurrentIsClosed'
       /\ TargetIsIncumbent' /\ FailureIsExhaustion'
  BY <1>1, <1>2, <1>5, StillInv DEF Inv, SearchInv, IncumbentIsTarget, StartIsRoot,
       CurrentIsClosed, TargetIsIncumbent, FailureIsExhaustion
<1>14. PathSoFar'
  <2> SUFFICES ASSUME current' # Null
               PROVE  /\ current' \in Generated' /\ sol'.s_node # Null
                      /\ q # <<>> /\ q[Len(q)] = sol'.s_node
                      /\ Supports(node[current].parent, q[1])
    BY <1>1, <1>2, <1>7, <1>8, <1>9, StillInv DEF PathSoFar
  <2>1. node[current].parent \in Generated /\ Supports(node[current].parent, current)
    BY <1>1, <1>10
  <2> QED
    BY <1>1, <1>2, <1>4, <1>5, <1>6, <2>1, StillInv
<1>15. PathIsSupported'
  <2> SUFFICES ASSUME current' = Null
               PROVE  /\ q # <<>> /\ q[1] = pi.start /\ node[q[1]].g = 0
                      /\ q[Len(q)] = pi.target /\ node[q[Len(q)]].g <= sol.sum
    BY <1>1, <1>2, <1>7, <1>8, <1>9, StillInv DEF PathIsSupported, Answered
  <2>1. current = pi.start /\ node[current].g = 0
    BY <1>1, <1>10, <1>11
  <2>2. sol.s_node = pi.target /\ node[pi.target].g <= sol.sum
    BY <1>5 DEF Inv, SearchInv, IncumbentIsTarget
  <2> QED
    BY <1>4, <1>6, <2>1, <2>2
<1> QED
  BY <1>1, <1>12, <1>13, <1>14, <1>15, StillInv DEF SearchInv

LEMMA InvStep ==
  ASSUME Inv, TypeInv', FreshIds, [Next]_vars
  PROVE  SearchInv'
<1>1. CASE Call
  <2>1. PICK op \in IdOps, q \in Queries, p \in Params :
          GetPath(op, q[1], q[2], p)
    BY <1>1 DEF Call
  <2> QED
    BY <2>1, GetPathInv
<1>2. CASE \E n \in Node : Expand(n)
  BY <1>2, ExpandInv
<1>3. CASE SuccessorStep
  BY <1>3, InitialiseInv, RelaxInv, DominatedInv DEF SuccessorStep
<1>4. CASE EndExpansion
  BY <1>4, EndExpansionInv
<1>5. CASE Stop
  BY <1>5, StopInv
<1>6. CASE Extract
  BY <1>6, ExtractInv
<1>7. CASE UNCHANGED vars
  <2> USE <1>7 DEF vars
  <2>1. \A m : Visited(m)' = Visited(m)
    BY DEF Visited
  <2>2. NothingDropped'
    BY <2>1, StillInv DEF Inv, SearchInv, NothingDropped
  <2>3. /\ IncumbentIsTarget' /\ StartIsRoot' /\ CurrentIsClosed'
        /\ TargetIsIncumbent' /\ FailureIsExhaustion'
    BY StillInv DEF Inv, SearchInv, IncumbentIsTarget, StartIsRoot,
         CurrentIsClosed, TargetIsIncumbent, FailureIsExhaustion, Answered
  <2>4. \A u, v : Supports(u, v)' <=> Supports(u, v)
    BY DEF Supports
  <2>5. PathSoFar' /\ PathIsSupported'
    BY <2>4, StillInv DEF Inv, SearchInv, PathSoFar, PathIsSupported, Answered
  <2> QED
    BY <2>2, <2>3, <2>5, StillInv DEF SearchInv
<1> QED
  BY <1>1, <1>2, <1>3, <1>4, <1>5, <1>6, <1>7 DEF Next, Step

-----------------------------------------------------------------------------
(* If every call has an id of its own, SearchInv holds of every state: the *)
(* records of one search never leak into the next, and the backpointers,   *)
(* OPEN, the incumbent and the extracted path agree at every step.         *)
THEOREM SafeSearch ==
  ASSUME FreshIds
  PROVE  Spec => []SearchInv
<1>1. Init => Inv
  BY TypeInit, InitInv DEF Inv
<1>2. Inv /\ [Next]_vars => Inv'
  BY TypeStep, InvStep DEF Inv
<1>3. Inv => SearchInv
  BY DEF Inv
<1> QED
  BY <1>1, <1>2, <1>3, PTL DEF Spec

(* The backpointers form a tree under the start, with sound g-values.      *)
THEOREM BackpointersHold ==
  ASSUME FreshIds
  PROVE  Spec => []Backpointers
<1>1. SearchInv => Backpointers
  BY DEF SearchInv
<1> QED
  BY <1>1, SafeSearch, PTL

(* Every answer is a supported path from the start to the target.          *)
THEOREM AnswersAreSupported ==
  ASSUME FreshIds
  PROVE  Spec => []PathIsSupported
<1>1. SearchInv => PathIsSupported
  BY DEF SearchInv
<1> QED
  BY <1>1, SafeSearch, PTL

(* What the invariant says of a failed search.                             *)
LEMMA FailureSeparates ==
  ASSUME Inv
  PROVE  FailureMeansUnreachable
<1> SUFFICES ASSUME Answered, StartExists, FC = "until_exhaustion",
                    sol.s_node = Null
             PROVE  Separates(Generated, pi.start, pi.target)
  BY DEF FailureMeansUnreachable
<1>1. open = {} /\ sol.sum = CostMax
  BY DEF Inv, SearchInv, FailureIsExhaustion, IncumbentIsTarget
<1>2. pi.start \in Generated
  BY DEF Inv, SearchInv, StartIsRoot, Answered
<1>3. pi.target \notin Generated
  BY DEF Inv, SearchInv, TargetIsIncumbent, Answered
<1>4. ASSUME NEW n \in Generated, NEW k \in DOMAIN Successors[map][n]
      PROVE  Successors[map][n][k].node \in Generated
  <2>1. Visited(n) \subseteq Generated
    BY <1>1 DEF Inv, SearchInv, NothingDropped
  <2>2. Successors[map][n][k].node \in Visited(n)
    BY DEF Visited, Answered
  <2> QED
    BY <2>1, <2>2
<1> QED
  BY <1>2, <1>3, <1>4 DEF Separates

(* An exhaustive search that reports no path has found a set of nodes that *)
(* cuts the target off from the start.                                     *)
THEOREM FailuresAreRight ==
  ASSUME FreshIds
  PROVE  Spec => []FailureMeansUnreachable
<1>1. Init => Inv
  BY TypeInit, InitInv DEF Inv
<1>2. Inv /\ [Next]_vars => Inv'
  BY TypeStep, InvStep DEF Inv
<1>3. Inv => FailureMeansUnreachable
  BY FailureSeparates
<1> QED
  BY <1>1, <1>2, <1>3, PTL DEF Spec

(* Under reopen_policy::no no node is expanded twice in a search.          *)
THEOREM NoNodeTwice ==
  ASSUME FreshIds
  PROVE  Spec => ExpandsOnce
<1>1. Init => Inv
  BY TypeInit, InitInv DEF Inv
<1>2. Inv /\ [Next]_vars => Inv'
  BY TypeStep, InvStep DEF Inv
<1>3. Inv /\ [Next]_vars =>
        [RP = "no" /\ pc = "loop" /\ pc' = "succ" => ~node[current'].expanded]_vars
  <2> SUFFICES ASSUME Inv, Next, RP = "no", pc = "loop", pc' = "succ"
               PROVE  ~node[current'].expanded
    BY DEF vars
  <2>1. PICK n \in Node : Expand(n)
    BY DEF Next, Step, Call, GetPath, SuccessorStep, Generate, Prune, Decrease,
         Reopen, Dominated, AtSuccessor, EndExpansion, Stop, Extract
  <2>2. current' = n /\ n \in open
    BY <2>1 DEF Expand, Best
  <2> QED
    BY <2>2 DEF Inv, SearchInv, OpenIsLive
<1> QED
  BY <1>1, <1>2, <1>3, PTL DEF Spec, ExpandsOnce

-----------------------------------------------------------------------------
(* Least elements.                                                         *)

\* A set of natural numbers has a least element.
LEMMA SmallestOf ==
  ASSUME NEW T, T \subseteq Nat, T # {}
  PROVE  \E x \in T : \A y \in T : x <= y
<1> DEFINE R == OpToRel(<, Nat)
<1>1. IsWellFoundedOn(R, Nat)
  BY NatLessThanWellFounded
<1>2. \A x, y \in Nat : y < x => <<y, x>> \in R
  BY DEF OpToRel
<1> HIDE DEF R
<1>3. PICK x \in T : \A y \in T : ~ (<<y, x>> \in R)
  BY <1>1, WFMin
<1>4. \A y \in T : ~ (y < x)
  BY <1>2, <1>3
<1>5. x \in Nat /\ \A y \in T : y \in Nat
  OBVIOUS
<1> QED
  BY <1>4, <1>5

(* So what holds of 1, and of k + 1 if it holds of k, holds up to n.       *)
LEMMA UpToLast ==
  ASSUME NEW n \in Nat, NEW Holds,
         1 \in Holds, \A k \in 1 .. n - 1 : k \in Holds => k + 1 \in Holds
  PROVE  1 .. n \subseteq Holds
<1> DEFINE T == {k \in 1 .. n : k \notin Holds}
<1> SUFFICES ASSUME T # {}
             PROVE  FALSE
  OBVIOUS
<1>1. PICK x \in T : \A y \in T : x <= y
  <2>1. T \subseteq Nat
    OBVIOUS
  <2> HIDE DEF T
  <2> QED
    BY <2>1, SmallestOf
<1>2. x # 1 /\ x - 1 \in 1 .. n - 1 /\ x - 1 \notin T
  BY <1>1
<1> QED
  BY <1>1, <1>2

\* A nonempty set of natural numbers has a minimum.
LEMMA Minimum ==
  ASSUME NEW T, T \subseteq Nat, T # {}
  PROVE  Reference!Min(T) \in T /\ \A y \in T : Reference!Min(T) <= y
<1>1. PICK x \in T : \A y \in T : x <= y
  BY SmallestOf
<1> QED
  BY <1>1 DEF Reference!Min

-----------------------------------------------------------------------------
(* The cost of a path.                                                     *)

\* The costs c, summed up.
Sums(s, c, n) == s = [k \in 1 .. n |-> IF k = 1 THEN 0 ELSE s[k - 1] + c[k]]

LEMMA SumsExist ==
  ASSUME NEW c, NEW n \in Nat \ {0}
  PROVE  \E s : Sums(s, c, n)
<1> DEFINE Holds == {k \in Nat : \E s : Sums(s, c, k)}
<1>1. 1 \in Holds
  <2>1. Sums([k \in 1 .. 1 |-> 0], c, 1)
    BY DEF Sums
  <2> QED
    BY <2>1
<1>2. ASSUME NEW k \in 1 .. n - 1, k \in Holds
      PROVE  k + 1 \in Holds
  <2>1. PICK s : Sums(s, c, k)
    BY <1>2
  <2> DEFINE t == [j \in 1 .. k + 1 |-> IF j = k + 1 THEN s[k] + c[k + 1] ELSE s[j]]
  <2>2. \A j \in 1 .. k : s[j] = IF j = 1 THEN 0 ELSE s[j - 1] + c[j]
    BY <2>1 DEF Sums
  <2>3. \A j \in 1 .. k + 1 : t[j] = IF j = 1 THEN 0 ELSE t[j - 1] + c[j]
    BY <2>2
  <2>4. t = [j \in 1 .. k + 1 |-> t[j]]
    OBVIOUS
  <2> HIDE DEF t
  <2>5. Sums(t, c, k + 1)
    BY <2>3, <2>4 DEF Sums
  <2> QED
    BY <2>5
<1> HIDE DEF Holds
<1>3. 1 .. n \subseteq Holds
  BY <1>1, <1>2, UpToLast
<1> QED
  BY <1>3 DEF Holds

(* PathCost adds up the costs of the edges along the path.                 *)
LEMMA PathCostSums ==
  ASSUME NEW m, NEW p, Len(p) \in Nat \ {0}
  PROVE  \E s : /\ Reference!PathCost(m, p) = s[Len(p)]
                /\ s[1] = 0
                /\ \A k \in 1 .. Len(p) - 1 :
                     s[k + 1] = s[k] + Reference!EdgeCost(m, p[k], p[k + 1])
<1> DEFINE n == Len(p)
           c == [k \in 1 .. n |-> Reference!EdgeCost(m, p[k - 1], p[k])]
           IsSum(s) == s = [k \in 1 .. n |-> IF k = 1 THEN 0
                              ELSE s[k - 1] + Reference!EdgeCost(m, p[k - 1], p[k])]
           s == CHOOSE t : IsSum(t)
<1>1. \E t : IsSum(t)
  <2>1. PICK t : Sums(t, c, n)
    BY SumsExist
  <2>2. IsSum(t)
    BY <2>1 DEF Sums
  <2> QED
    BY <2>2
<1>2. Reference!PathCost(m, p) = s[n]
  BY DEF Reference!PathCost
<1>3. IsSum(s)
  <2> HIDE DEF IsSum
  <2> QED
    BY <1>1, Zenon
<1> HIDE DEF s
<1>4. s[1] = 0
  BY <1>3
<1>5. ASSUME NEW k \in 1 .. n - 1
      PROVE  s[k + 1] = s[k] + Reference!EdgeCost(m, p[k], p[k + 1])
  BY <1>3
<1> QED
  BY <1>2, <1>4, <1>5

-----------------------------------------------------------------------------
(* What the steps do to the records of the search.                         *)

\* A call begins a search of its own.
LEMMA CallFacts ==
  ASSUME Inv, FreshIds, Call
  PROVE  /\ pc = "idle" /\ pc' \in {"idle", "loop"} /\ map' = map
         /\ sol'.path = <<>> /\ sol'.lb = CostMax
         /\ sol'.s_node \in {Null, pi'.start}
         /\ \/ pc' = "idle" /\ Generated' = {} /\ open' = {} /\ sol'.s_node = Null
            \/ /\ pc' = "loop" /\ pi'.start \in Node
               /\ Generated' = {pi'.start} /\ open' = {pi'.start}
               /\ node'[pi'.start] = Initialised(pi', par', pi'.start, Null, 0)
<1>1. PICK op \in IdOps, q \in Queries, p \in Params : GetPath(op, q[1], q[2], p)
  BY DEF Call
<1>2. /\ pc = "idle" /\ calls < MaxCalls /\ map' = map /\ calls' = calls + 1
      /\ pi' = [start |-> q[1], target |-> q[2], id |-> NewId(op)] /\ par' = p
      /\ IF q[1] # Null /\ q[1] \in Startable[map]
         THEN /\ node' = [node EXCEPT ![q[1]] = Initialised(pi', par', q[1], Null, 0)]
              /\ sol' = Incumbent(EmptySolution, pi', q[1], 0)
              /\ open' = {q[1]} /\ pc' = "loop"
         ELSE sol' = EmptySolution /\ open' = {} /\ node' = node /\ pc' = pc
  BY <1>1 DEF GetPath
<1>3. pi'.id = NewId(op) /\ pi'.start = q[1] /\ calls' # 0
      /\ node \in [Node -> NodeRecord] /\ q[1] \in Node \cup {Null}
  BY <1>2, CallsAssumption DEF Inv, TypeInv, TypeOK
<1>4. \A n \in Node : node[n].num # NewId(op)
  BY <1>2, FreshCall
<1>5. Generated' = {n \in Node : node'[n].num = NewId(op)}
  BY <1>2, <1>3 DEF Generated
<1>6. sol'.path = <<>> /\ sol'.lb = CostMax /\ sol'.s_node \in {Null, pi'.start}
  <2>1. CASE sol' = EmptySolution
    BY <2>1 DEF EmptySolution
  <2>2. CASE sol' = [EmptySolution EXCEPT !.s_node = q[1], !.sum = 0]
    BY <1>3, <2>2 DEF EmptySolution
  <2> QED
    BY <1>2, <2>1, <2>2 DEF Incumbent
<1>7. CASE q[1] # Null /\ q[1] \in Startable[map]
  <2>1. /\ node'[q[1]] = Initialised(pi', par', q[1], Null, 0) /\ q[1] \in Node
        /\ \A n \in Node \ {q[1]} : node'[n] = node[n]
    BY <1>2, <1>3, <1>7
  <2>2. node'[q[1]].num = NewId(op)
    BY <1>3, <2>1 DEF Initialised
  <2>3. Generated' = {q[1]}
    BY <1>4, <1>5, <2>1, <2>2
  <2> QED
    BY <1>2, <1>3, <1>6, <1>7, <2>1, <2>3
<1>8. CASE ~(q[1] # Null /\ q[1] \in Startable[map])
  <2>1. Generated' = {} /\ sol'.s_node = Null
    BY <1>2, <1>4, <1>5, <1>8 DEF EmptySolution
  <2> QED
    BY <1>2, <1>6, <1>8, <2>1
<1> QED
  BY <1>7, <1>8

\* Closing a node changes nothing else in its record.
LEMMA ExpandFacts ==
  ASSUME Inv, NEW n \in Node, Expand(n)
  PROVE  /\ pc = "loop" /\ pc' = "succ" /\ n \in Best /\ n \in Generated
         /\ current' = n /\ i' = 1
         /\ open' = open \ {n} /\ Generated' = Generated
         /\ sol'.s_node = sol.s_node /\ sol'.sum = sol.sum
         /\ sol'.path = sol.path /\ sol'.lb = node[n].f
         /\ UNCHANGED <<map, pi, par, calls>>
         /\ \A m \in Node :
              /\ node'[m].g = node[m].g /\ node'[m].f = node[m].f
              /\ node'[m].parent = node[m].parent
              /\ node'[m].expanded <=> (m = n \/ node[m].expanded)
<1>1. /\ pc = "loop" /\ n \in Best /\ pc' = "succ" /\ current' = n /\ i' = 1
      /\ node' = [node EXCEPT ![n].expanded = TRUE] /\ open' = open \ {n}
      /\ sol' = [sol EXCEPT !.lb = node[n].f, !.nodes_expanded = @ + 1]
      /\ UNCHANGED <<map, pi, par, counter, calls>>
  BY DEF Expand
<1>2. node \in [Node -> NodeRecord] /\ sol \in Solution
  BY DEF Inv, TypeInv, TypeOK
<1>3. \A m \in Node : /\ node'[m].num = node[m].num
                      /\ node'[m].g = node[m].g /\ node'[m].f = node[m].f
                      /\ node'[m].parent = node[m].parent
                      /\ node'[m].expanded <=> (m = n \/ node[m].expanded)
  <2>1. node'[n].expanded = TRUE
        /\ \A m \in Node \ {n} : node'[m] = node[m]
    BY <1>1, <1>2 DEF NodeRecord
  <2>2. /\ node'[n].num = node[n].num
        /\ node'[n].g = node[n].g /\ node'[n].f = node[n].f
        /\ node'[n].parent = node[n].parent
    BY <1>1, <1>2 DEF NodeRecord
  <2> QED
    BY <2>1, <2>2
<1>4. Generated' = Generated
  BY <1>1, <1>3 DEF Generated
<1>5. n \in Generated
  BY <1>1 DEF Best, Inv, SearchInv, OpenIsLive
<1>6. /\ sol'.s_node = sol.s_node /\ sol'.sum = sol.sum
      /\ sol'.path = sol.path /\ sol'.lb = node[n].f
  BY <1>1, <1>2 DEF Solution
<1> QED
  BY <1>1, <1>3, <1>4, <1>5, <1>6

\* A node that is reached for the first time hangs under the current one.
LEMMA NewFacts ==
  ASSUME Inv, Generate \/ Prune
  PROVE  /\ pc = "succ" /\ current \in Generated /\ node[current].expanded
         /\ i \in DOMAIN Succ
         /\ Child \in Node /\ Child \notin Generated /\ current # Child
         /\ Generated' = Generated \cup {Child} /\ node'[Child] = NewNode
         /\ NewNode.g = GVal /\ NewNode.parent = current /\ ~NewNode.expanded
         /\ \A m \in Node : m # Child => node'[m] = node[m]
         /\ sol' = NewSol /\ sol'.path = sol.path /\ sol'.lb = sol.lb
         /\ open \subseteq open' /\ open' \subseteq open \cup {Child}
         /\ i' = i + 1 /\ UNCHANGED <<map, pi, par, calls, pc, current>>
<1>1. /\ IsNew /\ node' = [node EXCEPT ![Child] = NewNode] /\ sol' = NewSol
      /\ open' \in {open, open \cup {Child}} /\ SuccessorStep /\ i' = i + 1
  BY DEF Generate, Prune, SuccessorStep
<1>2. /\ pc = "succ" /\ calls > 0 /\ UNCHANGED <<map, pi, par, calls, pc, current>>
      /\ Child \in Node /\ current \in Generated /\ node[current].expanded
      /\ Child \notin Generated /\ i \in DOMAIN Succ
  BY <1>1, AtChild
<1>3. NewNode.num = pi.id /\ NewNode.g = GVal /\ NewNode.parent = current
      /\ ~NewNode.expanded
  BY DEF NewNode, Initialised
<1> HIDE DEF NewNode
<1>4. node'[Child] = NewNode /\ \A m \in Node : m # Child => node'[m] = node[m]
  BY <1>1, <1>2 DEF Inv, TypeInv, TypeOK
<1>5. Generated' = Generated \cup {Child} /\ current # Child
  BY <1>2, <1>3, <1>4 DEF Generated
<1>6. sol'.path = sol.path /\ sol'.lb = sol.lb
  <2>1. sol' \in {sol, [sol EXCEPT !.s_node = Child, !.sum = GVal]}
    BY <1>1 DEF NewSol, Incumbent
  <2> QED
    BY <2>1 DEF Inv, TypeInv, TypeOK, Solution
<1> QED
  BY <1>1, <1>2, <1>3, <1>4, <1>5, <1>6

\* A node that is relaxed moves under the current node.
LEMMA RelaxFacts ==
  ASSUME Inv, Decrease \/ Reopen
  PROVE  /\ pc = "succ" /\ current \in Generated /\ node[current].expanded
         /\ i \in DOMAIN Succ
         /\ Child \in Generated /\ Child # current /\ Child # pi.start
         /\ node[Child].g \in Nat /\ GVal < node[Child].g
         /\ CanRelax /\ node'[Child] = Relaxed
         /\ Relaxed.g = GVal /\ Relaxed.parent = current
         /\ Relaxed.expanded = node[Child].expanded
         /\ \A m \in Node : m # Child => node'[m] = node[m]
         /\ Generated' = Generated /\ sol' = sol
         /\ open \subseteq open' /\ open' \subseteq open \cup {Child}
         /\ Child \notin open => RP = "no" \/ Child \in open'
         /\ i' = i + 1 /\ UNCHANGED <<map, pi, par, calls, pc, current>>
<1>1. /\ CanRelax /\ ~IsNew /\ node' = [node EXCEPT ![Child] = Relaxed]
      /\ open' \in {open, open \cup {Child}} /\ sol' = sol
      /\ Child \notin open => RP = "no" \/ Child \in open'
      /\ SuccessorStep /\ i' = i + 1
  BY TraitsAssumption DEF Decrease, Reopen, Reopened, SuccessorStep, CanRelax
<1>2. /\ AtSuccessor /\ pc = "succ" /\ UNCHANGED <<map, pi, par, calls, pc, current>>
      /\ Child \in Node /\ current \in Generated /\ node[current].expanded
      /\ GVal \in Nat /\ node[current].g \in Nat /\ node[current].g <= GVal
      /\ Child \in Generated /\ i \in DOMAIN Succ
  BY <1>1, AtChild
<1>3. /\ Relaxed.num = node[Child].num /\ Relaxed.parent = current
      /\ Relaxed.g = GVal /\ Relaxed.expanded = node[Child].expanded
  BY <1>1, <1>2, RelaxedType DEF Inv
<1>4. node'[Child] = Relaxed /\ \A m \in Node : m # Child => node'[m] = node[m]
  BY <1>1, <1>2 DEF Inv, TypeInv, TypeOK
<1> HIDE DEF Relaxed
<1>5. Generated' = Generated
  BY <1>2, <1>3, <1>4 DEF Generated
<1>6. node[Child].g \in Nat
  BY <1>2 DEF Inv, SearchInv, GeneratedHaveCosts, TypeInv, TypeOK, NodeRecord
<1>7. GVal < node[Child].g
  BY <1>1, <1>6, MapsAssumption DEF CanRelax, Lt
<1>8. Child # current
  BY <1>2, <1>7
<1>9. Child # pi.start
  <2>1. node[pi.start].g = 0
    BY <1>2 DEF Inv, SearchInv, StartIsRoot, TypeInv, CallOK
  <2> QED
    BY <1>2, <1>7, <2>1
<1> QED
  BY <1>1, <1>2, <1>3, <1>4, <1>5, <1>6, <1>7, <1>8, <1>9

\* Steps that change no record.
LEMMA OtherFacts ==
  ASSUME Inv, Dominated \/ EndExpansion \/ Stop \/ Extract \/ UNCHANGED vars
  PROVE  /\ UNCHANGED <<map, node, open, pi, par, calls>> /\ Generated' = Generated
         /\ sol'.s_node = sol.s_node /\ sol'.sum = sol.sum /\ sol'.lb = sol.lb
         /\ ~Extract => sol'.path = sol.path
         /\ pc' = "extract" => pc = "extract" \/ Stop
<1>1. /\ UNCHANGED <<map, node, open, pi, par, calls>>
      /\ pc' = "extract" => pc = "extract" \/ Stop
  BY DEF Dominated, EndExpansion, Stop, Extract, vars
<1>2. Generated' = Generated
  BY <1>1 DEF Generated
<1>3. sol \in Solution
  BY DEF Inv, TypeInv, TypeOK
<1>4. /\ sol'.s_node = sol.s_node /\ sol'.sum = sol.sum /\ sol'.lb = sol.lb
      /\ ~Extract => sol'.path = sol.path
  <2>1. CASE Extract
    BY <1>3, <2>1 DEF Extract, Solution
  <2>2. CASE EndExpansion
    <3>1. PICK late : sol' = [sol EXCEPT !.late = @ \/ late]
      BY <2>2 DEF EndExpansion
    <3> QED
      BY <1>3, <3>1 DEF Solution
  <2>3. CASE Dominated \/ Stop \/ UNCHANGED vars
    BY <2>3 DEF Dominated, Stop, vars
  <2> QED
    BY <2>1, <2>2, <2>3
<1> QED
  BY <1>1, <1>2, <1>4

\* The kinds of steps.
LEMMA Steps ==
  ASSUME [Next]_vars
  PROVE  \/ Call \/ \E n \in Node : Expand(n)
         \/ Generate \/ Prune \/ Decrease \/ Reopen
         \/ Dominated \/ EndExpansion \/ Stop \/ Extract \/ UNCHANGED vars
  BY DEF Next, Step, SuccessorStep

-----------------------------------------------------------------------------
(* The backpointers.                                                       *)

(* No set of generated nodes has all its parents in itself: backpointers   *)
(* never run in a circle.  Costs may be 0, so that a node is farther from  *)
(* the start than its parent is not enough.                                *)
NoCircle ==
  \A S \in SUBSET Generated : S # {} => \E n \in S : node[n].parent \notin S

\* Every node of the search has a parent of the search, or none, not farther.
LEMMA ParentsOf ==
  ASSUME Inv, NEW n \in Generated
  PROVE  /\ n \in Node /\ node[n].g \in Nat
         /\ \/ node[n].parent = Null
            \/ /\ node[n].parent \in Generated /\ node[node[n].parent].expanded
               /\ Supports(node[n].parent, n)
               /\ node[node[n].parent].g \in Nat
               /\ node[node[n].parent].g <= node[n].g
<1>1. \A m \in Generated : m \in Node /\ node[m].g \in Nat
  BY DEF Inv, SearchInv, GeneratedHaveCosts, TypeInv, TypeOK, NodeRecord, Generated
<1>2. CASE node[n].parent = Null
  BY <1>1, <1>2
<1>3. CASE node[n].parent # Null
  <2>1. PICK u \in Generated : /\ node[n].parent = u /\ node[u].expanded
                               /\ Supports(u, n)
    BY <1>3 DEF Inv, SearchInv, Backpointers
  <2>2. PICK k \in DOMAIN Successors[map][u] :
          node[u].g + Successors[map][u][k].cost <= node[n].g
    BY <2>1 DEF Supports
  <2>3. Successors[map][u][k] \in Edge
    <3>1. Successors[map][u] \in Seq(Edge)
      BY <1>1, MapsAssumption DEF Inv, TypeInv, TypeOK
    <3> QED
      BY <3>1
  <2>4. node[u].g <= node[n].g
    BY <1>1, <2>2, <2>3 DEF Edge
  <2> QED
    BY <1>1, <2>1, <2>4
<1> QED
  BY <1>2, <1>3

LEMMA NewNoCircle ==
  ASSUME Inv, NoCircle, Generate \/ Prune
  PROVE  NoCircle'
<1>1. /\ current \in Generated /\ current # Child
      /\ Child \in Node /\ Child \notin Generated /\ Generated' = Generated \cup {Child}
      /\ node'[Child].parent = current
      /\ \A m \in Node : m # Child => node'[m] = node[m]
  BY NewFacts
<1> SUFFICES ASSUME NEW S \in SUBSET (Generated \cup {Child}), S # {}
             PROVE  \E n \in S : node'[n].parent \notin S
  BY <1>1 DEF NoCircle
<1>2. CASE S = {Child}
  BY <1>1, <1>2
<1>3. CASE S # {Child}
  <2>1. S \ {Child} \in SUBSET Generated /\ S \ {Child} # {}
    BY <1>3
  <2>2. PICK n \in S \ {Child} : node[n].parent \notin S \ {Child}
    BY <2>1 DEF NoCircle
  <2>3. n \in Generated /\ n \in Node /\ node'[n] = node[n]
    BY <1>1, <2>2, ParentsOf
  <2>4. node[n].parent # Child
    BY <1>1, <2>3, ParentsOf, MapsAssumption
  <2> QED
    BY <2>2, <2>3, <2>4
<1> QED
  BY <1>2, <1>3

(* A circle through the relaxed node would go through nodes that are       *)
(* nearer than it was, and those had no circle.                            *)
LEMMA RelaxNoCircle ==
  ASSUME Inv, NoCircle, Decrease \/ Reopen
  PROVE  NoCircle'
<1>1. /\ current \in Generated /\ current # Child /\ Child \in Generated
      /\ node[Child].g \in Nat /\ GVal < node[Child].g
      /\ Generated' = Generated /\ node'[Child].parent = current
      /\ \A m \in Node : m # Child => node'[m] = node[m]
  BY RelaxFacts
<1> SUFFICES ASSUME NEW S \in SUBSET Generated, S # {}
             PROVE  \E n \in S : node'[n].parent \notin S
  BY <1>1 DEF NoCircle
<1>2. CASE Child \notin S
  <2>1. PICK n \in S : node[n].parent \notin S
    BY DEF NoCircle
  <2> QED
    BY <1>1, <1>2, <2>1, ParentsOf
<1>3. CASE Child \in S /\ current \notin S
  BY <1>1, <1>3
<1>4. CASE Child \in S /\ current \in S
  <2> DEFINE T == {n \in S : node[n].g < node[Child].g}
  <2>1. T \in SUBSET Generated /\ current \in T
    <3>1. AtSuccessor /\ TypeInv
      BY DEF Inv, Decrease, Reopen
    <3>2. node[current].g < node[Child].g
      BY <1>1, <3>1, SuccessorType
    <3> QED
      BY <1>4, <3>2
  <2>2. PICK n \in T : node[n].parent \notin T
    BY <2>1 DEF NoCircle
  <2>3. n \in Generated /\ n \in Node /\ n # Child /\ node'[n] = node[n]
        /\ node[n].g < node[Child].g /\ node[n].g \in Nat
    BY <1>1, <2>2, ParentsOf
  <2>4. node[n].parent \notin S
    <3> SUFFICES ASSUME node[n].parent \in S
                 PROVE  FALSE
      OBVIOUS
    <3>1. node[n].parent # Null
      BY MapsAssumption DEF Generated
    <3>2. node[node[n].parent].g <= node[n].g /\ node[node[n].parent].g \in Nat
      BY <2>3, <3>1, ParentsOf
    <3>3. node[node[n].parent].g < node[Child].g
      BY <1>1, <2>3, <3>2
    <3> QED
      BY <2>2, <3>3
  <2> QED
    BY <2>2, <2>3, <2>4
<1> QED
  BY <1>2, <1>3, <1>4

LEMMA NoCircleStep ==
  ASSUME Inv, FreshIds, NoCircle, [Next]_vars
  PROVE  NoCircle'
<1>1. CASE Call
  <2>1. CASE Generated' = {}
    BY <2>1 DEF NoCircle
  <2>2. CASE Generated' # {}
    <3>1. Generated' = {pi'.start} /\ pi'.start \in Node /\ node'[pi'.start].parent = Null
      BY <1>1, <2>2, CallFacts DEF Initialised
    <3> QED
      BY <3>1, MapsAssumption DEF NoCircle
  <2> QED
    BY <2>1, <2>2
<1>2. ASSUME NEW n \in Node, Expand(n)
      PROVE  NoCircle'
  <2>1. Generated' = Generated /\ \A m \in Generated : node'[m].parent = node[m].parent
    BY <1>2, ExpandFacts, ParentsOf
  <2> QED
    BY <2>1 DEF NoCircle
<1>3. CASE Dominated \/ EndExpansion \/ Stop \/ Extract \/ UNCHANGED vars
  BY <1>3, OtherFacts DEF NoCircle
<1> QED
  BY <1>1, <1>2, <1>3, Steps, NewNoCircle, RelaxNoCircle

-----------------------------------------------------------------------------
(* The path.                                                               *)

\* The path visits no node twice, and the backpointers run along it; while it
\* is extracted they come from current, which is not on it yet.
PathUnwound ==
  LET p == sol.path
  IN  /\ \A j, k \in DOMAIN p : p[j] = p[k] => j = k
      /\ \A k \in DOMAIN p : k # 1 => node[p[k]].parent = p[k - 1]
      /\ pc = "extract" =>
           /\ \A k \in DOMAIN p : p[k] # current
           /\ \A k \in DOMAIN p :
                node[p[k]].parent = IF k = 1 THEN current ELSE p[k - 1]

LEMMA ExtractUnwound ==
  ASSUME Inv, NoCircle, PathUnwound, Extract
  PROVE  PathUnwound'
<1> DEFINE p == sol.path
           q == <<current>> \o p
<1>1. /\ pc = "extract" /\ sol' = [sol EXCEPT !.path = q]
      /\ current' = node[current].parent /\ node' = node
  BY DEF Extract
<1>2. /\ current \in Generated /\ current \in Node /\ p \in Seq(Node)
      /\ \A k \in 1 .. Len(p) : p[k] \in Generated
  BY <1>1 DEF Inv, TypeInv, TypeOK, Solution, SearchInv, PathSoFar
<1>3. /\ q[1] = current /\ Len(p) \in Nat /\ DOMAIN p = 1 .. Len(p)
      /\ DOMAIN q = 1 .. Len(p) + 1
      /\ \A k \in 1 .. Len(p) : q[k + 1] = p[k]
  BY <1>2, Prepended
<1>4. sol'.path = q
  BY <1>1 DEF Inv, TypeInv, TypeOK, Solution
<1>5. /\ \A j, k \in 1 .. Len(p) : p[j] = p[k] => j = k
      /\ \A k \in 1 .. Len(p) : p[k] # current
      /\ \A k \in 1 .. Len(p) : node[p[k]].parent = IF k = 1 THEN current ELSE p[k - 1]
  BY <1>1, <1>3 DEF PathUnwound
<1> HIDE DEF q
<1>6. \A k \in DOMAIN q : k = 1 \/ (k - 1 \in 1 .. Len(p) /\ q[k] = p[k - 1])
  <2> SUFFICES ASSUME NEW k \in DOMAIN q, k # 1
               PROVE  k - 1 \in 1 .. Len(p) /\ q[k] = p[k - 1]
    OBVIOUS
  <2>1. k - 1 \in 1 .. Len(p) /\ k - 1 + 1 = k
    BY <1>3
  <2> QED
    BY <1>3, <2>1
<1>7. \A j, k \in DOMAIN q : q[j] = q[k] => j = k
  <2> SUFFICES ASSUME NEW j \in DOMAIN q, NEW k \in DOMAIN q, q[j] = q[k]
               PROVE  j = k
    OBVIOUS
  <2>1. CASE j = 1 \/ k = 1
    BY <1>3, <1>5, <1>6, <2>1
  <2>2. CASE j # 1 /\ k # 1
    <3>1. j - 1 = k - 1
      BY <1>5, <1>6, <2>2
    <3> QED
      BY <1>3, <3>1
  <2> QED
    BY <2>1, <2>2
<1>8. \A k \in DOMAIN q : node[q[k]].parent = IF k = 1 THEN current' ELSE q[k - 1]
  <2> SUFFICES ASSUME NEW k \in DOMAIN q, k # 1
               PROVE  node[q[k]].parent = q[k - 1]
    BY <1>1, <1>3
  <2>1. k - 1 \in 1 .. Len(p) /\ q[k] = p[k - 1]
    BY <1>6
  <2>2. CASE k - 1 = 1
    BY <1>3, <1>5, <2>1, <2>2
  <2>3. CASE k - 1 # 1
    <3>1. k - 1 \in DOMAIN q
      BY <1>3, <2>1
    <3>2. q[k - 1] = p[k - 1 - 1]
      BY <1>6, <2>3, <3>1
    <3> QED
      BY <1>5, <2>1, <2>3, <3>2
  <2> QED
    BY <2>2, <2>3
<1>9. \A k \in DOMAIN q : q[k] # current'
  <2> SUFFICES ASSUME NEW m \in DOMAIN q, q[m] = current'
               PROVE  FALSE
    OBVIOUS
  <2> DEFINE S == {q[k] : k \in 1 .. m}
  <2>1. 1 .. m \subseteq DOMAIN q /\ 1 \in 1 .. m /\ m \in 1 .. m
    BY <1>3
  <2>2. S \in SUBSET Generated /\ S # {}
    <3>1. \A k \in DOMAIN q : q[k] \in Generated
      BY <1>2, <1>3, <1>6
    <3> QED
      BY <2>1, <3>1
  <2>3. PICK k \in 1 .. m : node[q[k]].parent \notin S
    BY <2>2 DEF NoCircle
  <2>4. CASE k = 1
    BY <1>8, <2>1, <2>3, <2>4
  <2>5. CASE k # 1
    <3>1. k - 1 \in 1 .. m
      BY <1>3, <2>5
    <3> QED
      BY <1>8, <2>1, <2>3, <2>5, <3>1
  <2> QED
    BY <2>4, <2>5
<1> QED
  BY <1>1, <1>4, <1>7, <1>8, <1>9 DEF PathUnwound

LEMMA UnwoundStep ==
  ASSUME Inv, Inv', FreshIds, NoCircle, PathUnwound, [Next]_vars
  PROVE  PathUnwound'
<1>1. CASE Extract
  BY <1>1, ExtractUnwound
<1>2. CASE sol'.path = <<>>
  BY <1>2 DEF PathUnwound
<1>3. CASE ~Extract /\ sol'.path # <<>>
  <2>1. pc # "loop" /\ ~Stop
    <3>1. ASSUME pc = "loop"
          PROVE  sol'.path = sol.path
      BY <3>1, Steps, CallFacts, ExpandFacts, NewFacts, RelaxFacts, OtherFacts, <1>3
    <3>2. pc = "loop" => sol.path = <<>>
      BY DEF Inv, SearchInv, PathSoFar
    <3> QED
      BY <1>3, <3>1, <3>2 DEF Stop
  <2>2. pc # "succ"
    <3>1. ASSUME pc = "succ"
          PROVE  sol'.path = sol.path
      BY <3>1, Steps, CallFacts, ExpandFacts, NewFacts, RelaxFacts, OtherFacts, <1>3
    <3>2. pc = "succ" => sol.path = <<>>
      BY DEF Inv, SearchInv, PathSoFar
    <3> QED
      BY <1>3, <3>1, <3>2
  <2>3. UNCHANGED vars
    <3>1. Dominated => pc = "succ"
      BY DEF Dominated, AtSuccessor
    <3>2. EndExpansion => pc = "succ"
      BY DEF EndExpansion
    <3> QED
      BY <1>3, <2>1, <2>2, <3>1, <3>2, Steps, CallFacts, ExpandFacts, NewFacts, RelaxFacts
  <2> QED
    BY <2>3 DEF vars, PathUnwound
<1> QED
  BY <1>1, <1>2, <1>3

\* The inductive invariant behind PathIsReal.
AnswerInv == Inv /\ NoCircle /\ PathUnwound

LEMMA AnswerInvInit ==
  ASSUME Init
  PROVE  AnswerInv
<1>1. Inv
  BY TypeInit, InitInv DEF Inv
<1>2. Generated = {} /\ sol.path = <<>> /\ pc = "idle"
  BY DEF Init, Unused, EmptySolution, Generated
<1> QED
  BY <1>1, <1>2 DEF AnswerInv, NoCircle, PathUnwound

LEMMA AnswerInvStep ==
  ASSUME AnswerInv, FreshIds, [Next]_vars
  PROVE  AnswerInv'
<1>1. Inv'
  BY TypeStep, InvStep DEF AnswerInv, Inv
<1> QED
  BY <1>1, NoCircleStep, UnwoundStep DEF AnswerInv

\* An edge that supports a g-value is one of the edges of the map, and the
\* shortest of its parallels supports it too.
LEMMA SupportingEdge ==
  ASSUME TypeInv, NEW u \in Node, NEW v \in Node, Supports(u, v),
         node[u].g \in Nat, node[v].g \in Nat
  PROVE  /\ Reference!EdgeCosts(map, u, v) # {}
         /\ Reference!EdgeCost(map, u, v) \in Nat
         /\ node[u].g + Reference!EdgeCost(map, u, v) <= node[v].g
<1>1. PICK k \in DOMAIN Successors[map][u] :
        /\ Successors[map][u][k].node = v
        /\ node[u].g + Successors[map][u][k].cost <= node[v].g
  BY DEF Supports
<1>2. \A j \in DOMAIN Successors[map][u] : Successors[map][u][j].cost \in Nat
  <2>1. Successors[map][u] \in Seq(Edge)
    BY MapsAssumption DEF TypeInv, TypeOK
  <2>2. \A j \in DOMAIN Successors[map][u] : Successors[map][u][j] \in Edge
    BY <2>1
  <2> QED
    BY <2>2 DEF Edge
<1>3. /\ Successors[map][u][k].cost \in Reference!EdgeCosts(map, u, v)
      /\ Reference!EdgeCosts(map, u, v) \subseteq Nat
  BY <1>1, <1>2 DEF Reference!EdgeCosts
<1>4. /\ Reference!EdgeCost(map, u, v) \in Nat
      /\ Reference!EdgeCost(map, u, v) <= Successors[map][u][k].cost
  BY <1>3, Minimum DEF Reference!EdgeCost
<1> QED
  BY <1>1, <1>2, <1>3, <1>4

LEMMA PathReal ==
  ASSUME AnswerInv
  PROVE  /\ PathIsReal
         /\ Found => AnswerCost \in Nat /\ AnswerCost <= node[pi.target].g
<1> SUFFICES ASSUME Found
             PROVE  /\ Reference!IsPath(map, sol.path, pi.start, pi.target)
                    /\ \A j, k \in DOMAIN sol.path : sol.path[j] = sol.path[k] => j = k
                    /\ AnswerCost <= sol.sum
                    /\ AnswerCost \in Nat /\ AnswerCost <= node[pi.target].g
  BY DEF PathIsReal
<1> DEFINE p == sol.path
           n == Len(p)
<1>1. /\ p # <<>> /\ p[1] = pi.start /\ node[p[1]].g = 0
      /\ p[n] = pi.target /\ node[p[n]].g <= sol.sum
      /\ \A k \in 1 .. n : p[k] \in Generated
      /\ \A k \in 1 .. n - 1 : Supports(p[k], p[k + 1])
  BY DEF Found, AnswerInv, Inv, SearchInv, PathIsSupported
<1>2. n \in Nat \ {0} /\ TypeInv
  BY <1>1 DEF AnswerInv, Inv, TypeInv, TypeOK, Solution
<1>3. \A k \in 1 .. n : p[k] \in Node /\ node[p[k]].g \in Nat
  BY <1>1, ParentsOf DEF AnswerInv
<1>4. \A k \in 1 .. n - 1 :
        /\ Reference!EdgeCosts(map, p[k], p[k + 1]) # {}
        /\ Reference!EdgeCost(map, p[k], p[k + 1]) \in Nat
        /\ node[p[k]].g + Reference!EdgeCost(map, p[k], p[k + 1]) <= node[p[k + 1]].g
  <2> TAKE k \in 1 .. n - 1
  <2>1. k \in 1 .. n /\ k + 1 \in 1 .. n
    BY <1>2
  <2> QED
    BY <1>1, <1>2, <1>3, <2>1, SupportingEdge
<1>5. AnswerCost <= sol.sum /\ AnswerCost \in Nat /\ AnswerCost <= node[pi.target].g
  <2>1. PICK s : /\ AnswerCost = s[n] /\ s[1] = 0
                 /\ \A k \in 1 .. n - 1 :
                      s[k + 1] = s[k] + Reference!EdgeCost(map, p[k], p[k + 1])
    <3>1. AnswerCost = Reference!PathCost(map, p)
      BY DEF AnswerCost
    <3> HIDE DEF p
    <3>2. Len(p) \in Nat \ {0}
      BY <1>2
    <3>3. \E s : /\ Reference!PathCost(map, p) = s[Len(p)]
                 /\ s[1] = 0
                 /\ \A k \in 1 .. Len(p) - 1 :
                      s[k + 1] = s[k] + Reference!EdgeCost(map, p[k], p[k + 1])
      BY <3>2, PathCostSums, Zenon
    <3> QED
      BY <3>1, <3>3
  <2> DEFINE Below == {k \in 1 .. n : s[k] \in Nat /\ s[k] <= node[p[k]].g}
  <2>2. 1 \in Below
    BY <1>1, <1>2, <2>1
  <2>3. ASSUME NEW k \in 1 .. n - 1, k \in Below
        PROVE  k + 1 \in Below
    <3>1. k \in 1 .. n /\ k + 1 \in 1 .. n
      BY <1>2
    <3>2. s[k + 1] \in Nat /\ s[k + 1] <= node[p[k + 1]].g
      BY <1>3, <1>4, <2>1, <2>3, <3>1, SMTT(30)
    <3> QED
      BY <3>1, <3>2
  <2>4. n \in Below
    <3> HIDE DEF Below
    <3>1. 1 .. n \subseteq Below
      BY <1>2, <2>2, <2>3, UpToLast
    <3> QED
      BY <1>2, <3>1
  <2>5. sol.sum \in Nat
    BY DEF Found, AnswerInv, Inv, TypeInv, TypeOK, Solution, SearchInv, IncumbentIsTarget
  <2> QED
    BY <1>1, <1>2, <1>3, <2>1, <2>4, <2>5
<1> QED
  BY <1>1, <1>4, <1>5 DEF Reference!IsPath, AnswerInv, PathUnwound

LEMMA AnswerInvariant ==
  ASSUME FreshIds
  PROVE  Init /\ [][Next]_vars => []AnswerInv
<1>1. Init => AnswerInv
  BY AnswerInvInit
<1>2. AnswerInv /\ [Next]_vars => AnswerInv'
  BY AnswerInvStep
<1> QED
  BY <1>1, <1>2, PTL

-----------------------------------------------------------------------------
(* The promise.                                                            *)

\* The variables of PathFinder, as Promise maps them.
Query == [start |-> pi.start, target |-> pi.target]
Reply ==
  IF pc = "idle" /\ sol.s_node # Null
  THEN [path |-> [k \in 1 .. Len(sol.path) |->
                    [node |-> sol.path[k], g |-> node[sol.path[k]].g]],
        cost |-> sol.sum]
  ELSE [path |-> <<>>, cost |-> Null]

\* What an answer is, at the end of a call that found a path or found none.
AnswerIsRight ==
  Answered =>
    /\ sol.s_node # Null => Promise!IsAnswer(Reply, Query)
    /\ (FC = "until_exhaustion" /\ StartExists /\ sol.s_node = Null)
         => Promise!CutOff(Query)

(* A returned path is an answer in the sense of PathFinder.                *)
LEMMA PathIsAnswer ==
  ASSUME Inv, Answered, sol.s_node # Null
  PROVE  Promise!IsAnswer(Reply, Query)
<1> DEFINE p == sol.path
           steps == [k \in 1 .. Len(p) |-> [node |-> p[k], g |-> node[p[k]].g]]
<1>1. /\ \A k \in 1 .. Len(p) : p[k] \in Generated
      /\ p # <<>> /\ p[1] = pi.start /\ node[p[1]].g = 0
      /\ p[Len(p)] = pi.target /\ node[p[Len(p)]].g <= sol.sum
      /\ \A k \in 1 .. Len(p) - 1 : Supports(p[k], p[k + 1])
  BY DEF Inv, SearchInv, PathIsSupported
<1>2. p \in Seq(Node) /\ Len(p) \in Nat /\ Len(p) >= 1
  <2>1. p \in Seq(Node)
    BY DEF Inv, TypeInv, TypeOK, Solution
  <2> QED
    BY <1>1, <2>1
<1> HIDE DEF p
<1>3. /\ Len(steps) = Len(p) /\ steps # <<>>
      /\ \A k \in 1 .. Len(p) : steps[k].node = p[k] /\ steps[k].g = node[p[k]].g
  BY <1>2
<1>4. ASSUME NEW k \in 1 .. Len(p) - 1
      PROVE  Promise!Edge(p[k], p[k + 1], node[p[k + 1]].g - node[p[k]].g)
  <2>1. /\ p[k] \in Node /\ p[k + 1] \in Node
        /\ p[k] \in Generated /\ p[k + 1] \in Generated
    BY <1>1, <1>2
  <2>2. PICK j \in DOMAIN Successors[map][p[k]] :
          /\ Successors[map][p[k]][j].node = p[k + 1]
          /\ node[p[k]].g + Successors[map][p[k]][j].cost <= node[p[k + 1]].g
    BY <1>1, <1>4 DEF Supports
  <2> QED
    <3>1. node[p[k]].g \in Nat /\ node[p[k + 1]].g \in Nat
      BY <2>1 DEF Inv, SearchInv, GeneratedHaveCosts, TypeInv, TypeOK, NodeRecord
    <3>2. Successors[map][p[k]][j] \in Edge
      <4>1. Successors[map][p[k]] \in Seq(Edge)
        BY <2>1, MapsAssumption DEF Inv, TypeInv, TypeOK
      <4> QED
        BY <2>2, <4>1
    <3>3. Successors[map][p[k]][j].cost <= node[p[k + 1]].g - node[p[k]].g
      BY <2>2, <3>1, <3>2 DEF Edge
    <3> QED
      BY <2>2, <3>3 DEF Promise!Edge
<1>5. \A k \in 1 .. Len(steps) - 1 :
        Promise!Edge(steps[k].node, steps[k + 1].node, steps[k + 1].g - steps[k].g)
  BY <1>2, <1>3, <1>4
<1>6. 1 \in 1 .. Len(p) /\ Len(p) \in 1 .. Len(p)
  BY <1>2
<1> HIDE DEF steps
<1> QED
  BY <1>1, <1>3, <1>5, <1>6
     DEF Promise!IsAnswer, p, steps, Reply, Query, Answered

(* An exhaustive search that fails has cut the target off.                 *)
LEMMA FailureIsCutOff ==
  ASSUME Inv, Answered, StartExists, sol.s_node = Null, FC = "until_exhaustion"
  PROVE  Promise!CutOff(Query)
<1>1. Separates(Generated, pi.start, pi.target)
  BY FailureSeparates DEF FailureMeansUnreachable
<1>2. Generated \in SUBSET Node
  BY DEF Generated
<1> QED
  BY <1>1, <1>2 DEF Promise!CutOff, Separates, Query

LEMMA AnswersRight ==
  ASSUME Inv
  PROVE  AnswerIsRight
  BY PathIsAnswer, FailureIsCutOff DEF AnswerIsRight

LEMMA PromiseInit ==
  ASSUME Init
  PROVE  Promise!Init
  BY DEF Init, Unused, EmptySolution, Promise!Init, Promise!NoAnswer

(* A call is a query.                                                      *)
LEMMA GetPathAsks ==
  ASSUME Inv, NEW op \in IdOps, NEW q \in Queries, NEW p \in Params,
         GetPath(op, q[1], q[2], p)
  PROVE  Promise!Next
<1>1. q[1] \in Node \cup {Null} /\ q[2] \in Node
  BY CallsAssumption
<1>2. /\ pc = "idle" /\ map' = map
      /\ pi'.start = q[1] /\ pi'.target = q[2]
      /\ IF q[1] # Null /\ q[1] \in Startable[map]
         THEN pc' = "loop"
         ELSE pc' = "idle" /\ sol'.s_node = Null
  BY DEF GetPath, EmptySolution
<1>3. Reply' = [path |-> <<>>, cost |-> Null]
  BY <1>2 DEF Reply
<1>4. Promise!Ask(q[1], q[2])
  BY <1>2, <1>3 DEF Promise!Ask, Promise!NoAnswer, Reply
<1> QED
  BY <1>1, <1>4 DEF Promise!Next

(* Every other step is an answer when it ends the call, and not seen       *)
(* otherwise.                                                              *)
LEMMA StepAnswers ==
  ASSUME Inv, AnswerIsRight', Step
  PROVE  Promise!Next \/ UNCHANGED Promise!avars
<1>1. /\ pc # "idle" /\ map' = map /\ pi' = pi /\ calls' = calls
      /\ pc' = "idle" => Stop \/ Extract
  BY DEF Step, Expand, SuccessorStep, Generate, Prune, Decrease, Reopen,
       Dominated, AtSuccessor, EndExpansion, Stop, Extract
<1>2. StartExists /\ calls > 0
  BY <1>1 DEF Inv, TypeInv, CallOK, SearchInv, StartIsRoot
<1>3. Reply = [path |-> <<>>, cost |-> Null]
  BY <1>1 DEF Reply
<1>4. CASE pc' # "idle"
  <2>1. Reply' = Reply
    BY <1>3, <1>4 DEF Reply
  <2> QED
    BY <1>1, <1>4, <2>1 DEF Promise!avars, Reply
<1>5. CASE pc' = "idle"
  <2>1. Answered' /\ StartExists'
    BY <1>1, <1>2, <1>5 DEF Answered, StartExists
  <2>2. CASE sol'.s_node = Null
    <3>1. Reply' = [path |-> <<>>, cost |-> Null]
      BY <2>2 DEF Reply
    <3>2. FC = "until_exhaustion" => Promise!CutOff(Query)
      BY <1>1, <2>1, <2>2 DEF AnswerIsRight, Promise!CutOff, Query
    <3>3. Promise!Answer
      BY <1>1, <1>5, <3>1, <3>2
         DEF Promise!Answer, Promise!NoAnswer, Reply, Query
    <3> QED
      BY <3>3 DEF Promise!Next
  <2>3. CASE sol'.s_node # Null
    <3>1. Promise!IsAnswer(Reply', Query)
      <4> HIDE DEF Reply
      <4> QED
        BY <1>1, <2>1, <2>3
           DEF AnswerIsRight, Promise!IsAnswer, Promise!Edge, Query
    <3>2. Promise!Answer
      BY <1>1, <1>5, <3>1 DEF Promise!Answer, Reply, Query
    <3> QED
      BY <3>2 DEF Promise!Next
  <2> QED
    BY <2>2, <2>3
<1> QED
  BY <1>4, <1>5

LEMMA PromiseKept ==
  ASSUME FreshIds
  PROVE  Init /\ [][Next]_vars => KeepsPromise
<1>1. Init => Inv /\ Promise!Init
  BY TypeInit, InitInv, PromiseInit DEF Inv
<1>2. Inv /\ [Next]_vars => Inv'
  BY TypeStep, InvStep DEF Inv
<1>3. Inv => AnswerIsRight
  BY AnswersRight
<1>4. Inv /\ AnswerIsRight' /\ [Next]_vars => [Promise!Next]_(Promise!avars)
  <2> SUFFICES ASSUME Inv, AnswerIsRight', [Next]_vars
               PROVE  Promise!Next \/ UNCHANGED Promise!avars
    OBVIOUS
  <2>1. CASE Call
    BY <2>1, GetPathAsks DEF Call
  <2>2. CASE Step
    BY <2>2, StepAnswers
  <2>3. CASE UNCHANGED vars
    BY <2>3 DEF vars, Promise!avars
  <2> QED
    BY <2>1, <2>2, <2>3 DEF Next
<1> QED
  BY <1>1, <1>2, <1>3, <1>4, PTL DEF KeepsPromise, Promise!Spec

-----------------------------------------------------------------------------
(* Theorems.                                                               *)

(* Every path that get_path returns is a path of the map from the start to *)
(* the target, visits no node twice and costs no more than is reported, in *)
(* the first call and after any number of calls.                           *)
THEOREM PathsAreReal ==
  ASSUME FreshIds
  PROVE  Spec => []PathIsReal
<1>1. AnswerInv => PathIsReal
  BY PathReal
<1> QED
  BY <1>1, AnswerInvariant, PTL DEF Spec

(* The search implements PathFinder, for every map, trait and parameter    *)
(* and any number of calls whose ids are their own.                        *)
THEOREM SearchKeepsPromise ==
  ASSUME FreshIds
  PROVE  Spec => KeepsPromise
  BY PromiseKept, PTL DEF Spec

-----------------------------------------------------------------------------
(* Paths and their costs.                                                  *)

\* The costs s of the beginnings of the path p.
Costs(m, p, s) ==
  /\ s[1] = 0
  /\ \A k \in 1 .. Len(p) - 1 :
       s[k + 1] = s[k] + Reference!EdgeCost(m, p[k], p[k + 1])

LEMMA EdgeCostFacts ==
  ASSUME NEW m \in Maps, NEW u \in Node, NEW v \in Node,
         Reference!EdgeCosts(m, u, v) # {}
  PROVE  /\ Reference!EdgeCost(m, u, v) \in Reference!EdgeCosts(m, u, v)
         /\ Reference!EdgeCost(m, u, v) \in Nat
         /\ \A c \in Reference!EdgeCosts(m, u, v) :
              c \in Nat /\ Reference!EdgeCost(m, u, v) <= c
<1>1. \A j \in DOMAIN Successors[m][u] : Successors[m][u][j] \in Edge
  <2>1. Successors[m][u] \in Seq(Edge)
    BY MapsAssumption
  <2> QED
    BY <2>1
<1>2. Reference!EdgeCosts(m, u, v) \subseteq Nat
  BY <1>1 DEF Reference!EdgeCosts, Edge
<1> QED
  BY <1>2, Minimum DEF Reference!EdgeCost

LEMMA CostsExist ==
  ASSUME NEW m, NEW p, Len(p) \in Nat \ {0}
  PROVE  \E s : Costs(m, p, s) /\ Reference!PathCost(m, p) = s[Len(p)]
  BY PathCostSums DEF Costs

\* There is one way to add up the costs.
LEMMA CostsUnique ==
  ASSUME NEW m, NEW p, NEW q, NEW s, NEW t, NEW n \in Nat,
         Costs(m, p, s), Costs(m, q, t), n <= Len(p), n <= Len(q),
         Len(p) \in Nat, Len(q) \in Nat,
         \A k \in 1 .. n : p[k] = q[k]
  PROVE  \A k \in 1 .. n : s[k] = t[k]
<1> DEFINE Holds == {k \in 1 .. n : s[k] = t[k]}
<1>1. CASE n = 0
  BY <1>1
<1>2. CASE n # 0
  <2>1. 1 \in Holds
    BY <1>2 DEF Costs
  <2>2. ASSUME NEW k \in 1 .. n - 1, k \in Holds
        PROVE  k + 1 \in Holds
    <3>1. k \in 1 .. Len(p) - 1 /\ k \in 1 .. Len(q) - 1 /\ k \in 1 .. n /\ k + 1 \in 1 .. n
      OBVIOUS
    <3> QED
      BY <2>2, <3>1 DEF Costs
  <2> HIDE DEF Holds
  <2>3. 1 .. n \subseteq Holds
    BY <2>1, <2>2, UpToLast
  <2> QED
    BY <2>3 DEF Holds
<1> QED
  BY <1>1, <1>2

LEMMA PathCostIs ==
  ASSUME NEW m, NEW p, NEW s, Costs(m, p, s), Len(p) \in Nat \ {0}
  PROVE  Reference!PathCost(m, p) = s[Len(p)]
<1>1. PICK t : Costs(m, p, t) /\ Reference!PathCost(m, p) = t[Len(p)]
  BY CostsExist
<1>2. \A k \in 1 .. Len(p) : s[k] = t[k]
  BY <1>1, CostsUnique
<1> QED
  BY <1>1, <1>2

\* The costs along a path grow, and there are no others.
LEMMA CostsGrow ==
  ASSUME NEW m \in Maps, NEW p \in Seq(Node), NEW s, NEW a, NEW b,
         Costs(m, p, s), Reference!IsPath(m, p, a, b)
  PROVE  /\ Len(p) \in Nat \ {0} /\ a \in Node /\ b \in Node
         /\ \A k \in 1 .. Len(p) : s[k] \in Nat /\ p[k] \in Node
         /\ \A k \in 1 .. Len(p) - 1 :
              /\ Reference!EdgeCost(m, p[k], p[k + 1]) \in Nat
              /\ Reference!EdgeCost(m, p[k], p[k + 1])
                   \in Reference!EdgeCosts(m, p[k], p[k + 1])
              /\ s[k + 1] = s[k] + Reference!EdgeCost(m, p[k], p[k + 1])
<1> DEFINE n == Len(p)
           Holds == {k \in 1 .. n : s[k] \in Nat}
<1>1. n \in Nat \ {0} /\ \A k \in 1 .. n : p[k] \in Node
  BY DEF Reference!IsPath
<1>2. a \in Node /\ b \in Node
  BY <1>1 DEF Reference!IsPath
<1>3. \A k \in 1 .. n - 1 :
        /\ Reference!EdgeCost(m, p[k], p[k + 1]) \in Nat
        /\ Reference!EdgeCost(m, p[k], p[k + 1])
             \in Reference!EdgeCosts(m, p[k], p[k + 1])
        /\ s[k + 1] = s[k] + Reference!EdgeCost(m, p[k], p[k + 1])
  <2> TAKE k \in 1 .. n - 1
  <2>1. p[k] \in Node /\ p[k + 1] \in Node
    BY <1>1
  <2>2. Reference!EdgeCosts(m, p[k], p[k + 1]) # {}
    BY DEF Reference!IsPath
  <2> QED
    BY <2>1, <2>2, EdgeCostFacts DEF Costs
<1>4. 1 \in Holds
  BY <1>1 DEF Costs
<1>5. ASSUME NEW k \in 1 .. n - 1, k \in Holds
      PROVE  k + 1 \in Holds
  BY <1>1, <1>3, <1>5
<1> HIDE DEF Holds
<1>6. 1 .. n \subseteq Holds
  BY <1>1, <1>4, <1>5, UpToLast
<1> QED
  BY <1>1, <1>2, <1>3, <1>6 DEF Holds

-----------------------------------------------------------------------------
(* The reference.                                                          *)

NextRound(succ, x) == Reference!Cheapest(Reference!Reached(succ, x))

\* The first n rounds r of the reference from the node s.
Rounds(succ, s, r, n) ==
  /\ r[1] = {<<s, 0>>}
  /\ \A k \in 1 .. n - 1 : r[k + 1] = NextRound(succ, r[k])

\* The same as a function of the number of the round.
RoundFunction(r, succ, first, n) ==
  r = [k \in 1 .. n |-> IF k = 1 THEN first ELSE NextRound(succ, r[k - 1])]

LEMMA RoundFunctionStep ==
  ASSUME NEW succ, NEW first, NEW r, NEW n, n \in Nat, n # 0, RoundFunction(r, succ, first, n)
  PROVE  /\ r[1] = first
         /\ \A k \in 1 .. n - 1 : r[k + 1] = NextRound(succ, r[k])
<1>1. r[1] = first
  BY DEF RoundFunction
<1>2. \A k \in 1 .. n : k # 1 => r[k] = NextRound(succ, r[k - 1])
  BY Zenon DEF RoundFunction
<1>3. ASSUME NEW k \in 1 .. n - 1
      PROVE  r[k + 1] = NextRound(succ, r[k])
  <2>1. PICK j \in 1 .. n : j = k + 1
    OBVIOUS
  <2>2. j # 1 /\ j - 1 = k
    BY <2>1
  <2>3. r[j] = NextRound(succ, r[j - 1])
    BY <1>2, <2>2, Zenon
  <2> QED
    BY <2>1, <2>2, <2>3, Zenon
<1> QED
  BY <1>1, <1>2, <1>3

LEMMA RoundsUpTo ==
  ASSUME NEW succ, NEW first, NEW n \in Nat, n # 0
  PROVE  \E r : RoundFunction(r, succ, first, n)
<1> DEFINE Holds == {k \in Nat : \E r : RoundFunction(r, succ, first, k)}
<1>1. 1 \in Holds
  <2>1. RoundFunction([k \in 1 .. 1 |-> first], succ, first, 1)
    BY DEF RoundFunction
  <2> QED
    BY <2>1
<1> HIDE DEF Holds
<1>2. ASSUME NEW k \in 1 .. n - 1, k \in Holds
      PROVE  k + 1 \in Holds
  <2>1. PICK r : RoundFunction(r, succ, first, k)
    BY <1>2 DEF Holds
  <2>2. k \in Nat /\ k # 0
    OBVIOUS
  <2>3. r[1] = first /\ \A j \in 1 .. k : j # 1 => r[j] = NextRound(succ, r[j - 1])
    <3>1. r[1] = first
      BY <2>1, <2>2 DEF RoundFunction
    <3>2. \A j \in 1 .. k : j # 1 => r[j] = NextRound(succ, r[j - 1])
      BY <2>1, Zenon DEF RoundFunction
    <3> QED
      BY <3>1, <3>2, Zenon
  <2> DEFINE t == [j \in 1 .. k + 1 |-> IF j = k + 1 THEN NextRound(succ, r[k]) ELSE r[j]]
  <2>4. /\ t = [j \in 1 .. k + 1 |-> t[j]]
        /\ t[k + 1] = NextRound(succ, r[k]) /\ \A j \in 1 .. k : t[j] = r[j]
    OBVIOUS
  <2> HIDE DEF t
  <2>5. ASSUME NEW j \in 1 .. k + 1
        PROVE  t[j] = IF j = 1 THEN first ELSE NextRound(succ, t[j - 1])
    <3>1. 1 \in 1 .. k /\ k + 1 # 1
      OBVIOUS
    <3>2. CASE j = 1
      BY <2>3, <2>4, <3>1, <3>2, Zenon
    <3>3. CASE j # 1
      <4>1. j - 1 \in 1 .. k
        BY <3>3
      <4>2. CASE j = k + 1
        <5>1. j - 1 = k
          BY <4>2
        <5> QED
          BY <2>4, <3>3, <4>1, <4>2, <5>1, Zenon
      <4>3. CASE j # k + 1
        <5>1. j \in 1 .. k
          BY <4>3
        <5> QED
          BY <2>3, <2>4, <3>3, <4>1, <5>1, Zenon
      <4> QED
        BY <4>2, <4>3
    <3> QED
      BY <3>2, <3>3
  <2>6. RoundFunction(t, succ, first, k + 1)
    BY <2>4, <2>5, Zenon DEF RoundFunction
  <2> QED
    BY <2>6 DEF Holds
<1>3. n \in Holds
  <2>1. 1 .. n \subseteq Holds
    BY <1>1, <1>2, UpToLast
  <2> QED
    BY <2>1
<1> QED
  BY <1>3 DEF Holds

LEMMA RoundsOfAny ==
  ASSUME NEW succ, NEW s, NEW n \in Nat, n # 0
  PROVE  LET r == CHOOSE t : RoundFunction(t, succ, {<<s, 0>>}, n)
         IN  RoundFunction(r, succ, {<<s, 0>>}, n) /\ Rounds(succ, s, r, n)
<1> DEFINE first == {<<s, 0>>}
           r == CHOOSE t : RoundFunction(t, succ, first, n)
<1>1. \E t : RoundFunction(t, succ, first, n)
  <2> HIDE DEF first
  <2> QED
    BY RoundsUpTo
<1>2. RoundFunction(r, succ, first, n)
  BY <1>1, Zenon
<1>3. r[1] = first /\ \A k \in 1 .. n - 1 : r[k + 1] = NextRound(succ, r[k])
  <2> HIDE DEF first, r
  <2> QED
    BY <1>2, RoundFunctionStep
<1> QED
  BY <1>2, <1>3 DEF Rounds

LEMMA RoundsExist ==
  ASSUME NEW m, NEW s, Cardinality(Node) \in Nat, Cardinality(Node) # 0
  PROVE  \E r : /\ Rounds(Successors[m], s, r, Cardinality(Node))
                /\ Reference!ShortestFrom(m, s) = r[Cardinality(Node)]
<1> DEFINE n == Cardinality(Node)
           first == {<<s, 0>>}
           r == CHOOSE t : RoundFunction(t, Successors[m], first, n)
<1>1. Rounds(Successors[m], s, r, n)
  BY RoundsOfAny
<1>2. Reference!ShortestFrom(m, s) = r[n]
  <2>1. Reference!Cardinality(Node) = Cardinality(Node)
    BY DEF Cardinality, Reference!Cardinality
  <2> QED
    BY <2>1, Zenon DEF Reference!ShortestFrom, RoundFunction, NextRound
<1> QED
  BY <1>1, <1>2

\* Pairs <<v, c>> with a path from s to v that costs no more than c.
Walked(m, s) ==
  {x \in Node \X Nat :
     \E p \in Seq(Node) : \E q :
       /\ Reference!IsPath(m, p, s, x[1])
       /\ Costs(m, p, q)
       /\ q[Len(p)] <= x[2]}

\* A path goes on along an edge.
LEMMA WalkedOn ==
  ASSUME NEW m \in Maps, NEW s, NEW x \in Walked(m, s),
         NEW k \in DOMAIN Successors[m][x[1]]
  PROVE  <<Successors[m][x[1]][k].node, x[2] + Successors[m][x[1]][k].cost>>
           \in Walked(m, s)
<1> DEFINE e == Successors[m][x[1]][k]
<1>p. PICK p \in Seq(Node) : \E q :
        /\ Reference!IsPath(m, p, s, x[1])
        /\ Costs(m, p, q)
        /\ q[Len(p)] <= x[2]
  BY DEF Walked
<1>1. PICK q :
        /\ Reference!IsPath(m, p, s, x[1])
        /\ Costs(m, p, q)
        /\ q[Len(p)] <= x[2]
  BY <1>p
<1>2. x[1] \in Node /\ x[2] \in Nat
  BY DEF Walked
<1>3. e.node \in Node /\ e.cost \in Nat
  <2>1. Successors[m][x[1]] \in Seq(Edge)
    BY <1>2, MapsAssumption
  <2>2. e \in Edge
    BY <2>1
  <2> QED
    BY <2>2 DEF Edge
<1>4. e.cost \in Reference!EdgeCosts(m, x[1], e.node)
  BY DEF Reference!EdgeCosts
<1>5. /\ Reference!EdgeCost(m, x[1], e.node) \in Nat
      /\ Reference!EdgeCost(m, x[1], e.node) <= e.cost
  BY <1>2, <1>3, <1>4, EdgeCostFacts
<1>6. /\ Len(p) \in Nat \ {0} /\ p[Len(p)] = x[1] /\ p[1] = s
      /\ \A j \in 1 .. Len(p) : q[j] \in Nat
  <2>1. Len(p) \in Nat \ {0} /\ \A j \in 1 .. Len(p) : q[j] \in Nat
    BY <1>1, CostsGrow
  <2> QED
    BY <1>1, <2>1 DEF Reference!IsPath
<1> HIDE DEF e
<1> DEFINE n == Len(p)
           p2 == Append(p, e.node)
           q2 == [j \in 1 .. n + 1 |->
                    IF j <= n THEN q[j]
                    ELSE q[n] + Reference!EdgeCost(m, x[1], e.node)]
<1>7. /\ p2 \in Seq(Node) /\ Len(p2) = n + 1 /\ p2[n + 1] = e.node
      /\ \A j \in 1 .. n : p2[j] = p[j]
  BY <1>3, <1>6
<1>8. /\ \A j \in 1 .. n : q2[j] = q[j]
      /\ q2[n + 1] = q[n] + Reference!EdgeCost(m, x[1], e.node)
  BY <1>6
<1> HIDE DEF p2, q2
<1>9. Reference!IsPath(m, p2, s, e.node)
  <2>1. ASSUME NEW j \in 1 .. n
        PROVE  Reference!EdgeCosts(m, p2[j], p2[j + 1]) # {}
    <3>1. CASE j = n
      BY <1>4, <1>6, <1>7, <3>1
    <3>2. CASE j # n
      <4>1. j \in 1 .. n - 1 /\ j + 1 \in 1 .. n
        BY <1>6, <3>2
      <4>2. Reference!EdgeCosts(m, p[j], p[j + 1]) # {}
        BY <1>1, <4>1 DEF Reference!IsPath
      <4> QED
        BY <1>7, <4>1, <4>2
    <3> QED
      BY <3>1, <3>2
  <2>2. n + 1 - 1 = n /\ 1 \in 1 .. n /\ p2 # <<>>
    BY <1>6, <1>7
  <2> QED
    BY <1>6, <1>7, <2>1, <2>2 DEF Reference!IsPath
<1>10. Costs(m, p2, q2)
  <2>1. ASSUME NEW j \in 1 .. n
        PROVE  q2[j + 1] = q2[j] + Reference!EdgeCost(m, p2[j], p2[j + 1])
    <3>1. CASE j = n
      BY <1>6, <1>7, <1>8, <3>1
    <3>2. CASE j # n
      <4>1. j \in 1 .. n - 1 /\ j + 1 \in 1 .. n
        BY <1>6, <3>2
      <4>2. q[j + 1] = q[j] + Reference!EdgeCost(m, p[j], p[j + 1])
        BY <1>1, <4>1 DEF Costs
      <4> QED
        BY <1>7, <1>8, <4>1, <4>2
    <3> QED
      BY <3>1, <3>2
  <2>2. n + 1 - 1 = n /\ 1 \in 1 .. n /\ q2[1] = 0
    BY <1>1, <1>6, <1>8 DEF Costs
  <2> QED
    BY <1>7, <2>1, <2>2 DEF Costs
<1>11. q2[Len(p2)] <= x[2] + e.cost
  <2>1. n \in 1 .. n /\ q[n] \in Nat
    BY <1>6
  <2> QED
    BY <1>1, <1>2, <1>3, <1>5, <1>7, <1>8, <2>1
<1>12. x[2] + e.cost \in Nat
  BY <1>2, <1>3
<1>13. <<e.node, x[2] + e.cost>> \in Walked(m, s)
  BY <1>3, <1>7, <1>9, <1>10, <1>11, <1>12 DEF Walked
<1> QED
  BY <1>13 DEF e

LEMMA CheapestAreIn ==
  ASSUME NEW N, NEW r, r \subseteq N \X Nat
  PROVE  Reference!Cheapest(r) \subseteq r
<1> SUFFICES ASSUME NEW x \in Reference!Cheapest(r)
             PROVE  x \in r
  OBVIOUS
<1>1. PICK n \in {y[1] : y \in r} :
        x = <<n, Reference!Min({y[2] : y \in {z \in r : z[1] = n}})>>
  BY DEF Reference!Cheapest
<1> DEFINE T == {y[2] : y \in {z \in r : z[1] = n}}
<1>2. T \subseteq Nat /\ T # {}
  OBVIOUS
<1>3. Reference!Min(T) \in T
  <2> HIDE DEF T
  <2> QED
    BY <1>2, Minimum
<1>4. PICK y \in r : y[1] = n /\ y[2] = Reference!Min(T)
  BY <1>3
<1>5. y = <<y[1], y[2]>>
  OBVIOUS
<1> QED
  BY <1>1, <1>4, <1>5

\* A set of pairs <<node, cost>> that no edge leaves.
ClosedUnder(succ, X) ==
  \A x \in X : \A k \in DOMAIN succ[x[1]] :
    <<succ[x[1]][k].node, x[2] + succ[x[1]][k].cost>> \in X

\* The rounds do not leave such a set.
LEMMA RoundsStay ==
  ASSUME NEW succ, NEW s, NEW n \in Nat, NEW r, Rounds(succ, s, r, n),
         NEW N, NEW X, X \subseteq N \X Nat, <<s, 0>> \in X, ClosedUnder(succ, X)
  PROVE  \A k \in 1 .. n : r[k] \subseteq X
<1> DEFINE Holds == {k \in Nat : r[k] \subseteq X}
<1>1. 1 \in Holds
  BY DEF Rounds
<1>2. ASSUME NEW k \in 1 .. n - 1, k \in Holds
      PROVE  k + 1 \in Holds
  <2> DEFINE x == Reference!Reached(succ, r[k])
  <2>1. x \subseteq X
    <3>1. r[k] \subseteq X
      BY <1>2
    <3> QED
      BY <3>1 DEF Reference!Reached, ClosedUnder
  <2>2. Reference!Cheapest(x) \subseteq x
    <3>1. x \subseteq N \X Nat
      BY <2>1
    <3> HIDE DEF x
    <3> QED
      BY <3>1, CheapestAreIn
  <2>3. r[k + 1] = Reference!Cheapest(x)
    BY DEF Rounds, NextRound
  <2> QED
    BY <2>1, <2>2, <2>3
<1> HIDE DEF Holds
<1>3. 1 .. n \subseteq Holds
  BY <1>1, <1>2, UpToLast
<1> QED
  BY <1>3 DEF Holds

LEMMA WalkedIsClosed ==
  ASSUME NEW m \in Maps, NEW s \in Node
  PROVE  /\ Walked(m, s) \subseteq Node \X Nat /\ <<s, 0>> \in Walked(m, s)
         /\ ClosedUnder(Successors[m], Walked(m, s))
<1>1. <<s, 0>> \in Walked(m, s)
  <2> DEFINE p == <<s>>
             q == [k \in 1 .. 1 |-> 0]
  <2>1. Reference!IsPath(m, p, s, s) /\ Costs(m, p, q) /\ q[Len(p)] = 0
    BY DEF Reference!IsPath, Costs
  <2> QED
    BY <2>1 DEF Walked
<1>2. ClosedUnder(Successors[m], Walked(m, s))
  BY WalkedOn DEF ClosedUnder
<1>3. Walked(m, s) \subseteq Node \X Nat
  BY DEF Walked
<1> QED
  BY <1>1, <1>2, <1>3

(* What a round of the reference says can be reached can be reached, at    *)
(* that cost.                                                              *)
LEMMA ReferenceIsWalked ==
  ASSUME NEW m \in Maps, NEW s \in Node, IsFiniteSet(Node)
  PROVE  Reference!ShortestFrom(m, s) \subseteq Walked(m, s)
<1> DEFINE n == Cardinality(Node)
<1>1. n \in Nat /\ n # 0
  BY FS_CardinalityType, FS_EmptySet
<1>2. PICK r : Rounds(Successors[m], s, r, n) /\ Reference!ShortestFrom(m, s) = r[n]
  BY <1>1, RoundsExist
<1>3. \A k \in 1 .. n : r[k] \subseteq Walked(m, s)
  <2> HIDE DEF n
  <2> QED
    BY <1>1, <1>2, WalkedIsClosed, RoundsStay
<1>4. n \in 1 .. n
  BY <1>1
<1> QED
  BY <1>2, <1>3, <1>4

-----------------------------------------------------------------------------
(* What an engine that reopens nodes keeps track of.                       *)

\* What the estimate adds to the g-value of n.
Weighted(n) == par.w * LowerBound[map][n][pi.target]

EstimatesKept == \A n \in Generated : node[n].f = node[n].g + Weighted(n)

\* A path that costs x or more is not better than the incumbent.
Beyond(x) == sol.sum # CostMax /\ sol.sum <= x

\* The k-th edge out of u leads to a node that is reached as well as by this
\* edge, or it leads to no better incumbent.
EdgeSeen(u, k) ==
  LET e == Successors[map][u][k] IN
  \/ e.node \in Generated /\ node[e.node].g <= node[u].g + e.cost
  \/ Beyond(node[u].g + e.cost + Weighted(e.node))

(* A generated node that is not in OPEN is closed and the edges out of it  *)
(* have been looked at, for the g-value it has now, or it was not worth    *)
(* pushing.                                                                *)
NothingLost ==
  \A u \in Generated \ open :
    IF node[u].expanded
    THEN \A k \in DOMAIN Successors[map][u] :
           (pc = "succ" /\ u = current => k < i) => EdgeSeen(u, k)
    ELSE Beyond(node[u].f)

\* The tests that end the loop hold until the next call.
EndsDone == (pc = "extract" \/ Answered) /\ pi.start \in Generated => Done

ReopenInv ==
  AnswerInv /\ EstimatesKept /\ NothingLost /\ EndsDone /\ par \in Params

LEMMA WeightedType ==
  ASSUME TypeInv, calls > 0, NEW n \in Node
  PROVE  Weighted(n) \in Nat
<1>1. LowerBound[map][n][pi.target] \in Nat /\ par.w \in Nat
  BY MapsAssumption DEF TypeInv, TypeOK, CallOK, Parameters
<1>2. \A w, lb \in Nat : w * lb \in Nat
  BY SMT
<1> QED
  BY <1>1, <1>2 DEF Weighted

LEMMA CostsOfGenerated ==
  ASSUME Inv, NEW n \in Generated
  PROVE  /\ n \in Node /\ calls > 0 /\ Weighted(n) \in Nat
         /\ node[n].g \in Nat /\ node[n].f \in Nat
         /\ node[n].f # CostMax /\ node[n].g # CostMax
<1>1. n \in Node /\ calls > 0 /\ node[n].g # CostMax
  BY DEF Generated, Inv, SearchInv, GeneratedHaveCosts, TypeInv, TypeOK
<1>2. node[n].g \in Nat /\ node[n].f \in Nat
  BY <1>1 DEF Inv, TypeInv, CostsOK
<1> QED
  BY <1>1, <1>2, WeightedType, MapsAssumption DEF Inv

\* An edge out of a generated node.
LEMMA EdgeOut ==
  ASSUME Inv, NEW u \in Generated, NEW k \in DOMAIN Successors[map][u]
  PROVE  /\ Successors[map][u][k].node \in Node
         /\ Successors[map][u][k].cost \in Nat
         /\ Weighted(Successors[map][u][k].node) \in Nat
         /\ k \in Nat \ {0} /\ k <= Len(Successors[map][u])
         /\ Len(Successors[map][u]) \in Nat
<1>1. u \in Node /\ calls > 0
  BY CostsOfGenerated
<1>2. Successors[map][u] \in Seq(Edge)
  BY <1>1, MapsAssumption DEF Inv, TypeInv, TypeOK
<1>3. Successors[map][u][k] \in Edge /\ Len(Successors[map][u]) \in Nat
      /\ k \in 1 .. Len(Successors[map][u])
  BY <1>2
<1>4. Successors[map][u][k].node \in Node /\ Successors[map][u][k].cost \in Nat
  BY <1>3 DEF Edge
<1> QED
  BY <1>1, <1>3, <1>4, WeightedType DEF Inv

\* The incumbent gets better if it changes.
LEMMA SumFalls ==
  ASSUME Inv, Generate \/ Prune
  PROVE  \/ sol'.sum = sol.sum
         \/ sol'.sum \in Nat /\ (sol.sum # CostMax => sol'.sum < sol.sum)
<1>1. sol' = NewSol /\ AtSuccessor
  BY DEF Generate, Prune
<1>2. GVal \in Nat /\ sol \in Solution
  BY <1>1, SuccessorType DEF Inv, TypeInv, TypeOK
<1>3. CASE sol' = sol
  BY <1>3
<1>4. CASE sol' = [sol EXCEPT !.s_node = Child, !.sum = GVal] /\ Lt(GVal, sol.sum)
  BY <1>2, <1>4 DEF Lt, Solution
<1> QED
  BY <1>1, <1>3, <1>4 DEF NewSol, Incumbent

\* What a step within a call leaves of what was known.
LEMMA SeenKept ==
  ASSUME Inv, UNCHANGED <<map, pi, par>>, Generated \subseteq Generated',
         \A n \in Generated : node'[n].g \in Nat /\ node'[n].g <= node[n].g,
         \/ sol'.sum = sol.sum
         \/ sol'.sum \in Nat /\ (sol.sum # CostMax => sol'.sum < sol.sum),
         NEW u \in Generated, node'[u].g = node[u].g
  PROVE  /\ \A k \in DOMAIN Successors[map][u] : EdgeSeen(u, k) => EdgeSeen(u, k)'
         /\ Beyond(node[u].f) /\ node'[u].f = node[u].f => Beyond(node[u].f)'
<1>1. \A n : Weighted(n)' = Weighted(n)
  BY DEF Weighted
<1>2. sol.sum \in Nat \cup {CostMax} /\ CostMax \notin Nat
  BY MapsAssumption DEF Inv, TypeInv, TypeOK, Solution
<1>3. ASSUME NEW k \in DOMAIN Successors[map][u], EdgeSeen(u, k)
      PROVE  EdgeSeen(u, k)'
  <2> DEFINE v == Successors[map][u][k].node
             c == Successors[map][u][k].cost
  <2>1. v \in Node /\ c \in Nat /\ Weighted(v) \in Nat /\ node[u].g \in Nat
    BY EdgeOut, CostsOfGenerated
  <2>2. CASE v \in Generated /\ node[v].g <= node[u].g + c
    <3>1. node[v].g \in Nat
      BY <2>2, CostsOfGenerated
    <3>2. v \in Generated' /\ node'[v].g <= node'[u].g + c
      BY <2>1, <2>2, <3>1
    <3> QED
      BY <3>2 DEF EdgeSeen
  <2>3. CASE Beyond(node[u].g + c + Weighted(v))
    <3>1. Beyond(node[u].g + c + Weighted(v))'
      <4>1. node[u].g + c + Weighted(v) \in Nat
        BY <2>1
      <4>2. (node[u].g + c + Weighted(v))' = node[u].g + c + Weighted(v)
        BY <1>1
      <4> QED
        BY <1>2, <2>3, <4>1, <4>2 DEF Beyond
    <3> QED
      BY <3>1 DEF EdgeSeen
  <2> QED
    BY <1>3, <2>2, <2>3 DEF EdgeSeen
<1>4. node[u].f \in Nat
  BY CostsOfGenerated
<1> QED
  BY <1>2, <1>3, <1>4 DEF Beyond

(* The estimates in the f-values stay the estimates of the nodes.          *)
LEMMA EstimatesStep ==
  ASSUME Inv, EstimatesKept, FreshIds, [Next]_vars
  PROVE  EstimatesKept'
<1>1. CASE Call
  <2>1. CASE Generated' = {}
    BY <2>1 DEF EstimatesKept
  <2>2. CASE /\ Generated' = {pi'.start}
             /\ node'[pi'.start] = Initialised(pi', par', pi'.start, Null, 0)
    <3>1. map' = map
      BY <1>1, CallFacts
    <3>2. /\ node'[pi'.start].g = 0
          /\ node'[pi'.start].f =
               0 + par'.w * LowerBound[map][pi'.start][pi'.target]
      BY <2>2 DEF Initialised
    <3> QED
      BY <2>2, <3>1, <3>2 DEF EstimatesKept, Weighted
  <2> QED
    BY <1>1, <2>1, <2>2, CallFacts
<1>2. ASSUME NEW n \in Node, Expand(n)
      PROVE  EstimatesKept'
  <2>1. /\ Generated' = Generated /\ UNCHANGED <<map, pi, par>>
        /\ \A m \in Node : node'[m].g = node[m].g /\ node'[m].f = node[m].f
    BY <1>2, ExpandFacts
  <2> QED
    BY <2>1, CostsOfGenerated DEF EstimatesKept, Weighted
<1>3. CASE Generate \/ Prune
  <2>1. /\ Generated' = Generated \cup {Child} /\ node'[Child] = NewNode
        /\ \A m \in Node : m # Child => node'[m] = node[m]
        /\ UNCHANGED <<map, pi, par>>
    BY <1>3, NewFacts
  <2>2. NewNode.f = NewNode.g + Weighted(Child)
    BY DEF NewNode, Initialised, Weighted
  <2> HIDE DEF NewNode
  <2>3. \A n : Weighted(n)' = Weighted(n)
    BY <2>1 DEF Weighted
  <2> HIDE DEF Weighted
  <2> QED
    BY <2>1, <2>2, <2>3, CostsOfGenerated DEF EstimatesKept
<1>4. CASE Decrease \/ Reopen
  <2>1. /\ Child \in Generated /\ node'[Child] = Relaxed
        /\ \A m \in Node : m # Child => node'[m] = node[m]
        /\ Generated' = Generated /\ UNCHANGED <<map, pi, par>>
        /\ Relaxed.g = GVal /\ AtSuccessor
    BY <1>4, RelaxFacts DEF Decrease, Reopen
  <2>2. Relaxed.f = Relaxed.g + Weighted(Child)
    <3>1. /\ node[Child].f # CostMax /\ node[Child].f = node[Child].g + Weighted(Child)
          /\ node[Child].g \in Nat /\ Weighted(Child) \in Nat /\ GVal \in Nat
      BY <2>1, CostsOfGenerated, SuccessorType DEF EstimatesKept, Inv
    <3>2. RelaxedF = GVal + Weighted(Child)
      BY <3>1 DEF RelaxedF
    <3>3. Relaxed.f = RelaxedF
      <4>1. node[Child] \in NodeRecord
        BY <2>1, CostsOfGenerated DEF Inv, TypeInv, TypeOK
      <4> QED
        BY <3>1, <4>1 DEF Relaxed, NodeRecord
    <3> QED
      BY <2>1, <3>2, <3>3
  <2>3. \A n : Weighted(n)' = Weighted(n)
    BY <2>1 DEF Weighted
  <2> HIDE DEF Relaxed
  <2> QED
    BY <2>1, <2>2, <2>3, CostsOfGenerated DEF EstimatesKept
<1>5. CASE Dominated \/ EndExpansion \/ Stop \/ Extract \/ UNCHANGED vars
  <2>1. Generated' = Generated /\ UNCHANGED <<map, node, pi, par>>
    BY <1>5, OtherFacts
  <2> QED
    BY <2>1 DEF EstimatesKept, Weighted
<1> QED
  BY <1>1, <1>2, <1>3, <1>4, <1>5, Steps

\* The edge looked at leads to a node that is reached as well from now on.
LEMMA ReachedByEdge ==
  ASSUME TypeInv, i \in DOMAIN Succ, current \in Node, GVal \in Nat,
         UNCHANGED <<map, current>>,
         Child \in Generated', node'[Child].g = GVal,
         node'[current].g = node[current].g
  PROVE  \E e : e = i /\ EdgeSeen(current, e)'
<1>1. PICK e : e = i
  OBVIOUS
<1>2. /\ Child = Successors[map][current][e].node
      /\ GVal = node[current].g + Successors[map][current][e].cost
  BY <1>1 DEF Child, GVal, Succ
<1>3. /\ Child = Successors[map'][current'][e].node
      /\ GVal = node'[current'].g + Successors[map'][current'][e].cost
  BY <1>2
<1>4. node'[Child].g <= GVal
  OBVIOUS
<1>5. /\ Successors[map'][current'][e].node \in Generated'
      /\ node'[Successors[map'][current'][e].node].g
           <= node'[current'].g + Successors[map'][current'][e].cost
  BY <1>3, <1>4
<1> QED
  BY <1>1, <1>5 DEF EdgeSeen

LEMMA LostByExpand ==
  ASSUME Inv, NothingLost, NEW n \in Node, Expand(n)
  PROVE  NothingLost'
<1>1. /\ pc = "loop" /\ pc' = "succ" /\ n \in Generated /\ current' = n /\ i' = 1
      /\ open' = open \ {n} /\ Generated' = Generated
      /\ sol'.sum = sol.sum /\ UNCHANGED <<map, pi, par>>
      /\ \A m \in Node :
           /\ node'[m].g = node[m].g /\ node'[m].f = node[m].f
           /\ node'[m].expanded <=> (m = n \/ node[m].expanded)
  BY ExpandFacts
<1>2. \A m \in Generated : m \in Node /\ node'[m].g \in Nat /\ node'[m].g <= node[m].g
  BY <1>1, CostsOfGenerated
<1> SUFFICES ASSUME NEW u \in Generated \ open'
             PROVE  IF node'[u].expanded
                    THEN \A k \in DOMAIN Successors[map][u] :
                           (pc' = "succ" /\ u = current' => k < i') => EdgeSeen(u, k)'
                    ELSE Beyond(node[u].f)'
  BY <1>1 DEF NothingLost
<1>3. u \in Node /\ node'[u].g = node[u].g /\ node'[u].f = node[u].f
  BY <1>1, <1>2
<1>4. /\ \A k \in DOMAIN Successors[map][u] : EdgeSeen(u, k) => EdgeSeen(u, k)'
      /\ Beyond(node[u].f) => Beyond(node[u].f)'
  BY <1>1, <1>2, <1>3, SeenKept
<1>5. CASE u = n
  <2>1. \A k \in DOMAIN Successors[map][u] : ~(k < 1)
    BY EdgeOut
  <2> QED
    BY <1>1, <1>5, <2>1
<1>6. CASE u # n
  <2>1. u \in Generated \ open
    BY <1>1, <1>6
  <2> QED
    BY <1>1, <1>3, <1>4, <1>6, <2>1 DEF NothingLost
<1> QED
  BY <1>5, <1>6

\* Nodes other than the child of a step that looks at an edge.
LEMMA OthersSeen ==
  ASSUME Inv, NothingLost, NEW u \in Generated \ open,
         pc = "succ", UNCHANGED <<map, pi, par, pc, current>>, i' = i + 1,
         node'[u] = node[u], Generated \subseteq Generated',
         \A n \in Generated : node'[n].g \in Nat /\ node'[n].g <= node[n].g,
         \/ sol'.sum = sol.sum
         \/ sol'.sum \in Nat /\ (sol.sum # CostMax => sol'.sum < sol.sum),
         \E e : e = i /\ EdgeSeen(current, e)'
  PROVE  IF node'[u].expanded
         THEN \A k \in DOMAIN Successors[map][u] :
                (pc' = "succ" /\ u = current' => k < i') => EdgeSeen(u, k)'
         ELSE Beyond(node[u].f)'
<1>1. node'[u].g = node[u].g /\ node'[u].f = node[u].f
  OBVIOUS
<1>2. /\ \A k \in DOMAIN Successors[map][u] : EdgeSeen(u, k) => EdgeSeen(u, k)'
      /\ Beyond(node[u].f) => Beyond(node[u].f)'
  BY <1>1, SeenKept
<1>3. CASE node[u].expanded
  <2>1. ASSUME NEW k \in DOMAIN Successors[map][u], pc' = "succ" /\ u = current' => k < i'
        PROVE  EdgeSeen(u, k)'
    <3>1. CASE u = current /\ k = i
      <4>1. EdgeSeen(current, k)'
        BY <3>1
      <4> QED
        BY <3>1, <4>1
    <3>2. CASE ~(u = current /\ k = i)
      <4>1. k \in Nat /\ i \in Nat
        BY EdgeOut DEF Inv, TypeInv, TypeOK
      <4>2. pc = "succ" /\ u = current => k < i
        BY <2>1, <3>2, <4>1
      <4>3. EdgeSeen(u, k)
        BY <1>3, <4>2 DEF NothingLost
      <4> QED
        BY <1>2, <4>3
    <3> QED
      BY <3>1, <3>2
  <2> QED
    BY <1>3, <2>1
<1>4. CASE ~node[u].expanded
  BY <1>2, <1>4 DEF NothingLost
<1> QED
  BY <1>3, <1>4

LEMMA LostByNew ==
  ASSUME Inv, NothingLost, Generate \/ Prune
  PROVE  NothingLost'
<1>1. /\ pc = "succ" /\ current \in Generated /\ i \in DOMAIN Succ
      /\ Child \in Node /\ Child \notin Generated /\ current # Child
      /\ Generated' = Generated \cup {Child} /\ node'[Child] = NewNode
      /\ NewNode.g = GVal /\ ~NewNode.expanded
      /\ \A m \in Node : m # Child => node'[m] = node[m]
      /\ sol' = NewSol /\ i' = i + 1 /\ UNCHANGED <<map, pi, par, pc, current>>
  BY NewFacts
<1>2. AtSuccessor /\ IsNew
  BY DEF Generate, Prune
<1>3. GVal \in Nat
  BY <1>2, SuccessorType DEF Inv
<1> HIDE DEF NewNode, NewSol
<1>4. \A m \in Generated : /\ m \in Node /\ node'[m] = node[m] /\ node[m].g \in Nat
                           /\ node'[m].g \in Nat /\ node'[m].g <= node[m].g
  BY <1>1, CostsOfGenerated
<1>5. \E e : e = i /\ EdgeSeen(current, e)'
  BY <1>1, <1>3, <1>4, ReachedByEdge DEF Inv
<1> SUFFICES ASSUME NEW u \in Generated' \ open'
             PROVE  IF node'[u].expanded
                    THEN \A k \in DOMAIN Successors[map][u] :
                           (pc' = "succ" /\ u = current' => k < i') => EdgeSeen(u, k)'
                    ELSE Beyond(node[u].f)'
  BY <1>1 DEF NothingLost
<1>6. CASE u = Child
  <2>1. Prune
    <3>1. CASE Generate
      BY <1>6, <3>1 DEF Generate
    <3> QED
      BY <3>1
  <2>2. ~Lt(NewNode.f, sol'.sum)
    BY <1>1, <2>1 DEF Prune
  <2>3. NewNode.f \in Nat
    <3>1. pi \in Instance /\ pi.target \in Node /\ par \in Parameters
          /\ map \in Maps /\ current \in Node \cup {Null}
      BY <1>1 DEF Inv, TypeInv, TypeOK, CallOK
    <3> QED
      BY <1>1, <1>3, <3>1, InitialisedType DEF NewNode
  <2>4. sol'.sum \in Nat \cup {CostMax}
    <3>1. TypeInv'
      <4>1. SuccessorStep
        BY DEF SuccessorStep
      <4> QED
        BY <4>1, SuccessorStepType DEF Inv
    <3> QED
      BY <3>1 DEF TypeInv, TypeOK, Solution
  <2>5. Beyond(node[u].f)'
    BY <1>1, <1>6, <2>2, <2>3, <2>4, MapsAssumption DEF Beyond, Lt
  <2> QED
    BY <1>1, <1>6, <2>5
<1>7. CASE u # Child
  <2>1. u \in Generated \ open /\ node'[u] = node[u]
    <3>1. open \subseteq open'
      BY NewFacts
    <3> QED
      BY <1>1, <1>4, <1>7, <3>1
  <2> QED
    BY <1>1, <1>4, <1>5, <2>1, SumFalls, OthersSeen
<1> QED
  BY <1>6, <1>7

LEMMA LostByRelax ==
  ASSUME Inv, NothingLost, Decrease \/ Reopen, Child \in open'
  PROVE  NothingLost'
<1>1. /\ pc = "succ" /\ current \in Generated /\ i \in DOMAIN Succ
      /\ Child \in Generated /\ Child # current
      /\ node[Child].g \in Nat /\ GVal < node[Child].g
      /\ node'[Child] = Relaxed /\ Relaxed.g = GVal
      /\ \A m \in Node : m # Child => node'[m] = node[m]
      /\ Generated' = Generated /\ sol' = sol
      /\ open \subseteq open' /\ Child \in open'
      /\ i' = i + 1 /\ UNCHANGED <<map, pi, par, pc, current>>
  BY RelaxFacts
<1>2. GVal \in Nat
  BY SuccessorType DEF Inv, Decrease, Reopen
<1> HIDE DEF Relaxed
<1>3. \A m \in Generated : /\ m \in Node /\ node[m].g \in Nat
                           /\ node'[m].g \in Nat /\ node'[m].g <= node[m].g
  <2> TAKE m \in Generated
  <2>1. m \in Node /\ node[m].g \in Nat
    BY CostsOfGenerated
  <2> QED
    BY <1>1, <1>2, <2>1
<1>4. \E e : e = i /\ EdgeSeen(current, e)'
  BY <1>1, <1>2, <1>3, ReachedByEdge DEF Inv
<1> SUFFICES ASSUME NEW u \in Generated \ open'
             PROVE  IF node'[u].expanded
                    THEN \A k \in DOMAIN Successors[map][u] :
                           (pc' = "succ" /\ u = current' => k < i') => EdgeSeen(u, k)'
                    ELSE Beyond(node[u].f)'
  BY <1>1 DEF NothingLost
<1>5. u \in Generated \ open /\ node'[u] = node[u]
  BY <1>1, <1>3
<1> QED
  BY <1>1, <1>3, <1>4, <1>5, OthersSeen

(* An edge that is passed over leads to a node that is reached as well, or *)
(* nowhere near a better incumbent: a node that could be relaxed and is    *)
(* not has an f-value by this edge that is not below the incumbent.        *)
LEMMA LostByDominated ==
  ASSUME Inv, EstimatesKept, NothingLost, Dominated
  PROVE  NothingLost'
<1>1. /\ AtSuccessor /\ ~IsNew /\ ~CanRelax /\ i' = i + 1 /\ SuccessorStep
      /\ UNCHANGED <<map, node, open, pi, par, sol, calls, pc, current>>
  BY DEF Dominated, SuccessorStep
<1>2. /\ pc = "succ" /\ Child \in Node /\ current \in Generated /\ GVal \in Nat
      /\ Child \in Generated /\ i \in DOMAIN Succ
  BY <1>1, AtChild
<1>3. Generated' = Generated
  BY <1>1 DEF Generated
<1>4. EdgeSeen(current, i)
  <2>1. /\ Child = Successors[map][current][i].node
        /\ GVal = node[current].g + Successors[map][current][i].cost
    BY DEF Child, GVal, Succ
  <2>2. /\ node[Child].g \in Nat /\ node[Child].f # CostMax
        /\ node[Child].f = node[Child].g + Weighted(Child) /\ Weighted(Child) \in Nat
    BY <1>2, CostsOfGenerated DEF EstimatesKept
  <2>3. sol.sum \in Nat \cup {CostMax}
    BY DEF Inv, TypeInv, TypeOK, Solution
  <2>4. CASE node[Child].g <= GVal
    BY <1>2, <2>1, <2>4 DEF EdgeSeen
  <2>5. CASE GVal < node[Child].g
    <3>1. RelaxedF = GVal + Weighted(Child)
      BY <1>2, <2>2 DEF RelaxedF
    <3>2. ~Lt(GVal + Weighted(Child), sol.sum)
      BY <1>1, <1>2, <2>2, <2>5, <3>1, MapsAssumption DEF CanRelax, Lt
    <3>3. Beyond(GVal + Weighted(Child))
      BY <1>2, <2>2, <2>3, <3>2, MapsAssumption DEF Beyond, Lt
    <3> QED
      BY <2>1, <3>3 DEF EdgeSeen
  <2> QED
    BY <1>2, <2>2, <2>4, <2>5
<1>5. \A m \in Generated : node'[m].g \in Nat /\ node'[m].g <= node[m].g
  BY <1>1, CostsOfGenerated
<1>6. \E e : e = i /\ EdgeSeen(current, e)'
  <2>1. PICK e : e = i
    OBVIOUS
  <2>2. EdgeSeen(current, e)
    BY <1>4, <2>1
  <2>3. EdgeSeen(current, e)'
    BY <1>1, <1>3, <2>2 DEF EdgeSeen, Beyond, Weighted
  <2> QED
    BY <2>1, <2>3
<1> SUFFICES ASSUME NEW u \in Generated \ open
             PROVE  IF node'[u].expanded
                    THEN \A k \in DOMAIN Successors[map][u] :
                           (pc' = "succ" /\ u = current' => k < i') => EdgeSeen(u, k)'
                    ELSE Beyond(node[u].f)'
  BY <1>1, <1>3 DEF NothingLost
<1> QED
  BY <1>1, <1>2, <1>3, <1>5, <1>6, OthersSeen

LEMMA LostByOthers ==
  ASSUME Inv, NothingLost, EndExpansion \/ Stop \/ Extract \/ UNCHANGED vars
  PROVE  NothingLost'
<1>1. /\ UNCHANGED <<map, node, open, pi, par, calls>> /\ Generated' = Generated
      /\ sol'.sum = sol.sum
  BY OtherFacts
<1>2. \A n : Weighted(n)' = Weighted(n)
  BY <1>1 DEF Weighted
<1>3. ASSUME NEW u \in Generated \ open, node[u].expanded,
             NEW k \in DOMAIN Successors[map][u],
             pc' = "succ" /\ u = current' => k < i'
      PROVE  EdgeSeen(u, k)'
  <2>1. pc = "succ" /\ u = current => k < i
    <3>1. CASE EndExpansion
      <4>1. i > Len(Succ) /\ i \in Nat
        BY <3>1 DEF EndExpansion, Inv, TypeInv, TypeOK
      <4>2. k \in Nat /\ k <= Len(Successors[map][u]) /\ Len(Successors[map][u]) \in Nat
        BY EdgeOut
      <4> QED
        BY <4>1, <4>2 DEF Succ
    <3>2. CASE Stop \/ Extract
      BY <3>2 DEF Stop, Extract
    <3>3. CASE UNCHANGED vars
      BY <1>3, <3>3 DEF vars
    <3> QED
      BY <3>1, <3>2, <3>3
  <2>2. EdgeSeen(u, k)
    BY <1>3, <2>1 DEF NothingLost
  <2> QED
    BY <1>1, <1>2, <2>2 DEF EdgeSeen, Beyond
<1>4. ASSUME NEW u \in Generated \ open, ~node[u].expanded
      PROVE  Beyond(node[u].f)'
  BY <1>1, <1>4 DEF NothingLost, Beyond
<1> QED
  BY <1>1, <1>3, <1>4 DEF NothingLost

LEMMA EndsDoneStep ==
  ASSUME Inv, EndsDone, FreshIds, [Next]_vars
  PROVE  EndsDone'
<1>1. ASSUME UNCHANGED <<map, node, open, par>>, Done,
             sol'.sum = sol.sum, sol'.late = sol.late,
             sol'.nodes_expanded = sol.nodes_expanded
      PROVE  Done'
  BY <1>1 DEF Done, Best, Precedes, Feasible, Admissible, Lt
<1>2. UNCHANGED <<node, pi, calls>> => Generated' = Generated
  BY DEF Generated
<1>3. CASE Call
  <2>1. pc' = "loop" \/ (pc' = "idle" /\ Generated' = {})
    BY <1>3, CallFacts
  <2>2. CASE pc' = "loop"
    BY <2>2 DEF EndsDone, Answered
  <2>3. CASE Generated' = {}
    BY <2>3 DEF EndsDone
  <2> QED
    BY <2>1, <2>2, <2>3
<1>4. ASSUME NEW n \in Node, Expand(n)
      PROVE  EndsDone'
  BY <1>4 DEF EndsDone, Answered, Expand
<1>5. CASE Generate \/ Prune \/ Decrease \/ Reopen \/ Dominated \/ EndExpansion
  <2>1. pc' \in {"succ", "loop"}
    BY <1>5 DEF Generate, Prune, Decrease, Reopen, Dominated, EndExpansion, AtSuccessor
  <2> QED
    BY <2>1 DEF EndsDone, Answered
<1>6. CASE Stop
  <2>1. Done /\ UNCHANGED <<map, node, open, par, sol>>
    BY <1>6 DEF Stop
  <2> QED
    BY <1>1, <2>1 DEF EndsDone
<1>7. CASE Extract
  <2>1. /\ pc = "extract" /\ UNCHANGED <<map, node, open, par, pi, calls>>
        /\ sol' = [sol EXCEPT !.path = <<current>> \o @]
    BY <1>7 DEF Extract
  <2>2. /\ sol'.sum = sol.sum /\ sol'.late = sol.late
        /\ sol'.nodes_expanded = sol.nodes_expanded
    BY <2>1 DEF Inv, TypeInv, TypeOK, Solution
  <2> QED
    BY <1>1, <1>2, <2>1, <2>2 DEF EndsDone
<1>8. CASE UNCHANGED vars
  <2>1. UNCHANGED <<map, node, open, pi, par, sol, calls, pc>>
    BY <1>8 DEF vars
  <2> QED
    BY <1>1, <1>2, <2>1 DEF EndsDone, Answered
<1> QED
  BY <1>3, <1>4, <1>5, <1>6, <1>7, <1>8, Steps

LEMMA ReopenInvInit ==
  ASSUME Init
  PROVE  ReopenInv
<1>1. AnswerInv
  BY AnswerInvInit
<1>2. Generated = {} /\ pc = "idle" /\ calls = 0 /\ par \in Params
  BY CallsAssumption DEF Init, Unused, Generated
<1> QED
  BY <1>1, <1>2 DEF ReopenInv, EstimatesKept, NothingLost, EndsDone, Answered

LEMMA ReopenInvStep ==
  ASSUME ReopenInv, FreshIds, RP = "yes", [Next]_vars
  PROVE  ReopenInv'
<1>1. Inv /\ EstimatesKept /\ NothingLost /\ EndsDone
  BY DEF ReopenInv, AnswerInv
<1>2. NothingLost'
  <2>1. CASE Call
    <3>1. Generated' \subseteq open'
      BY <1>1, <2>1, CallFacts
    <3> QED
      BY <3>1 DEF NothingLost
  <2>2. CASE Dominated
    BY <1>1, <2>2, LostByDominated
  <2>3. CASE EndExpansion \/ Stop \/ Extract \/ UNCHANGED vars
    BY <1>1, <2>3, LostByOthers
  <2>4. CASE Decrease \/ Reopen
    <3>1. Child \in open'
      BY <1>1, <2>4, RelaxFacts, TraitsAssumption
    <3> QED
      BY <1>1, <2>4, <3>1, LostByRelax
  <2> QED
    BY <1>1, <2>1, <2>2, <2>3, <2>4, LostByExpand, LostByNew, Steps
<1>3. par' \in Params
  <2>1. CASE Call
    BY <2>1 DEF Call, GetPath
  <2>2. CASE Step
    <3>1. par' = par
      BY <2>2 DEF Step, SuccessorStep, Expand, Generate, Prune, Decrease, Reopen,
                  Dominated, EndExpansion, Stop, Extract
    <3> QED
      BY <3>1 DEF ReopenInv
  <2>3. CASE UNCHANGED vars
    BY <2>3 DEF ReopenInv, vars
  <2> QED
    BY <2>1, <2>2, <2>3 DEF Next
<1> QED
  BY <1>1, <1>2, <1>3, AnswerInvStep, EstimatesStep, EndsDoneStep DEF ReopenInv

LEMMA ReopenInvariant ==
  ASSUME FreshIds, RP = "yes"
  PROVE  Init /\ [][Next]_vars => []ReopenInv
<1>1. Init => ReopenInv
  BY ReopenInvInit
<1>2. ReopenInv /\ [Next]_vars => ReopenInv'
  BY ReopenInvStep
<1> QED
  BY <1>1, <1>2, PTL

-----------------------------------------------------------------------------
(* Estimates that are never too high.                                      *)

AdmissibleEstimates ==
  \A m \in Maps : \A n, t \in Node : \A p \in Seq(Node) :
    Reference!IsPath(m, p, n, t) => LowerBound[m][n][t] <= Reference!PathCost(m, p)

\* No node of a path is estimated to be farther from the end than it is.
LEMMA EstimateAlong ==
  ASSUME AdmissibleEstimates, NEW m \in Maps, NEW p \in Seq(Node), NEW s, NEW a, NEW b,
         Costs(m, p, s), Reference!IsPath(m, p, a, b), NEW k \in 1 .. Len(p)
  PROVE  s[k] + LowerBound[m][p[k]][b] <= s[Len(p)]
<1> DEFINE n == Len(p)
<1>1. /\ n \in Nat \ {0} /\ a \in Node /\ b \in Node
      /\ \A j \in 1 .. n : s[j] \in Nat /\ p[j] \in Node
      /\ \A j \in 1 .. n - 1 :
           /\ Reference!EdgeCost(m, p[j], p[j + 1]) \in Nat
           /\ Reference!EdgeCosts(m, p[j], p[j + 1]) # {}
           /\ s[j + 1] = s[j] + Reference!EdgeCost(m, p[j], p[j + 1])
  BY CostsGrow, ZenonT(30)
<1>2. p[n] = b
  BY DEF Reference!IsPath
<1> HIDE DEF n
<1>3. PICK l \in Nat \ {0} : l = n - k + 1
  <2>1. n - k + 1 \in Nat \ {0}
    BY <1>1 DEF n
  <2> QED
    BY <2>1
<1> DEFINE p2 == [j \in 1 .. l |-> p[j + k - 1]]
           s2 == [j \in 1 .. l |-> s[j + k - 1] - s[k]]
<1>4. \A j \in 1 .. l : j + k - 1 \in 1 .. n
  BY <1>1, <1>3 DEF n
<1>5. /\ p2 \in Seq(Node) /\ Len(p2) = l
      /\ \A j \in 1 .. l : p2[j] = p[j + k - 1] /\ s2[j] = s[j + k - 1] - s[k]
  <2>1. \A j \in 1 .. l : p[j + k - 1] \in Node
    BY <1>1, <1>4
  <2> QED
    BY <1>3, <2>1
<1> HIDE DEF p2, s2
<1>6. /\ 1 \in 1 .. l /\ l \in 1 .. l /\ 1 + k - 1 = k /\ l + k - 1 = n
      /\ p2 # <<>> /\ k \in 1 .. n /\ n \in 1 .. n
  BY <1>1, <1>3, <1>5 DEF n
<1>7. ASSUME NEW j \in 1 .. l - 1
      PROVE  \E g \in 1 .. n - 1 :
               /\ p2[j] = p[g] /\ p2[j + 1] = p[g + 1]
               /\ s2[j] = s[g] - s[k] /\ s2[j + 1] = s[g + 1] - s[k]
  <2>1. /\ j \in 1 .. l /\ j + 1 \in 1 .. l
        /\ j + k - 1 \in 1 .. n - 1 /\ (j + 1) + k - 1 = (j + k - 1) + 1
    BY <1>1, <1>3 DEF n
  <2>2. /\ p2[j] = p[j + k - 1] /\ s2[j] = s[j + k - 1] - s[k]
        /\ p2[j + 1] = p[(j + 1) + k - 1] /\ s2[j + 1] = s[(j + 1) + k - 1] - s[k]
    BY <1>5, <2>1
  <2>3. PICK g \in 1 .. n - 1 : g = j + k - 1
    BY <2>1
  <2> QED
    BY <2>1, <2>2, <2>3
<1>8. Reference!IsPath(m, p2, p[k], b)
  <2>1. p2[1] = p[k] /\ p2[l] = b
    BY <1>2, <1>5, <1>6
  <2>2. \A j \in 1 .. l - 1 : Reference!EdgeCosts(m, p2[j], p2[j + 1]) # {}
    BY <1>1, <1>7
  <2> QED
    BY <1>5, <1>6, <2>1, <2>2 DEF Reference!IsPath
<1>9. Costs(m, p2, s2)
  <2>1. s2[1] = 0
    BY <1>1, <1>5, <1>6, SMTT(30)
  <2>2. ASSUME NEW j \in 1 .. l - 1
        PROVE  s2[j + 1] = s2[j] + Reference!EdgeCost(m, p2[j], p2[j + 1])
    <3>1. PICK g \in 1 .. n - 1 :
            /\ p2[j] = p[g] /\ p2[j + 1] = p[g + 1]
            /\ s2[j] = s[g] - s[k] /\ s2[j + 1] = s[g + 1] - s[k]
      BY <1>7
    <3>2. /\ s[g + 1] = s[g] + Reference!EdgeCost(m, p[g], p[g + 1])
          /\ Reference!EdgeCost(m, p[g], p[g + 1]) \in Nat
      BY <1>1
    <3>3. s[g] \in Nat /\ s[k] \in Nat
      BY <1>1, <1>6
    <3> QED
      BY <3>1, <3>2, <3>3
  <2> QED
    BY <1>5, <2>1, <2>2 DEF Costs
<1>10. Reference!PathCost(m, p2) = s[n] - s[k]
  <2>1. Reference!PathCost(m, p2) = s2[l]
    BY <1>5, <1>9, PathCostIs
  <2> QED
    BY <1>5, <1>6, <2>1
<1>11. LowerBound[m][p[k]][b] <= Reference!PathCost(m, p2)
  BY <1>1, <1>5, <1>6, <1>8 DEF AdmissibleEstimates
<1>12. LowerBound[m][p[k]][b] \in Nat /\ s[n] \in Nat /\ s[k] \in Nat
  <2>1. p[k] \in Node /\ s[n] \in Nat /\ s[k] \in Nat
    BY <1>1, <1>6
  <2>2. LowerBound[m] \in [Node -> [Node -> Nat]]
    BY MapsAssumption
  <2>3. LowerBound[m][p[k]] \in [Node -> Nat] /\ b \in Node
    BY <1>1, <2>1, <2>2, Zenon
  <2>4. LowerBound[m][p[k]][b] \in Nat
    BY <2>3, Zenon
  <2> QED
    BY <2>1, <2>4
<1> QED
  BY <1>10, <1>11, <1>12 DEF n

(* Along any path to the target the search has come to the target as       *)
(* cheaply, or the path goes on from a node in OPEN, or it is not better   *)
(* than the incumbent.                                                     *)
LEMMA AlongAnyPath ==
  ASSUME ReopenInv, pc # "succ", pi.start \in Generated, node[pi.start].g = 0,
         NEW p \in Seq(Node), NEW s, Costs(map, p, s),
         Reference!IsPath(map, p, pi.start, pi.target)
  PROVE  \/ \E k \in 1 .. Len(p) : p[k] \in open /\ node[p[k]].g <= s[k]
         \/ \E k \in 1 .. Len(p) : Beyond(s[k] + Weighted(p[k]))
         \/ pi.target \in Generated /\ node[pi.target].g <= s[Len(p)]
<1> DEFINE n == Len(p)
           a == pi.start
           b == pi.target
<1>1. Inv /\ EstimatesKept /\ NothingLost /\ map \in Maps /\ CostMax \notin Nat
  BY MapsAssumption DEF ReopenInv, AnswerInv, Inv, TypeInv, TypeOK
<1>2. /\ n \in Nat \ {0}
      /\ \A j \in 1 .. n : s[j] \in Nat /\ p[j] \in Node
      /\ \A j \in 1 .. n - 1 :
           /\ Reference!EdgeCost(map, p[j], p[j + 1]) \in Nat
           /\ Reference!EdgeCost(map, p[j], p[j + 1])
                \in Reference!EdgeCosts(map, p[j], p[j + 1])
           /\ s[j + 1] = s[j] + Reference!EdgeCost(map, p[j], p[j + 1])
  <2>1. Costs(map, p, s) /\ Reference!IsPath(map, p, a, b)
    OBVIOUS
  <2>2. map \in Maps
    BY <1>1
  <2> HIDE DEF a, b, n
  <2>3. /\ Len(p) \in Nat \ {0} /\ a \in Node /\ b \in Node
        /\ \A j \in 1 .. Len(p) : s[j] \in Nat /\ p[j] \in Node
        /\ \A j \in 1 .. Len(p) - 1 :
             /\ Reference!EdgeCost(map, p[j], p[j + 1]) \in Nat
             /\ Reference!EdgeCost(map, p[j], p[j + 1])
                  \in Reference!EdgeCosts(map, p[j], p[j + 1])
             /\ s[j + 1] = s[j] + Reference!EdgeCost(map, p[j], p[j + 1])
    BY <2>1, <2>2, CostsGrow
  <2> QED
    BY <2>3 DEF n
<1>3. p[1] = pi.start /\ p[n] = pi.target
  BY DEF Reference!IsPath
<1> SUFFICES ASSUME \A k \in 1 .. Len(p) : p[k] \in open => ~(node[p[k]].g <= s[k]),
                    \A k \in 1 .. Len(p) : ~Beyond(s[k] + Weighted(p[k]))
             PROVE  pi.target \in Generated /\ node[pi.target].g <= s[Len(p)]
  OBVIOUS
<1> DEFINE Holds == {k \in 1 .. n : p[k] \in Generated /\ node[p[k]].g <= s[k]}
<1>4. 1 \in Holds
  BY <1>2, <1>3 DEF Costs
<1>5. sol.sum \in Nat \cup {CostMax}
  BY <1>1 DEF Inv, TypeInv, TypeOK, Solution
<1>6. ASSUME NEW k \in 1 .. n - 1, k \in Holds
      PROVE  k + 1 \in Holds
  <2>1. k \in 1 .. n /\ k + 1 \in 1 .. n
    BY <1>2
  <2>2. p[k] \in Generated \ open /\ node[p[k]].g <= s[k] /\ ~Beyond(s[k] + Weighted(p[k]))
    BY <1>6, <2>1
  <2>3. /\ node[p[k]].g \in Nat /\ node[p[k]].f \in Nat /\ Weighted(p[k]) \in Nat
        /\ node[p[k]].f = node[p[k]].g + Weighted(p[k])
        /\ s[k] \in Nat /\ s[k + 1] \in Nat
    BY <1>1, <1>2, <2>1, <2>2, CostsOfGenerated DEF EstimatesKept
  <2>4. node[p[k]].expanded
    <3>1. ~Beyond(node[p[k]].f)
      BY <1>5, <2>2, <2>3, SMTT(30) DEF Beyond
    <3> QED
      BY <1>1, <2>2, <3>1 DEF NothingLost
  <2>5. PICK e \in DOMAIN Successors[map][p[k]] :
          /\ Successors[map][p[k]][e].node = p[k + 1]
          /\ Successors[map][p[k]][e].cost = Reference!EdgeCost(map, p[k], p[k + 1])
    BY <1>2 DEF Reference!EdgeCosts
  <2>6. EdgeSeen(p[k], e)
    BY <1>1, <2>2, <2>4 DEF NothingLost
  <2>7. PICK c \in Nat :
          /\ c = Reference!EdgeCost(map, p[k], p[k + 1])
          /\ s[k + 1] = s[k] + c /\ Weighted(p[k + 1]) \in Nat
    BY <1>1, <1>2, <2>2, <2>5, EdgeOut
  <2>8. ~Beyond(node[p[k]].g + c + Weighted(p[k + 1]))
    <3>1. ~Beyond(s[k] + c + Weighted(p[k + 1]))
      BY <2>1, <2>7
    <3>2. ASSUME NEW g \in Nat, NEW t \in Nat, NEW w \in Nat, g <= t, ~Beyond(t + c + w)
          PROVE  ~Beyond(g + c + w)
      BY <1>5, <3>2 DEF Beyond
    <3> QED
      BY <2>2, <2>3, <2>7, <3>1, <3>2
  <2>9. /\ p[k + 1] \in Generated
        /\ node[p[k + 1]].g <= node[p[k]].g + c
    BY <2>5, <2>6, <2>7, <2>8 DEF EdgeSeen
  <2>10. node[p[k + 1]].g \in Nat
    BY <1>1, <2>9, CostsOfGenerated
  <2>11. node[p[k + 1]].g <= s[k + 1]
    <3>1. ASSUME NEW g \in Nat, NEW t \in Nat, NEW h \in Nat, g <= t, h <= g + c
          PROVE  h <= t + c
      BY <3>1
    <3> QED
      BY <2>2, <2>3, <2>7, <2>9, <2>10, <3>1
  <2> QED
    BY <2>1, <2>9, <2>11
<1> HIDE DEF Holds
<1>7. 1 .. n \subseteq Holds
  BY <1>2, <1>4, <1>6, UpToLast
<1>8. n \in 1 .. n
  BY <1>2
<1> QED
  BY <1>3, <1>7, <1>8 DEF Holds

\* Estimates are not weighted.
Unweighted == \A p \in Params : p.w = 1

(* The cost of a shortest path is the least that an end of the loop can    *)
(* have left behind: the target is reached by a path that is no longer, or *)
(* the incumbent is as good, or so is the f-value of the best node of OPEN.*)
LEMMA OptimumAtEnd ==
  ASSUME ReopenInv, AdmissibleEstimates, Unweighted, IsFiniteSet(Node),
         Answered, pi.start \in Generated, node[pi.start].g = 0, NEW c \in Optimum
  PROVE  /\ c \in Nat
         /\ \/ pi.target \in Generated /\ node[pi.target].g <= c
            \/ Beyond(c)
            \/ \E n \in Best : /\ node[n].f \in Nat /\ node[n].f <= c
                               /\ ~Feasible(n) \/ Admissible(node[n].f)
<1>1. /\ Inv /\ EstimatesKept /\ map \in Maps /\ pi.start \in Node /\ pi.target \in Node
      /\ par.w = 1 /\ pc = "idle" /\ Done
  BY CostsOfGenerated
     DEF ReopenInv, AnswerInv, Inv, TypeInv, TypeOK, CallOK, Unweighted, Answered, EndsDone
<1>2. <<pi.target, c>> \in Walked(map, pi.start)
  <2>1. PICK y \in Reference!ShortestFrom(map, pi.start) : y[1] = pi.target /\ c = y[2]
    BY DEF Optimum
  <2>2. y \in Walked(map, pi.start)
    BY <1>1, <2>1, ReferenceIsWalked
  <2>3. y = <<y[1], y[2]>>
    BY <2>2 DEF Walked
  <2> QED
    BY <2>1, <2>2, <2>3
<1>p. PICK p \in Seq(Node) : \E s :
        /\ Reference!IsPath(map, p, pi.start, pi.target)
        /\ Costs(map, p, s)
        /\ s[Len(p)] <= c
  BY <1>2 DEF Walked
<1>3. PICK s :
        /\ Reference!IsPath(map, p, pi.start, pi.target)
        /\ Costs(map, p, s)
        /\ s[Len(p)] <= c
  BY <1>p
<1>4. c \in Nat
  BY <1>2 DEF Walked
<1>5. /\ Len(p) \in Nat \ {0}
      /\ \A k \in 1 .. Len(p) : /\ s[k] \in Nat /\ p[k] \in Node
                                /\ Weighted(p[k]) \in Nat
                                /\ s[k] + Weighted(p[k]) <= s[Len(p)]
  <2> DEFINE a == pi.start
             b == pi.target
  <2>1. Costs(map, p, s) /\ Reference!IsPath(map, p, a, b)
    BY <1>3
  <2> HIDE DEF a, b
  <2>2. /\ Len(p) \in Nat \ {0}
        /\ \A k \in 1 .. Len(p) : s[k] \in Nat /\ p[k] \in Node
    BY <1>1, <2>1, CostsGrow
  <2>3. \A k \in 1 .. Len(p) : s[k] + LowerBound[map][p[k]][b] <= s[Len(p)]
    BY <1>1, <2>1, EstimateAlong
  <2>4. \A k \in 1 .. Len(p) : LowerBound[map][p[k]][pi.target] \in Nat
    <3>1. \A n \in Node : LowerBound[map][n][pi.target] \in Nat
      BY <1>1, MapsAssumption
    <3> QED
      BY <2>2, <3>1
  <2>5. \A k \in 1 .. Len(p) : Weighted(p[k]) = LowerBound[map][p[k]][pi.target]
    BY <1>1, <2>4 DEF Weighted
  <2> QED
    BY <2>2, <2>3, <2>4, <2>5 DEF b
<1>6. Len(p) \in 1 .. Len(p) /\ s[Len(p)] \in Nat
  BY <1>5
<1>7. CASE \E k \in 1 .. Len(p) : p[k] \in open /\ node[p[k]].g <= s[k]
  <2>1. PICK k \in 1 .. Len(p) : p[k] \in open /\ node[p[k]].g <= s[k]
    BY <1>7
  <2>2. PICK n \in Best : ~Feasible(n) \/ Admissible(node[n].f)
    BY <1>1, <2>1 DEF Done
  <2>3. /\ p[k] \in Generated /\ n \in Generated
        /\ ~(node[p[k]].f < node[n].f)
    BY <1>1, <2>1, <2>2 DEF Best, Precedes, Inv, SearchInv, OpenIsLive
  <2>4. /\ node[p[k]].f \in Nat /\ node[n].f \in Nat /\ node[p[k]].g \in Nat
        /\ node[p[k]].f = node[p[k]].g + Weighted(p[k])
    BY <1>1, <2>3, CostsOfGenerated DEF EstimatesKept
  <2>5. node[n].f <= c
    <3>1. /\ s[k] \in Nat /\ Weighted(p[k]) \in Nat
          /\ s[k] + Weighted(p[k]) <= s[Len(p)]
      BY <1>5
    <3>2. node[n].f <= node[p[k]].f
      BY <2>3, <2>4
    <3> QED
      BY <1>3, <1>4, <1>6, <2>1, <2>4, <3>1, <3>2, SMTT(30)
  <2> QED
    BY <1>4, <2>2, <2>4, <2>5
<1>8. CASE \E k \in 1 .. Len(p) : Beyond(s[k] + Weighted(p[k]))
  <2>1. PICK k \in 1 .. Len(p) : Beyond(s[k] + Weighted(p[k]))
    BY <1>8
  <2>2. /\ s[k] \in Nat /\ Weighted(p[k]) \in Nat
        /\ s[k] + Weighted(p[k]) <= s[Len(p)]
    BY <1>5
  <2>3. sol.sum \in Nat \cup {CostMax}
    BY <1>1 DEF Inv, TypeInv, TypeOK, Solution
  <2>4. Beyond(c)
    BY <1>3, <1>4, <1>6, <2>1, <2>2, <2>3, MapsAssumption DEF Beyond
  <2> QED
    BY <1>4, <2>4
<1>9. CASE pi.target \in Generated /\ node[pi.target].g <= s[Len(p)]
  <2>1. node[pi.target].g \in Nat
    BY <1>1, <1>9, CostsOfGenerated
  <2> QED
    BY <1>3, <1>4, <1>6, <1>9, <2>1
<1>10. pc # "succ"
  BY <1>1
<1> QED
  BY <1>3, <1>7, <1>8, <1>9, <1>10, AlongAnyPath

LEMMA WithinEps ==
  ASSUME ReopenInv, AdmissibleEstimates, Unweighted, IsFiniteSet(Node), AC # "any"
  PROVE  PathWithinEps
<1> SUFFICES ASSUME Found, Unlimited, NEW c \in Optimum
             PROVE  AnswerCost <= par.eps + c
  BY DEF PathWithinEps
<1>1. /\ AnswerInv /\ Inv /\ Answered /\ pi.start \in Generated
      /\ node[pi.start].g = 0 /\ sol.sum \in Nat /\ par.eps \in Nat /\ par.w = 1
      /\ CostMax \notin Nat /\ sol.sum # CostMax
  <2>1. AnswerInv /\ Inv /\ Answered /\ par.w = 1
    BY DEF ReopenInv, AnswerInv, Found, Unweighted
  <2>2. LET q == sol.path
        IN  /\ q # <<>> /\ q[1] = pi.start /\ node[q[1]].g = 0
            /\ \A k \in 1 .. Len(q) : q[k] \in Generated
    BY <2>1 DEF Found, Inv, SearchInv, PathIsSupported
  <2>3. Len(sol.path) \in Nat \ {0}
    BY <2>1, <2>2 DEF Inv, TypeInv, TypeOK, Solution
  <2>4. sol.sum \in Nat /\ par.eps \in Nat
    BY <2>1, MapsAssumption
       DEF Found, Inv, TypeInv, TypeOK, Solution, Parameters, SearchInv, IncumbentIsTarget
  <2> QED
    BY <2>1, <2>2, <2>3, <2>4, MapsAssumption
<1>2. AnswerCost \in Nat /\ AnswerCost <= sol.sum /\ AnswerCost <= node[pi.target].g
  BY <1>1, PathReal DEF PathIsReal
<1>3. /\ c \in Nat
      /\ \/ pi.target \in Generated /\ node[pi.target].g <= c
         \/ Beyond(c)
         \/ \E n \in Best : /\ node[n].f \in Nat /\ node[n].f <= c
                            /\ ~Feasible(n) \/ Admissible(node[n].f)
  BY <1>1, OptimumAtEnd
<1>4. CASE pi.target \in Generated /\ node[pi.target].g <= c
  <2>1. node[pi.target].g \in Nat
    BY <1>1, <1>4, CostsOfGenerated
  <2> QED
    BY <1>1, <1>2, <1>3, <1>4, <2>1
<1>5. CASE Beyond(c)
  BY <1>1, <1>2, <1>3, <1>5 DEF Beyond
<1>6. ASSUME NEW n \in Best, node[n].f \in Nat, node[n].f <= c,
             ~Feasible(n) \/ Admissible(node[n].f)
      PROVE  AnswerCost <= par.eps + c
  <2>1. Feasible(n)
    BY DEF Unlimited, Feasible, Lt
  <2>2. \/ sol.sum <= par.w * node[n].f
        \/ sol.sum <= par.eps + node[n].f
    BY <1>6, <2>1, TraitsAssumption DEF Admissible
  <2>3. sol.sum <= par.eps + node[n].f
    <3>1. CASE sol.sum <= par.w * node[n].f
      <4>1. par.w * node[n].f = node[n].f
        BY <1>1, <1>6
      <4> QED
        BY <1>1, <1>6, <3>1, <4>1
    <3> QED
      BY <2>2, <3>1
  <2> QED
    BY <1>1, <1>2, <1>3, <1>6, <2>3
<1> QED
  BY <1>3, <1>4, <1>5, <1>6

LEMMA CutoffExact ==
  ASSUME ReopenInv, AdmissibleEstimates, Unweighted, IsFiniteSet(Node)
  PROVE  CutoffIsExact
<1> SUFFICES ASSUME Answered, StartExists, sol.s_node = Null,
                    sol.nodes_expanded < par.exp_cutoff, ~sol.late, NEW c \in Optimum
             PROVE  Lt(par.cost_cutoff, c)
  BY DEF CutoffIsExact
<1>1. /\ Inv /\ pi.start \in Generated /\ node[pi.start].g = 0
      /\ sol.sum = CostMax /\ pi.target \notin Generated
      /\ par.cost_cutoff \in Nat \cup {CostMax} /\ CostMax \notin Nat
  BY MapsAssumption
     DEF ReopenInv, AnswerInv, Inv, SearchInv, StartIsRoot, IncumbentIsTarget,
         TargetIsIncumbent, Answered, TypeInv, TypeOK, Parameters
<1>2. /\ c \in Nat
      /\ \/ pi.target \in Generated /\ node[pi.target].g <= c
         \/ Beyond(c)
         \/ \E n \in Best : /\ node[n].f \in Nat /\ node[n].f <= c
                            /\ ~Feasible(n) \/ Admissible(node[n].f)
  BY <1>1, OptimumAtEnd
<1>3. PICK n \in Best : /\ node[n].f \in Nat /\ node[n].f <= c
                        /\ ~Feasible(n) \/ Admissible(node[n].f)
  BY <1>1, <1>2 DEF Beyond
<1>4. ~Admissible(node[n].f)
  BY <1>1, TraitsAssumption DEF Admissible
<1>5. Lt(par.cost_cutoff, node[n].f)
  BY <1>3, <1>4 DEF Feasible
<1> QED
  BY <1>1, <1>2, <1>3, <1>5 DEF Lt

-----------------------------------------------------------------------------
(* Theorems.                                                               *)

(* A search that reopens nodes, does not weight its estimates and is       *)
(* stopped by no limit returns a path that costs at most eps more than a   *)
(* shortest one, if no estimate is too high.  The estimates need not be    *)
(* consistent, and the records may be stale.                               *)
THEOREM AnswersAreWithinEps ==
  ASSUME FreshIds, RP = "yes", AC # "any", Unweighted, AdmissibleEstimates,
         IsFiniteSet(Node)
  PROVE  Spec => []PathWithinEps
<1>1. ReopenInv => PathWithinEps
  BY WithinEps
<1> QED
  BY <1>1, ReopenInvariant, PTL DEF Spec

(* Under the same conditions, whatever the trait AC, a search that only    *)
(* the cost cutoff has stopped misses no path that costs at most the       *)
(* cutoff.                                                                 *)
THEOREM CutoffsAreExact ==
  ASSUME FreshIds, RP = "yes", Unweighted, AdmissibleEstimates, IsFiniteSet(Node)
  PROVE  Spec => []CutoffIsExact
<1>1. ReopenInv => CutoffIsExact
  BY CutoffExact
<1> QED
  BY <1>1, ReopenInvariant, PTL DEF Spec

-----------------------------------------------------------------------------
(* The order of the closed nodes.                                          *)

\* The call searches for what it was asked for.
QueryAsked == calls > 0 => <<pi.start, pi.target>> \in Queries

\* Generated nodes have been entered, or the search starts there.
ReachedByEdges ==
  \A n \in Generated : n = pi.start \/ n \in Entered(Successors[map])

(* A closed node is not in OPEN; its f-value is not above that of any node *)
(* in OPEN, nor above that of the node being expanded.                     *)
ClosedInOrder ==
  /\ \A n \in open : ~node[n].expanded
  /\ \A a \in Generated : \A b \in open :
       node[a].expanded => node[a].f <= node[b].f
  /\ pc = "succ" =>
       \A a \in Generated : node[a].expanded => node[a].f <= node[current].f

\* met_.lb_ is the f-value of a closed node.
BoundIsClosed ==
  sol.lb # CostMax =>
    \E a \in Generated : node[a].expanded /\ node[a].f = sol.lb

OrderInv ==
  /\ Inv /\ EstimatesKept /\ QueryAsked /\ ReachedByEdges
  /\ Consistent => ClosedInOrder /\ BoundIsClosed

\* Along an edge the estimate falls by no more than the cost of the edge.
LEMMA EdgeIsConsistent ==
  ASSUME Inv, Consistent, NEW u \in Node,
         u = pi.start \/ u \in Entered(Successors[map]),
         NEW k \in DOMAIN Successors[map][u]
  PROVE  /\ Successors[map][u][k].node \in Node /\ Successors[map][u][k].cost \in Nat
         /\ Weighted(Successors[map][u][k].node) \in Nat /\ Weighted(u) \in Nat
         /\ Weighted(u)
              <= Successors[map][u][k].cost + Weighted(Successors[map][u][k].node)
<1>1. map \in Maps /\ par.w = 1 /\ pi.start \in Node \cup {Null}
  BY DEF Inv, TypeInv, TypeOK, Instance, Consistent
<1>2. ConsistentAt(Successors[map], LowerBound[map], u, pi.target)
  <2>1. CASE u = pi.start
    BY <2>1, MapsAssumption DEF Consistent
  <2>2. CASE u \in Entered(Successors[map])
    <3>1. ConsistentTargets[map] = ConsistentIn(Successors[map], LowerBound[map])
      BY <1>1 DEF ConsistentTargets
    <3>2. pi.target \in ConsistentIn(Successors[map], LowerBound[map])
      BY <3>1 DEF Consistent
    <3> QED
      BY <2>2, <3>2 DEF ConsistentIn
  <2> QED
    BY <2>1, <2>2
<1>3. Successors[map][u] \in Seq(Edge)
  BY <1>1, MapsAssumption
<1>4. Successors[map][u][k] \in Edge
  BY <1>3
<1> DEFINE v == Successors[map][u][k].node
           c == Successors[map][u][k].cost
<1>5. v \in Node /\ c \in Nat
  BY <1>4 DEF Edge
<1>6. \E q \in Queries : q[2] = pi.target
  <2>1. pi.target \in Targets
    BY <1>1 DEF Consistent, ConsistentTargets, ConsistentIn
  <2> QED
    BY <2>1 DEF Targets
<1>7. pi.target \in Node
  BY <1>6, CallsAssumption
<1>8. LowerBound[map] \in [Node -> [Node -> Nat]]
  BY <1>1, MapsAssumption
<1>9. \A n \in Node : LowerBound[map][n][pi.target] \in Nat
  BY <1>7, <1>8
<1>10. \A n \in Node : Weighted(n) = LowerBound[map][n][pi.target]
  BY <1>1, <1>9 DEF Weighted
<1>11. LowerBound[map][u][pi.target] <= c + LowerBound[map][v][pi.target]
  BY <1>2 DEF ConsistentAt
<1> HIDE DEF v, c
<1>12. Weighted(u) \in Nat /\ Weighted(v) \in Nat /\ Weighted(u) <= c + Weighted(v)
  BY <1>5, <1>9, <1>10, <1>11
<1> QED
  BY <1>5, <1>12 DEF v, c

\* The f-value of a successor, through the node being expanded, is not below
\* that of this node.
LEMMA GrowsAlongEdge ==
  ASSUME OrderInv, Consistent, pc = "succ", current \in Generated, i \in DOMAIN Succ
  PROVE  /\ node[current].f \in Nat /\ Weighted(Child) \in Nat /\ GVal \in Nat
         /\ node[current].f <= GVal + Weighted(Child)
<1> DEFINE w == Weighted(current)
           v == Weighted(Child)
           c == Succ[i].cost
           g == node[current].g
<1>1. /\ current \in Node /\ g \in Nat /\ node[current].f \in Nat
      /\ node[current].f = g + w
  BY CostsOfGenerated DEF OrderInv, EstimatesKept
<1>2. w \in Nat /\ v \in Nat /\ c \in Nat /\ w <= c + v
  BY <1>1, EdgeIsConsistent DEF OrderInv, ReachedByEdges, Child, Succ
<1>3. GVal = g + c
  BY DEF GVal
<1> HIDE DEF w, v, c, g
<1>4. node[current].f \in Nat /\ v \in Nat /\ GVal \in Nat /\ node[current].f <= GVal + v
  BY <1>1, <1>2, <1>3
<1> QED
  BY <1>4 DEF v

LEMMA QueryAskedStep ==
  ASSUME Inv, QueryAsked, [Next]_vars
  PROVE  QueryAsked'
<1>1. CASE Call
  <2>1. PICK op \in IdOps, q \in Queries, p \in Params : GetPath(op, q[1], q[2], p)
    BY <1>1 DEF Call
  <2>2. pi' = [start |-> q[1], target |-> q[2], id |-> NewId(op)]
    BY <2>1 DEF GetPath
  <2>3. q = <<q[1], q[2]>>
    BY CallsAssumption
  <2> QED
    BY <2>2, <2>3 DEF QueryAsked
<1>2. CASE Step \/ UNCHANGED vars
  <2>1. pi' = pi /\ calls' = calls
    BY <1>2 DEF Step, SuccessorStep, Expand, Generate, Prune, Decrease, Reopen,
                Dominated, EndExpansion, Stop, Extract, vars
  <2> QED
    BY <2>1 DEF QueryAsked
<1> QED
  BY <1>1, <1>2 DEF Next

\* The node an edge leads to has been entered.
LEMMA ChildIsEntered ==
  ASSUME current \in Node, i \in DOMAIN Succ
  PROVE  Child \in Entered(Successors[map])
  BY DEF Entered, Child, Succ

LEMMA ReachedByEdgesStep ==
  ASSUME Inv, ReachedByEdges, FreshIds, [Next]_vars
  PROVE  ReachedByEdges'
<1>1. CASE Call
  BY <1>1, CallFacts DEF ReachedByEdges
<1>2. ASSUME NEW n \in Node, Expand(n)
      PROVE  ReachedByEdges'
  BY <1>2, ExpandFacts DEF ReachedByEdges
<1>3. CASE Generate \/ Prune
  <2>1. /\ Generated' = Generated \cup {Child} /\ UNCHANGED <<map, pi>>
        /\ current \in Generated /\ i \in DOMAIN Succ
    BY <1>3, NewFacts
  <2>2. Child \in Entered(Successors[map])
    BY <2>1, CostsOfGenerated, ChildIsEntered
  <2> QED
    BY <2>1, <2>2 DEF ReachedByEdges
<1>4. CASE Decrease \/ Reopen
  BY <1>4, RelaxFacts DEF ReachedByEdges
<1>5. CASE Dominated \/ EndExpansion \/ Stop \/ Extract \/ UNCHANGED vars
  BY <1>5, OtherFacts DEF ReachedByEdges
<1> QED
  BY <1>1, <1>2, <1>3, <1>4, <1>5, Steps

LEMMA OrderByExpand ==
  ASSUME Inv, Consistent => ClosedInOrder, NEW n \in Node, Expand(n), Consistent
  PROVE  ClosedInOrder' /\ BoundIsClosed'
<1>1. /\ ClosedInOrder /\ n \in Best /\ n \in Generated /\ n \in open
      /\ pc' = "succ" /\ current' = n /\ open' = open \ {n}
      /\ Generated' = Generated /\ sol'.lb = node[n].f
      /\ \A m \in Node : /\ node'[m].f = node[m].f
                         /\ node'[m].expanded <=> (m = n \/ node[m].expanded)
  BY ExpandFacts DEF Best
<1>2. \A m \in Generated : m \in Node /\ node[m].f \in Nat
  BY CostsOfGenerated
<1>3. open \subseteq Generated
  BY DEF Inv, SearchInv, OpenIsLive
<1>4. \A b \in open : node[n].f <= node[b].f
  <2> SUFFICES ASSUME NEW b \in open
               PROVE  node[n].f <= node[b].f
    OBVIOUS
  <2>1. ~(node[b].f < node[n].f)
    BY <1>1 DEF Best, Precedes
  <2> QED
    BY <1>1, <1>2, <1>3, <2>1
<1>5. \A a \in Generated : node'[a].expanded => node'[a].f <= node[n].f
  BY <1>1, <1>2 DEF ClosedInOrder
<1>6. \A b \in open' : ~node'[b].expanded
  BY <1>1, <1>2, <1>3 DEF ClosedInOrder
<1>7. \A a \in Generated : \A b \in open' : node'[a].expanded => node'[a].f <= node'[b].f
  <2> SUFFICES ASSUME NEW a \in Generated, NEW b \in open', node'[a].expanded
               PROVE  node'[a].f <= node'[b].f
    OBVIOUS
  <2>1. b \in open /\ node'[b].f = node[b].f /\ node'[a].f = node[a].f
    BY <1>1, <1>2, <1>3
  <2>2. CASE a = n
    BY <1>4, <2>1, <2>2
  <2>3. CASE a # n
    BY <1>1, <1>2, <2>1, <2>3 DEF ClosedInOrder
  <2> QED
    BY <2>2, <2>3
<1>8. node'[n].expanded /\ node'[n].f = node[n].f
  BY <1>1
<1>9. ClosedInOrder'
  BY <1>1, <1>5, <1>6, <1>7, <1>8 DEF ClosedInOrder
<1>10. BoundIsClosed'
  BY <1>1, <1>8 DEF BoundIsClosed
<1> QED
  BY <1>9, <1>10

LEMMA OrderByNew ==
  ASSUME OrderInv, Generate \/ Prune, Consistent
  PROVE  ClosedInOrder' /\ BoundIsClosed'
<1>1. /\ pc = "succ" /\ current \in Generated /\ i \in DOMAIN Succ
      /\ Child \in Node /\ Child \notin Generated
      /\ Generated' = Generated \cup {Child} /\ node'[Child] = NewNode
      /\ ~NewNode.expanded /\ \A m \in Node : m # Child => node'[m] = node[m]
      /\ sol'.lb = sol.lb /\ open' \subseteq open \cup {Child}
      /\ UNCHANGED <<pc, current>> /\ ClosedInOrder /\ BoundIsClosed
  BY NewFacts DEF OrderInv
<1>2. NewNode.f = GVal + Weighted(Child)
  BY DEF NewNode, Initialised, Weighted
<1> HIDE DEF NewNode
<1>3. /\ node[current].f \in Nat /\ NewNode.f \in Nat
      /\ node[current].f <= NewNode.f
  BY <1>1, <1>2, GrowsAlongEdge
<1>4. \A m \in Generated : /\ m \in Node /\ node[m].f \in Nat /\ node'[m] = node[m]
  BY <1>1, CostsOfGenerated DEF OrderInv
<1>5. open \subseteq Generated
  BY DEF OrderInv, Inv, SearchInv, OpenIsLive
<1>6. \A a \in Generated' :
        node'[a].expanded => /\ a \in Generated /\ node[a].expanded
                             /\ node'[a].f = node[a].f
                             /\ node[a].f \in Nat /\ node[a].f <= node[current].f
  BY <1>1, <1>4 DEF ClosedInOrder
<1>7. \A b \in open' : b = Child \/ (b \in open /\ b \in Generated)
  BY <1>1, <1>5
<1>8. \A b \in open' : ~node'[b].expanded
  BY <1>1, <1>4, <1>7 DEF ClosedInOrder
<1>9. \A a \in Generated' : \A b \in open' : node'[a].expanded => node'[a].f <= node'[b].f
  <2> SUFFICES ASSUME NEW a \in Generated', NEW b \in open', node'[a].expanded
               PROVE  node'[a].f <= node'[b].f
    OBVIOUS
  <2>1. CASE b = Child
    BY <1>1, <1>3, <1>6, <2>1
  <2>2. CASE b # Child
    BY <1>1, <1>4, <1>6, <1>7, <2>2 DEF ClosedInOrder
  <2> QED
    BY <2>1, <2>2
<1>10. \A a \in Generated' : node'[a].expanded => node'[a].f <= node'[current].f
  BY <1>1, <1>4, <1>6
<1>11. ClosedInOrder'
  BY <1>1, <1>8, <1>9, <1>10 DEF ClosedInOrder
<1>12. BoundIsClosed'
  BY <1>1, <1>4 DEF BoundIsClosed
<1> QED
  BY <1>11, <1>12

(* A closed node is never relaxed, so that the order of the closed nodes   *)
(* is not disturbed.                                                       *)
LEMMA ClosedNotRelaxed ==
  ASSUME OrderInv, Decrease \/ Reopen, Consistent
  PROVE  /\ ~node[Child].expanded
         /\ Relaxed.f \in Nat /\ node[current].f <= Relaxed.f
<1>1. /\ pc = "succ" /\ current \in Generated /\ i \in DOMAIN Succ
      /\ Child \in Generated /\ node[Child].g \in Nat /\ GVal < node[Child].g
      /\ ClosedInOrder
  BY RelaxFacts DEF OrderInv
<1>2. /\ node[current].f \in Nat /\ Weighted(Child) \in Nat /\ GVal \in Nat
      /\ node[current].f <= GVal + Weighted(Child)
  BY <1>1, GrowsAlongEdge
<1>3. /\ node[Child].f = node[Child].g + Weighted(Child) /\ node[Child].f \in Nat
      /\ node[Child].f # CostMax /\ Child \in Node
  BY <1>1, CostsOfGenerated DEF OrderInv, EstimatesKept
<1>4. ~node[Child].expanded
  <2>1. CASE node[Child].expanded
    <3>1. node[Child].f <= node[current].f
      BY <1>1, <2>1 DEF ClosedInOrder
    <3>2. GVal + Weighted(Child) < node[Child].f
      BY <1>1, <1>2, <1>3
    <3> QED
      BY <1>2, <1>3, <3>1, <3>2
  <2> QED
    BY <2>1
<1>5. Relaxed.f = GVal + Weighted(Child)
  <2>1. RelaxedF = GVal + Weighted(Child)
    BY <1>1, <1>2, <1>3 DEF RelaxedF
  <2>2. node[Child] \in NodeRecord
    BY <1>3 DEF OrderInv, Inv, TypeInv, TypeOK
  <2> QED
    BY <1>3, <2>1, <2>2 DEF Relaxed, NodeRecord
<1> QED
  BY <1>2, <1>4, <1>5

LEMMA OrderByRelax ==
  ASSUME OrderInv, Decrease \/ Reopen, Consistent
  PROVE  ClosedInOrder' /\ BoundIsClosed'
<1>1. /\ pc = "succ" /\ current \in Generated
      /\ Child \in Generated /\ Child # current /\ node'[Child] = Relaxed
      /\ Relaxed.expanded = node[Child].expanded
      /\ \A m \in Node : m # Child => node'[m] = node[m]
      /\ Generated' = Generated /\ sol' = sol
      /\ open' \subseteq open \cup {Child}
      /\ UNCHANGED <<pc, current>> /\ ClosedInOrder /\ BoundIsClosed
  BY RelaxFacts DEF OrderInv
<1>2. ~node[Child].expanded /\ Relaxed.f \in Nat /\ node[current].f <= Relaxed.f
  BY ClosedNotRelaxed
<1> HIDE DEF Relaxed
<1>3. \A m \in Generated : m \in Node /\ node[m].f \in Nat
  BY CostsOfGenerated DEF OrderInv
<1>4. open \subseteq Generated
  BY DEF OrderInv, Inv, SearchInv, OpenIsLive
<1>5. \A a \in Generated :
        /\ node'[a].expanded <=> node[a].expanded
        /\ node[a].expanded => /\ a # Child /\ node'[a].f = node[a].f
                               /\ node[a].f <= node[current].f
  BY <1>1, <1>2, <1>3 DEF ClosedInOrder
<1>6. \A b \in open' : ~node'[b].expanded
  BY <1>1, <1>2, <1>4, <1>5 DEF ClosedInOrder
<1>7. \A a \in Generated : \A b \in open' : node'[a].expanded => node'[a].f <= node'[b].f
  <2> SUFFICES ASSUME NEW a \in Generated, NEW b \in open', node'[a].expanded
               PROVE  node'[a].f <= node'[b].f
    OBVIOUS
  <2>1. /\ node[a].expanded /\ node'[a].f = node[a].f /\ node[a].f \in Nat
        /\ node[a].f <= node[current].f /\ node[current].f \in Nat
    BY <1>1, <1>3, <1>5
  <2>2. CASE b = Child
    BY <1>1, <1>2, <2>1, <2>2
  <2>3. CASE b # Child
    <3>1. b \in open /\ b \in Node
      BY <1>1, <1>3, <1>4, <2>3
    <3>2. node'[b].f = node[b].f
      BY <1>1, <2>3, <3>1
    <3> QED
      BY <1>1, <2>1, <3>1, <3>2 DEF ClosedInOrder
  <2> QED
    BY <2>2, <2>3
<1>8. node'[current].f = node[current].f
  BY <1>1, <1>3
<1>9. ClosedInOrder'
  BY <1>1, <1>5, <1>6, <1>7, <1>8 DEF ClosedInOrder
<1>10. BoundIsClosed'
  BY <1>1, <1>5 DEF BoundIsClosed
<1> QED
  BY <1>9, <1>10

LEMMA OrderStep ==
  ASSUME OrderInv, FreshIds, [Next]_vars, Consistent'
  PROVE  ClosedInOrder' /\ BoundIsClosed'
<1>1. Inv
  BY DEF OrderInv
<1>2. CASE Call
  <2>1. /\ sol'.lb = CostMax /\ pc' # "succ"
        /\ \/ Generated' = {} /\ open' = {}
           \/ /\ Generated' = {pi'.start} /\ open' = {pi'.start}
              /\ node'[pi'.start] = Initialised(pi', par', pi'.start, Null, 0)
    BY <1>1, <1>2, CallFacts
  <2>2. Generated' = {pi'.start} => ~node'[pi'.start].expanded \/ open' = {}
    BY <2>1 DEF Initialised
  <2> QED
    BY <2>1, <2>2 DEF ClosedInOrder, BoundIsClosed, Initialised
<1>3. UNCHANGED <<map, pi, par>> => Consistent
  BY DEF Consistent
<1>4. ASSUME NEW n \in Node, Expand(n)
      PROVE  ClosedInOrder' /\ BoundIsClosed'
  <2>1. UNCHANGED <<map, pi, par>>
    BY <1>1, <1>4, ExpandFacts
  <2> QED
    BY <1>1, <1>3, <1>4, <2>1, OrderByExpand DEF OrderInv
<1>5. CASE Generate \/ Prune
  <2>1. UNCHANGED <<map, pi, par>>
    BY <1>1, <1>5, NewFacts
  <2> QED
    BY <1>3, <1>5, <2>1, OrderByNew
<1>6. CASE Decrease \/ Reopen
  <2>1. UNCHANGED <<map, pi, par>>
    BY <1>1, <1>6, RelaxFacts
  <2> QED
    BY <1>3, <1>6, <2>1, OrderByRelax
<1>7. CASE Dominated \/ EndExpansion \/ Stop \/ Extract \/ UNCHANGED vars
  <2>1. /\ UNCHANGED <<map, node, open, pi, par>> /\ Generated' = Generated
        /\ sol'.lb = sol.lb
    BY <1>1, <1>7, OtherFacts
  <2>2. pc' = "succ" => pc = "succ" /\ current' = current
    BY <1>7 DEF Dominated, EndExpansion, Stop, Extract, vars, AtSuccessor
  <2> QED
    BY <1>3, <2>1, <2>2 DEF OrderInv, ClosedInOrder, BoundIsClosed
<1> QED
  BY <1>2, <1>4, <1>5, <1>6, <1>7, Steps

LEMMA OrderInvInit ==
  ASSUME Init
  PROVE  OrderInv
<1>1. Inv
  BY AnswerInvInit DEF AnswerInv
<1>2. Generated = {} /\ pc = "idle" /\ calls = 0 /\ open = {} /\ sol.lb = CostMax
  BY DEF Init, Unused, Generated, EmptySolution
<1> QED
  BY <1>1, <1>2 DEF OrderInv, EstimatesKept, QueryAsked, ReachedByEdges, ClosedInOrder,
                    BoundIsClosed

LEMMA OrderInvStep ==
  ASSUME OrderInv, FreshIds, [Next]_vars
  PROVE  OrderInv'
<1>1. Inv'
  BY TypeStep, InvStep DEF OrderInv, Inv
<1>2. EstimatesKept' /\ QueryAsked' /\ ReachedByEdges'
  BY EstimatesStep, QueryAskedStep, ReachedByEdgesStep DEF OrderInv
<1>3. Consistent' => ClosedInOrder' /\ BoundIsClosed'
  BY OrderStep
<1> QED
  BY <1>1, <1>2, <1>3 DEF OrderInv

(* met_.lb_ is the f-value of a closed node, and the next one to be closed *)
(* has no lower one.                                                       *)
LEMMA BoundStep ==
  ASSUME OrderInv, [Next]_vars, pc = "loop", pc' = "succ", sol.lb # CostMax, Consistent
  PROVE  sol.lb <= sol'.lb
<1>1. PICK n \in Node : Expand(n)
  BY DEF Next, Call, GetPath, Step, SuccessorStep, Generate, Prune, Decrease, Reopen,
         Dominated, AtSuccessor, EndExpansion, Stop, Extract, vars
<1>2. n \in open /\ sol'.lb = node[n].f
  BY <1>1, ExpandFacts DEF OrderInv, Best
<1> QED
  BY <1>2 DEF OrderInv, ClosedInOrder, BoundIsClosed

-----------------------------------------------------------------------------
(* Shortest paths.                                                         *)

(* Nothing is lost before there is an incumbent, and nothing at all if     *)
(* nodes are reopened.                                                     *)
LostKept ==
  Consistent /\ (RP = "yes" \/ sol.sum = CostMax) => NothingLost

LEMMA LostKeptStep ==
  ASSUME OrderInv, LostKept, FreshIds, [Next]_vars
  PROVE  LostKept'
<1> SUFFICES ASSUME Consistent', RP = "yes" \/ sol'.sum = CostMax
             PROVE  NothingLost'
  BY DEF LostKept
<1>1. Inv /\ EstimatesKept
  BY DEF OrderInv
<1>2. CASE Call
  <2>1. Generated' \subseteq open'
    BY <1>1, <1>2, CallFacts
  <2> QED
    BY <2>1 DEF NothingLost
<1>3. ASSUME UNCHANGED <<map, pi, par>>, sol'.sum = CostMax => sol.sum = CostMax
      PROVE  Consistent /\ NothingLost
  BY <1>3 DEF LostKept, Consistent
<1>4. ASSUME NEW n \in Node, Expand(n)
      PROVE  NothingLost'
  <2>1. UNCHANGED <<map, pi, par>> /\ sol'.sum = sol.sum
    BY <1>1, <1>4, ExpandFacts
  <2> QED
    BY <1>1, <1>3, <1>4, <2>1, LostByExpand
<1>5. CASE Generate \/ Prune
  <2>1. UNCHANGED <<map, pi, par>>
    BY <1>1, <1>5, NewFacts
  <2>2. sol'.sum = CostMax => sol.sum = CostMax
    BY <1>1, <1>5, SumFalls, MapsAssumption
  <2> QED
    BY <1>1, <1>3, <1>5, <2>1, <2>2, LostByNew
<1>6. CASE Decrease \/ Reopen
  <2>1. /\ UNCHANGED <<map, pi, par>> /\ sol' = sol /\ Child \in Generated
        /\ open \subseteq open'
        /\ Child \notin open => RP = "no" \/ Child \in open'
    BY <1>1, <1>6, RelaxFacts
  <2>2. Consistent /\ NothingLost
    BY <1>3, <2>1
  <2>3. Child \in open'
    <3>1. CASE RP = "yes"
      <4>1. RP # "no"
        BY <3>1
      <4> QED
        BY <2>1, <4>1
    <3>2. CASE sol.sum = CostMax
      <4>1. ~node[Child].expanded
        BY <1>6, <2>2, ClosedNotRelaxed
      <4>2. Child \notin Generated \ open
        BY <2>2, <3>2, <4>1 DEF NothingLost, Beyond
      <4> QED
        BY <2>1, <4>2
    <3> QED
      BY <2>1, <3>1, <3>2
  <2> QED
    BY <1>1, <1>6, <2>2, <2>3, LostByRelax
<1>7. CASE Dominated \/ EndExpansion \/ Stop \/ Extract \/ UNCHANGED vars
  <2>1. UNCHANGED <<map, pi, par>> /\ sol'.sum = sol.sum
    BY <1>1, <1>7, OtherFacts
  <2> QED
    BY <1>1, <1>3, <1>7, <2>1, LostByDominated, LostByOthers
<1> QED
  BY <1>2, <1>4, <1>5, <1>6, <1>7, Steps

(* Along any path from the start the search has come to its nodes as       *)
(* cheaply, or the path goes on from a node whose f-value is not below     *)
(* that of u, the node that is expanded now or next.                       *)
LEMMA AlongAnyWalk ==
  ASSUME OrderInv, Consistent, NothingLost,
         pi.start \in Generated, node[pi.start].g = 0,
         NEW u \in Generated, \A b \in open : node[u].f <= node[b].f,
         pc = "succ" => u = current, ~Beyond(node[u].f),
         NEW p \in Seq(Node), NEW s, NEW b, Costs(map, p, s),
         Reference!IsPath(map, p, pi.start, b)
  PROVE  /\ Len(p) \in Nat \ {0} /\ p[Len(p)] = b
         /\ \A k \in 1 .. Len(p) :
              /\ p[k] \in Node /\ s[k] \in Nat /\ Weighted(p[k]) \in Nat
              /\ p[k] = pi.start \/ p[k] \in Entered(Successors[map])
              /\ \/ p[k] \in Generated /\ node[p[k]].g <= s[k]
                 \/ node[u].f <= s[k] + Weighted(p[k])
         /\ \A k \in 1 .. Len(p) - 1 :
              /\ \/ node[u].f <= s[k] + Weighted(p[k])
                 \/ p[k + 1] \in Generated \/ sol.sum # CostMax
              /\ Reference!EdgeCost(map, p[k], p[k + 1]) \in Nat
              /\ Reference!EdgeCost(map, p[k], p[k + 1])
                   \in Reference!EdgeCosts(map, p[k], p[k + 1])
              /\ s[k + 1] = s[k] + Reference!EdgeCost(map, p[k], p[k + 1])
<1> DEFINE n == Len(p)
           a == pi.start
           AtK(k) == /\ p[k] = pi.start \/ p[k] \in Entered(Successors[map])
                     /\ \/ p[k] \in Generated /\ node[p[k]].g <= s[k]
                        \/ node[u].f <= s[k] + Weighted(p[k])
           NextOf(k) == \/ node[u].f <= s[k] + Weighted(p[k])
                        \/ p[k + 1] \in Generated \/ sol.sum # CostMax
<1>1. Inv /\ EstimatesKept /\ map \in Maps /\ CostMax \notin Nat /\ open \subseteq Generated
      /\ ReachedByEdges
  BY MapsAssumption DEF OrderInv, Inv, TypeInv, TypeOK, SearchInv, OpenIsLive
<1>2. /\ n \in Nat \ {0}
      /\ \A j \in 1 .. n : s[j] \in Nat /\ p[j] \in Node
      /\ \A j \in 1 .. n - 1 :
           /\ Reference!EdgeCost(map, p[j], p[j + 1]) \in Nat
           /\ Reference!EdgeCost(map, p[j], p[j + 1])
                \in Reference!EdgeCosts(map, p[j], p[j + 1])
           /\ s[j + 1] = s[j] + Reference!EdgeCost(map, p[j], p[j + 1])
  <2>1. Costs(map, p, s) /\ Reference!IsPath(map, p, a, b)
    OBVIOUS
  <2> HIDE DEF a
  <2> QED
    BY <1>1, <2>1, CostsGrow
<1>3. p[1] = pi.start /\ p[n] = b
  BY DEF Reference!IsPath
<1>4. \A k \in 1 .. n : Weighted(p[k]) \in Nat
  BY <1>1, <1>2, CostsOfGenerated, WeightedType DEF Inv
<1>5. node[u].f \in Nat /\ sol.sum \in Nat \cup {CostMax}
  BY <1>1, CostsOfGenerated DEF Inv, TypeInv, TypeOK, Solution
<1>13. ASSUME NEW f \in Nat, NEW g \in Nat, NEW t \in Nat, NEW c \in Nat,
              NEW v \in Nat, NEW w \in Nat
       PROVE  /\ f <= t + v /\ v <= c + w => f <= (t + c) + w
              /\ ~(f <= t + v) /\ g <= t => g + v < f
  OBVIOUS
<1>14. ASSUME NEW h \in Nat, NEW g \in Nat, NEW t \in Nat, NEW c \in Nat,
              h <= g + c, g <= t
       PROVE  h <= t + c
  BY <1>14
<1>15. ASSUME NEW f \in Nat, NEW g \in Nat, NEW t \in Nat, NEW c \in Nat,
              NEW w \in Nat, f <= g + c + w, g <= t
       PROVE  f <= (t + c) + w
  BY <1>15
<1> DEFINE Holds == {k \in 1 .. n : AtK(k)}
<1>6. 1 \in Holds
  BY <1>2, <1>3 DEF Costs
<1>7. ASSUME NEW k \in 1 .. n - 1, AtK(k)
      PROVE  AtK(k + 1) /\ NextOf(k)
  <2>1. k \in 1 .. n /\ k + 1 \in 1 .. n
    BY <1>2
  <2>2. PICK e \in DOMAIN Successors[map][p[k]] :
          /\ Successors[map][p[k]][e].node = p[k + 1]
          /\ Successors[map][p[k]][e].cost = Reference!EdgeCost(map, p[k], p[k + 1])
    BY <1>2 DEF Reference!EdgeCosts
  <2>3. PICK c \in Nat :
          /\ c = Reference!EdgeCost(map, p[k], p[k + 1])
          /\ s[k + 1] = s[k] + c
    BY <1>2
  <2>4. /\ Weighted(p[k]) <= c + Weighted(p[k + 1])
        /\ p[k] \in Node /\ s[k] \in Nat /\ s[k + 1] \in Nat
        /\ Weighted(p[k]) \in Nat /\ Weighted(p[k + 1]) \in Nat
    <3>1. p[k] \in Node /\ (p[k] = pi.start \/ p[k] \in Entered(Successors[map]))
      BY <1>2, <1>7, <2>1
    <3> QED
      BY <1>1, <1>2, <1>4, <2>1, <2>2, <2>3, <3>1, EdgeIsConsistent
  <2>5. p[k + 1] \in Entered(Successors[map])
    BY <2>2, <2>4 DEF Entered
  <2>6. ASSUME node[u].f <= s[k] + Weighted(p[k])
        PROVE  AtK(k + 1) /\ NextOf(k)
    <3>1. node[u].f <= s[k + 1] + Weighted(p[k + 1])
      <4>1. node[u].f <= (s[k] + c) + Weighted(p[k + 1])
        BY <1>5, <1>13, <2>4, <2>6, SMTT(30)
      <4> QED
        BY <2>3, <4>1
    <3> QED
      BY <2>5, <2>6, <3>1
  <2>7. ASSUME p[k] \in Generated, node[p[k]].g <= s[k],
               ~(node[u].f <= s[k] + Weighted(p[k]))
        PROVE  AtK(k + 1) /\ NextOf(k)
    <3>1. /\ node[p[k]].g \in Nat /\ node[p[k]].f \in Nat
          /\ node[p[k]].f = node[p[k]].g + Weighted(p[k])
      BY <1>1, <2>7, CostsOfGenerated DEF EstimatesKept
    <3>2. node[p[k]].f < node[u].f
      <4>1. node[p[k]].g + Weighted(p[k]) < node[u].f
        BY <1>5, <1>13, <2>4, <2>7, <3>1
      <4> QED
        BY <3>1, <4>1
    <3>3. p[k] \notin open /\ p[k] # u
      BY <1>5, <2>7, <3>1, <3>2
    <3>4. ~Beyond(node[p[k]].f)
      BY <1>5, <3>1, <3>2 DEF Beyond
    <3>5. EdgeSeen(p[k], e)
      BY <2>2, <2>7, <3>3, <3>4 DEF NothingLost
    <3>6. CASE p[k + 1] \in Generated /\ node[p[k + 1]].g <= node[p[k]].g + c
      <4>1. node[p[k + 1]].g \in Nat
        BY <1>1, <3>6, CostsOfGenerated
      <4>2. node[p[k + 1]].g <= s[k] + c
        BY <1>14, <2>4, <2>7, <3>1, <3>6, <4>1
      <4> QED
        BY <2>3, <2>5, <3>6, <4>2
    <3>7. CASE Beyond(node[p[k]].g + c + Weighted(p[k + 1]))
      <4>1. sol.sum # CostMax /\ sol.sum <= node[p[k]].g + c + Weighted(p[k + 1])
        BY <3>7 DEF Beyond
      <4>2. node[u].f <= node[p[k]].g + c + Weighted(p[k + 1])
        <5>1. PICK x \in Nat : x = node[p[k]].g + c + Weighted(p[k + 1])
          BY <2>4, <3>1, SMTT(30)
        <5>2. sol.sum <= x /\ ~(sol.sum <= node[u].f) /\ sol.sum \in Nat
          BY <1>5, <4>1, <5>1 DEF Beyond
        <5> QED
          BY <1>5, <5>1, <5>2
      <4>3. node[u].f <= (s[k] + c) + Weighted(p[k + 1])
        BY <1>5, <1>15, <2>4, <2>7, <3>1, <4>2
      <4> QED
        BY <2>3, <2>5, <4>1, <4>3
    <3> QED
      BY <2>2, <2>3, <3>5, <3>6, <3>7 DEF EdgeSeen
  <2> QED
    BY <1>7, <2>6, <2>7
<1>8. ASSUME NEW k \in 1 .. n - 1, k \in Holds
      PROVE  k + 1 \in Holds
  BY <1>2, <1>7, <1>8
<1> HIDE DEF Holds
<1>9. 1 .. n \subseteq Holds
  BY <1>2, <1>6, <1>8, UpToLast
<1>10. \A k \in 1 .. n : AtK(k)
  BY <1>9 DEF Holds
<1>11. \A k \in 1 .. n - 1 : k \in 1 .. n
  BY <1>2
<1>12. \A k \in 1 .. n - 1 : NextOf(k)
  BY <1>7, <1>10, <1>11
<1> QED
  BY <1>2, <1>3, <1>4, <1>10, <1>12

\* No path leads to a closed node at a lower cost than its g-value.
ClosedIsLeast ==
  \A n \in Generated : node[n].expanded =>
    \A x \in Walked(map, pi.start) : x[1] = n => node[n].g <= x[2]

\* A path from s, taken from Walked.
LEMMA WalkTo ==
  ASSUME NEW m, NEW a, NEW x \in Walked(m, a)
  PROVE  /\ x[1] \in Node /\ x[2] \in Nat
         /\ \E p \in Seq(Node) : \E q :
              /\ Reference!IsPath(m, p, a, x[1])
              /\ Costs(m, p, q) /\ q[Len(p)] <= x[2]
  BY DEF Walked

LEMMA StartIsFirst ==
  ASSUME Inv, pc # "idle"
  PROVE  pi.start \in Generated /\ node[pi.start].g = 0
  BY DEF Inv, SearchInv, StartIsRoot, TypeInv, CallOK

(* The next node to be closed has been reached by a shortest path: any     *)
(* other path goes on from a node that is not nearer to the target.        *)
LEMMA NextIsLeast ==
  ASSUME OrderInv, NothingLost, NEW n \in Node, Expand(n), Consistent,
         NEW x \in Walked(map, pi.start), x[1] = n
  PROVE  node[n].g <= x[2]
<1> DEFINE a == pi.start
<1>1. /\ Inv /\ pc = "loop" /\ n \in Best /\ n \in Generated /\ ~Admissible(node[n].f)
      /\ pi.start \in Generated /\ node[pi.start].g = 0
      /\ open \subseteq Generated /\ par.w = 1 /\ par \in Parameters
      /\ sol.sum \in Nat \cup {CostMax}
  BY ExpandFacts, StartIsFirst, ZenonT(30)
     DEF OrderInv, Expand, Inv, SearchInv, OpenIsLive, Consistent, TypeInv, TypeOK, Solution
<1>2. /\ node[n].f \in Nat /\ node[n].g \in Nat /\ Weighted(n) \in Nat
      /\ node[n].f = node[n].g + Weighted(n)
  BY <1>1, CostsOfGenerated DEF OrderInv, EstimatesKept
<1>3. \A b \in open : node[n].f <= node[b].f
  <2> SUFFICES ASSUME NEW b \in open
               PROVE  node[n].f <= node[b].f
    OBVIOUS
  <2>1. ~(node[b].f < node[n].f)
    BY <1>1 DEF Best, Precedes
  <2>2. node[b].f \in Nat
    BY <1>1, CostsOfGenerated
  <2> QED
    BY <1>2, <2>1, <2>2
<1>4. ~Beyond(node[n].f)
  <2>1. CASE sol.sum = CostMax
    BY <2>1 DEF Beyond
  <2>2. CASE sol.sum # CostMax
    <3>1. /\ ~(sol.sum <= par.w * node[n].f) \/ ~(sol.sum <= par.eps + node[n].f)
          /\ sol.sum \in Nat /\ par.eps \in Nat
      BY <1>1, <2>2, TraitsAssumption DEF Admissible, Parameters
    <3>2. par.w * node[n].f = node[n].f
      BY <1>1, <1>2
    <3>3. ~(sol.sum <= node[n].f)
      BY <1>2, <3>1, <3>2
    <3> QED
      BY <3>3 DEF Beyond
  <2> QED
    BY <2>1, <2>2
<1>p. PICK p \in Seq(Node) : \E s :
        /\ Reference!IsPath(map, p, a, n)
        /\ Costs(map, p, s)
        /\ s[Len(p)] <= x[2]
  BY WalkTo
<1>5. PICK s :
        /\ Reference!IsPath(map, p, a, n)
        /\ Costs(map, p, s)
        /\ s[Len(p)] <= x[2]
  BY <1>p
<1>6. /\ Len(p) \in Nat \ {0} /\ p[Len(p)] = n
      /\ \A k \in 1 .. Len(p) :
           /\ s[k] \in Nat
           /\ \/ p[k] \in Generated /\ node[p[k]].g <= s[k]
              \/ node[n].f <= s[k] + Weighted(p[k])
  BY <1>1, <1>3, <1>4, <1>5, AlongAnyWalk
<1>7. PICK c : c = s[Len(p)]
  OBVIOUS
<1>8. /\ c \in Nat /\ c <= x[2] /\ x[2] \in Nat
      /\ node[n].g <= c \/ node[n].f <= c + Weighted(n)
  BY <1>5, <1>6, <1>7, WalkTo
<1> QED
  BY <1>2, <1>8

LEMMA ClosedIsLeastStep ==
  ASSUME OrderInv, LostKept, Consistent => ClosedIsLeast, AC = "any" \/ RP = "yes",
         FreshIds, [Next]_vars, Consistent'
  PROVE  ClosedIsLeast'
<1>1. Inv
  BY DEF OrderInv
<1>2. CASE Call
  <2>1. \/ Generated' = {}
        \/ Generated' = {pi'.start} /\ ~node'[pi'.start].expanded
    BY <1>1, <1>2, CallFacts DEF Initialised
  <2> QED
    BY <2>1 DEF ClosedIsLeast
<1>3. ASSUME UNCHANGED <<map, pi, par>>
      PROVE  /\ Consistent /\ ClosedIsLeast
             /\ Walked(map, pi.start)' = Walked(map, pi.start)
  BY <1>3 DEF Consistent, Walked, Costs
<1>4. ASSUME NEW n \in Node, Expand(n)
      PROVE  ClosedIsLeast'
  <2>1. /\ UNCHANGED <<map, pi, par>> /\ sol'.sum = sol.sum /\ Generated' = Generated
        /\ \A m \in Node : /\ node'[m].g = node[m].g
                           /\ node'[m].expanded <=> (m = n \/ node[m].expanded)
    BY <1>1, <1>4, ExpandFacts
  <2>2. Consistent /\ ClosedIsLeast /\ Walked(map, pi.start)' = Walked(map, pi.start)
    BY <1>3, <2>1
  <2>3. NothingLost
    <3>1. AC = "any" => sol.sum = CostMax
      BY <1>4 DEF Expand, Admissible
    <3> QED
      BY <2>2, <3>1 DEF LostKept
  <2>4. \A x \in Walked(map, pi.start) : x[1] = n => node[n].g <= x[2]
    BY <1>4, <2>2, <2>3, NextIsLeast
  <2>5. \A m \in Generated : m \in Node
    BY <1>1, CostsOfGenerated
  <2> QED
    BY <2>1, <2>2, <2>4, <2>5 DEF ClosedIsLeast
<1>5. CASE Generate \/ Prune
  <2>1. /\ UNCHANGED <<map, pi, par>> /\ Generated' = Generated \cup {Child}
        /\ node'[Child] = NewNode /\ ~NewNode.expanded
        /\ \A m \in Node : m # Child => node'[m] = node[m]
    BY <1>1, <1>5, NewFacts
  <2>2. \A m \in Generated : m \in Node
    BY <1>1, CostsOfGenerated
  <2> HIDE DEF NewNode
  <2> QED
    BY <1>3, <2>1, <2>2 DEF ClosedIsLeast
<1>6. CASE Decrease \/ Reopen
  <2>1. /\ UNCHANGED <<map, pi, par>> /\ Generated' = Generated
        /\ node'[Child] = Relaxed /\ Relaxed.expanded = node[Child].expanded
        /\ \A m \in Node : m # Child => node'[m] = node[m]
    BY <1>1, <1>6, RelaxFacts
  <2>2. ~node[Child].expanded
    BY <1>3, <1>6, <2>1, ClosedNotRelaxed
  <2>3. \A m \in Generated : m \in Node
    BY <1>1, CostsOfGenerated
  <2> HIDE DEF Relaxed
  <2> QED
    BY <1>3, <2>1, <2>2, <2>3 DEF ClosedIsLeast
<1>7. CASE Dominated \/ EndExpansion \/ Stop \/ Extract \/ UNCHANGED vars
  <2>1. UNCHANGED <<map, node, pi, par>> /\ Generated' = Generated
    BY <1>1, <1>7, OtherFacts
  <2> QED
    BY <1>3, <2>1 DEF ClosedIsLeast
<1> QED
  BY <1>2, <1>4, <1>5, <1>6, <1>7, Steps

-----------------------------------------------------------------------------
(* The reference misses nothing that the search has reached.               *)

LEMMA CheapestCovers ==
  ASSUME NEW N, NEW r, r \subseteq N \X Nat, NEW y \in r
  PROVE  \E z \in Reference!Cheapest(r) : z[1] = y[1] /\ z[2] <= y[2]
<1> DEFINE T == {x[2] : x \in {w \in r : w[1] = y[1]}}
           z == <<y[1], Reference!Min(T)>>
<1>1. T \subseteq Nat /\ y[2] \in T
  OBVIOUS
<1>2. Reference!Min(T) <= y[2]
  <2> HIDE DEF T
  <2> QED
    BY <1>1, Minimum
<1>3. z \in Reference!Cheapest(r)
  BY DEF Reference!Cheapest
<1> QED
  BY <1>2, <1>3

LEMMA CheapestIsOne ==
  ASSUME NEW r, NEW x \in Reference!Cheapest(r), NEW y \in Reference!Cheapest(r),
         x[1] = y[1]
  PROVE  x[2] = y[2]
<1> DEFINE Least(n) == Reference!Min({w[2] : w \in {v \in r : v[1] = n}})
<1>1. \A z \in Reference!Cheapest(r) : \E n : z = <<n, Least(n)>>
  BY DEF Reference!Cheapest
<1> HIDE DEF Least
<1>2. \A z \in Reference!Cheapest(r) : z[2] = Least(z[1])
  BY <1>1
<1> QED
  BY <1>2

\* A round reaches what the one before reached, and what is one edge further.
LEMMA RoundGoesOn ==
  ASSUME NEW succ, NEW N, NEW X, X \subseteq N \X Nat, ClosedUnder(succ, X),
         NEW x, NEW y, x \subseteq X, y \in x
  PROVE  /\ \E z \in NextRound(succ, x) : z[1] = y[1] /\ z[2] <= y[2]
         /\ \A k \in DOMAIN succ[y[1]] :
              \E z \in NextRound(succ, x) :
                z[1] = succ[y[1]][k].node /\ z[2] <= y[2] + succ[y[1]][k].cost
<1> DEFINE r == Reference!Reached(succ, x)
<1>1. r \subseteq X /\ y \in r
  BY DEF Reference!Reached, ClosedUnder
<1>2. r \subseteq N \X Nat
  BY <1>1
<1>3. \A k \in DOMAIN succ[y[1]] :
        <<succ[y[1]][k].node, y[2] + succ[y[1]][k].cost>> \in r
  BY DEF Reference!Reached
<1> HIDE DEF r
<1>4. \A w \in r : \E z \in Reference!Cheapest(r) : z[1] = w[1] /\ z[2] <= w[2]
  BY <1>2, CheapestCovers
<1>5. ASSUME NEW k \in DOMAIN succ[y[1]]
      PROVE  \E z \in Reference!Cheapest(r) :
               z[1] = succ[y[1]][k].node /\ z[2] <= y[2] + succ[y[1]][k].cost
  <2> DEFINE w == <<succ[y[1]][k].node, y[2] + succ[y[1]][k].cost>>
  <2>1. w \in r
    BY <1>3
  <2>2. PICK z \in Reference!Cheapest(r) : z[1] = w[1] /\ z[2] <= w[2]
    BY <1>4, <2>1
  <2> QED
    BY <2>2
<1> QED
  BY <1>1, <1>4, <1>5 DEF NextRound, r

\* The start of a search is the only root.
LEMMA OneRoot ==
  ASSUME AnswerInv, NEW v \in Generated
  PROVE  /\ pi.start \in Generated /\ node[pi.start].g = 0
         /\ \A n \in Generated : node[n].parent = Null => n = pi.start
<1>1. \A n \in Generated : node[n].parent = Null => n = pi.start /\ node[n].g = 0
  <2> SUFFICES ASSUME NEW n \in Generated, node[n].parent = Null
               PROVE  n = pi.start /\ node[n].g = 0
    OBVIOUS
  <2>1. \A u \in Generated : u # Null
    BY CostsOfGenerated, MapsAssumption DEF AnswerInv
  <2> QED
    BY <2>1 DEF AnswerInv, Inv, SearchInv, Backpointers
<1>2. PICK n \in Generated : node[n].parent \notin Generated
  BY DEF AnswerInv, NoCircle
<1>3. node[n].parent = Null
  BY <1>2, ParentsOf DEF AnswerInv
<1> QED
  BY <1>1, <1>3

\* The nodes that a round x has reached as cheaply as the search.
CoveredBy(x, at) ==
  {u \in Generated : \E z \in x : at[z[1]] = u /\ z[2] \in Nat /\ z[2] <= node[u].g}

\* For each edge of the map between nodes that have a place in another graph
\* this graph has an edge.
StandFor(succ, N, at) ==
  \A p \in N : \A k \in DOMAIN Successors[map][at[p]] : \E j \in DOMAIN succ[p] :
    /\ at[succ[p][j].node] = Successors[map][at[p]][k].node
    /\ succ[p][j].cost = Successors[map][at[p]][k].cost

(* Each round reaches another node of the tree that the backpointers make, *)
(* as cheaply as the search did, as long as there is one.  The rounds may  *)
(* be those of another graph, if an edge stands for each edge of the map.  *)
LEMMA RoundsCover ==
  ASSUME AnswerInv, IsFiniteSet(Node), Generated # {},
         NEW succ, NEW s, NEW n \in Nat, n # 0, NEW r, Rounds(succ, s, r, n),
         NEW N, NEW X, X \subseteq N \X Nat, <<s, 0>> \in X, ClosedUnder(succ, X),
         NEW at, at[s] = pi.start, StandFor(succ, N, at)
  PROVE  CoveredBy(r[n], at) = Generated \/ Cardinality(CoveredBy(r[n], at)) >= n
<1> DEFINE a == pi.start
           D(k) == CoveredBy(r[k], at)
           Holds == {k \in 1 .. n : /\ a \in D(k)
                                    /\ D(k) = Generated \/ Cardinality(D(k)) >= k}
<1>1. /\ Inv /\ map \in Maps /\ a \in Generated /\ a \in Node /\ node[a].g = 0
      /\ \A u \in Generated : u \in Node /\ node[u].g \in Nat
      /\ \A u \in Generated : node[u].parent = Null => u = a
  BY OneRoot, CostsOfGenerated DEF AnswerInv, Inv, TypeInv, TypeOK
<1>2. \A k \in 1 .. n : r[k] \subseteq X
  BY RoundsStay
<1>3. \A k \in 1 .. n : D(k) \subseteq Node /\ IsFiniteSet(D(k))
  <2> SUFFICES ASSUME NEW k \in 1 .. n
               PROVE  D(k) \subseteq Node /\ IsFiniteSet(D(k))
    OBVIOUS
  <2>1. D(k) \subseteq Node
    BY <1>1 DEF CoveredBy
  <2> HIDE DEF D
  <2> QED
    BY <2>1, FS_Subset
<1>4. 1 \in Holds
  <2>1. <<s, 0>> \in r[1]
    BY DEF Rounds
  <2>2. a \in D(1)
    BY <1>1, <2>1 DEF CoveredBy
  <2>3. IsFiniteSet(D(1)) /\ 1 \in 1 .. n
    BY <1>3
  <2>4. Cardinality(D(1)) >= 1
    <3> HIDE DEF D
    <3>1. Cardinality({a}) <= Cardinality(D(1)) /\ Cardinality({a}) = 1
          /\ Cardinality(D(1)) \in Nat
      BY <2>2, <2>3, FS_Subset, FS_Singleton, FS_CardinalityType
    <3> QED
      BY <3>1
  <2> HIDE DEF D
  <2> QED
    BY <2>2, <2>3, <2>4
<1>5. ASSUME NEW k \in 1 .. n - 1, k \in Holds
      PROVE  k + 1 \in Holds
  <2>1. k \in 1 .. n /\ k + 1 \in 1 .. n /\ r[k + 1] = NextRound(succ, r[k])
    BY DEF Rounds
  <2>2. \A z \in r[k] \cup r[k + 1] : z[1] \in N /\ z[2] \in Nat
    BY <1>2, <2>1
  <2>3. ASSUME NEW y \in r[k]
        PROVE  /\ \E z \in r[k + 1] : z[1] = y[1] /\ z[2] <= y[2]
               /\ \A j \in DOMAIN succ[y[1]] :
                    \E z \in r[k + 1] :
                      z[1] = succ[y[1]][j].node /\ z[2] <= y[2] + succ[y[1]][j].cost
    <3>1. r[k] \subseteq X
      BY <1>2, <2>1
    <3>2. \E z \in NextRound(succ, r[k]) : z[1] = y[1] /\ z[2] <= y[2]
      BY <3>1, RoundGoesOn
    <3>3. \A j \in DOMAIN succ[y[1]] :
            \E z \in NextRound(succ, r[k]) :
              z[1] = succ[y[1]][j].node /\ z[2] <= y[2] + succ[y[1]][j].cost
      BY <3>1, RoundGoesOn
    <3> QED
      BY <2>1, <3>2, <3>3
  <2>4. D(k) \subseteq D(k + 1)
    <3> SUFFICES ASSUME NEW u \in D(k)
                 PROVE  u \in D(k + 1)
      OBVIOUS
    <3>1. u \in Generated
          /\ \E y \in r[k] : at[y[1]] = u /\ y[2] \in Nat /\ y[2] <= node[u].g
      BY DEF CoveredBy
    <3>2. PICK y \in r[k] : at[y[1]] = u /\ y[2] \in Nat /\ y[2] <= node[u].g
      BY <3>1
    <3>3. PICK z \in r[k + 1] : z[1] = y[1] /\ z[2] <= y[2]
      BY <2>3
    <3>4. z[2] \in Nat /\ node[u].g \in Nat
      BY <1>1, <2>2, <3>1
    <3>5. at[z[1]] = u /\ z[2] <= node[u].g
      BY <3>2, <3>3, <3>4
    <3> QED
      BY <3>1, <3>4, <3>5 DEF CoveredBy
  <2>5. ASSUME NEW u \in D(k), NEW w \in Generated, Supports(u, w)
        PROVE  w \in D(k + 1)
    <3>0. u \in Generated
          /\ \E y \in r[k] : at[y[1]] = u /\ y[2] \in Nat /\ y[2] <= node[u].g
      BY DEF CoveredBy
    <3>1. PICK y \in r[k] : at[y[1]] = u /\ y[2] \in Nat /\ y[2] <= node[u].g
      BY <3>0
    <3>2. PICK l \in DOMAIN Successors[map][u] :
            /\ Successors[map][u][l].node = w
            /\ node[u].g + Successors[map][u][l].cost <= node[w].g
      BY <2>5 DEF Supports
    <3>3. PICK j \in DOMAIN succ[y[1]] :
            /\ at[succ[y[1]][j].node] = Successors[map][u][l].node
            /\ succ[y[1]][j].cost = Successors[map][u][l].cost
      BY <2>2, <3>1 DEF StandFor
    <3>4. PICK z \in r[k + 1] :
            z[1] = succ[y[1]][j].node /\ z[2] <= y[2] + succ[y[1]][j].cost
      BY <2>3
    <3>5. Successors[map][u][l].cost \in Nat /\ node[u].g \in Nat /\ node[w].g \in Nat
          /\ z[2] \in Nat
      BY <1>1, <2>2, <3>0, EdgeOut
    <3>6. at[z[1]] = w /\ z[2] <= node[w].g
      BY <3>1, <3>2, <3>3, <3>4, <3>5
    <3> QED
      BY <3>5, <3>6 DEF CoveredBy
  <2>6. a \in D(k + 1)
    BY <1>5, <2>4
  <2>7. CASE D(k) = Generated
    <3>1. D(k + 1) = Generated
      BY <2>4, <2>7 DEF CoveredBy
    <3> HIDE DEF D
    <3> QED
      BY <2>1, <2>6, <3>1
  <2>8. CASE D(k) # Generated
    <3> DEFINE S == Generated \ D(k)
    <3>1. S \in SUBSET Generated /\ S # {}
      BY <2>8 DEF CoveredBy
    <3>2. PICK w \in S : node[w].parent \notin S
      <4> HIDE DEF S
      <4> QED
        BY <3>1 DEF AnswerInv, NoCircle
    <3>3. w # a
      BY <1>5
    <3>4. node[w].parent \in D(k) /\ Supports(node[w].parent, w)
      BY <1>1, <3>2, <3>3, ParentsOf
    <3>5. w \in D(k + 1) /\ w \notin D(k)
      BY <2>5, <3>2, <3>4
    <3>6. Cardinality(D(k)) >= k
      BY <1>5, <2>8
    <3>7. Cardinality(D(k + 1)) >= k + 1
      <4>1. IsFiniteSet(D(k)) /\ IsFiniteSet(D(k + 1)) /\ D(k) \cup {w} \subseteq D(k + 1)
        BY <1>3, <2>1, <2>4, <3>5
      <4> HIDE DEF D
      <4>2. /\ Cardinality(D(k)) \in Nat /\ Cardinality(D(k + 1)) \in Nat
            /\ Cardinality(D(k) \cup {w}) = Cardinality(D(k)) + 1
        BY <3>5, <4>1, FS_CardinalityType, FS_AddElement
      <4>3. Cardinality(D(k) \cup {w}) <= Cardinality(D(k + 1))
        BY <4>1, FS_Subset
      <4> QED
        BY <3>6, <4>2, <4>3
    <3> HIDE DEF D, S
    <3> QED
      BY <2>1, <2>6, <3>7
  <2> QED
    BY <2>7, <2>8
<1>6. n \in Holds
  <2> HIDE DEF Holds
  <2>1. 1 .. n \subseteq Holds
    BY <1>4, <1>5, UpToLast
  <2> QED
    BY <2>1
<1> QED
  BY <1>6

LEMMA ReferenceCovers ==
  ASSUME AnswerInv, IsFiniteSet(Node), NEW v \in Generated
  PROVE  \E y \in Reference!ShortestFrom(map, pi.start) :
           y[1] = v /\ y[2] \in Nat /\ y[2] <= node[v].g
<1> DEFINE n == Cardinality(Node)
           a == pi.start
           at == [u \in Node |-> u]
<1>1. n \in Nat /\ n # 0
  <2>1. Node # {}
    BY CostsOfGenerated DEF AnswerInv
  <2> QED
    BY <2>1, FS_CardinalityType, FS_EmptySet
<1>2. PICK r : Rounds(Successors[map], a, r, n) /\ Reference!ShortestFrom(map, a) = r[n]
  BY <1>1, RoundsExist
<1>3. /\ map \in Maps /\ a \in Node
      /\ \A u \in Generated : u \in Node
  BY OneRoot, CostsOfGenerated DEF AnswerInv, Inv, TypeInv, TypeOK
<1>4. /\ Walked(map, a) \subseteq Node \X Nat /\ <<a, 0>> \in Walked(map, a)
      /\ ClosedUnder(Successors[map], Walked(map, a))
  <2> HIDE DEF a
  <2> QED
    BY <1>3, WalkedIsClosed
<1>5. StandFor(Successors[map], Node, at)
  <2> SUFFICES ASSUME NEW p \in Node, NEW k \in DOMAIN Successors[map][p]
               PROVE  Successors[map][p][k].node \in Node
    BY DEF StandFor
  <2>1. Successors[map][p] \in Seq(Edge)
    BY <1>3, MapsAssumption
  <2>2. Successors[map][p][k] \in Edge
    BY <2>1
  <2> QED
    BY <2>2 DEF Edge
<1>6. CoveredBy(r[n], at) = Generated \/ Cardinality(CoveredBy(r[n], at)) >= n
  <2>1. at[a] = pi.start
    BY <1>3
  <2> DEFINE succ == Successors[map]
             X == Walked(map, a)
  <2>2. Rounds(succ, a, r, n) /\ X \subseteq Node \X Nat /\ <<a, 0>> \in X /\ ClosedUnder(succ, X)
        /\ Generated # {}
    BY <1>2, <1>4
  <2>3. StandFor(succ, Node, at)
    BY <1>5
  <2> HIDE DEF at, succ, X, a, n
  <2> QED
    BY <1>1, <2>1, <2>2, <2>3, RoundsCover
<1>7. v \in CoveredBy(r[n], at)
  <2> DEFINE D == CoveredBy(r[n], at)
  <2>1. CASE Cardinality(D) >= n
    <3>1. D \subseteq Node
      BY <1>3 DEF CoveredBy
    <3>2. D = Node
      <4> HIDE DEF D
      <4>1. IsFiniteSet(D) /\ Cardinality(D) <= n /\ Cardinality(D) \in Nat
        BY <3>1, FS_Subset, FS_CardinalityType
      <4>2. Cardinality(D) = Cardinality(Node)
        BY <1>1, <2>1, <4>1
      <4> QED
        BY <3>1, <4>2, FS_Subset
    <3> QED
      BY <1>3, <3>2
  <2> QED
    BY <1>6, <2>1
<1>8. PICK y \in r[n] : at[y[1]] = v /\ y[2] \in Nat /\ y[2] <= node[v].g
  BY <1>7 DEF CoveredBy
<1>9. y[1] \in Node
  <2>1. r[n] \subseteq Walked(map, a)
    <3>1. Reference!ShortestFrom(map, a) \subseteq Walked(map, a)
      <4> HIDE DEF a
      <4> QED
        BY <1>3, ReferenceIsWalked
    <3> QED
      BY <1>2, <3>1
  <2> QED
    BY <1>4, <2>1
<1> QED
  BY <1>2, <1>8, <1>9

-----------------------------------------------------------------------------
(* The first incumbent.                                                    *)

\* A finite set of integers has a greatest and a least element.
LEMMA Extremes ==
  ASSUME NEW S, S \subseteq Int, IsFiniteSet(S), S # {}
  PROVE  /\ \E x \in S : \A y \in S : x >= y
         /\ \E x \in S : \A y \in S : x <= y
<1> DEFINE n == Cardinality(S)
<1>1. n \in Nat /\ n # 0
  BY FS_CardinalityType, FS_EmptySet
<1>2. PICK f : f \in Bijection(1 .. n, S)
  BY FS_CardinalityType DEF ExistsBijection
<1>3. /\ \A k \in 1 .. n : f[k] \in S /\ f[k] \in Int
      /\ \A x \in S : \E k \in 1 .. n : f[k] = x
  <2>1. /\ \A k \in 1 .. n : f[k] \in S
        /\ \A x \in S : \E k \in 1 .. n : f[k] = x
    BY <1>2 DEF Bijection, Surjection
  <2> QED
    BY <2>1
<1> HIDE DEF n
<1> DEFINE Holds == {k \in 1 .. n : /\ \E x \in S : \A j \in 1 .. k : x >= f[j]
                                    /\ \E x \in S : \A j \in 1 .. k : x <= f[j]}
<1>4. 1 \in Holds
  <2>1. 1 \in 1 .. n
    BY <1>1
  <2>3. f[1] \in S /\ f[1] \in Int
    BY <1>3, <2>1
  <2>2. \A j \in 1 .. 1 : f[1] >= f[j] /\ f[1] <= f[j]
    BY <2>3
  <2> QED
    BY <2>1, <2>2, <2>3
<1>5. ASSUME NEW k \in 1 .. n - 1, k \in Holds
      PROVE  k + 1 \in Holds
  <2>1. k + 1 \in 1 .. n /\ \A j \in 1 .. k + 1 : j \in 1 .. k \/ j = k + 1
    BY <1>1
  <2>2. f[k + 1] \in S /\ f[k + 1] \in Int /\ \A j \in 1 .. k : f[j] \in Int
    <3>1. \A j \in 1 .. k : j \in 1 .. n
      BY <1>1
    <3> QED
      BY <1>3, <2>1, <3>1
  <2>3. PICK x \in S : \A j \in 1 .. k : x >= f[j]
    BY <1>5
  <2>4. PICK z \in S : \A j \in 1 .. k : z <= f[j]
    BY <1>5
  <2>5. \E y \in S : \A j \in 1 .. k + 1 : y >= f[j]
    <3>1. CASE x >= f[k + 1]
      BY <2>1, <2>3, <3>1
    <3>2. CASE ~(x >= f[k + 1])
      <4>1. \A j \in 1 .. k + 1 : f[k + 1] >= f[j]
        <5> SUFFICES ASSUME NEW j \in 1 .. k + 1
                     PROVE  f[k + 1] >= f[j]
          OBVIOUS
        <5>1. x \in Int
          OBVIOUS
        <5>2. CASE j = k + 1
          BY <2>2, <5>2
        <5>3. CASE j \in 1 .. k
          BY <2>2, <2>3, <3>2, <5>1, <5>3
        <5> QED
          BY <2>1, <5>2, <5>3
      <4> QED
        BY <2>2, <4>1
    <3> QED
      BY <3>1, <3>2
  <2>6. \E y \in S : \A j \in 1 .. k + 1 : y <= f[j]
    <3>1. CASE z <= f[k + 1]
      BY <2>1, <2>4, <3>1
    <3>2. CASE ~(z <= f[k + 1])
      <4>1. \A j \in 1 .. k + 1 : f[k + 1] <= f[j]
        <5> SUFFICES ASSUME NEW j \in 1 .. k + 1
                     PROVE  f[k + 1] <= f[j]
          OBVIOUS
        <5>1. z \in Int
          OBVIOUS
        <5>2. CASE j = k + 1
          BY <2>2, <5>2
        <5>3. CASE j \in 1 .. k
          BY <2>2, <2>4, <3>2, <5>1, <5>3
        <5> QED
          BY <2>1, <5>2, <5>3
      <4> QED
        BY <2>2, <4>1
    <3> QED
      BY <3>1, <3>2
  <2> QED
    BY <2>1, <2>5, <2>6
<1>6. n \in Holds
  <2> HIDE DEF Holds
  <2>1. 1 .. n \subseteq Holds
    BY <1>1, <1>4, <1>5, UpToLast
  <2> QED
    BY <1>1, <2>1
<1> QED
  BY <1>3, <1>6

LEMMA MaxAndMin ==
  ASSUME NEW S, S \subseteq Int, IsFiniteSet(S), S # {}
  PROVE  /\ Reference!Max(S) \in S /\ Reference!Min(S) \in S
         /\ \A y \in S : Reference!Min(S) <= y /\ y <= Reference!Max(S)
<1>1. PICK x \in S : \A y \in S : x >= y
  BY Extremes
<1>2. PICK z \in S : \A y \in S : z <= y
  BY Extremes
<1>3. Reference!Max(S) \in S /\ \A y \in S : Reference!Max(S) >= y
  BY <1>1 DEF Reference!Max
<1>4. Reference!Min(S) \in S /\ \A y \in S : Reference!Min(S) <= y
  BY <1>2 DEF Reference!Min
<1>5. \A x1, y1 \in Int : x1 >= y1 => y1 <= x1
  OBVIOUS
<1> QED
  BY <1>3, <1>4, <1>5

\* The edges into t of a finite map are finitely many.
LEMMA EdgesAreFinite ==
  ASSUME NEW m \in Maps, NEW t, IsFiniteSet(Node)
  PROVE  IsFiniteSet({x \in Node \X (Nat \ {0}) :
                        /\ x[2] \in DOMAIN Successors[m][x[1]]
                        /\ Successors[m][x[1]][x[2]].node = t})
<1> DEFINE T == {Len(Successors[m][n]) : n \in Node}
           f == [n \in Node |-> Len(Successors[m][n])]
           D == {x \in Node \X (Nat \ {0}) :
                   /\ x[2] \in DOMAIN Successors[m][x[1]]
                   /\ Successors[m][x[1]][x[2]].node = t}
<1>1. \A n \in Node : /\ Len(Successors[m][n]) \in Nat
                      /\ DOMAIN Successors[m][n] = 1 .. Len(Successors[m][n])
  <2> SUFFICES ASSUME NEW n \in Node
               PROVE  /\ Len(Successors[m][n]) \in Nat
                      /\ DOMAIN Successors[m][n] = 1 .. Len(Successors[m][n])
    OBVIOUS
  <2>1. Successors[m][n] \in Seq(Edge)
    BY MapsAssumption
  <2> QED
    BY <2>1
<1>2. IsFiniteSet(T)
  <2>1. f \in Surjection(Node, T)
    BY DEF Surjection
  <2> HIDE DEF f, T
  <2> QED
    BY <2>1, FS_Surjection
<1>3. CASE Node = {}
  <2>1. D = {}
    BY <1>3
  <2> QED
    BY <2>1, FS_EmptySet
<1>4. CASE Node # {}
  <2>1. T \subseteq Int /\ T # {}
    <3>1. \A n \in Node : Len(Successors[m][n]) \in Int
      BY <1>1
    <3> QED
      BY <1>4, <3>1
  <2>2. PICK l \in T : \A y \in T : l >= y
    <3> HIDE DEF T
    <3> QED
      BY <1>2, <2>1, Extremes
  <2>3. l \in Nat /\ \A n \in Node : Len(Successors[m][n]) <= l
    BY <1>1, <2>2
  <2>4. D \subseteq Node \X (1 .. l)
    BY <1>1, <2>3
  <2>5. IsFiniteSet(Node \X (1 .. l))
    <3>1. 1 \in Int /\ l \in Int
      BY <2>3
    <3>2. IsFiniteSet(1 .. l)
      BY <3>1, FS_Interval
    <3> QED
      BY <3>2, FS_Product
  <2> HIDE DEF D
  <2>6. IsFiniteSet(D)
    BY <2>4, <2>5, FS_Subset
  <2> QED
    BY <2>6 DEF D
<1> QED
  BY <1>3, <1>4

\* Two edges into t are no more uneven than Spread says, and some are as uneven.
LEMMA SpreadBounds ==
  ASSUME NEW m \in Maps, NEW t \in Node, IsFiniteSet(Node),
         NEW u \in Node, NEW v \in Node,
         NEW k \in DOMAIN Successors[m][u], NEW l \in DOMAIN Successors[m][v],
         Successors[m][u][k].node = t, Successors[m][v][l].node = t
  PROVE  /\ Spread(Successors[m], LowerBound[m], t) \in Int
         /\ (Successors[m][u][k].cost - LowerBound[m][u][t])
              - (Successors[m][v][l].cost - LowerBound[m][v][t])
              <= Spread(Successors[m], LowerBound[m], t)
         /\ \E a, b \in Node : \E j \in DOMAIN Successors[m][a], h \in DOMAIN Successors[m][b] :
              /\ Successors[m][a][j].node = t /\ Successors[m][b][h].node = t
              /\ Spread(Successors[m], LowerBound[m], t)
                   = (Successors[m][a][j].cost - LowerBound[m][a][t])
                       - (Successors[m][b][h].cost - LowerBound[m][b][t])
<1> DEFINE Slack(n, j) == Successors[m][n][j].cost - LowerBound[m][n][t]
           D == {x \in Node \X (Nat \ {0}) :
                   /\ x[2] \in DOMAIN Successors[m][x[1]]
                   /\ Successors[m][x[1]][x[2]].node = t}
           S == UNION {{Successors[m][n][j].cost - LowerBound[m][n][t] :
                          j \in {i1 \in DOMAIN Successors[m][n] :
                                    Successors[m][n][i1].node = t}} : n \in Node}
           f == [x \in D |-> Slack(x[1], x[2])]
<1>1. Spread(Successors[m], LowerBound[m], t) = Reference!Max(S) - Reference!Min(S)
  BY DEF Spread
<1>2. \A n \in Node : \A j \in DOMAIN Successors[m][n] :
        j \in Nat \ {0} /\ Slack(n, j) \in Int
  <2> SUFFICES ASSUME NEW n \in Node, NEW j \in DOMAIN Successors[m][n]
               PROVE  j \in Nat \ {0} /\ Slack(n, j) \in Int
    OBVIOUS
  <2>1. Successors[m][n] \in Seq(Edge) /\ LowerBound[m][n][t] \in Nat
    BY MapsAssumption
  <2>2. Successors[m][n][j] \in Edge /\ j \in Nat \ {0}
    BY <2>1
  <2> QED
    BY <2>1, <2>2 DEF Edge
<1>3. /\ \A x \in D : /\ x[1] \in Node /\ x[2] \in DOMAIN Successors[m][x[1]]
                       /\ Successors[m][x[1]][x[2]].node = t
      /\ \A n \in Node : \A j \in DOMAIN Successors[m][n] :
           Successors[m][n][j].node = t => <<n, j>> \in D
  BY <1>2
<1>4. /\ \A n \in Node : \A j \in DOMAIN Successors[m][n] :
           Successors[m][n][j].node = t => Slack(n, j) \in S
      /\ \A y \in S : \E n \in Node : \E j \in DOMAIN Successors[m][n] :
           Successors[m][n][j].node = t /\ y = Slack(n, j)
  OBVIOUS
<1>5. IsFiniteSet(D)
  BY EdgesAreFinite
<1> HIDE DEF D, S
<1>6. f \in Surjection(D, S)
  <2> HIDE DEF Slack
  <2>1. f \in [D -> S]
    BY <1>3, <1>4
  <2>2. ASSUME NEW y \in S
        PROVE  \E x \in D : f[x] = y
    <3>1. PICK n \in Node : \E j \in DOMAIN Successors[m][n] :
            Successors[m][n][j].node = t /\ y = Slack(n, j)
      BY <1>4
    <3>2. PICK j \in DOMAIN Successors[m][n] :
            Successors[m][n][j].node = t /\ y = Slack(n, j)
      BY <3>1
    <3>3. <<n, j>> \in D
      BY <1>3, <3>2
    <3>4. f[<<n, j>>] = Slack(n, j)
      BY <3>3
    <3> QED
      BY <3>2, <3>3, <3>4
  <2> QED
    BY <2>1, <2>2 DEF Surjection
<1>7. IsFiniteSet(S)
  <2> HIDE DEF f
  <2> QED
    BY <1>5, <1>6, FS_Surjection
<1>8. S \subseteq Int
  BY <1>2, <1>4
<1>9. Slack(u, k) \in S /\ Slack(v, l) \in S
  BY <1>4
<1> HIDE DEF Slack
<1>10. /\ Reference!Max(S) \in Int /\ Reference!Min(S) \in Int
       /\ Slack(u, k) \in Int /\ Slack(v, l) \in Int
       /\ Reference!Min(S) <= Slack(v, l) /\ Slack(u, k) <= Reference!Max(S)
  BY <1>7, <1>8, <1>9, MaxAndMin
<1>11. /\ Reference!Max(S) - Reference!Min(S) \in Int
       /\ Slack(u, k) - Slack(v, l) <= Reference!Max(S) - Reference!Min(S)
  BY <1>10
<1>12. \E a, b \in Node : \E j \in DOMAIN Successors[m][a], h \in DOMAIN Successors[m][b] :
         /\ Successors[m][a][j].node = t /\ Successors[m][b][h].node = t
         /\ Reference!Max(S) - Reference!Min(S) = Slack(a, j) - Slack(b, h)
  <2>1. Reference!Max(S) \in S /\ Reference!Min(S) \in S
    BY <1>7, <1>8, <1>9, MaxAndMin
  <2>2. PICK a \in Node : \E j \in DOMAIN Successors[m][a] :
          Successors[m][a][j].node = t /\ Reference!Max(S) = Slack(a, j)
    BY <1>4, <2>1
  <2>3. PICK b \in Node : \E h \in DOMAIN Successors[m][b] :
          Successors[m][b][h].node = t /\ Reference!Min(S) = Slack(b, h)
    BY <1>4, <2>1
  <2> QED
    BY <2>2, <2>3
<1> QED
  BY <1>1, <1>11, <1>12 DEF Slack

(* The incumbent is no farther than a shortest path to the target, but for *)
(* how uneven the estimates are next to the target.                        *)
SumIsNear ==
  sol.sum # CostMax =>
    \A x \in Walked(map, pi.start) : x[1] = pi.target =>
      \/ sol.sum <= x[2]
      \/ sol.sum <= x[2] + Spread(Successors[map], LowerBound[map], pi.target)

(* When the target is generated, the last edge of any other path to it     *)
(* leaves a node that is not before the one being expanded.                *)
LEMMA NearByNew ==
  ASSUME OrderInv, NothingLost, Consistent, IsFiniteSet(Node), Generate \/ Prune,
         Child = pi.target, sol.sum = CostMax,
         NEW x \in Walked(map, pi.start), x[1] = pi.target
  PROVE  GVal <= x[2] + Spread(Successors[map], LowerBound[map], pi.target)
<1> DEFINE a == pi.start
           t == pi.target
           spread == Spread(Successors[map], LowerBound[map], t)
<1>1. /\ Inv /\ map \in Maps /\ pc = "succ" /\ current \in Generated /\ node[current].expanded
      /\ current \in Node /\ t \in Node /\ t \notin Generated /\ i \in DOMAIN Succ
      /\ a \in Generated /\ node[a].g = 0 /\ par.w = 1
      /\ \A b \in open : node[current].f <= node[b].f
      /\ ~Beyond(node[current].f)
  <2>1. Inv /\ map \in Maps /\ ClosedInOrder /\ par.w = 1
    BY DEF OrderInv, Inv, TypeInv, TypeOK, Consistent
  <2>2. /\ pc = "succ" /\ current \in Generated /\ node[current].expanded
        /\ Child \in Node /\ Child \notin Generated /\ i \in DOMAIN Succ
    BY <2>1, NewFacts
  <2>3. current \in Node /\ a \in Generated /\ node[a].g = 0
    BY <2>1, <2>2, CostsOfGenerated, StartIsFirst
  <2>4. \A b \in open : node[current].f <= node[b].f
    BY <2>1, <2>2 DEF ClosedInOrder
  <2> QED
    BY <2>1, <2>2, <2>3, <2>4 DEF Beyond
<1>p. PICK p \in Seq(Node) : \E s :
        /\ Reference!IsPath(map, p, a, t)
        /\ Costs(map, p, s)
        /\ s[Len(p)] <= x[2]
  BY WalkTo
<1>2. PICK s :
        /\ Reference!IsPath(map, p, a, t)
        /\ Costs(map, p, s)
        /\ s[Len(p)] <= x[2]
  BY <1>p
<1>3. /\ Len(p) \in Nat \ {0} /\ p[Len(p)] = t
      /\ \A k \in 1 .. Len(p) :
           p[k] \in Node /\ s[k] \in Nat /\ Weighted(p[k]) \in Nat
      /\ \A k \in 1 .. Len(p) - 1 :
           /\ node[current].f <= s[k] + Weighted(p[k]) \/ p[k + 1] \in Generated
           /\ Reference!EdgeCost(map, p[k], p[k + 1]) \in Nat
           /\ Reference!EdgeCost(map, p[k], p[k + 1])
                \in Reference!EdgeCosts(map, p[k], p[k + 1])
           /\ s[k + 1] = s[k] + Reference!EdgeCost(map, p[k], p[k + 1])
  <2> HIDE DEF t
  <2> QED
    BY <1>1, <1>2, AlongAnyWalk
<1>4. p[1] = a
  BY <1>2 DEF Reference!IsPath
<1>5. PICK k \in 1 .. Len(p) - 1 : k + 1 = Len(p)
  <2>1. Len(p) # 1
    BY <1>1, <1>3, <1>4
  <2>2. PICK l \in Nat \ {0} : l = Len(p)
    BY <1>3
  <2>3. l - 1 \in 1 .. l - 1 /\ (l - 1) + 1 = l
    BY <2>1, <2>2
  <2> QED
    BY <2>2, <2>3
<1>6. k \in 1 .. Len(p) /\ p[k + 1] = t
  BY <1>3, <1>5
<1>7. PICK e \in DOMAIN Successors[map][p[k]] :
        /\ Successors[map][p[k]][e].node = t
        /\ Successors[map][p[k]][e].cost = Reference!EdgeCost(map, p[k], t)
  BY <1>3, <1>6 DEF Reference!EdgeCosts
<1>8. PICK ce \in Nat : /\ ce = Successors[map][p[k]][e].cost
                       /\ s[Len(p)] = s[k] + ce
  BY <1>3, <1>5, <1>6, <1>7
<1>9. PICK ci \in Nat : ci = Succ[i].cost /\ GVal = node[current].g + ci
  BY <1>1, EdgeOut DEF Succ, GVal
<1>10. /\ node[current].f = node[current].g + Weighted(current)
       /\ node[current].g \in Nat /\ Weighted(current) \in Nat
       /\ node[current].f <= s[k] + Weighted(p[k])
       /\ s[k] \in Nat /\ Weighted(p[k]) \in Nat /\ p[k] \in Node
  <2>1. node[current].f <= s[k] + Weighted(p[k])
    BY <1>1, <1>3, <1>6
  <2> QED
    BY <1>1, <1>3, <1>6, <2>1, CostsOfGenerated DEF OrderInv, EstimatesKept
<1>11. \A n \in Node : Weighted(n) = LowerBound[map][n][t]
  <2>1. \A n \in Node : LowerBound[map][n][t] \in Nat
    <3>1. LowerBound[map] \in [Node -> [Node -> Nat]]
      BY <1>1, MapsAssumption
    <3> QED
      BY <1>1, <3>1
  <2> QED
    BY <1>1, <2>1 DEF Weighted
<1>12. spread \in Int /\ (ci - Weighted(current)) - (ce - Weighted(p[k])) <= spread
  <2>1. Succ[i] = Successors[map][current][i] /\ Succ[i].node = t
        /\ i \in DOMAIN Successors[map][current]
    BY <1>1 DEF Succ, Child
  <2>2. /\ spread \in Int
        /\ (Successors[map][current][i].cost - LowerBound[map][current][t])
             - (Successors[map][p[k]][e].cost - LowerBound[map][p[k]][t]) <= spread
    <3> HIDE DEF t
    <3> QED
      BY <1>1, <1>7, <1>10, <2>1, SpreadBounds, SMTT(30)
  <2> HIDE DEF spread
  <2> QED
    BY <1>1, <1>8, <1>9, <1>10, <1>11, <2>1, <2>2
<1>13. s[Len(p)] <= x[2] /\ x[2] \in Nat
  BY <1>2, WalkTo
<1> HIDE DEF spread
<1>14. ASSUME NEW g \in Nat, NEW w \in Nat, NEW q \in Nat, NEW v \in Nat,
              NEW d \in Int, NEW y \in Nat,
              g + w <= q + v, (ci - w) - (ce - v) <= d, q + ce <= y
       PROVE  g + ci <= y + d
  BY <1>14, SMTT(30)
<1>15. GVal <= x[2] + spread
  <2>1. node[current].g + Weighted(current) <= s[k] + Weighted(p[k])
    BY <1>10
  <2>2. s[k] + ce <= x[2]
    BY <1>8, <1>13
  <2>3. node[current].g + ci <= x[2] + spread
    BY <1>10, <1>12, <1>13, <1>14, <2>1, <2>2
  <2> QED
    BY <1>9, <2>3
<1> QED
  BY <1>15 DEF spread

LEMMA SumIsNearStep ==
  ASSUME OrderInv, LostKept, Consistent => SumIsNear, IsFiniteSet(Node),
         FreshIds, [Next]_vars, Consistent'
  PROVE  SumIsNear'
<1>1. Inv
  BY DEF OrderInv
<1>2. CASE Call
  <2>1. PICK op \in IdOps, q \in Queries, p \in Params : GetPath(op, q[1], q[2], p)
    BY <1>2 DEF Call
  <2>2. sol' = EmptySolution \/ \E r : sol' = Incumbent(EmptySolution, r, q[1], 0)
    BY <2>1 DEF GetPath
  <2>3. sol'.sum \in {0, CostMax}
    <3>1. CASE sol' = EmptySolution
      BY <3>1 DEF EmptySolution
    <3>2. CASE sol' = [EmptySolution EXCEPT !.s_node = q[1], !.sum = 0]
      BY <3>2 DEF EmptySolution
    <3> QED
      BY <2>2, <3>1, <3>2 DEF Incumbent
  <2>4. \A x \in Walked(map, pi.start)' : 0 <= x[2]
    BY DEF Walked
  <2> QED
    BY <2>3, <2>4 DEF SumIsNear
<1>3. ASSUME UNCHANGED <<map, pi, par>>
      PROVE  /\ Consistent /\ SumIsNear
             /\ Walked(map, pi.start)' = Walked(map, pi.start)
  BY <1>3 DEF Consistent, Walked, Costs
<1>4. ASSUME UNCHANGED <<map, pi, par>>, sol'.sum = sol.sum
      PROVE  SumIsNear'
  BY <1>3, <1>4 DEF SumIsNear
<1>5. CASE \E n \in Node : Expand(n)
  BY <1>1, <1>4, <1>5, ExpandFacts
<1>6. CASE Generate \/ Prune
  <2>1. /\ UNCHANGED <<map, pi, par>> /\ Child \notin Generated /\ sol' = NewSol
    BY <1>1, <1>6, NewFacts
  <2>2. Consistent /\ Walked(map, pi.start)' = Walked(map, pi.start)
    BY <1>3, <2>1
  <2>3. CASE NewSol = sol
    BY <1>4, <2>1, <2>3
  <2>4. CASE NewSol # sol
    <3>1. Child = pi.target /\ NewSol = [sol EXCEPT !.s_node = Child, !.sum = GVal]
      BY <2>4 DEF NewSol, Incumbent
    <3>2. sol.sum = CostMax
      BY <1>1, <2>1, <3>1 DEF Inv, SearchInv, IncumbentIsTarget
    <3>3. sol'.sum = GVal
      BY <1>1, <2>1, <3>1 DEF Inv, TypeInv, TypeOK, Solution
    <3>4. NothingLost
      BY <2>2, <3>2 DEF LostKept
    <3>5. \A x \in Walked(map, pi.start) : x[1] = pi.target =>
            GVal <= x[2] + Spread(Successors[map], LowerBound[map], pi.target)
      BY <1>6, <2>2, <3>1, <3>2, <3>4, NearByNew
    <3> QED
      BY <2>1, <2>2, <3>3, <3>5 DEF SumIsNear
  <2> QED
    BY <2>3, <2>4
<1>7. CASE Decrease \/ Reopen
  BY <1>1, <1>4, <1>7, RelaxFacts
<1>8. CASE Dominated \/ EndExpansion \/ Stop \/ Extract \/ UNCHANGED vars
  BY <1>1, <1>4, <1>8, OtherFacts
<1> QED
  BY <1>2, <1>5, <1>6, <1>7, <1>8, Steps

-----------------------------------------------------------------------------
(* The inductive invariant.                                                *)

ConsistentInv ==
  /\ AnswerInv /\ OrderInv /\ LostKept
  /\ Consistent => SumIsNear
  /\ Consistent /\ (AC = "any" \/ RP = "yes") => ClosedIsLeast

LEMMA ConsistentInvInit ==
  ASSUME Init
  PROVE  ConsistentInv
<1>1. AnswerInv /\ OrderInv
  BY AnswerInvInit, OrderInvInit
<1>2. Generated = {} /\ sol.sum = CostMax
  BY DEF Init, Unused, Generated, EmptySolution
<1> QED
  BY <1>1, <1>2 DEF ConsistentInv, LostKept, NothingLost, SumIsNear, ClosedIsLeast

LEMMA ConsistentInvStep ==
  ASSUME ConsistentInv, FreshIds, IsFiniteSet(Node), [Next]_vars
  PROVE  ConsistentInv'
<1>1. AnswerInv' /\ OrderInv' /\ LostKept'
  BY AnswerInvStep, OrderInvStep, LostKeptStep DEF ConsistentInv
<1>2. Consistent' => SumIsNear'
  BY SumIsNearStep DEF ConsistentInv
<1>3. Consistent' /\ (AC = "any" \/ RP = "yes") => ClosedIsLeast'
  BY ClosedIsLeastStep DEF ConsistentInv
<1> QED
  BY <1>1, <1>2, <1>3 DEF ConsistentInv

LEMMA ConsistentInvariant ==
  ASSUME FreshIds, IsFiniteSet(Node)
  PROVE  Init /\ [][Next]_vars => []ConsistentInv
<1>1. Init => ConsistentInv
  BY ConsistentInvInit
<1>2. ConsistentInv /\ [Next]_vars => ConsistentInv'
  BY ConsistentInvStep
<1> QED
  BY <1>1, <1>2, PTL

LEMMA ClosedFinal ==
  ASSUME ConsistentInv, IsFiniteSet(Node), AC = "any" \/ RP = "yes"
  PROVE  ClosedIsFinal
<1> SUFFICES ASSUME pc = "loop", Consistent, NEW n \in Generated, node[n].expanded
             PROVE  IsShortest(n, node[n].g)
  BY DEF ClosedIsFinal
<1> DEFINE a == pi.start
<1>1. /\ AnswerInv /\ Inv /\ QueryAsked /\ map \in Maps /\ calls > 0 /\ n \in Node
      /\ a \in Node /\ node[n].g \in Nat
  <2>1. AnswerInv /\ Inv /\ QueryAsked
    BY DEF ConsistentInv, AnswerInv, OrderInv
  <2>2. a \in Generated
    BY <2>1, StartIsFirst
  <2> QED
    BY <2>1, <2>2, CostsOfGenerated DEF Inv, TypeInv, TypeOK
<1>2. PICK y \in Reference!ShortestFrom(map, a) :
        y[1] = n /\ y[2] \in Nat /\ y[2] <= node[n].g
  BY <1>1, ReferenceCovers
<1>3. y \in Walked(map, a)
  <2> HIDE DEF a
  <2> QED
    BY <1>1, ReferenceIsWalked
<1>4. node[n].g <= y[2]
  BY <1>2, <1>3 DEF ConsistentInv, ClosedIsLeast
<1>5. y = <<n, node[n].g>>
  <2>1. y[2] = node[n].g
    BY <1>1, <1>2, <1>4
  <2>2. y = <<y[1], y[2]>>
    BY <1>3 DEF Walked
  <2> QED
    BY <1>2, <2>1, <2>2
<1>6. a \in {q[1] : q \in Queries} \ {Null}
  <2>1. <<a, pi.target>> \in Queries
    BY <1>1 DEF QueryAsked
  <2> QED
    BY <1>1, <2>1, MapsAssumption
<1>7. ShortestCosts[map][a] = Reference!ShortestFrom(map, a)
  BY <1>1, <1>6 DEF ShortestCosts
<1> QED
  BY <1>2, <1>5, <1>7 DEF IsShortest

\* The reference has one cost per node.
LEMMA ReferenceIsOne ==
  ASSUME IsFiniteSet(Node), NEW m, NEW s \in Node,
         NEW x \in Reference!ShortestFrom(m, s), NEW y \in Reference!ShortestFrom(m, s),
         x[1] = y[1]
  PROVE  x[2] = y[2]
<1> DEFINE n == Cardinality(Node)
<1>1. n \in Nat /\ n # 0
  BY FS_CardinalityType, FS_EmptySet
<1>2. PICK r : Rounds(Successors[m], s, r, n) /\ Reference!ShortestFrom(m, s) = r[n]
  BY <1>1, RoundsExist
<1>3. CASE n = 1
  BY <1>2, <1>3 DEF Rounds
<1>4. CASE n # 1
  <2>1. PICK k \in 1 .. n - 1 : k + 1 = n
    <3>1. n - 1 \in 1 .. n - 1 /\ (n - 1) + 1 = n
      BY <1>1, <1>4
    <3> QED
      BY <3>1
  <2>2. r[n] = Reference!Cheapest(Reference!Reached(Successors[m], r[k]))
    BY <1>2, <2>1 DEF Rounds, NextRound
  <2> QED
    BY <1>2, <2>2, CheapestIsOne
<1> QED
  BY <1>3, <1>4

LEMMA SumNearOptimal ==
  ASSUME ConsistentInv, IsFiniteSet(Node)
  PROVE  SumIsNearOptimal
<1> SUFFICES ASSUME Found, Consistent, NEW c \in Optimum
             PROVE  /\ c <= sol.sum
                    /\ sol.sum # c =>
                         sol.sum <= c + Spread(Successors[map], LowerBound[map], pi.target)
  BY DEF SumIsNearOptimal
<1> DEFINE a == pi.start
           t == pi.target
<1>1. /\ AnswerInv /\ Inv /\ map \in Maps /\ t \in Generated /\ a \in Node
      /\ node[t].g \in Nat /\ node[t].g <= sol.sum /\ sol.sum \in Nat /\ sol.sum # CostMax
      /\ SumIsNear
  <2>1. AnswerInv /\ Inv /\ SumIsNear
    BY DEF ConsistentInv, AnswerInv
  <2>2. t \in Generated /\ node[t].g <= sol.sum /\ sol.sum # CostMax
    BY <2>1 DEF Found, Inv, SearchInv, IncumbentIsTarget
  <2>3. a \in Generated
    BY <2>1, <2>2, OneRoot
  <2>4. sol.sum \in Nat
    BY <2>1, <2>2 DEF Inv, TypeInv, TypeOK, Solution
  <2> QED
    BY <2>1, <2>2, <2>3, <2>4, CostsOfGenerated DEF Inv, TypeInv, TypeOK
<1>2. PICK x \in Reference!ShortestFrom(map, a) : x[1] = t /\ x[2] = c
  BY DEF Optimum
<1>3. x \in Walked(map, a)
  <2> HIDE DEF a
  <2> QED
    BY <1>1, ReferenceIsWalked
<1>4. PICK y \in Reference!ShortestFrom(map, a) :
        y[1] = t /\ y[2] \in Nat /\ y[2] <= node[t].g
  <2> HIDE DEF t
  <2> QED
    BY <1>1, ReferenceCovers
<1>5. x[2] = y[2]
  <2> HIDE DEF a, t
  <2> QED
    BY <1>1, <1>2, <1>4, ReferenceIsOne
<1>6. c \in Nat /\ c <= sol.sum
  BY <1>1, <1>2, <1>4, <1>5
<1>7. \/ sol.sum <= c
      \/ sol.sum <= c + Spread(Successors[map], LowerBound[map], pi.target)
  BY <1>1, <1>2, <1>3 DEF SumIsNear
<1>8. sol.sum <= c => sol.sum = c
  BY <1>1, <1>6
<1> QED
  BY <1>6, <1>7, <1>8

-----------------------------------------------------------------------------
(* The cost of the answer.                                                 *)

\* Without an incumbent there is no path, and without a start no incumbent.
NoneFound ==
  /\ sol.s_node = Null => sol.path = <<>>
  /\ calls > 0 /\ ~StartExists => sol.s_node = Null

LEMMA NoneFoundStep ==
  ASSUME Inv, Inv', FreshIds, NoneFound, [Next]_vars
  PROVE  NoneFound'
<1>1. CASE Call
  <2>1. /\ sol'.path = <<>> /\ pc' \in {"idle", "loop"}
        /\ pc' # "loop" => sol'.s_node = Null
    BY <1>1, CallFacts
  <2>2. pc' # "idle" => StartExists'
    BY DEF Inv, SearchInv, StartIsRoot
  <2> QED
    BY <2>1, <2>2 DEF NoneFound
<1>2. ASSUME UNCHANGED <<map, pi, calls>>, sol'.s_node = sol.s_node, sol'.path = sol.path
      PROVE  NoneFound'
  BY <1>2 DEF NoneFound, StartExists
<1>3. ASSUME NEW n \in Node, Expand(n)
      PROVE  NoneFound'
  BY <1>2, <1>3, ExpandFacts
<1>4. CASE Generate \/ Prune
  <2>1. /\ pc = "succ" /\ UNCHANGED <<map, pi, calls>> /\ sol'.path = sol.path
    BY <1>4, NewFacts
  <2>2. StartExists /\ sol.path = <<>>
    BY <2>1 DEF Inv, SearchInv, StartIsRoot, PathSoFar
  <2> QED
    BY <2>1, <2>2 DEF NoneFound, StartExists
<1>5. CASE Decrease \/ Reopen
  BY <1>2, <1>5, RelaxFacts
<1>6. CASE Dominated \/ EndExpansion \/ Stop \/ Extract \/ UNCHANGED vars
  <2>1. /\ UNCHANGED <<map, pi, calls>> /\ sol'.s_node = sol.s_node
        /\ ~Extract => sol'.path = sol.path
    BY <1>6, OtherFacts
  <2>2. Extract => sol.s_node # Null
    BY DEF Extract, Inv, SearchInv, PathSoFar
  <2> QED
    BY <1>2, <2>1, <2>2 DEF NoneFound, StartExists
<1> QED
  BY <1>1, <1>3, <1>4, <1>5, <1>6, Steps

\* An edge from u to v is exactly as long as v is farther than u.
HangsBy(u, v) ==
  \E k \in DOMAIN Successors[map][u] :
    /\ Successors[map][u][k].node = v
    /\ node[v].g = node[u].g + Successors[map][u][k].cost

Hangs(n) ==
  /\ node[n].parent \in Generated /\ node[node[n].parent].expanded
  /\ HangsBy(node[n].parent, n)

\* The g-values are those of the tree that the backpointers make.
ExactTree == \A n \in Generated : (n = pi.start /\ node[n].g = 0) \/ Hangs(n)

\* A closed node is not relaxed, so that what hangs under it stays in place.
LEMMA ExactTreeStep ==
  ASSUME OrderInv, FreshIds, Consistent => ExactTree, [Next]_vars, Consistent'
  PROVE  ExactTree'
<1>1. Inv
  BY DEF OrderInv
<1>2. \A n \in Generated : n \in Node /\ n # Null
  BY <1>1, MapsAssumption DEF Generated
<1>3. UNCHANGED <<map, pi, par>> => Consistent /\ ExactTree
  BY DEF Consistent
<1>4. CASE Call
  <2>1. \/ Generated' = {}
        \/ /\ Generated' = {pi'.start}
           /\ node'[pi'.start] = Initialised(pi', par', pi'.start, Null, 0)
    BY <1>1, <1>4, CallFacts
  <2>2. Generated' # {} => node'[pi'.start].g = 0
    BY <2>1 DEF Initialised
  <2> QED
    BY <2>1, <2>2 DEF ExactTree
<1>5. ASSUME UNCHANGED <<map, pi, par>>, Generated' = Generated,
             \A m \in Node : /\ node'[m].g = node[m].g /\ node'[m].parent = node[m].parent
                             /\ node[m].expanded => node'[m].expanded
      PROVE  ExactTree'
  <2> SUFFICES ASSUME NEW n \in Generated, Hangs(n)
               PROVE  Hangs(n)'
    BY <1>2, <1>3, <1>5 DEF ExactTree
  <2>1. node'[n].parent = node[n].parent /\ node[n].parent \in Node /\ n \in Node
    BY <1>2, <1>5 DEF Hangs
  <2>2. /\ node'[node[n].parent].expanded /\ node'[node[n].parent].g = node[node[n].parent].g
        /\ node'[n].g = node[n].g /\ node[n].parent \in Generated'
        /\ HangsBy(node[n].parent, n)
    BY <1>5, <2>1 DEF Hangs
  <2>3. \E k \in DOMAIN Successors[map'][node'[n].parent] :
          /\ Successors[map'][node'[n].parent][k].node = n
          /\ node'[n].g = node'[node'[n].parent].g + Successors[map'][node'[n].parent][k].cost
    BY <1>5, <2>1, <2>2 DEF HangsBy
  <2> QED
    BY <2>1, <2>2, <2>3 DEF Hangs, HangsBy
<1>6. ASSUME NEW n \in Node, Expand(n)
      PROVE  ExactTree'
  <2>1. /\ UNCHANGED <<map, pi, par>> /\ Generated' = Generated
        /\ \A m \in Node : /\ node'[m].g = node[m].g /\ node'[m].parent = node[m].parent
                           /\ node[m].expanded => node'[m].expanded
    BY <1>1, <1>6, ExpandFacts
  <2> QED
    BY <1>5, <2>1
\* One node hangs under the current node now, and nothing hung under it.
<1>7. ASSUME UNCHANGED <<map, pi, par>>, Generated' = Generated \cup {Child},
             current \in Generated, node[current].expanded, current # Child,
             i \in DOMAIN Succ, Child \in Node,
             Child \notin Generated \/ ~node[Child].expanded,
             node'[Child].g = GVal, node'[Child].parent = current,
             \A m \in Node : m # Child => node'[m] = node[m]
      PROVE  ExactTree'
  <2> SUFFICES ASSUME NEW n \in Generated', ~(n = pi.start /\ node'[n].g = 0)
               PROVE  Hangs(n)'
    BY <1>7 DEF ExactTree
  <2>1. CASE n = Child
    <3>1. node'[current] = node[current] /\ Succ[i].node = Child
          /\ GVal = node[current].g + Succ[i].cost
      BY <1>2, <1>7 DEF Child, GVal
    <3>2. \E k \in DOMAIN Successors[map'][node'[n].parent] :
            /\ Successors[map'][node'[n].parent][k].node = n
            /\ node'[n].g = node'[node'[n].parent].g + Successors[map'][node'[n].parent][k].cost
      BY <1>7, <2>1, <3>1 DEF Succ
    <3> QED
      BY <1>7, <2>1, <3>1, <3>2 DEF Hangs, HangsBy
  <2>2. CASE n # Child
    <3>1. n \in Generated /\ node'[n] = node[n]
      BY <1>2, <1>7, <2>2
    <3>2. Hangs(n)
      BY <1>3, <1>7, <3>1 DEF ExactTree
    <3>3. node[n].parent # Child /\ node'[node[n].parent] = node[node[n].parent]
      BY <1>2, <1>7, <3>2 DEF Hangs
    <3>4. /\ map' = map /\ node'[n].parent = node[n].parent /\ node'[n].g = node[n].g
          /\ node'[node[n].parent].g = node[node[n].parent].g
      BY <1>7, <3>1, <3>3
    <3>5. HangsBy(node[n].parent, n)
      BY <3>2 DEF Hangs
    <3>6. \E k \in DOMAIN Successors[map'][node'[n].parent] :
            /\ Successors[map'][node'[n].parent][k].node = n
            /\ node'[n].g = node'[node'[n].parent].g + Successors[map'][node'[n].parent][k].cost
      BY <3>4, <3>5 DEF HangsBy
    <3> QED
      BY <1>7, <3>1, <3>2, <3>3, <3>6 DEF Hangs, HangsBy
  <2> QED
    BY <2>1, <2>2
<1>8. CASE Generate \/ Prune
  <2>1. /\ UNCHANGED <<map, pi, par>> /\ Generated' = Generated \cup {Child}
        /\ current \in Generated /\ node[current].expanded /\ current # Child
        /\ i \in DOMAIN Succ /\ Child \in Node /\ Child \notin Generated
        /\ node'[Child].g = GVal /\ node'[Child].parent = current
        /\ \A m \in Node : m # Child => node'[m] = node[m]
    BY <1>1, <1>8, NewFacts
  <2> QED
    BY <1>7, <2>1
<1>9. CASE Decrease \/ Reopen
  <2>1. /\ UNCHANGED <<map, pi, par>> /\ Generated' = Generated /\ Child \in Generated
        /\ current \in Generated /\ node[current].expanded /\ current # Child
        /\ i \in DOMAIN Succ
        /\ node'[Child].g = GVal /\ node'[Child].parent = current
        /\ \A m \in Node : m # Child => node'[m] = node[m]
    BY <1>1, <1>9, RelaxFacts
  <2>2. ~node[Child].expanded
    BY <1>3, <1>9, <2>1, ClosedNotRelaxed
  <2> QED
    BY <1>2, <1>7, <2>1, <2>2
<1>10. CASE Dominated \/ EndExpansion \/ Stop \/ Extract \/ UNCHANGED vars
  <2>1. UNCHANGED <<map, node, pi, par>> /\ Generated' = Generated
    BY <1>1, <1>10, OtherFacts
  <2> QED
    BY <1>5, <2>1
<1> QED
  BY <1>4, <1>6, <1>8, <1>9, <1>10, Steps

\* Edges between the same two nodes cost the same.
OneCost(m) ==
  \A u \in Node : \A j, k \in DOMAIN Successors[m][u] :
    Successors[m][u][j].node = Successors[m][u][k].node
      => Successors[m][u][j].cost = Successors[m][u][k].cost

(* With the default traits a search ends with the first incumbent, which   *)
(* then keeps its g-value if edges between the same nodes cost the same.   *)
FirstStays ==
  sol.sum # CostMax =>
    /\ pi.target \in Generated /\ node[pi.target].g = sol.sum
    /\ pc = "succ" =>
         \E j \in DOMAIN Succ : /\ Succ[j].node = pi.target
                                /\ node[current].g + Succ[j].cost = sol.sum

LEMMA FirstStaysStep ==
  ASSUME Inv, Inv', FreshIds, AC = "any", OneCost(map), FirstStays, [Next]_vars
  PROVE  FirstStays'
<1>1. \A n \in Generated : n \in Node
  BY DEF Generated
<1>2. CASE Call
  <2>1. PICK op \in IdOps, q \in Queries, p \in Params : GetPath(op, q[1], q[2], p)
    BY <1>2 DEF Call
  <2>2. /\ pc' \in {"idle", "loop"}
        /\ \/ Generated' = {} /\ sol'.s_node = Null
           \/ /\ Generated' = {pi'.start}
              /\ node'[pi'.start] = Initialised(pi', par', pi'.start, Null, 0)
    BY <1>2, CallFacts
  <2>3. /\ sol'.s_node = Null <=> sol'.sum = CostMax
        /\ sol'.s_node # Null => pi'.target \in Generated'
    BY DEF Inv, SearchInv, IncumbentIsTarget
  <2>4. sol'.sum \in {0, CostMax}
    <3>1. sol' \in {EmptySolution, [EmptySolution EXCEPT !.s_node = q[1], !.sum = 0]}
      BY <2>1 DEF GetPath, Incumbent
    <3>2. EmptySolution.sum = CostMax
          /\ [EmptySolution EXCEPT !.s_node = q[1], !.sum = 0].sum = 0
      BY DEF EmptySolution
    <3> QED
      BY <3>1, <3>2
  <2> QED
    BY <2>2, <2>3, <2>4 DEF FirstStays, Initialised
<1>3. ASSUME NEW n \in Node, Expand(n)
      PROVE  FirstStays'
  <2>1. sol.sum = CostMax
    BY <1>3 DEF Expand, Admissible
  <2> QED
    BY <1>3, <2>1, ExpandFacts DEF FirstStays
<1>4. CASE Generate \/ Prune
  <2>1. /\ pc = "succ" /\ current \in Generated /\ current # Child
        /\ i \in DOMAIN Succ /\ Child \in Node /\ Child \notin Generated
        /\ Generated' = Generated \cup {Child} /\ node'[Child].g = GVal
        /\ \A m \in Node : m # Child => node'[m] = node[m]
        /\ sol' = NewSol /\ UNCHANGED <<map, pi, pc, current>>
    BY <1>4, NewFacts
  <2>2. node'[current] = node[current] /\ Succ' = Succ
    BY <1>1, <2>1 DEF Succ
  <2>3. CASE NewSol = sol
    <3>1. SUFFICES ASSUME sol.sum # CostMax
                   PROVE  FirstStays'
      BY <2>1, <2>3 DEF FirstStays
    <3>2. pi.target \in Generated /\ pi.target # Child /\ pi.target \in Node
      BY <1>1, <2>1, <3>1 DEF FirstStays
    <3> QED
      BY <2>1, <2>2, <2>3, <3>1, <3>2 DEF FirstStays
  <2>4. CASE NewSol # sol
    <3>1. Child = pi.target /\ NewSol = [sol EXCEPT !.s_node = Child, !.sum = GVal]
      BY <2>4 DEF NewSol, Incumbent
    <3>2. sol'.sum = GVal
      BY <2>1, <3>1 DEF Inv, TypeInv, TypeOK, Solution
    <3>3. Succ[i].node = pi.target /\ node[current].g + Succ[i].cost = GVal
      BY <3>1 DEF Child, GVal
    <3> QED
      BY <2>1, <2>2, <3>1, <3>2, <3>3 DEF FirstStays
  <2> QED
    BY <2>3, <2>4
<1>5. CASE Decrease \/ Reopen
  <2>1. /\ pc = "succ" /\ current \in Generated /\ current # Child
        /\ i \in DOMAIN Succ
        /\ node[Child].g \in Nat /\ GVal < node[Child].g
        /\ Generated' = Generated
        /\ \A m \in Node : m # Child => node'[m] = node[m]
        /\ sol' = sol /\ UNCHANGED <<map, pi, pc, current>>
    BY <1>5, RelaxFacts
  <2>2. SUFFICES ASSUME sol.sum # CostMax
                 PROVE  FirstStays'
    BY <2>1 DEF FirstStays
  <2>3. PICK j \in DOMAIN Succ : /\ Succ[j].node = pi.target
                                 /\ node[current].g + Succ[j].cost = sol.sum
    BY <2>1, <2>2 DEF FirstStays
  <2>4. Child # pi.target
    <3> SUFFICES ASSUME Child = pi.target
                 PROVE  FALSE
      OBVIOUS
    <3>1. Succ[i].cost = Succ[j].cost
      BY <1>1, <2>1, <2>3 DEF OneCost, Succ, Child
    <3>2. GVal = sol.sum /\ node[pi.target].g = sol.sum
      BY <2>2, <2>3, <3>1 DEF GVal, FirstStays
    <3> QED
      BY <2>1, <3>2
  <2>5. node'[current] = node[current] /\ node'[pi.target] = node[pi.target] /\ Succ' = Succ
    BY <1>1, <2>1, <2>2, <2>4 DEF Succ, FirstStays
  <2> QED
    BY <2>1, <2>2, <2>3, <2>5 DEF FirstStays
<1>6. CASE Dominated \/ EndExpansion \/ Stop \/ Extract \/ UNCHANGED vars
  <2>1. UNCHANGED <<map, node, pi>> /\ Generated' = Generated /\ sol'.sum = sol.sum
    BY <1>6, OtherFacts
  <2>2. pc' = "succ" => pc = "succ" /\ current' = current
    BY <1>6 DEF Dominated, EndExpansion, Stop, Extract, vars, AtSuccessor
  <2> QED
    BY <2>1, <2>2 DEF FirstStays, Succ
<1> QED
  BY <1>2, <1>3, <1>4, <1>5, <1>6, Steps

ExactInv ==
  /\ ConsistentInv /\ NoneFound
  /\ Consistent => ExactTree
  /\ AC = "any" /\ OneCost(map) => FirstStays

LEMMA ExactInvInit ==
  ASSUME Init
  PROVE  ExactInv
<1>1. ConsistentInv
  BY ConsistentInvInit
<1>2. Generated = {} /\ sol.sum = CostMax /\ sol.path = <<>> /\ sol.s_node = Null
  BY DEF Init, Unused, Generated, EmptySolution
<1> QED
  BY <1>1, <1>2 DEF ExactInv, NoneFound, ExactTree, FirstStays

LEMMA ExactInvStep ==
  ASSUME ExactInv, FreshIds, IsFiniteSet(Node), [Next]_vars
  PROVE  ExactInv'
<1>1. ConsistentInv'
  BY ConsistentInvStep DEF ExactInv
<1>2. Inv /\ Inv' /\ OrderInv
  BY <1>1 DEF ExactInv, ConsistentInv, OrderInv
<1>3. map' = map
  <2>1. Call => map' = map
    BY <1>2, CallFacts
  <2>2. (\E n \in Node : Expand(n)) => map' = map
    BY <1>2, ExpandFacts
  <2> QED
    BY <1>2, <2>1, <2>2, Steps, NewFacts, RelaxFacts, OtherFacts
<1>4. NoneFound'
  BY <1>2, NoneFoundStep DEF ExactInv
<1>5. Consistent' => ExactTree'
  BY <1>2, ExactTreeStep DEF ExactInv
<1>6. AC = "any" /\ OneCost(map)' => FirstStays'
  <2>1. OneCost(map)' <=> OneCost(map)
    BY <1>3 DEF OneCost
  <2> QED
    BY <1>2, <2>1, FirstStaysStep DEF ExactInv
<1> QED
  BY <1>1, <1>4, <1>5, <1>6 DEF ExactInv

(* The path that is found is as long as the answer says: from node to node *)
(* the g-values grow by the cost of an edge, from 0 to the reported cost.  *)
PathIsExact ==
  LET p == sol.path
  IN  /\ node[p[1]].g = 0 /\ node[p[Len(p)]].g = sol.sum
      /\ \A k \in 1 .. Len(p) - 1 : HangsBy(p[k], p[k + 1])

LEMMA AnswerIsExact ==
  ASSUME ExactInv, Consistent, AC = "any", OneCost(map), Found
  PROVE  PathIsExact
<1> DEFINE p == sol.path
<1>1. /\ p # <<>> /\ p[1] = pi.start /\ node[p[1]].g = 0 /\ p[Len(p)] = pi.target
      /\ \A k \in 1 .. Len(p) : p[k] \in Generated
      /\ p \in Seq(Node)
  BY DEF ExactInv, ConsistentInv, OrderInv, Inv, SearchInv, PathIsSupported, Found, TypeInv,
         TypeOK, Solution
<1>2. sol.sum # CostMax
  BY DEF ExactInv, ConsistentInv, OrderInv, Inv, SearchInv, IncumbentIsTarget, Found
<1>3. node[p[Len(p)]].g = sol.sum
  BY <1>1, <1>2 DEF ExactInv, FirstStays
<1>4. ASSUME NEW k \in 1 .. Len(p) - 1
      PROVE  HangsBy(p[k], p[k + 1])
  <2>1. /\ k \in 1 .. Len(p) /\ k + 1 \in 1 .. Len(p) /\ 1 \in 1 .. Len(p)
        /\ DOMAIN p = 1 .. Len(p) /\ k + 1 # 1 /\ k + 1 - 1 = k
    BY <1>1
  <2>2. /\ p[k + 1] # p[1]
        /\ node[p[k + 1]].parent = p[k]
    <3>1. PathUnwound
      BY DEF ExactInv, ConsistentInv, AnswerInv
    <3>2. /\ \A a, b \in DOMAIN p : p[a] = p[b] => a = b
          /\ \A a \in DOMAIN p : a # 1 => node[p[a]].parent = p[a - 1]
      BY <3>1 DEF PathUnwound
    <3> HIDE DEF p
    <3> QED
      BY <2>1, <3>2
  <2> QED
    BY <1>1, <2>1, <2>2 DEF ExactInv, ExactTree, Hangs
<1> QED
  BY <1>1, <1>3, <1>4 DEF PathIsExact

-----------------------------------------------------------------------------
(* Theorems.                                                               *)

(* With a consistent heuristic the lower bound of a search never falls,    *)
(* whatever the traits are and whatever limits or incumbents there are.    *)
THEOREM BoundsNeverFall ==
  ASSUME FreshIds
  PROVE  Spec => LowerBoundGrows
<1>1. Init => OrderInv
  BY OrderInvInit
<1>2. OrderInv /\ [Next]_vars => OrderInv'
  BY OrderInvStep
<1>3. OrderInv /\ [Next]_vars
        => [pc = "loop" /\ pc' = "succ" /\ sol.lb # CostMax /\ Consistent
              => sol.lb <= sol'.lb]_vars
  BY BoundStep
<1> QED
  BY <1>1, <1>2, <1>3, PTL DEF Spec, LowerBoundGrows

(* With a consistent heuristic a closed node has the cost of a shortest    *)
(* path, if the first path is returned or nodes are reopened.  Without     *)
(* either, a node that was not worth pushing is not pushed later on, when  *)
(* a shorter path to it is found, and what lies behind it may be closed    *)
(* by a detour.                                                            *)
THEOREM ClosedNodesAreFinal ==
  ASSUME FreshIds, IsFiniteSet(Node), AC = "any" \/ RP = "yes"
  PROVE  Spec => []ClosedIsFinal
<1>1. ConsistentInv => ClosedIsFinal
  BY ClosedFinal
<1> QED
  BY <1>1, ConsistentInvariant, PTL DEF Spec

(* The reported cost is never below that of a shortest path, and above it  *)
(* by no more than the estimates are uneven next to the target, whatever   *)
(* the traits are.                                                         *)
THEOREM SumsAreNearOptimal ==
  ASSUME FreshIds, IsFiniteSet(Node)
  PROVE  Spec => []SumIsNearOptimal
<1>1. ConsistentInv => SumIsNearOptimal
  BY SumNearOptimal
<1> QED
  BY <1>1, ConsistentInvariant, PTL DEF Spec

=============================================================================
