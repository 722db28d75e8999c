------------------------- MODULE SearchOverHeapSafety -------------------------
(***************************************************************************)
(* The heap under the engine holds OPEN, for every map, parameter and      *)
(* number of calls and however instance ids are made.  So every decision   *)
(* that is taken from the array is the one the engine takes from the set,  *)
(* and what is proved of the engine holds of the engine over its heap.     *)
(***************************************************************************)
EXTENDS SearchOverHeap, SearchSafety

(* The keys as the heap sees them.  A node that is not in OPEN may have no *)
(* costs, but it has no place in the order either.                         *)
HeapKey ==
  [n \in Node |-> IF n \in open THEN [f |-> node[n].f, g |-> node[n].g]
                                ELSE [f |-> 0, g |-> 0]]

Q == INSTANCE PQueueSafety WITH
  key <- HeapKey, pc <- hpc, IsMin <- TRUE, Keys <- {}

\* OPEN and the node being expanded are of the latest call.
OneSearch ==
  /\ \A n \in open : node[n].num = pi.id
  /\ pc = "succ" => node[current].num = pi.id

HeapInv == TypeInv /\ OneSearch /\ Q!Ordered /\ Q!Items = open

-----------------------------------------------------------------------------
(* Keys.                                                                   *)

LEMMA QueueAssumptions ==
  /\ Null \notin Node
  /\ InitSize \in Nat /\ INF32 \in Nat /\ MinSize \in Nat \ {0}
  /\ {} \subseteq Q!Key
  /\ TRUE \in BOOLEAN
  BY MapsAssumption, SizesAssumption

\* The nodes of OPEN have costs.
LEMMA OpenCosts ==
  ASSUME TypeInv, NEW n \in open
  PROVE  n \in Node /\ node[n].f \in Nat /\ node[n].g \in Nat
  BY MapsAssumption DEF TypeInv, TypeOK, CostsOK, LiveOK

LEMMA KeyType == TypeInv => HeapKey \in [Node -> Q!Key]
<1> SUFFICES ASSUME TypeInv, NEW n \in Node
             PROVE  HeapKey[n] \in Q!Key
  BY DEF HeapKey
<1>1. CASE n \in open
  BY <1>1, OpenCosts DEF HeapKey, Q!Key
<1>2. CASE n \notin open
  BY <1>2 DEF HeapKey, Q!Key
<1> QED
  BY <1>1, <1>2

LEMMA KeyTypeNext == TypeInv' => HeapKey' \in [Node -> Q!Key]
<1> DEFINE Typed == HeapKey \in [Node -> Q!Key]
<1>1. TypeInv => Typed
  BY KeyType
<1> HIDE DEF Typed
<1>2. TypeInv' => Typed'
  BY <1>1, PTL
<1> QED
  BY <1>2 DEF Typed

\* The order of the records is the order of the keys.
LEMMA SameOrder ==
  ASSUME HeapInv, NEW j \in Q!Places, NEW k \in Q!Places
  PROVE  Heap!Less(j, k) <=> Q!Less(j, k)
<1>1. elts[j] \in open /\ elts[k] \in open
  BY DEF HeapInv, Q!Items
<1>2. elts[j] \in Node /\ elts[k] \in Node
  BY <1>1 DEF HeapInv, TypeInv, TypeOK
<1> QED
  BY <1>1, <1>2 DEF Heap!Less, Q!Less, Heap!Before, Q!Before, HeapKey

-----------------------------------------------------------------------------
(* OneSearch.                                                              *)

LEMMA OneSearchStep ==
  ASSUME TypeInv, OneSearch, [Next]_vars
  PROVE  OneSearch'
<1> USE DEF OneSearch
<1>1. ASSUME NEW op \in IdOps, NEW q \in Queries, NEW p \in Params,
             GetPath(op, q[1], q[2], p)
      PROVE  OneSearch'
  <2>1. CASE q[1] # Null /\ q[1] \in Startable[map]
    <3>1. q[1] \in Node /\ node \in [Node -> NodeRecord]
      BY <2>1, CallsAssumption DEF TypeInv, TypeOK
    <3>2. open' = {q[1]} /\ pc' = "loop" /\ pi'.id = NewId(op)
          /\ node'[q[1]].num = NewId(op)
      BY <1>1, <2>1, <3>1 DEF GetPath, Initialised
    <3> QED
      BY <3>2
  <2>2. CASE ~(q[1] # Null /\ q[1] \in Startable[map])
    BY <1>1, <2>2 DEF GetPath
  <2> QED
    BY <2>1, <2>2
<1>2. ASSUME NEW n \in Node, Expand(n)
      PROVE  OneSearch'
  <2>1. n \in open /\ open' = open \ {n} /\ current' = n /\ pi' = pi
        /\ node' = [node EXCEPT ![n].expanded = TRUE]
    BY <1>2 DEF Expand, Best
  <2>2. \A m \in Node : node'[m].num = node[m].num
    BY <2>1 DEF TypeInv, TypeOK, NodeRecord
  <2> QED
    BY <2>1, <2>2 DEF TypeInv, TypeOK
<1>3. CASE SuccessorStep
  <2>1. /\ AtSuccessor /\ pc = "succ" /\ Child \in Node /\ current \in Node
        /\ pi' = pi /\ pc' = pc /\ current' = current
    BY <1>3, SuccessorType
       DEF SuccessorStep, Generate, Prune, Decrease, Reopen, Dominated, AtSuccessor
  <2>2. CASE Generate \/ Prune
    <3>1. node'[Child].num = pi.id /\ \A m \in Node \ {Child} : node'[m] = node[m]
      BY <2>1, <2>2 DEF Generate, Prune, NewNode, Initialised, TypeInv, TypeOK
    <3>2. open' \subseteq open \cup {Child} /\ open \subseteq Node
      BY <2>2 DEF Generate, Prune, TypeInv, TypeOK
    <3> QED
      BY <2>1, <3>1, <3>2
  <2>3. CASE Decrease \/ Reopen
    <3>1. node'[Child].num = node[Child].num
          /\ \A m \in Node \ {Child} : node'[m] = node[m]
      BY <2>1, <2>3, RelaxedType DEF Decrease, Reopen, TypeInv, TypeOK
    <3>2. open' \subseteq open \cup {Child} /\ open \subseteq Node
          /\ node[Child].num = pi.id
      BY <2>1, <2>3 DEF Decrease, Reopen, Reopened, CanRelax, IsNew, TypeInv, TypeOK
    <3> QED
      BY <2>1, <3>1, <3>2
  <2>4. CASE Dominated
    BY <2>1, <2>4 DEF Dominated
  <2> QED
    BY <1>3, <2>2, <2>3, <2>4 DEF SuccessorStep
<1>4. CASE EndExpansion \/ Stop \/ Extract
  BY <1>4 DEF EndExpansion, Stop, Extract
<1>5. CASE UNCHANGED vars
  BY <1>5 DEF vars
<1> QED
  BY <1>1, <1>2, <1>3, <1>4, <1>5 DEF Next, Call, Step

-----------------------------------------------------------------------------
(* HeapInv.                                                                *)

LEMMA HeapInvInit ==
  ASSUME HeapInit
  PROVE  HeapInv
<1>1. TypeInv /\ OneSearch
  BY TypeInit DEF HeapInit, Init, Unused, OneSearch
<1>2. HeapKey \in [Node -> Q!Key]
  BY <1>1, KeyType
<1>3. Q!Places = {} /\ open = {}
  BY DEF HeapInit, Init, Unused, Q!Places
<1>4. Q!TypeOK
  BY <1>2, SizesAssumption DEF HeapInit, Q!TypeOK, Heap!Capacity
<1>5. Q!QueueInv /\ Q!Items = {}
  <2>1. Q!Indexed /\ Q!HeapOrder /\ Q!Items = {}
    BY <1>3 DEF Q!Indexed, Q!HeapOrder, Q!Items
  <2> QED
    BY <1>4, <2>1, QueueAssumptions, Q!Membership DEF Q!QueueInv
<1> QED
  BY <1>1, <1>3, <1>4, <1>5 DEF HeapInv, Q!Ordered

\* The array, if the engine leaves it alone.
LEMMA HeapKept ==
  ASSUME HeapInv, TypeInv', OneSearch', UNCHANGED hvars, open' = open,
         \A n \in open : node'[n].f = node[n].f /\ node'[n].g = node[n].g
  PROVE  HeapInv'
<1>1. HeapKey' \in [Node -> Q!Key] /\ popped' \in Node \cup {Null}
  BY KeyTypeNext DEF hvars, HeapInv, Q!Ordered, Q!TypeOK
<1>2. \A m \in Q!Items : HeapKey'[m] = HeapKey[m]
  BY DEF HeapInv, HeapKey, TypeInv, TypeOK
<1>3. UNCHANGED <<priority, elts, queuesize, maxsize, hpc, index>>
  BY DEF hvars
<1> QED
  BY <1>1, <1>2, <1>3, QueueAssumptions, Q!KeepQueue DEF HeapInv

\* A call: clear, and a push into the empty queue if there is a start.
LEMMA BeginHeap ==
  ASSUME HeapInv, TypeInv', OneSearch', hpc = "idle", Begin
  PROVE  HeapInv'
<1>1. HeapKey' \in [Node -> Q!Key]
  BY KeyTypeNext
<1>2. PICK op \in IdOps, q \in Queries, p \in Params : GetPath(op, q[1], q[2], p)
  BY DEF Begin, Call
<1>3. CASE pc' = "loop"
  <2>1. /\ Prologue(pi'.start) /\ open' = {q[1]} /\ pi'.start = q[1]
        /\ q[1] \in Node
    BY <1>2, <1>3, CallsAssumption DEF Begin, GetPath
  <2>2. /\ queuesize' = 1 /\ elts' = [elts EXCEPT ![0] = q[1]]
        /\ priority' = [priority EXCEPT ![q[1]] = 0]
        /\ hpc' = "up" /\ index' = 0 /\ UNCHANGED <<maxsize, popped>>
    BY <2>1 DEF Prologue
  <2>3. Q!TypeOK'
    BY <1>1, <2>1, <2>2, SizesAssumption DEF HeapInv, Q!Ordered, Q!TypeOK
  <2>4. Q!Places' = {0} /\ elts'[0] = q[1] /\ priority'[q[1]] = 0
    BY <2>1, <2>2, SizesAssumption DEF HeapInv, Q!Ordered, Q!TypeOK, Q!Places
  <2>5. Q!Indexed' /\ Q!HeapOrder' /\ Q!Items' = {q[1]}
    BY <2>1, <2>4 DEF Q!Indexed, Q!HeapOrder, Q!Items
  <2> QED
    BY <2>1, <2>3, <2>5, QueueAssumptions, Q!MembershipNext
       DEF HeapInv, Q!Ordered, Q!QueueInv
<1>4. CASE pc' # "loop"
  <2>1. Heap!Clear /\ open' = {}
    BY <1>2, <1>4 DEF Begin, GetPath
  <2>2. Q!Clear
    BY <2>1 DEF Heap!Clear, Q!Clear
  <2> QED
    BY <1>1, <2>1, <2>2, QueueAssumptions, Q!ClearQueue DEF HeapInv
<1> QED
  BY <1>3, <1>4

LEMMA PopTopHeap ==
  ASSUME HeapInv, TypeInv', OneSearch', PopTop
  PROVE  HeapInv'
<1>1. HeapKey' \in [Node -> Q!Key]
  BY KeyTypeNext
<1>2. Q!Pop
  BY DEF PopTop, Heap!Pop, Q!Pop
<1>3. open' = open \ {elts[0]} /\ elts[0] \in open
      /\ node' = [node EXCEPT ![elts[0]].expanded = TRUE]
  BY DEF PopTop, Expand, Best
<1>4. \A m \in Q!Items \ {elts[0]} : HeapKey'[m] = HeapKey[m]
  BY <1>3 DEF HeapInv, HeapKey, TypeInv, TypeOK
<1> QED
  BY <1>1, <1>2, <1>3, <1>4, QueueAssumptions, Q!PopQueue DEF HeapInv

\* A push of a node whose record has just been written.
LEMMA PushHeap ==
  ASSUME HeapInv, TypeInv', OneSearch', NEW n \in Node, Heap!Push(n),
         open' = open \cup {n}, \A m \in Node \ {n} : node'[m] = node[m]
  PROVE  HeapInv'
<1>1. HeapKey' \in [Node -> Q!Key]
  BY KeyTypeNext
<1>2. Q!Push(n)
  BY DEF Heap!Push, Q!Push, Heap!Contains, Q!Contains, Heap!Full, Q!Full,
         Heap!Capacity, Q!Capacity, Heap!Resized, Q!Resized
<1>3. n \notin open
  BY <1>2 DEF HeapInv, Q!Ordered, Q!QueueInv, Q!ContainsIsMembership, Q!Push
<1>4. \A m \in Q!Items : HeapKey'[m] = HeapKey[m]
  BY <1>3 DEF HeapInv, HeapKey, TypeInv, TypeOK
<1> QED
  BY <1>1, <1>2, <1>4, QueueAssumptions, Q!PushQueue DEF HeapInv

LEMMA PushNewHeap ==
  ASSUME HeapInv, TypeInv', OneSearch', PushNew
  PROVE  HeapInv'
<1>1. Child \in Node
  BY SuccessorType DEF PushNew, Generate, HeapInv
<1>2. open' = open \cup {Child} /\ \A m \in Node \ {Child} : node'[m] = node[m]
  BY <1>1 DEF PushNew, Generate, HeapInv, TypeInv, TypeOK
<1> QED
  BY <1>1, <1>2, PushHeap DEF PushNew

LEMMA ImproveHeap ==
  ASSUME HeapInv, TypeInv', OneSearch', hpc = "idle", Improve
  PROVE  HeapInv'
<1>1. Child \in Node /\ open \subseteq Node /\ node \in [Node -> NodeRecord]
  BY SuccessorType DEF Improve, HeapInv, TypeInv, TypeOK
<1>2. CASE Heap!Contains(Child)
  <2> DEFINE k == [f |-> Relaxed.f, g |-> Relaxed.g]
  <2>1. /\ Decrease /\ Heap!DecreaseKey(Child, node'[Child])
        /\ Child \in open /\ open' = open
        /\ node' = [node EXCEPT ![Child] = Relaxed]
    BY <1>2 DEF Improve, Decrease
  <2>2. k \in Q!Key
    <3>1. Relaxed.f \in Nat /\ Relaxed.g = GVal /\ GVal \in Nat
      BY RelaxedType, SuccessorType DEF Improve, HeapInv
    <3> QED
      BY <3>1 DEF Q!Key
  <2>3. node'[Child] = Relaxed /\ HeapKey[Child].f = node[Child].f
    BY <1>1, <2>1 DEF HeapKey
  <2>4. HeapKey' = [HeapKey EXCEPT ![Child] = k]
    <3>1. HeapKey' = [n \in Node |-> IF n \in open
                                     THEN [f |-> node'[n].f, g |-> node'[n].g]
                                     ELSE [f |-> 0, g |-> 0]]
      BY <2>1 DEF HeapKey
    <3>2. \A n \in Node \ {Child} : node'[n] = node[n]
      BY <1>1, <2>1
    <3> HIDE DEF k
    <3>3. \A n \in Node : HeapKey'[n] = IF n = Child THEN k ELSE HeapKey[n]
      BY <2>1, <2>3, <3>1, <3>2 DEF HeapKey, k
    <3>4. HeapKey = [n \in Node |-> HeapKey[n]] /\ HeapKey' = [n \in Node |-> HeapKey'[n]]
      BY <3>1 DEF HeapKey
    <3> HIDE DEF HeapKey
    <3> QED
      BY <3>3, <3>4
  <2>5. Q!DecreaseKey(Child, k)
    BY <2>1, <2>3, <2>4
       DEF Heap!DecreaseKey, Q!DecreaseKey, Heap!Contains, Q!Contains
  <2> HIDE DEF k
  <2> QED
    BY <1>1, <2>1, <2>2, <2>5, QueueAssumptions, Q!RekeyQueue DEF HeapInv
<1>3. CASE ~Heap!Contains(Child)
  <2>1. Reopen /\ Child \notin open /\ \A m \in Node \ {Child} : node'[m] = node[m]
    BY <1>1, <1>3 DEF Improve, Reopen
  <2>2. CASE RP = "yes"
    BY <1>1, <1>3, <2>1, <2>2, PushHeap DEF Improve, Reopen, Reopened
  <2>3. CASE RP # "yes"
    <3>1. UNCHANGED hvars /\ open' = open
      BY <1>3, <2>1, <2>3 DEF Improve, Reopen, Reopened
    <3> QED
      BY <1>1, <2>1, <3>1, HeapKept
  <2> QED
    BY <2>2, <2>3
<1> QED
  BY <1>2, <1>3

LEMMA ElsewhereHeap ==
  ASSUME HeapInv, TypeInv', OneSearch', GiveUp \/ Elsewhere
  PROVE  HeapInv'
<1>1. UNCHANGED hvars /\ open' = open
  BY DEF GiveUp, Elsewhere, Prune, Dominated, EndExpansion, Extract, Stop
<1>2. \A n \in open : node'[n] = node[n]
  <2>1. CASE Prune
    <3>1. Child \in Node /\ Child \notin open
      BY <2>1, SuccessorType
         DEF HeapInv, OneSearch, Prune, AtSuccessor, IsNew
    <3> QED
      BY <2>1, <3>1 DEF Prune, HeapInv, TypeInv, TypeOK
  <2>2. CASE ~Prune
    BY <2>2 DEF GiveUp, Elsewhere, Dominated, EndExpansion, Extract, Stop
  <2> QED
    BY <2>1, <2>2
<1> QED
  BY <1>1, <1>2, HeapKept

LEMMA HeapifyHeap ==
  ASSUME HeapInv, TypeInv', OneSearch', Heapify
  PROVE  HeapInv'
<1>1. HeapKey' = HeapKey /\ open' = open /\ node' = node
  BY DEF Heapify, vars, HeapKey
<1>2. hpc # "idle"
  BY DEF Heapify, Heap!Up, Heap!Down
<1>3. /\ index \in Q!Places
      /\ index > 0 => Q!Parent(index) \in Q!Places
      /\ index < queuesize \div 2 => Q!Which \in Q!Places
  BY <1>2, QueueAssumptions, Q!SwapPlaces DEF HeapInv, Q!Ordered
<1>4. /\ index > 0 => (Heap!Less(index, Q!Parent(index)) <=> Q!Less(index, Q!Parent(index)))
      /\ index < queuesize \div 2 => (Heap!Less(Q!Which, index) <=> Q!Less(Q!Which, index))
  BY <1>3, SameOrder
<1>5. index < queuesize \div 2 => Heap!Which = Q!Which
  <2> SUFFICES ASSUME index < queuesize \div 2, 2 * index + 2 < queuesize
               PROVE  Heap!Less(2 * index + 2, 2 * index + 1)
                        <=> Q!Less(2 * index + 2, 2 * index + 1)
    BY DEF Heap!Which, Q!Which
  <2>1. 2 * index + 2 \in Q!Places /\ 2 * index + 1 \in Q!Places
    BY DEF Q!Places, HeapInv, Q!Ordered, Q!TypeOK
  <2> QED
    BY <2>1, SameOrder
<1>6. CASE Heap!Up
  <2>1. Q!Up
    BY <1>1, <1>4, <1>6
       DEF Heap!Up, Q!Up, Heap!Parent, Q!Parent, Heap!Swap, Q!Swap, Heap!Return, Q!Return
  <2> QED
    BY <1>1, <2>1, QueueAssumptions, Q!HeapifyQueue DEF HeapInv
<1>7. CASE Heap!Down
  <2>1. Q!Down
    BY <1>1, <1>4, <1>5, <1>7
       DEF Heap!Down, Q!Down, Heap!Swap, Q!Swap, Heap!Return, Q!Return
  <2> QED
    BY <1>1, <2>1, QueueAssumptions, Q!HeapifyQueue DEF HeapInv
<1> QED
  BY <1>6, <1>7 DEF Heapify

\* A step of the engine over its heap is a step of the engine or hidden in it.
LEMMA HeapStepIsStep ==
  ASSUME TypeInv, [HeapNext]_<<vars, hvars>>
  PROVE  [Next]_vars
<1>1. ASSUME PopTop
      PROVE  Next
  <2>1. elts[0] \in Node /\ Expand(elts[0])
    BY <1>1 DEF PopTop, Expand, Best, TypeInv, TypeOK
  <2> QED
    BY <2>1 DEF Next, Step
<1>2. ASSUME GiveUp \/ PushNew \/ Improve \/ Elsewhere
      PROVE  Next
  BY <1>2 DEF GiveUp, PushNew, Improve, Elsewhere, Next, Step, SuccessorStep
<1>3. ASSUME Begin
      PROVE  Next
  BY <1>3 DEF Begin, Next
<1>4. ASSUME Heapify \/ UNCHANGED <<vars, hvars>>
      PROVE  UNCHANGED vars
  BY <1>4 DEF Heapify, vars
<1> QED
  BY <1>1, <1>2, <1>3, <1>4 DEF HeapNext, Running, Engine

LEMMA HeapInvStep ==
  ASSUME HeapInv, [HeapNext]_<<vars, hvars>>
  PROVE  HeapInv'
<1>1. TypeInv /\ OneSearch /\ [Next]_vars
  BY HeapStepIsStep DEF HeapInv
<1>2. TypeInv' /\ OneSearch'
  BY <1>1, TypeStep, OneSearchStep
<1>3. CASE UNCHANGED <<vars, hvars>>
  BY <1>2, <1>3, HeapKept DEF vars
<1>4. CASE HeapNext
  BY <1>2, <1>4, BeginHeap, PopTopHeap, PushNewHeap, ImproveHeap, ElsewhereHeap, HeapifyHeap
     DEF HeapNext, Running, Engine
<1> QED
  BY <1>3, <1>4

-----------------------------------------------------------------------------
(* What follows from HeapInv.                                              *)

LEMMA SameQueue ==
  ASSUME HeapInv
  PROVE  Heap!QueueInv
<1>1. Q!Indexed /\ Q!ContainsIsMembership /\ Q!HeapOrder
  BY DEF HeapInv, Q!Ordered, Q!QueueInv
<1>2. Heap!Indexed /\ Heap!ContainsIsMembership
  BY <1>1 DEF Q!Indexed, Heap!Indexed, Q!Places, Heap!Places,
       Q!ContainsIsMembership, Heap!ContainsIsMembership,
       Q!Items, Heap!Items, Q!Contains, Heap!Contains
<1>3. Heap!HeapOrder
  <2> SUFFICES ASSUME NEW k \in Q!Places \ {0}
               PROVE  /\ \/ ~Heap!Less(k, Q!Parent(k))
                         \/ hpc = "up" /\ k = index
                         \/ hpc = "down" /\ Q!Parent(k) = index
                      /\ hpc # "idle" /\ Q!Parent(k) = index /\ index > 0
                           => ~Heap!Less(k, Q!Parent(index))
    BY DEF Heap!HeapOrder, Heap!Places, Q!Places, Heap!Parent, Q!Parent
  <2>1. /\ \A j \in Q!Places \ {0} : Q!Parent(j) \in Q!Places /\ Q!Parent(j) < j
        /\ Q!Places \subseteq Nat
    BY QueueAssumptions, Q!KeysOfPlaces DEF HeapInv
  <2>2. Heap!Less(k, Q!Parent(k)) <=> Q!Less(k, Q!Parent(k))
    BY <2>1, SameOrder
  <2>3. Q!Parent(k) = index /\ index > 0
          => (Heap!Less(k, Q!Parent(index)) <=> Q!Less(k, Q!Parent(index)))
    <3> SUFFICES ASSUME Q!Parent(k) = index, index > 0
                 PROVE  k \in Q!Places /\ Q!Parent(index) \in Q!Places
      BY SameOrder
    <3>1. index \in Q!Places \ {0}
      BY <2>1
    <3> QED
      BY <2>1, <3>1
  <2> QED
    BY <1>1, <2>2, <2>3 DEF Q!HeapOrder
<1> QED
  BY <1>2, <1>3 DEF Heap!QueueInv

LEMMA TopIsBest ==
  ASSUME HeapInv, hpc = "idle", queuesize > 0
  PROVE  elts[0] \in Best
<1>1. Q!TypeOK /\ Q!QueueInv
  BY DEF HeapInv, Q!Ordered
<1>2. elts[0] \in open
  BY <1>1 DEF HeapInv, Q!Items, Q!Places, Q!TypeOK
<1>3. ASSUME NEW m \in open
      PROVE  ~Precedes(m, elts[0])
  <2>1. ~Q!Before(HeapKey[m], HeapKey[elts[0]])
    BY <1>1, <1>3, QueueAssumptions, Q!TopIsFirst DEF HeapInv
  <2>2. /\ HeapKey[m] = [f |-> node[m].f, g |-> node[m].g]
        /\ HeapKey[elts[0]] = [f |-> node[elts[0]].f, g |-> node[elts[0]].g]
    BY <1>2, <1>3 DEF HeapKey, HeapInv, TypeInv, TypeOK
  <2> QED
    BY <2>1, <2>2 DEF Q!Before, Precedes
<1> QED
  BY <1>2, <1>3 DEF Best

LEMMA HeapOpens == HeapInv => HeapIsOpen
<1>1. Heap!Items = Q!Items
  BY DEF Heap!Items, Q!Items, Heap!Places, Q!Places
<1> QED
  BY <1>1, SameQueue, TopIsBest DEF HeapInv, HeapIsOpen

(* The decisions taken from the array are those of the engine: the top     *)
(* ends the loop exactly if the best of OPEN does, contains() tells what   *)
(* is in OPEN, and a node that is new to the search is not in the array.   *)
DecisionsAgree ==
  hpc = "idle" =>
    /\ pc = "loop" => (TopEnds <=> Done)
    /\ pc = "loop" /\ ~TopEnds => elts[0] \in Best
    /\ AtSuccessor => /\ Heap!Contains(Child) <=> Child \in open
                      /\ IsNew => ~Heap!Contains(Child)

LEMMA HeapDecides == HeapInv => DecisionsAgree
<1> SUFFICES ASSUME HeapInv, hpc = "idle"
             PROVE  /\ pc = "loop" => (TopEnds <=> Done)
                    /\ pc = "loop" /\ ~TopEnds => elts[0] \in Best
                    /\ AtSuccessor => /\ Heap!Contains(Child) <=> Child \in open
                                      /\ IsNew => ~Heap!Contains(Child)
  BY DEF DecisionsAgree
<1>1. Q!TypeOK /\ queuesize \in Nat /\ (queuesize = 0 <=> open = {})
  <2>1. Q!TypeOK /\ queuesize \in Nat /\ open = {elts[k] : k \in Q!Places}
    BY DEF HeapInv, Q!Ordered, Q!TypeOK, Q!Items
  <2>2. queuesize # 0 => 0 \in Q!Places
    BY <2>1 DEF Q!Places
  <2>3. queuesize = 0 => Q!Places = {}
    BY DEF Q!Places
  <2> QED
    BY <2>1, <2>2, <2>3
<1>2. ASSUME queuesize # 0
      PROVE  /\ elts[0] \in Best
             /\ \A n \in Best : node[n].f = node[elts[0]].f
  <2>1. elts[0] \in Best
    BY <1>1, <1>2, TopIsBest
  <2>2. ASSUME NEW n \in Best
        PROVE  node[n].f = node[elts[0]].f
    <3>1. n \in open /\ elts[0] \in open
          /\ ~Precedes(n, elts[0]) /\ ~Precedes(elts[0], n)
      BY <2>1 DEF Best
    <3>2. node[n].f \in Nat /\ node[elts[0]].f \in Nat
      BY <3>1, OpenCosts DEF HeapInv
    <3> QED
      BY <3>1, <3>2 DEF Precedes
  <2> QED
    BY <2>1, <2>2
<1>3. TopEnds <=> Done
  <2>1. CASE queuesize = 0
    BY <1>1, <2>1 DEF TopEnds, Done
  <2>2. CASE queuesize # 0
    <3>1. \A n \in Best : (Feasible(n) <=> Feasible(elts[0]))
                          /\ node[n].f = node[elts[0]].f
      BY <1>2, <2>2 DEF Feasible
    <3> HIDE DEF Feasible, Admissible
    <3>2. Done <=> ~Feasible(elts[0]) \/ Admissible(node[elts[0]].f)
      BY <1>1, <1>2, <2>2, <3>1 DEF Done
    <3> QED
      BY <2>2, <3>2 DEF TopEnds
  <2> QED
    BY <2>1, <2>2
<1>4. ~TopEnds => elts[0] \in Best
  BY <1>2 DEF TopEnds
<1>5. ASSUME AtSuccessor
      PROVE  /\ Heap!Contains(Child) <=> Child \in open
             /\ IsNew => ~Heap!Contains(Child)
  <2>1. Child \in Node
    BY <1>5, SuccessorType DEF HeapInv
  <2>2. Heap!Contains(Child) <=> Child \in open
    BY <2>1 DEF HeapInv, Q!Ordered, Q!QueueInv, Q!ContainsIsMembership,
         Q!Contains, Heap!Contains
  <2>3. IsNew => Child \notin open
    BY <1>5 DEF HeapInv, OneSearch, AtSuccessor, IsNew
  <2> QED
    BY <2>2, <2>3
<1> QED
  BY <1>3, <1>4, <1>5

-----------------------------------------------------------------------------
(* Theorems.                                                               *)

LEMMA HeapInvariant == HeapSpec => []HeapInv
<1>1. HeapInit => HeapInv
  BY HeapInvInit
<1>2. HeapInv /\ [HeapNext]_<<vars, hvars>> => HeapInv'
  BY HeapInvStep
<1> QED
  BY <1>1, <1>2, PTL DEF HeapSpec

(* The array holds OPEN, in order, whatever earlier calls left in it and   *)
(* in the nodes, and its top is one that no other precedes: for every map  *)
(* and parameter, and for stale and repeated instance ids too.             *)
THEOREM HeapHoldsOpen == HeapSpec => []HeapIsOpen
  BY HeapInvariant, HeapOpens, PTL

(* No decision depends on whether OPEN is a heap or a set.                 *)
THEOREM HeapDecidesAlike == HeapSpec => []DecisionsAgree
  BY HeapInvariant, HeapDecides, PTL

(* The engine over its heap implements the engine: its steps are those of  *)
(* the engine, and heapify does not show.                                  *)
LEMMA HeapSearchIsSearch == HeapSpec => Init /\ [][Next]_vars
<1>1. HeapInit => Init
  BY DEF HeapInit
<1>2. HeapInv /\ [HeapNext]_<<vars, hvars>> => [Next]_vars
  BY HeapStepIsStep DEF HeapInv
<1> QED
  BY <1>1, <1>2, HeapInvariant, PTL DEF HeapSpec

(* So what is proved of the engine holds over the heap.                    *)
THEOREM HeapSearchIsSafe ==
  ASSUME FreshIds
  PROVE  HeapSpec => []SearchInv
<1>1. Init => Inv
  BY TypeInit, InitInv DEF Inv
<1>2. Inv /\ [Next]_vars => Inv'
  BY TypeStep, InvStep DEF Inv
<1>3. Inv => SearchInv
  BY DEF Inv
<1> QED
  BY <1>1, <1>2, <1>3, HeapSearchIsSearch, PTL

(* The engine over its heap implements PathFinder: two refinements, from   *)
(* the array to the set and from the search to its answers, make one.      *)
THEOREM HeapSearchKeepsPromise ==
  ASSUME FreshIds
  PROVE  HeapSpec => KeepsPromise
  BY PromiseKept, HeapSearchIsSearch, PTL

(* The paths that the engine over its heap returns are paths of the map.   *)
THEOREM HeapPathsAreReal ==
  ASSUME FreshIds
  PROVE  HeapSpec => []PathIsReal
<1>1. AnswerInv => PathIsReal
  BY PathReal
<1> QED
  BY <1>1, AnswerInvariant, HeapSearchIsSearch, PTL

(* They cost at most eps more than a shortest path, under the conditions   *)
(* under which the engine alone has been shown to answer so.               *)
THEOREM HeapAnswersAreWithinEps ==
  ASSUME FreshIds, RP = "yes", AC # "any", Unweighted, AdmissibleEstimates,
         IsFiniteSet(Node)
  PROVE  HeapSpec => []PathWithinEps
<1>1. ReopenInv => PathWithinEps
  BY WithinEps
<1> QED
  BY <1>1, ReopenInvariant, HeapSearchIsSearch, PTL

(* The heap changes nothing about what a cutoff misses: nothing that costs *)
(* at most the cutoff.                                                     *)
THEOREM HeapCutoffsAreExact ==
  ASSUME FreshIds, RP = "yes", Unweighted, AdmissibleEstimates, IsFiniteSet(Node)
  PROVE  HeapSpec => []CutoffIsExact
<1>1. ReopenInv => CutoffIsExact
  BY CutoffExact
<1> QED
  BY <1>1, ReopenInvariant, HeapSearchIsSearch, PTL

(* Its lower bounds never fall under a consistent heuristic.               *)
THEOREM HeapBoundsNeverFall ==
  ASSUME FreshIds
  PROVE  HeapSpec => LowerBoundGrows
<1>1. Init => OrderInv
  BY OrderInvInit
<1>2. OrderInv /\ [Next]_vars => OrderInv'
  BY OrderInvStep
<1>3. OrderInv /\ [Next]_vars
        => [pc = "loop" /\ pc' = "succ" /\ sol.lb # CostMax /\ Consistent
              => sol.lb <= sol'.lb]_vars
  BY BoundStep
<1> QED
  BY <1>1, <1>2, <1>3, HeapSearchIsSearch, PTL DEF LowerBoundGrows

(* The nodes that it closes have the costs of shortest paths.              *)
THEOREM HeapClosedNodesAreFinal ==
  ASSUME FreshIds, IsFiniteSet(Node), AC = "any" \/ RP = "yes"
  PROVE  HeapSpec => []ClosedIsFinal
<1>1. ConsistentInv => ClosedIsFinal
  BY ClosedFinal
<1> QED
  BY <1>1, ConsistentInvariant, HeapSearchIsSearch, PTL

(* The cost that it reports is that of a shortest path, but for the spread *)
(* of the estimates next to the target.                                    *)
THEOREM HeapSumsAreNearOptimal ==
  ASSUME FreshIds, IsFiniteSet(Node)
  PROVE  HeapSpec => []SumIsNearOptimal
<1>1. ConsistentInv => SumIsNearOptimal
  BY SumNearOptimal
<1> QED
  BY <1>1, ConsistentInvariant, HeapSearchIsSearch, PTL
=============================================================================
