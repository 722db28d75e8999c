------------------------------- MODULE PQueue -------------------------------
(***************************************************************************)
(* warthog::util::pqueue: a binary heap of pointers to search nodes.  A    *)
(* node stores its index in the array (priority_), and keeps it when it    *)
(* leaves the queue; the array keeps what is above queuesize_.  Membership *)
(* is decided from these leftovers.  Swaps are single steps.               *)
(***************************************************************************)
EXTENDS NodeOrder

CONSTANTS
  Node,       \* the search nodes
  Null,       \* the null pointer
  InitSize,   \* size argument of the constructor
  MinSize,    \* smallest capacity, 4 in the code
  INF32,      \* priority_ of a node that was never in a queue
  Keys        \* BOUND: keys that nodes are given

ASSUME QueueAssumption ==
  /\ Null \notin Node
  /\ InitSize \in Nat /\ INF32 \in Nat /\ MinSize \in Nat \ {0}
  /\ Keys \subseteq Key
  /\ IsMin \in BOOLEAN

VARIABLES
  key,        \* f_ and g_ of the nodes
  priority,   \* priority_ of the nodes
  elts, queuesize, maxsize,
  pc,         \* "idle", "up" in heapify_up, "down" in heapify_down
  index,      \* index of both
  popped      \* result of the latest pop

vars == <<key, priority, elts, queuesize, maxsize, pc, index, popped>>

Capacity(size) == IF size >= MinSize THEN size ELSE MinSize

Init ==
  /\ key \in [Node -> Keys]
  /\ priority = [n \in Node |-> INF32]
  /\ queuesize = 0
  /\ maxsize = Capacity(InitSize)
  /\ elts = [k \in 0 .. maxsize - 1 |-> Null]
  /\ pc = "idle" /\ index = 0
  /\ popped = Null

Contains(n) == priority[n] < queuesize /\ elts[priority[n]] = n

\* resize(newsize) keeps the elements in the queue.
Resized(newsize) ==
  [k \in 0 .. Capacity(newsize) - 1 |-> IF k < queuesize THEN elts[k] ELSE Null]

Full == queuesize + 1 > maxsize

(* push, pop and clear.  The keys belong to the caller, who is free to     *)
(* change those of the nodes that are not in the queue at the same time.   *)

\* At the end, then up.  A node that is in the queue is not pushed.
Push(n) ==
  /\ pc = "idle"
  /\ ~Contains(n)
  /\ maxsize' = IF Full THEN Capacity(maxsize * 2) ELSE maxsize
  /\ elts' = [IF Full THEN Resized(maxsize * 2) ELSE elts
                EXCEPT ![queuesize] = n]
  /\ priority' = [priority EXCEPT ![n] = queuesize]
  /\ queuesize' = queuesize + 1
  /\ pc' = "up" /\ index' = queuesize
  /\ UNCHANGED popped

\* Mutant: the element that is moved to the top is not told.
PopUntold ==
  /\ pc = "idle" /\ queuesize > 0
  /\ popped' = elts[0]
  /\ queuesize' = queuesize - 1
  /\ elts' = [elts EXCEPT ![0] = elts[queuesize - 1]]
  /\ pc' = "down" /\ index' = 0
  /\ UNCHANGED <<priority, maxsize>>

\* The last element comes to the top, then down.
Pop ==
  /\ pc = "idle" /\ queuesize > 0
  /\ popped' = elts[0]
  /\ queuesize' = queuesize - 1
  /\ IF queuesize > 1
     THEN /\ elts' = [elts EXCEPT ![0] = elts[queuesize - 1]]
          /\ priority' = [priority EXCEPT ![elts[queuesize - 1]] = 0]
          /\ pc' = "down" /\ index' = 0
     ELSE UNCHANGED <<elts, priority, pc, index>>
  /\ UNCHANGED maxsize

PopNothing ==
  /\ pc = "idle" /\ queuesize = 0
  /\ popped' = Null
  /\ UNCHANGED <<priority, elts, queuesize, maxsize, pc, index>>

Clear ==
  /\ pc = "idle"
  /\ queuesize' = 0
  /\ UNCHANGED <<priority, elts, maxsize, pc, index, popped>>

\* The caller has lowered (raised) the f-value of an element of the queue.
DecreaseKey(n, k) ==
  /\ pc = "idle" /\ Contains(n) /\ k.f < key[n].f
  /\ key' = [key EXCEPT ![n] = k]
  /\ pc' = IF IsMin THEN "up" ELSE "down"
  /\ index' = priority[n]
  /\ UNCHANGED <<priority, elts, queuesize, maxsize, popped>>

IncreaseKey(n, k) ==
  /\ pc = "idle" /\ Contains(n) /\ k.f > key[n].f
  /\ key' = [key EXCEPT ![n] = k]
  /\ pc' = IF IsMin THEN "down" ELSE "up"
  /\ index' = priority[n]
  /\ UNCHANGED <<priority, elts, queuesize, maxsize, popped>>

\* The caller changes a node outside of the queue: init or relax.
Rekey(n, k) ==
  /\ pc = "idle" /\ ~Contains(n)
  /\ key' = [key EXCEPT ![n] = k]
  /\ UNCHANGED <<priority, elts, queuesize, maxsize, pc, index, popped>>

\* swap(i, j), after which heapify goes on at j.
Swap(i, j) ==
  /\ elts' = [elts EXCEPT ![i] = elts[j], ![j] = elts[i]]
  /\ priority' = [priority EXCEPT ![elts[j]] = i, ![elts[i]] = j]
  /\ index' = j
  /\ UNCHANGED <<key, queuesize, maxsize, pc, popped>>

Return ==
  /\ pc' = "idle"
  /\ UNCHANGED <<key, priority, elts, queuesize, maxsize, index, popped>>

Parent(k) == (k - 1) \div 2
Less(i, j) == Before(key[elts[i]], key[elts[j]])

\* An iteration of heapify_up.
Up ==
  /\ pc = "up"
  /\ IF index > 0 /\ Less(index, Parent(index))
     THEN Swap(index, Parent(index))
     ELSE Return

\* Mutant: the left child is taken, whatever the right one is.
LeftChild == 2 * index + 1

\* The child that heapify_down compares with its parent.
Which ==
  IF 2 * index + 2 < queuesize /\ Less(2 * index + 2, 2 * index + 1)
  THEN 2 * index + 2 ELSE 2 * index + 1

\* An iteration of heapify_down.
Down ==
  /\ pc = "down"
  /\ IF index < queuesize \div 2 /\ Less(Which, index)
     THEN Swap(index, Which)
     ELSE Return

Operation ==
  \/ /\ (\E n \in Node : Push(n)) \/ Pop \/ PopNothing \/ Clear
     /\ UNCHANGED key
  \/ \E n \in Node, k \in Keys :
       DecreaseKey(n, k) \/ IncreaseKey(n, k) \/ Rekey(n, k)

Next == Operation \/ Up \/ Down

Spec == Init /\ [][Next]_vars

-----------------------------------------------------------------------------
TypeOK ==
  /\ key \in [Node -> Key]
  /\ priority \in [Node -> Nat]
  /\ queuesize \in 0 .. maxsize /\ maxsize \in Nat /\ maxsize >= MinSize
  /\ elts \in [0 .. maxsize - 1 -> Node \cup {Null}]
  /\ pc \in {"idle", "up", "down"}
  /\ index \in Nat
  /\ pc # "idle" => index < queuesize
  /\ popped \in Node \cup {Null}

Places == 0 .. queuesize - 1
Items == {elts[k] : k \in Places}

(* Whatever was left in the array and in the nodes by pop, clear or an     *)
(* earlier search, contains() is true of the elements of the queue and of  *)
(* nothing else, also in the middle of a heapify.                          *)
ContainsIsMembership ==
  /\ Null \notin Items
  /\ \A n \in Node : Contains(n) <=> n \in Items

\* Every element knows its place, so no node is in the queue twice.
Indexed == \A k \in Places : elts[k] \in Node /\ priority[elts[k]] = k

(* No element precedes its parent, except that heapify_up has yet to       *)
(* compare index with its parent and heapify_down index with its children; *)
(* then those children fit below the parent of index.                      *)
HeapOrder ==
  \A k \in Places \ {0} :
    /\ \/ ~Less(k, Parent(k))
       \/ pc = "up" /\ k = index
       \/ pc = "down" /\ Parent(k) = index
    /\ pc # "idle" /\ Parent(k) = index /\ index > 0
         => ~Less(k, Parent(index))

QueueInv == Indexed /\ ContainsIsMembership /\ HeapOrder

Promise == INSTANCE PriorityQueue WITH items <- Items

(* The heap is a priority queue: no operation loses, doubles or invents an *)
(* element, and pop returns one that no other precedes.                    *)
IsAPriorityQueue == Promise!Spec
=============================================================================
