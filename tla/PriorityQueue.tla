---------------------------- MODULE PriorityQueue ----------------------------
(***************************************************************************)
(* What a priority queue of search nodes promises: it is a set, push puts  *)
(* a node in, and pop takes a node out that no other one in it precedes.   *)
(* The keys belong to the nodes and are changed by the caller: freely      *)
(* outside of the queue, together with decrease_key or increase_key in it. *)
(***************************************************************************)
EXTENDS NodeOrder

CONSTANTS Node, Null

VARIABLES
  key,    \* f and g of the nodes
  items,  \* the nodes in the queue
  popped  \* result of the latest pop

qvars == <<key, items, popped>>

\* What pop may take, the engine's Best.
Firsts == {n \in items : \A m \in items : ~Before(key[m], key[n])}

Init == key \in [Node -> Key] /\ items = {} /\ popped = Null

Push(n) == items' = items \cup {n} /\ UNCHANGED <<key, popped>>

Pop ==
  /\ \/ items = {} /\ popped' = Null
     \/ popped' \in Firsts
  /\ items' = items \ {popped'}
  /\ UNCHANGED key

Rekey(n) ==
  /\ key' \in [Node -> Key]
  /\ \A m \in Node \ {n} : key'[m] = key[m]
  /\ UNCHANGED <<items, popped>>

Clear == items' = {} /\ UNCHANGED <<key, popped>>

Next ==
  \/ \E n \in Node : Push(n) \/ Rekey(n)
  \/ Pop
  \/ Clear

Spec == Init /\ [][Next]_qvars
=============================================================================
