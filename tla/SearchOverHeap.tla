---------------------------- MODULE SearchOverHeap ----------------------------
(***************************************************************************)
(* The engine over its binary heap.  open remains the set that the queue   *)
(* stands for; every decision is taken from the array and the indices that *)
(* pqueue keeps in the nodes, where earlier calls have left theirs.  The   *)
(* engine waits until push, pop and decrease_key have returned.            *)
(***************************************************************************)
EXTENDS SearchCorrectness

CONSTANTS
  InitSize, MinSize, INF32    \* of the queue

ASSUME SizesAssumption ==
  InitSize \in Nat /\ INF32 \in Nat /\ MinSize \in Nat \ {0}

VARIABLES priority, elts, queuesize, maxsize, hpc, index, popped

hvars == <<priority, elts, queuesize, maxsize, hpc, index, popped>>

\* f_ and g_ are fields of the node, like priority_.
Heap == INSTANCE PQueue WITH
  key <- node, pc <- hpc, IsMin <- TRUE, Keys <- {}

-----------------------------------------------------------------------------
HeapInit ==
  /\ Init
  /\ priority = [n \in Node |-> INF32]
  /\ queuesize = 0
  /\ maxsize = Heap!Capacity(InitSize)
  /\ elts = [k \in 0 .. maxsize - 1 |-> Null]
  /\ hpc = "idle" /\ index = 0
  /\ popped = Null

\* Mutant: the queue is not cleared; the start is pushed behind what is left.
PrologueUncleared(start) == Heap!Push(start)

\* open_->clear(), and then push(start) into the empty queue
Prologue(start) ==
  /\ queuesize' = 1
  /\ elts' = [elts EXCEPT ![0] = start]
  /\ priority' = [priority EXCEPT ![start] = 0]
  /\ hpc' = "up" /\ index' = 0
  /\ UNCHANGED <<maxsize, popped>>

Begin ==
  /\ Call
  /\ IF pc' = "loop" THEN Prologue(pi'.start) ELSE Heap!Clear

\* The queue is empty, or its top ends the search.
TopEnds ==
  IF queuesize = 0 THEN TRUE
  ELSE ~Feasible(elts[0]) \/ Admissible(node[elts[0]].f)

PopTop  == ~TopEnds /\ Expand(elts[0]) /\ Heap!Pop
GiveUp  == TopEnds /\ Stop /\ UNCHANGED hvars

PushNew == Generate /\ Heap!Push(Child)

\* The node has been relaxed; contains() decides what becomes of it.
Improve ==
  /\ AtSuccessor /\ CanRelax
  /\ IF Heap!Contains(Child)
     THEN Decrease /\ Heap!DecreaseKey(Child, node'[Child])
     ELSE /\ Reopen
          /\ IF RP = "yes" THEN Heap!Push(Child) ELSE UNCHANGED hvars

Elsewhere == (Prune \/ Dominated \/ EndExpansion \/ Extract) /\ UNCHANGED hvars

Engine == PopTop \/ GiveUp \/ PushNew \/ Improve \/ Elsewhere

Heapify == (Heap!Up \/ Heap!Down) /\ UNCHANGED vars

Running == (hpc = "idle" /\ Engine) \/ Heapify

HeapNext == (hpc = "idle" /\ Begin) \/ Running

\* The heap is part of the same sequential computation.
HeapSpec ==
  /\ HeapInit /\ [][HeapNext]_<<vars, hvars>>
  /\ WF_<<vars, hvars>>(Running)

-----------------------------------------------------------------------------
(* Whatever earlier searches left in the array and in the nodes, the queue *)
(* holds what the engine has put there and not taken out, it is in order,  *)
(* and between two operations its top is one that no other node precedes.  *)
HeapIsOpen ==
  /\ Heap!QueueInv
  /\ Heap!Items = open
  /\ hpc = "idle" /\ queuesize > 0 => elts[0] \in Best
=============================================================================
