--------------------------- MODULE ExpansionPolicy ---------------------------
(***************************************************************************)
(* What the expansion policies share: the list of the successors of the    *)
(* node being expanded, an arraylist of pointers into the node_pool, and   *)
(* the cursor over it.  The costs, which go with the pointers, are left    *)
(* out.  The pool is used through `generate' by searches as well.          *)
(***************************************************************************)
EXTENDS NodePool, Sequences

CONSTANTS
  ListSize,  \* first capacity of the arraylist
  ListLimit  \* bound on the successors of a node

ASSUME ListAssumption == ListSize \in Nat \ {0} /\ ListLimit \in Nat

VARIABLES
  collection,  \* collection_, from 0
  max_size,    \* max_size_: its capacity
  used,        \* next_: the elements in use
  cursor,      \* current_: the cursor of the policy
  added        \* ids added since the latest reset, for the properties

lvars == <<collection, max_size, used, cursor, added>>

\* What the array holds before anything is written is never read.
InitPolicy ==
  /\ InitNodes
  /\ collection = [k \in 0 .. ListSize - 1 |-> Null]
  /\ max_size = ListSize /\ used = 0 /\ cursor = 0 /\ added = <<>>

-----------------------------------------------------------------------------
\* Mutant: the elements are not copied.
GrownEmpty(size) == [k \in 0 .. size - 1 |-> Null]

\* arraylist::grow
Grown(size) ==
  [k \in 0 .. size - 1 |-> IF k < max_size THEN collection[k] ELSE Null]

\* arraylist::push_back; `grow' never returns early, since used = max_size
PushBack(p) ==
  /\ used' = used + 1
  /\ IF used < max_size
     THEN /\ collection' = [collection EXCEPT ![used] = p]
          /\ UNCHANGED max_size
     ELSE /\ collection' = [Grown(used * 2) EXCEPT ![used] = p]
          /\ max_size' = used * 2

\* add_neighbour(generate(d), cost) in `expand', for a cell of the map
AddNeighbour(d) ==
  /\ used < ListLimit /\ d < NumNodes
  /\ GenerateBlock(d) \/ Generate(d)
  /\ PushBack(ptr')
  /\ added' = Append(added, d)
  /\ UNCHANGED cursor

Reset ==
  /\ used' = 0 /\ cursor' = 0 /\ added' = <<>>
  /\ UNCHANGED <<nvars, collection, max_size>>

\* The cursor of first, next and get_successor, which return N of it.
MoveTo(k) == cursor' = k /\ UNCHANGED <<nvars, collection, max_size, used, added>>

First == MoveTo(0)

NextSuccessor == cursor <= ListLimit /\ MoveTo(cursor + 1)

GetSuccessor(which) == which < used /\ MoveTo(which)

N == IF cursor < used THEN collection[cursor] ELSE Null

\* A search, between the calls of the policy
Search == NextNodes /\ UNCHANGED lvars

NextPolicy ==
  \/ \E d \in Ids : AddNeighbour(d)
  \/ \E which \in 0 .. ListLimit - 1 : GetSuccessor(which)
  \/ Reset \/ First \/ NextSuccessor \/ Search

SpecPolicy == InitPolicy /\ [][NextPolicy]_<<nvars, lvars>>

-----------------------------------------------------------------------------
(* The cursor shows the records of the cells that were added since the     *)
(* latest reset, in their order, although the array has been enlarged, the *)
(* pool has made new blocks, searches have written to records, and the     *)
(* slots behind the end keep older successors.                             *)
SuccessorsAreAdded ==
  /\ used = Len(added)
  /\ \A k \in 1 .. used :
       LET p == collection[k - 1]
       IN p \in ptrs /\ Record(p).id = added[k]
  /\ IF cursor < Len(added) THEN Record(N).id = added[cursor + 1]
     ELSE N = Null
=============================================================================
