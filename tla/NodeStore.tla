----------------------------- MODULE NodeStore -----------------------------
(***************************************************************************)
(* What a node pool promises to the searches that use it: every id of the  *)
(* pool has one record, which is there from the start as far as anybody    *)
(* can see, and changes only when somebody writes to that record.          *)
(***************************************************************************)
CONSTANTS
  Id,       \* ids that searches ask for
  Known,    \* those that have a record
  Num,      \* search numbers
  Unused,   \* search number of a record that no search has used
  Null

VARIABLES
  num,    \* search numbers of the records
  given,  \* the record that the latest call returned
  held    \* records that somebody has a pointer to

svars == <<num, given, held>>

Init == num = [d \in Known |-> Unused] /\ given = Null /\ held = {}

Give(d) == given' = d /\ held' = held \cup {d}

GiveNothing == given' = Null /\ UNCHANGED held

Generate(d) ==
  /\ IF d \in Known THEN Give(d) ELSE GiveNothing
  /\ UNCHANGED num

GetPtr(d, n) ==
  /\ IF d \in Known /\ num[d] = n THEN Give(d) ELSE GiveNothing
  /\ UNCHANGED num

Write(d, n) ==
  /\ d \in held
  /\ num' = [num EXCEPT ![d] = n]
  /\ UNCHANGED <<given, held>>

Next ==
  \/ \E d \in Id : Generate(d) \/ \E n \in Num : GetPtr(d, n)
  \/ \E d \in held, n \in Num : Write(d, n)

Spec == Init /\ [][Next]_svars
=============================================================================
