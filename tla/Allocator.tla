----------------------------- MODULE Allocator -----------------------------
(***************************************************************************)
(* What a memory pool promises: it never hands out an object that its user *)
(* has and has not given back.                                             *)
(***************************************************************************)
CONSTANT Object    \* addresses of objects

VARIABLES
  live,   \* objects the user has
  addr    \* result of the latest allocate

avars == <<live, addr>>

Init == live = {} /\ addr \notin Object

Allocate ==
  /\ addr' \in Object \ live
  /\ live' = live \cup {addr'}

Deallocate(a) == a \in live /\ live' = live \ {a} /\ UNCHANGED addr

Reclaim == live' = {} /\ UNCHANGED addr

Next == Allocate \/ (\E a \in live : Deallocate(a)) \/ Reclaim

Spec == Init /\ [][Next]_avars
=============================================================================
