------------------------------ MODULE NodeOrder ------------------------------
(***************************************************************************)
(* The orders on search nodes: cmp_less_search_node behind pqueue_min and  *)
(* cmp_greater_search_node behind pqueue_max.  Both prefer the larger g    *)
(* among nodes of the same f, so neither is the converse of the other.     *)
(***************************************************************************)
EXTENDS Integers

CONSTANT IsMin    \* QType().is_min_

Key == [f : Nat, g : Nat]

\* (*cmp_)(a, b)
Before(a, b) ==
  \/ IF IsMin THEN a.f < b.f ELSE a.f > b.f
  \/ a.f = b.f /\ a.g > b.g
=============================================================================
