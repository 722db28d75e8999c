------------------------------ MODULE MCPQueue ------------------------------
(***************************************************************************)
(* The heap with one node more than its first array can hold.              *)
(***************************************************************************)
EXTENDS PQueue, TLC

CONSTANTS MCKeys    \* BOUND: keys, as numbers 10 * f + g

KeyOf(x) == [f |-> x \div 10, g |-> x % 10]
SomeKeys == {KeyOf(x) : x \in MCKeys}

Symmetric == Permutations(Node)
=============================================================================
