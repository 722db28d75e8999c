------------------------------- MODULE MCDimacs -------------------------------
(***************************************************************************)
(* dimacs_parser over short files: arcs in both directions and twice, a    *)
(* loop, damaged lines, second problem lines, and queries of every format. *)
(***************************************************************************)
EXTENDS DimacsCorrectness

CONSTANT MaxRest  \* BOUND: lines after the problem line of a graph file

L(kind, a, b) == [kind |-> kind, a |-> a, b |-> b, ended |-> TRUE]

\* The same line, too long or without its newline.
Long(l) == [l EXCEPT !.ended = FALSE]

GrRest == {L("arc", 1, 2), L("arc", 2, 1), L("gr", 1, 1), L("bad arc", 0, 0)}
CoRest == {L("node", 7, 5), L("co", 1, 1), L("bad node", 0, 0)}

ShortGraphFiles ==
  {<<L("gr", 2, 2)>> \o r : r \in BoundedSeq(GrRest, MaxRest)}
    \cup {<<L("co", 2, 2)>> \o r : r \in BoundedSeq(CoRest, MaxRest)}
    \cup {<<L("aux", 0, 0)>>,
          <<L("aux", 0, 0), L("gr", 1, 1), L("node", 7, 5), L("arc", 3, 3)>>,
          <<L("comment", 0, 0), L("unknown", 0, 0), L("gr", 2, 2), L("arc", 1, 2)>>,
          <<L("gr", 0, 1), L("arc", 1, 2)>>,
          <<Long(L("comment", 0, 0)), L("gr", 2, 2), L("arc", 1, 2)>>,
          <<Long(L("gr", 2, 2)), L("arc", 1, 2)>>,
          <<L("gr", 2, 2), Long(L("arc", 2, 2)), L("arc", 1, 2)>>,
          <<L("co", 2, 2), L("node", 7, 5), Long(L("node", 8, 6)), L("bad node", 0, 0)>>}

\* The empty one is also a file that cannot be opened.
ShortQueryFiles ==
  {<<>>}
    \cup {<<L(k, 0, 0), L("query", 1, 0), L("comment", 0, 0), l>> :
            k \in Format, l \in {L("query", 0, 2), Long(L("query", 0, 2))}}
    \cup {<<Long(L("p2p", 0, 0)), L("query", 2, 1)>>,
          <<L("p2p", 0, 0), Long(L("comment", 0, 0)), L("query", 2, 1)>>}
    \cup {<<L("other", 0, 0), L("p2p", 0, 0), q, L("query", 2, 1)>> :
            q \in {L("ss", 0, 0), L("bad query", 0, 0)}}

SomeOrders == {<<>>, <<0, 1, 2>>, <<2, 0, 1>>}
=============================================================================
