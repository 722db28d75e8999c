------------------------ MODULE GridmapExpansionPolicy ------------------------
(***************************************************************************)
(* gridmap_expansion_policy and the heuristics for grids: the successors   *)
(* of a cell, in the order in which they are added, and the estimates.     *)
(* The cost of a move is 1 or DBL_ROOT_TWO, here Cardinal and Diagonal.    *)
(***************************************************************************)
EXTENDS Gridmap, Sequences

CONSTANTS
  Cardinal, Diagonal  \* the costs 1 and 0x1.6a09e6p0 in an integer unit

(* The cells that must be traversable for a move d: the cell itself, the   *)
(* destination and, on a diagonal, the two cells next to both; these are   *)
(* the bit masks 514, 1536, 131584, 768, 1542, 394752, 197376 and 771.     *)
Mask(d) == {<<0, 0>>, <<d[1], 0>>, <<0, d[2]>>, d}

\* add_neighbour for the move d, if the map allows it.
Move(db, id, d, c) ==
  IF Mask(d) \subseteq Neighbours(db, id)
  THEN << [node |-> id + d[2] * Width + d[1], cost |-> c] >>
  ELSE <<>>

\* gridmap_expansion_policy::expand; manhattan_ leaves out diagonal moves.
Expansion(db, id, manhattan) ==
  Move(db, id, <<0, -1>>, Cardinal) \o Move(db, id, <<1, 0>>, Cardinal) \o
  Move(db, id, <<0, 1>>, Cardinal) \o Move(db, id, <<-1, 0>>, Cardinal) \o
  (IF manhattan THEN <<>>
   ELSE Move(db, id, <<1, -1>>, Diagonal) \o Move(db, id, <<1, 1>>, Diagonal) \o
        Move(db, id, <<-1, 1>>, Diagonal) \o Move(db, id, <<-1, -1>>, Diagonal))

\* The start and target of get_problem_instance for the instance that a
\* caller builds with get_pack of two points.
GetPack(p) == ToPackId(p[1], p[2])
ProblemInstance(s, t) == <<ToPaddedId(GetPack(s)), ToPaddedId(GetPack(t))>>

\* generate_start_node is not null
StartNodes(db) == {id \in Cells : id < Width * Height /\ id \in db}

Abs(x) == IF x < 0 THEN -x ELSE x

\* octile_heuristic::h on the coordinates of two cells of the table
Octile(id, id2) ==
  LET dx == Abs(ToPaddedXY(id)[1] - ToPaddedXY(id2)[1])
      dy == Abs(ToPaddedXY(id)[2] - ToPaddedXY(id2)[2])
  IN  IF dx < dy THEN dx * Diagonal + (dy - dx) * Cardinal
                 ELSE dy * Diagonal + (dx - dy) * Cardinal

\* manhattan_heuristic::h
ManhattanDistance(id, id2) ==
  Cardinal * (Abs(ToPaddedXY(id)[1] - ToPaddedXY(id2)[1])
              + Abs(ToPaddedXY(id)[2] - ToPaddedXY(id2)[2]))
=============================================================================
