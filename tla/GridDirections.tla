--------------------------- MODULE GridDirections ---------------------------
(***************************************************************************)
(* warthog::grid (domain/grid.h): the eight directions, how they turn, and *)
(* what a step does to a point and to the id of a cell.  A table of the    *)
(* code is packed into one constant and read by shifting; here it is a     *)
(* tuple in the order of the ids.  Each turn exists twice in the code, on  *)
(* ids and on the bits 1 << id, with the same table.                       *)
(***************************************************************************)
EXTENDS Integers

CONSTANTS
  Wrap,       \* 2^32, the range of ids
  PointWrap,  \* 2^16, the range of coordinates
  BMI2        \* whether the build uses _pdep_u32

ASSUME RangeAssumption ==
  {Wrap, PointWrap} \subseteq Nat \ {0} /\ BMI2 \in BOOLEAN

NORTH == 0
SOUTH == 1
EAST == 2
WEST == 3
NORTHEAST == 4
NORTHWEST == 5
SOUTHEAST == 6
SOUTHWEST == 7
Direction == 0 .. 7

At(table, d) == table[d + 1]

\* dir_id_cw90 and dir_cw90, and so on.
Cw90(d)  == At(<<EAST, WEST, SOUTH, NORTH,
                 SOUTHEAST, NORTHEAST, SOUTHWEST, NORTHWEST>>, d)
Ccw90(d) == At(<<WEST, EAST, NORTH, SOUTH,
                 NORTHWEST, SOUTHWEST, NORTHEAST, SOUTHEAST>>, d)
Cw45(d)  == At(<<NORTHEAST, SOUTHWEST, SOUTHEAST, NORTHWEST,
                 EAST, NORTH, SOUTH, WEST>>, d)
Flip180(d) == At(<<SOUTH, NORTH, WEST, EAST,
                   SOUTHWEST, SOUTHEAST, NORTHWEST, NORTHEAST>>, d)

\* Mutant: the last two entries are swapped.
Ccw45Swapped(d) == At(<<NORTHWEST, SOUTHEAST, NORTHEAST, SOUTHWEST,
                        NORTH, WEST, SOUTH, EAST>>, d)

Ccw45(d) == At(<<NORTHWEST, SOUTHEAST, NORTHEAST, SOUTHWEST,
                 NORTH, WEST, EAST, SOUTH>>, d)

\* dir_intercardinal_hori, dir_intercardinal_vert: read from the bits of the id
Hori(d) == EAST + (d % 2)
Vert(d) == NORTH + ((d \div 2) % 2)

\* Mutant: east and west are taken for each other on the way north.
DirIdAdjMirrored(d, width) ==
  At(<<-width, width, 1, -1,
       -width - 1, -width + 1, width + 1, width - 1>>, d) % Wrap

\* dir_id_adj: a signed difference, stored unsigned
DirIdAdj(d, width) ==
  At(<<-width, width, 1, -1,
       -width + 1, -width - 1, width + 1, width - 1>>, d) % Wrap

\* dir_id_adj_inv_intercardinal
DirIdAdjInv(d, a) ==
  (CASE d = NORTHEAST -> -a + 1 [] d = NORTHWEST -> -a - 1
     [] d = SOUTHEAST -> a - 1  [] d = SOUTHWEST -> a + 1) % Wrap

\* dir_id_adj_vert and dir_id_adj_hori
DirIdAdjVert(d, width) ==
  At(<<-width, width, 0, 0, -width, -width, width, width>>, d) % Wrap
DirIdAdjHori(d) == At(<<0, 0, 1, -1, 1, -1, 1, -1>>, d)

(* dir_unit_point: packed_reldir holds y + 1 and x + 1 in two bits each.   *)
(* The mask of _pdep_u32 puts them at the upper end of the coordinates.    *)
UnitPoint(d) ==
  LET packed == At(<<1, 9, 6, 4, 2, 0, 10, 8>>, d)
      scale  == IF BMI2 THEN PointWrap \div 4 ELSE 1
  IN  <<(packed % 4) * scale - 1, (packed \div 4) * scale - 1>>

\* operator+ of a point and a signed point
Plus(p, u) == <<(p[1] + u[1]) % PointWrap, (p[2] + u[2]) % PointWrap>>

\* point_to_direction_id
PointToDirection(p, q) ==
  CASE q[1] = p[1] -> IF q[2] >= p[2] THEN SOUTH ELSE NORTH
    [] q[1] # p[1] /\ q[2] = p[2] -> IF q[1] >= p[1] THEN EAST ELSE WEST
    [] q[1] > p[1] /\ q[2] > p[2] -> SOUTHEAST
    [] q[1] < p[1] /\ q[2] > p[2] -> SOUTHWEST
    [] q[1] > p[1] /\ q[2] < p[2] -> NORTHEAST
    [] q[1] < p[1] /\ q[2] < p[2] -> NORTHWEST
=============================================================================
