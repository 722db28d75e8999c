------------------------------ MODULE GridWalk ------------------------------
(***************************************************************************)
(* A user of gridmap and of the directions of grid.h: it opens and closes  *)
(* cells, turns, and walks, and follows its place as an id of the padded   *)
(* grid and as a point at the same time.                                   *)
(***************************************************************************)
EXTENDS GridTiles, GridDirections

CONSTANTS
  Walkable,  \* BOUND: pack ids of the cells that are ever open
  Junk       \* BOUND: words that uninitialised memory may hold

ASSUME WalkAssumption ==
  Walkable \subseteq PackIds /\ Junk \subseteq SUBSET Ones(BaseBits)

VARIABLES
  data,     \* the words of the gridmap
  id,       \* the place, as a padded id
  point,    \* the place, as a point
  heading,  \* direction id
  angle,    \* heading in eighths of a full turn, clockwise from north
  from      \* the point where the walker last turned

vars == <<data, id, point, heading, angle, from>>

Open(pad) == GetLabel(data, pad) = {0}

Place(pad) == ToPaddedXY(pad)

Init ==
  \E k \in Walkable, junk \in Junk :
    /\ data = SetLabel(EmptyDb(junk), ToPaddedId(k), {0})
    /\ id = ToPaddedId(k)
    /\ point = Place(id) /\ from = Place(id)
    /\ heading = NORTH /\ angle = 0

\* A cell is opened or closed, but not under the walker.
Change(pad, label) ==
  /\ pad # id
  /\ data' = SetLabel(data, pad, label)
  /\ UNCHANGED <<id, point, heading, angle, from>>

TurnTo(d, eighths) ==
  /\ heading' = d
  /\ angle' = (angle + eighths) % 8
  /\ from' = point
  /\ UNCHANGED <<data, id, point>>

Turn ==
  \/ TurnTo(Cw45(heading), 1)
  \/ TurnTo(Cw90(heading), 2)
  \/ TurnTo(Flip180(heading), 4)
  \/ TurnTo(Ccw90(heading), 6)
  \/ TurnTo(Ccw45(heading), 7)

\* A step to the next cell, if it is open.
Step ==
  LET next == (id + DirIdAdj(heading, Width)) % Wrap
  IN  /\ Open(next)
      /\ id' = next
      /\ point' = Plus(point, UnitPoint(heading))
      /\ UNCHANGED <<data, heading, angle, from>>

Next ==
  \/ \E k \in Walkable, label \in {{}, {0}} : Change(ToPaddedId(k), label)
  \/ Turn
  \/ Step

Spec == Init /\ [][Next]_vars

-----------------------------------------------------------------------------
TypeOK ==
  /\ data \in [0 .. data_elements + 7 -> SUBSET Ones(BaseBits)]
  /\ id \in Cells
  /\ point \in (0 .. Width - 1) \X (0 .. Height - 1)
  /\ from \in (0 .. Width - 1) \X (0 .. Height - 1)
  /\ heading \in Direction /\ angle \in 0 .. 7

(* A step has a part that goes north or south and one that goes east or    *)
(* west, and the width can be had back from it.                            *)
StepHasParts ==
  /\ DirIdAdj(heading, Width)
       = (DirIdAdjVert(heading, Width) + DirIdAdjHori(heading)) % Wrap
  /\ heading >= NORTHEAST =>
       /\ DirIdAdjInv(heading, DirIdAdj(heading, Width)) = Width
       /\ DirIdAdjVert(heading, Width) = DirIdAdj(Vert(heading), Width)
       /\ DirIdAdjHori(heading) % Wrap = DirIdAdj(Hori(heading), Width)

(* Turns add up, whichever of the five are mixed, and a straight walk is   *)
(* seen in the direction in which it went.                                 *)
HeadingIsTurned ==
  /\ heading = At(<<NORTH, NORTHEAST, EAST, SOUTHEAST,
                    SOUTH, SOUTHWEST, WEST, NORTHWEST>>, angle)
  /\ point # from => PointToDirection(from, point) = heading

(* However the walker went, it is on the map, and the id, the point and    *)
(* all other coordinates of its place agree: no step crosses from one row  *)
(* to another unseen, and its heading is the sum of its turns.              *)
PlacesAgree ==
  /\ TypeOK
  /\ Place(id) = point /\ PaddedId(point[1], point[2]) = id
  /\ ToUnpaddedId(id) \in PackIds /\ ToPaddedId(ToUnpaddedId(id)) = id
  /\ PackXY(ToUnpaddedId(id)) = ToUnpaddedXY(id)
  /\ ToPaddedIdFromUnpadded(ToUnpaddedXY(id)[1], ToUnpaddedXY(id)[2]) = id
  /\ StepHasParts
  /\ HeadingIsTurned

\* The open cells among n cells of a row, from the cell first on.
Cut(first, n) == {b \in Ones(n) : Open(first + b)}

\* The offsets of the bits of pack_neighbours.
Around == << <<-1, -1>>, <<0, -1>>, <<1, -1>>, <<-1, 0>>, <<1, 0>>,
             <<-1, 1>>, <<0, 1>>, <<1, 1>> >>

(* Every way to read the surroundings of a cell at once, from whichever    *)
(* word and offset, shows the cells that are open, and so the packed       *)
(* neighbours are those from which the policies make their moves.          *)
TilesAreCells ==
  /\ \A row \in -1 .. 1 :
       LET middle == id + row * Width
       IN  /\ GetNeighbours(data, id)[row] \cap Ones(3) = Cut(middle - 1, 3)
           /\ GetNeighbours32(data, id)[row] = Cut(middle, 32)
           /\ GetNeighboursUpper32(data, id)[row] = Cut(middle - 31, 32)
           /\ GetNeighbours64(data, id)[row] = Cut(middle - (id % 64), 64)
           /\ SliderNeighbours64(data, id)[row]
                = Cut(middle - (id % BaseBits), 64)
  /\ PackNeighbours(GetNeighbours(data, id)) =
       {b \in Ones(8) :
          At(Around, b) \in Neighbours({c \in Cells : Open(c)}, id)}

\* Values of vb bits around the walker.
Near(vb) == id \div vb - 2 .. id \div vb + 2

\* A write of the value new at one index, and at no other one near.
Writes(vb, written, i, new) ==
  \A j \in Near(vb) :
    Get(vb, written, j) = IF j = i THEN new ELSE Get(vb, data, j)

(* Whatever the words hold, and for every width of the values, a write     *)
(* changes its own value and leaves those before and after it alone.       *)
WritesAreLocal ==
  \A vb \in {1, 2, 4} : \A i \in Near(vb), v \in SUBSET Ones(vb) :
    LET old == Get(vb, data, i)
    IN  /\ Writes(vb, Set(vb, data, i, v), i, v)
        /\ Writes(vb, BitAnd(vb, data, i, v), i, old \cap v)
        /\ Writes(vb, BitOr(vb, data, i, v), i, old \cup v)
        /\ Writes(vb, BitXor(vb, data, i, v), i, Xor(old, v))
        /\ Writes(vb, BitNeg(vb, data, i), i, Ones(vb) \ old)
        /\ Get(vb, Fill(vb, data, v), i) = v
        /\ Get(vb, Flip(data), i) = Ones(vb) \ old

\* BOUND: lengths of spans in bits, on both sides of the limits of SpanType.
SpanBits == {1, 2, 4, 8, 9, 10, 12, 24, 25, 26, 28, 56, 57}

(* A span is the values from an index on, whichever offset the first one   *)
(* has in its word and however many bits are read.                         *)
SpansAreRead ==
  \A vb \in {1, 2, 4}, bit \in {id - 7, id - 4, id} :
    \A count \in {n \in 1 .. 57 \div vb : n * vb \in SpanBits} :
      GetSpan(vb, data, bit \div vb, count) =
        UNION {Shl(Get(vb, data, bit \div vb + k), k * vb, 64) :
                 k \in 0 .. count - 1}
=============================================================================
