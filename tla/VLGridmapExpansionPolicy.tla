----------------------- MODULE VLGridmapExpansionPolicy -----------------------
(***************************************************************************)
(* vl_gridmap_expansion_policy over a labelled_gridmap and a cost_table: a *)
(* grid whose cells have terrain costs.  A map gives the cost of every     *)
(* cell of the file; 0 is an obstacle, and so is the padding, whose label  *)
(* 0 costs 0.  Half of a cost is Half units, a quarter of DBL_ROOT_TWO     *)
(* times a cost is Quarter units.                                          *)
(***************************************************************************)
EXTENDS Integers, Sequences, FiniteSetsExt

CONSTANTS HeaderWidth, HeaderHeight, Half, Quarter

PADDED_ROWS == 3
PADDING_PER_ROW == 1

\* labelled_gridmap::init_db
Width == HeaderWidth + PADDING_PER_ROW
Height == HeaderHeight + 2 * PADDED_ROWS

ToPaddedId(pack) ==
  pack + PADDED_ROWS * Width + (pack \div HeaderWidth) * PADDING_PER_ROW

Cells == {ToPaddedId(k) : k \in 0 .. HeaderWidth * HeaderHeight - 1}

\* costs_[map_->get_label(id)]
Cost(db, id) == IF id \in DOMAIN db THEN db[id] ELSE 0

\* The cells whose costs a move d from id averages.
Square(id, d) ==
  {id, id + d[1], id + d[2] * Width, id + d[2] * Width + d[1]}

\* add_neighbour for a move d, if every cell it touches is traversable but
\* the one it leaves.
Move(db, id, d) ==
  IF \E x \in Square(id, d) \ {id} : Cost(db, x) = 0 THEN <<>>
  ELSE LET to == id + d[2] * Width + d[1]
           straight == Cost(db, id) + Cost(db, to)
           beside == Cost(db, id + d[1]) + Cost(db, id + d[2] * Width)
       IN  << [node |-> to,
               cost |-> IF 0 \in {d[1], d[2]} THEN Half * straight
                        ELSE Quarter * (straight + beside)] >>

\* vl_gridmap_expansion_policy::expand
Expansion(db, id) ==
  Move(db, id, <<0, -1>>) \o Move(db, id, <<1, -1>>) \o Move(db, id, <<-1, -1>>) \o
  Move(db, id, <<0, 1>>) \o Move(db, id, <<1, 1>>) \o Move(db, id, <<-1, 1>>) \o
  Move(db, id, <<1, 0>>) \o Move(db, id, <<-1, 0>>)

\* The start and target of get_problem_instance for two points of the file.
GetPack(p) == p[2] * HeaderWidth + p[1]
ProblemInstance(s, t) == <<ToPaddedId(GetPack(s)), ToPaddedId(GetPack(t))>>

\* generate_start_node checks the id only.
StartNodes(db) == {id \in Cells : id < Width * Height}

\* Mutant: the scale is the highest cost.
HighestCost(db) == Max({db[id] : id \in DOMAIN db} \ {0})

\* cost_table::lowest_cost, on a map that is not all obstacles
LowestCost(db) == Min({db[id] : id \in DOMAIN db} \ {0})

Abs(x) == IF x < 0 THEN -x ELSE x

(* octile_heuristic::h with hscale_ set to the lowest cost: a cardinal     *)
(* step over the cheapest terrain costs twice Half, a diagonal one four    *)
(* times Quarter.                                                          *)
Octile(db, id, id2) ==
  LET dx == Abs((id % Width) - (id2 % Width))
      dy == Abs((id \div Width) - (id2 \div Width))
  IN  LowestCost(db) *
        (IF dx < dy THEN dx * 4 * Quarter + (dy - dx) * 2 * Half
                    ELSE dy * 4 * Quarter + (dx - dy) * 2 * Half)
=============================================================================
