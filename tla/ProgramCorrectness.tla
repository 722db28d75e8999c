-------------------------- MODULE ProgramCorrectness --------------------------
(***************************************************************************)
(* What the program prints and returns, compared with the drawing in the   *)
(* map file: paths over points <<x, y>> of the drawing, without tables,    *)
(* padding, ids, heuristics or queues.                                     *)
(***************************************************************************)
EXTENDS Program, SearchCorrectness

WidthOf(f)  == Atoi(GmField(f.head, "width"))
HeightOf(f) == Atoi(GmField(f.head, "height"))

\* A drawing that is complete: all of its points have a tile.
IsDrawing(f) == GmAccepts(f.head) /\ Len(Tiles(f)) >= WidthOf(f) * HeightOf(f)

PlacesOf(f) == (0 .. WidthOf(f) - 1) \X (0 .. HeightOf(f) - 1)
TileAt(f, p) == Tiles(f)[p[2] * WidthOf(f) + p[1] + 1]

Beside(p, d) == <<p[1] + d[1], p[2] + d[2]>>
IsDiagonal(d) == 0 \notin {d[1], d[2]}

\* The points that a move touches besides the one it leaves.
Touched(p, d) == {Beside(p, <<d[1], 0>>), Beside(p, <<0, d[2]>>), Beside(p, d)} \ {p}

(* A point of the drawing may be entered if its tile is traversable or has *)
(* a cost; a gridmap may not be left from an obstacle either.              *)
IsOpenAt(a, f, p) ==
  /\ p \in PlacesOf(f)
  /\ IF a.alg = "astar_wgm" THEN CostOf(a.costs, TileAt(f, p)) # 0
                            ELSE TileAt(f, p) \in Traversable

MovesFrom(a, f, p) ==
  {d \in ((-1 .. 1) \X (-1 .. 1)) \ {<<0, 0>>} :
     /\ \A q \in Touched(p, d) : IsOpenAt(a, f, q)
     /\ a.alg # "astar_wgm" => IsOpenAt(a, f, p)
     /\ a.alg = "astar4c" => ~IsDiagonal(d)}

\* The length of the move, times the mean cost of what it touches.
MoveCost(a, f, p, d) ==
  LET At(x, y) == CostOf(a.costs, TileAt(f, Beside(p, <<x, y>>)))
      ends == At(0, 0) + At(d[1], d[2])
  IN  IF a.alg # "astar_wgm" THEN IF IsDiagonal(d) THEN Diagonal ELSE Cardinal
      ELSE IF IsDiagonal(d) THEN Quarter * (ends + At(d[1], 0) + At(0, d[2]))
      ELSE Half * ends

\* The maps that scenarios may lead to.
NamedMaps ==
  {FindMapFilename(scen, NameOf[w]) : scen \in DOMAIN ScenarioAt, w \in DOMAIN NameOf} \ {Null}

Paths(a) == IF a.map = Null THEN NamedMaps ELSE {a.map}

\* A drawing and how it is to be searched.
Drawing(path, a) == <<path, a.alg, a.costs>>

\* Can the moves of the algorithm be read off the drawing?
IsSearchable(a, f) ==
  /\ IsDrawing(f)
  /\ \/ a.alg \in GridAlgs
     \/ /\ a.alg = "astar_wgm" /\ a.costs # Null
        /\ \A c \in Range(Tiles(f)) : CostOf(a.costs, c) # NaN

Drawings ==
  UNION {{Drawing(path, a) : path \in {q \in Paths(a) : IsSearchable(a, FileAt(q))}} :
          a \in Arguments}

DrawnMoves ==
  [x \in Drawings |->
     LET a == [alg |-> x[2], costs |-> x[3]]
         f == FileAt(x[1])
     IN  [p \in PlacesOf(f) |->
            [d \in MovesFrom(a, f, p) |->
               [node |-> Beside(p, d), cost |-> MoveCost(a, f, p, d)]]]]

Places == UNION {DOMAIN DrawnMoves[x] : x \in Drawings}

Drawn ==
  INSTANCE ShortestPaths WITH
    Node <- Places, Maps <- Drawings, Successors <- DrawnMoves

-----------------------------------------------------------------------------
\* The map that is being searched.
Here == Drawing(mapfile, args)
IsDrawn == Here \in Drawings

\* The point that an experiment means: what is beyond a row is in the next.
Point(x, y) ==
  LET w == map.width IN <<x % w, y + x \div w>>

\* The row printed last, and the experiment it is for.
JustPrinted == mapfile # Null /\ pc = "idle" /\ rows # <<>> /\ calls = Len(rows)
LastRow == rows[Len(rows)]
LastExperiment == experiments[Len(rows)]

\* The cost of a shortest path of the drawing, none if there is no path.
DrawnCosts(e) ==
  LET s == Point(e.sx, e.sy)
      t == Point(e.gx, e.gy)
  IN  IF args.alg # "astar_wgm" /\ ~IsOpenAt(args, FileAt(mapfile), s) THEN {}
      ELSE {x[2] : x \in {y \in Drawn!ShortestFrom(Here, s) : y[1] = t}}

(* A row has a cost exactly if the drawing has a path, the cost of a       *)
(* shortest one for A* on a gridmap, less than a diagonal move more than a *)
(* straight one for dijkstra, and no less for astar_wgm.  Its length is in *)
(* keeping with its cost, and is 2^64 - 1 when there is no path.           *)
RowsAreTrue ==
  JustPrinted /\ IsDrawn =>
    LET c == DrawnCosts(LastExperiment)
        r == LastRow
    IN  /\ (r.pcost = CostMax) <=> (c = {})
        /\ r.pcost = CostMax => r.plen = SizeWrap - 1
        /\ r.pcost # CostMax =>
             \A best \in c :
               /\ best <= r.pcost
               /\ args.alg \in {"astar", "astar4c"} => r.pcost = best
               /\ args.alg = "dijkstra" => r.pcost <= best + Diagonal - Cardinal
               /\ args.alg \in GridAlgs =>
                    r.pcost \in r.plen * Cardinal .. r.plen * Diagonal
               /\ (r.plen = 0) <=> (Point(LastExperiment.sx, LastExperiment.sy)
                                      = Point(LastExperiment.gx, LastExperiment.gy))

\* A file as it is meant to be: the rows of the drawing, one to a line.
IsInOrder(f) ==
  LET w == WidthOf(f) IN
  /\ Len(f.head) = 7
  /\ f.head[1] = "type" /\ f.head[2] = "octile"
  /\ f.head[3] = "height" /\ f.head[5] = "width"
  /\ IsDrawing(f)
  /\ Len(f.body) = (w + 1) * HeightOf(f)
  /\ \A k \in DOMAIN f.body : f.body[k] = Newline <=> k % (w + 1) = 0
  /\ Range(f.body) \subseteq Blocker \cup Traversable \cup {Newline}

\* A drawing in order that can be searched as args ask for, and is not too
\* wide for gridmap's reader.
IsUsable ==
  /\ IsInOrder(FileAt(mapfile))
  /\ IsSearchable(args, FileAt(mapfile))
  /\ args.alg \in GridAlgs => WidthOf(FileAt(mapfile)) <= GridDimensionMax
  /\ args.alg = "astar_wgm" => CostsAccepted(args.costs)

(* The exit status tells what happened.  A drawing in order is searched:   *)
(* all rows are printed and the status is 0, or 4 at the first row whose   *)
(* length with --checkopt is off by more than 0.01 from what the scenario  *)
(* expects, which for A* on a gridmap is the fault of the scenario.        *)
(* Without a row there is an error, nothing to do or no map to be found.   *)
StatusIsHonest ==
  stage = "exit" =>
    /\ rows = <<>> => status \in {0, 1, Aborted}
    /\ rows = <<>> /\ status = 0 => args.alg = "" \/ args.scen = Null \/ mapfile = Null
    /\ rows = <<>> /\ mapfile # Null => ~IsUsable
    /\ rows # <<>> => status \in {0, 4}
    /\ status = 0 /\ rows # <<>> => Len(rows) = Len(experiments)
    /\ status = 4 =>
         /\ args.checkopt /\ rows # <<>>
         /\ IsDrawn /\ args.alg \in {"astar", "astar4c"} =>
              \A best \in DrawnCosts(LastExperiment) :
                best - LastRow.scost \notin -1 .. 1
    /\ status = 0 /\ args.checkopt /\ rows # <<>> /\ IsDrawn
         /\ args.alg \in {"astar", "astar4c"} =>
         \A best \in DrawnCosts(LastExperiment) : best - LastRow.scost \in -1 .. 1

(* The cells of the map are the tiles of the file, whatever the number of  *)
(* characters in its lines.  Where gridmap runs out of tiles, which        *)
(* labelled_gridmap refuses, a cell below the first row is what the one    *)
(* above it is.                                                            *)
CellsAreDrawn ==
  stage = "run" /\ calls = 0 =>
    LET f == FileAt(mapfile)
        Cell(x, y) ==
          map.cells[IF args.alg = "astar_wgm"
                    THEN Terrain(map.width, map.height)!ProblemInstance(<<x, y>>, <<x, y>>)[1]
                    ELSE Grid(map.width, map.height)!ProblemInstance(<<x, y>>, <<x, y>>)[1]]
        tiles == Tiles(f)
    IN  /\ map.width = WidthOf(f) /\ map.height = HeightOf(f)
        /\ \A x \in 0 .. map.width - 1, y \in 0 .. map.height - 1 :
             LET k == y * map.width + x + 1 IN
             IF k <= Len(tiles)
             THEN Cell(x, y) = IF args.alg = "astar_wgm" THEN CostOf(args.costs, tiles[k])
                               ELSE IF tiles[k] \in Traversable THEN 1 ELSE 0
             ELSE /\ args.alg # "astar_wgm"
                  /\ y > 0 => Cell(x, y) = Cell(x, y - 1)
=============================================================================
