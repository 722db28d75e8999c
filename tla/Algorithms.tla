------------------------------ MODULE Algorithms ------------------------------
(***************************************************************************)
(* The objects that run_astar, run_astar4c, run_dijkstra and run_wgm_astar *)
(* of apps/warthog.cpp build: a cost_table, a map from what a reader has   *)
(* read, and for this map the policy and the heuristic of the algorithm.   *)
(***************************************************************************)
EXTENDS MapReaders

CONSTANTS
  NaN,    \* the cost of a terrain that the file of costs does not name
  WordBits, Cardinal, Diagonal, Half, Quarter    \* of the policies

ASSUME WordAssumption == WordBits \in Nat \ {0}

\* Half and Quarter are for sums of the costs of two and of four cells.
ASSUME CostAssumption ==
  /\ {Cardinal, Diagonal, Half, Quarter} \subseteq Nat
  /\ Cardinal <= Diagonal /\ Diagonal <= 2 * Cardinal
  /\ 2 * Half = Cardinal /\ 4 * Quarter = Diagonal

-----------------------------------------------------------------------------
(* cost_table: a file says for each entry whether it can be parsed, and    *)
(* whether its last line ends in a newline.                                *)
CostFile ==
  [entries : Seq([terrain : STRING, cost : Int, parsed : BOOLEAN]),
   newline : BOOLEAN]

(* The constructor returns: it wants at least one entry, looks at the      *)
(* stream after each cost, where a missing newline has set eof already,    *)
(* and refuses doubles and negative costs.                                 *)
CostsAccepted(f) ==
  /\ f.entries # <<>> /\ f.newline
  /\ \A k \in DOMAIN f.entries :
       /\ f.entries[k].parsed /\ f.entries[k].cost >= 0
       /\ \A l \in 1 .. k - 1 : f.entries[l].terrain # f.entries[k].terrain

\* costs_[terrain]
CostOf(f, terrain) ==
  IF \E k \in DOMAIN f.entries : f.entries[k].terrain = terrain
  THEN LET k == CHOOSE l \in DOMAIN f.entries : f.entries[l].terrain = terrain
       IN  f.entries[k].cost
  ELSE NaN

-----------------------------------------------------------------------------
(* Maps, policies and heuristics                                           *)

Grid(w, h) ==
  INSTANCE GridmapExpansionPolicy WITH HeaderWidth <- w, HeaderHeight <- h
Terrain(w, h) ==
  INSTANCE VLGridmapExpansionPolicy WITH HeaderWidth <- w, HeaderHeight <- h

GridAlgs == {"astar", "astar4c", "dijkstra"}

(* A map is the algorithm it is for, its size, and the costs of its cells, *)
(* 0 for a blocked one and, in a gridmap, 1 for any other one.             *)
MapOf(alg, r, cells) ==
  [alg |-> alg, width |-> r.width, height |-> r.height, cells |-> cells]

\* Mutant: the rows are stored upside down.
BitIdUpsideDown(w, h, k) ==
  (Grid(w, h)!PADDED_ROWS + h - 1 - k \div w) * Grid(w, h)!Width + (k % w)

\* bit_id of the k-th character that read_map looks at
BitId(w, h, k) ==
  (Grid(w, h)!PADDED_ROWS + k \div w) * Grid(w, h)!Width + (k % w)

GridCells(r) ==
  [id \in Grid(r.width, r.height)!Cells |->
     IF \E k \in DOMAIN r.cells : /\ BitId(r.width, r.height, k - 1) = id
                                  /\ r.cells[k] \in Traversable
     THEN 1 ELSE 0]

\* set_label(to_padded_id(i), tile), and the cost of the label
TerrainCells(r, costs) ==
  [id \in Terrain(r.width, r.height)!Cells |->
     LET k == CHOOSE k \in DOMAIN r.cells :
                Terrain(r.width, r.height)!ToPaddedId(k - 1) = id
     IN  CostOf(costs, r.cells[k])]

\* lowest_cost is not NaN
Priced(m) == \A id \in DOMAIN m.cells : m.cells[id] # NaN

Free(m) == {id \in DOMAIN m.cells : m.cells[id] # 0}

\* expand; an id that is no cell of the map is never expanded.
SuccessorsOf(m, n) ==
  IF n \notin DOMAIN m.cells THEN <<>>
  ELSE IF m.alg = "astar_wgm" THEN Terrain(m.width, m.height)!Expansion(m.cells, n)
  ELSE Grid(m.width, m.height)!Expansion(Free(m), n, m.alg = "astar4c")

\* The heuristic of the algorithm, with set_hscale(lowest_cost).
Estimate(m, n, t) ==
  CASE m.alg = "dijkstra"  -> 0
    [] m.alg = "astar"     -> Grid(m.width, m.height)!Octile(n, t)
    [] m.alg = "astar4c"   -> Grid(m.width, m.height)!ManhattanDistance(n, t)
    [] m.alg = "astar_wgm" -> Terrain(m.width, m.height)!Octile(m.cells, n, t)

StartableOf(m) ==
  IF m.alg = "astar_wgm" THEN Terrain(m.width, m.height)!StartNodes(m.cells)
  ELSE Grid(m.width, m.height)!StartNodes(Free(m))

\* get_problem_instance of an experiment; nobody compares it with the map
Ids(m, e) ==
  IF m.alg = "astar_wgm"
  THEN Terrain(m.width, m.height)!ProblemInstance(<<e.sx, e.sy>>, <<e.gx, e.gy>>)
  ELSE Grid(m.width, m.height)!ProblemInstance(<<e.sx, e.sy>>, <<e.gx, e.gy>>)
=============================================================================
