# warthog-core in TLA+

This directory holds TLA+ models of warthog-core, a C++ library for
pathfinding: what its searches keep in memory, what they promise, what they
return, checked with TLC on small maps and proved with TLAPS for all of them.
File and line references are to the repository (`src/` below is its root).

## The system

`apps/warthog.cpp` loads a scenario, finds the map it is for, builds the map, an
expansion policy, a heuristic, a priority queue and a search engine over them,
calls `get_path()` once per experiment and prints a row for each. Everything is
called synchronously; the only threads of the library are those of
`parallel_compute`.

| component | state it keeps | operations | how it interacts |
|---|---|---|---|
| `unidirectional_search` | none of its own between calls; in a call the OPEN list, the incumbent in `solution`, the metrics | `get_path`, `get_pathcost` | calls the policy to generate and expand nodes, the heuristic for estimates, the queue for the next node |
| `search_node` | id, parent, g, f, ub, expanded flag, queue position, search number; lives as long as the pool | `init`, `relax`, setters, order | written by the engine and by the queue |
| `problem_instance` | a counter per translation unit, an id per instance | construction, copy, assignment, `reset`, conversion | the id separates the records of one search from those of all earlier ones |
| expansion policies | list of successors of the node being expanded | `expand`, `get_successor`, `generate`, `generate_start_node` | read the map, take nodes from the pool |
| `gridmap`, `labelled_gridmap`, `cost_table` | the cells of the map, costs of terrains | conversion of ids, neighbourhoods, labels | read by policies and heuristics |
| heuristics | map width, scale | `h` | fill a `heuristic_value`; the ones here set only `lb_` |
| `pqueue` | array of node pointers, size | `push`, `pop`, `peek`, `decrease_key`, `contains`, `clear` | stores its index in the node (`priority_`) |
| `node_pool`, `cpool`, `arraylist` | blocks of nodes, chunks of memory, free lists; the array of successors | `generate`, `get_ptr`, `allocate`, `deallocate`, `reclaim`, `push_back`, `clear` | below the policies |
| `bittable`, `domain::grid` | words of bits | get, set, neighbourhoods | storage of `gridmap`; `domain::grid` is used by no search |
| `parallel_compute` | one `thread_params` per thread | fork, watch, end | main thread and workers share it without synchronisation |
| `dimacs_parser` | nodes, edges, queries read | `load_graph`, `load_instance`, `print`, metis | text files; used by no search |
| `scenario_manager`, `experiment` | the experiments of all files loaded | load, add, sort, write, clear; finding the map of a scenario | read by the program |
| `gm_parser`, `io::grid` | one map file | the constructor; `read_header`, `read_map` | two readers of one format: `labelled_gridmap` uses the first, `gridmap` the second |
| `apps/warthog.cpp` | the arguments | `main`, `run_*`, `run_experiments`, `check_optimality` | puts all of the above together |
| `geometry`, `log`, `timer`, `cfg`, ... | - | formulas, output, clocks | - |

What is hard here: records that outlive a search and are told apart by one
number; the order in which relaxation, incumbents, pruning and reopening
happen; traits whose combinations decide what the answer is worth; limits that
stop a search between two expansions; sums that are stored once and change
later; a heap and a memory pool that decide membership from what earlier
operations left behind; workers watched without synchronisation; reads of many
cells at once around the ends of rows and words; text files whose loading stops
in the middle, goes on with what was read before, or shifts a field; a program
that compares the coordinates it is given with nothing. `PROJECT.json` lists
each of these hazards at its line.

## The modules

| module | models |
|---|---|
| `UnidirectionalSearch` | `unidirectional_search`, `search_node`, `problem_instance`, `uds_traits.h`, `solution`, `search_parameters`, and `pqueue` by its promise |
| `SearchInvariants` | what holds of every search whose id is its own, the inductive invariant, and the refinement mapping to `PathFinder` |
| `PathFinder` | abstract: one query, one answer, which is a supported path or a cut between start and target |
| `ShortestPaths` | reference: distances by rounds of relaxation over all edges |
| `SearchCorrectness` | answers compared with the reference; what a consistent heuristic adds |
| `SearchOverHeap` | the engine composed with the binary heap of `PQueue` |
| `Gridmap`, `GridmapExpansionPolicy` | padded grids, their moves, the octile and Manhattan heuristics |
| `VLGridmapExpansionPolicy` | maps with terrain costs and the scaled octile heuristic |
| `MCGraphs`, `MCGraphsOverHeap`, `MCGrids` | families of maps for TLC |
| `SearchSafety`, `SearchOverHeapSafety` | proofs about the search: its states and answers, its costs and its order; the same over the heap |
| `NodeOrder`, `PriorityQueue`, `PQueue`, `MCPQueue`, `PQueueSafety` | the order of nodes; abstract queue; the binary heap that implements it; instance for TLC; proofs |
| `Allocator`, `CPool` | abstract allocator; `cpool` and its chunks |
| `NodeStore`, `NodePool`, `ExpansionPolicy`, `NodePoolSafety` | abstract store of records; `node_pool` over `CPool`; the list of successors, in its `arraylist`, over both; proofs about all of these and `CPool` |
| `ParallelCompute`, `ParallelSafety` | `parallel_compute`; proofs |
| `Bitarray`, `GridDirections`, `GridTiles`, `GridWalk`, `GridSafety` | packed words; `domain::grid`; storage and reads of `gridmap`; a walk that uses them all; proofs |
| `DimacsParser`, `DimacsCorrectness`, `MCDimacs` | `dimacs_parser`; what it holds after any loads; files for TLC |
| `ScenarioFile`, `ScenarioManager`, `ScenarioCorrectness`, `MCScenario` | scenarios as `operator>>` sees them; `scenario_manager`; a user of it and what there is to expect; files for TLC |
| `LoadersSafety` | proofs about `DimacsCorrectness` and `ScenarioCorrectness` |
| `MapReaders`, `Algorithms` | `gm_parser` and `io::grid`; `cost_table`, and the map, policy and heuristic that each `run_*` builds from what was read |
| `Program`, `ProgramCorrectness`, `MCProgram` | `apps/warthog.cpp` over all of these and the engine; its rows and status compared with the drawing in the file; files for TLC |
| `ProgramSafety` | proofs about heuristics, readers of maps, and the program |

### UnidirectionalSearch

The variables are `node` (the pool of `search_node` objects; it survives a
call), `open` (contents of the queue), `pi`, `par` and `sol` (the arguments of
the call), `counter` (`instance_counter_`, one for each translation unit) and `map`. `pc`, `current` and `i`
are the place in the code: `idle` between calls, `loop` at the test of the
`while` at line 234, `succ` in the `for` at line 256, `extract` in the `while`
at line 83. One action is one branch of the code:

| action | code (`unidirectional_search.h`) |
|---|---|
| `GetPath` | 65-70, 213-230: convert the instance, clear OPEN, initialise and push the start; give up without one |
| `Expand` | 234-251: the loop goes on, pop the top, mark it expanded |
| `Generate`, `Prune` | 263-275: first reached in this search; pushed, or not below the incumbent |
| `Decrease`, `Reopen`, `Dominated` | 277-305: reached again; cheaper and in OPEN, cheaper and not in OPEN, or neither |
| `EndExpansion` | 307-312 |
| `Stop` | 234-241, 79, 82: one of the tests ends the loop |
| `Extract` | 83-90: one step along the backpointers |

`initialise_node_` is the operator `Initialised` and updates the incumbent
(`Incumbent`) before the comparison in line 268, as the code does: a target is
therefore never below its own cost and is not pushed unless the search has a
cheaper estimate for it than its g-value. `relax` happens before the test for
reopening, so under `reopen_policy::no` a closed node gets a new cost and
parent and its successors keep the old ones: that step is `Reopen` with `open`
unchanged.

The maps are constants. `Successors` is what `expand` adds, in its order;
`LowerBound` is what the heuristic returns. So the engine is checked over all
small graphs and estimates (`MCGraphs`), as well as over the moves of the
library's policies: `Algorithms` builds what the four `run_*` of the program
build, for any map. Queries go from points through `get_pack` and the conversion
of `problem_instance` to padded ids.

Data that is abstracted: costs are integers in a fixed unit, with `CostMax`
above every sum (the assertions of lines 177-180 exclude overflow); `pack_id`
and `pad_id` of one cell are one node; metrics are left out, except those the
search reads back; elapsed time is one bit, set at the end of an expansion or
not, as long as `timed` says that there is a limit. The instance counter wraps
at `IdMod` instead of 2^32. A call passes a solution that has been reset, as
`run_experiments` does.

Two of the constants stand for things a caller does: `IdOps` is the set of ways
to get an instance for the next call (`convert` a new `problem_instance`,
`construct` a `search_problem_instance`, `reset` or copy the last one, or
`reuse` it), `MaxCalls` bounds their number.

`instance_counter_` is static in a header (`problem_instance.h:9`), so each
translation unit that includes it counts for itself. `UnitOf` says in which unit
each of the functions that count does so; `SourceUnits`, which the runs use, is
what the sources say: conversions happen in the unit of the policy, everything
else in that of its caller. A linker that keeps one copy of an inline function
may decide otherwise. Ids of one unit differ until the counter goes around;
those of two units meet.

### PQueue

One operation of the queue is one action up to the loop of `heapify_up` or
`heapify_down`, and then one action (`Up`, `Down`) per iteration; a swap, which
nothing interrupts, is one step. `DecreaseKey` includes the change of the key
that the caller makes before it calls: between the two the heap is out of
order. `priority` and `elts` keep what `pop`, `clear` and earlier queues leave
in them, since `contains()` reads both. `PriorityQueue!Firsts` is what `Best` of
`UnidirectionalSearch` allows the engine to pop: the search uses the promise
that the heap is shown to keep.

`SearchOverHeap` puts the two together without that promise. The fields of
`search_node` are divided: g, f and the rest stay in `node`, the index stays in
`priority`, and both outlive a call as they do in the code. The engine decides
by `elts[0]` and by `contains()`; each of its steps starts an operation of the
heap and the next one waits until heapify is done. `open` remains as the set
that `HeapIsOpen` compares with the array.

### CPool and NodePool

Addresses are numbers and count objects; a chunk is the interval from `mem`,
and `Bases` is where `operator new` may put one. `Deallocate` looks for the
chunk with the code's difference modulo `Width` (2^32): `WidthAssumption` says
that the chunks of a pool lie within 4 GB. The build is one with `NDEBUG`,
since the assertions of `cpool.h:85,102` are the wrong way round.

`NodePool` extends `CPool`: an object is a block of `NBS` records, `generate`
allocates one when the first of its ids is asked for. `ptrs` holds every pointer
that was ever returned, and a search may write through any of them at any time.
`NodeStore` says what searches expect: one record per id.

`ExpansionPolicy` extends `NodePool`: `AddNeighbour` is `generate` followed by
`add_neighbour`, which pushes the pointer on an array that doubles when it is
full; the cursor moves as `first`, `next` and `get_successor` move it. Between
these steps searches generate, find and write records of the same pool. The
first capacity is 32 in the code and `ListSize` in the model.

### ParallelCompute

The main thread reads `nprocessed_` and `thread_finished_` one field at a time,
each read an action of its own between any steps of the workers, so that what
it adds up is of different times. A read that races with a write returns the old
or the new value, and the stores of a thread become visible in program order, as
on x86-64. `fn_worker` is the caller's: it takes every n-th task and counts what
it has done. `pthread_create` may fail, which the code ignores (`Refused`).

### Grids: Bitarray, GridDirections, GridTiles, GridWalk

Words are sets of bits; `Get`, `Set` and `GetSpan` split an id into a word and
an offset as the code does. `GridTiles` holds the reads of several cells: three
rows around a cell, 32 and 64 bits at a time. `GridWalk` composes them: somebody
opens and closes cells, turns, and steps to the next cell; the variable `data`
is the table of words, with any content (`Junk`) in the eight words behind the
last row, which `fill(0)` does not reach. Directions are the build without BMI2.

### DimacsParser

One line of a file is one step of the loop that reads it: `FindProblem` is the
loop of `load_graph`, `ReadNode` and `ReadArc` are `load_co_file` and
`load_gr_file`, `FindFormat` and `ReadQuery` the loops of `load_instance`. Lines
are records of a kind and two numbers, damaged ones included. A line that is not
`ended` is longer than the 1023 characters that `getline` takes, or the last one
without a newline: `good()` fails after it, so the loops of `load_graph` use what
was taken and then stop (`Readable`), and that of `load_instance` stops before
(`Whole`). `Reload` loads
what `print` has written. `Metis` is the converter, as a fold over the arcs.
`DimacsCorrectness` says of whole files what the loops compute line by line.
The variable `loads`, the files so far, exists for the properties only. Queries
that make the code read through a null pointer (an empty line, a query without
the target it needs) are not among the files.

### ScenarioFile and ScenarioManager

A field of a line is digits, a fraction and a word, each of which may be
missing; `Extraction` is one `>>` on a field, which takes what it can and leaves
the rest to the next. Newlines are spaces, so a line that is too short borrows
from the next one. `ReadExperiment` is one turn of the loop of
`load_gppc_scenario`, `Compare` one comparison of `sort`. `Written` is
`write_scenario`, and `UserReloads` loads what it wrote. `exit(1)` is a state of
its own, in which nothing more can be done. The variables `ops`, `given` and
`written` belong to the user.

### MapReaders, Algorithms and Program

A map file is the tokens of its header and the characters behind the word
`map`, newlines included. `GmParser` takes the three fields in any order and
then every character that is not a space; `ReadGrid` takes the fields in a fixed
order and row after row without a look at the stream, so its buffers (`Buffers`)
carry a row that could not be read over to the next. The first one is what
`GarbageCells` says unwritten memory may hold. A map wider than
`GRID_DIMENSION_MAX` (`GridDimensionMax`), for which there is no buffer, is
refused, and the exception ends the program; the height has no limit.

`Algorithms` is parameterised by the size of the map, which the file decides:
`Grid(w, h)` and `Terrain(w, h)` are instances of the policies. `Program` has one
action per stage: `ParseArguments`, `ReadExperiment`, `LocateMap` with the
candidates of `find_map_filename` in their order, `BuildGrid` or `BuildTerrain`
with all the ways in which readers and costs end the program, then for each
experiment `BeginExperiment`, the steps of the engine (`Search`) and `PrintRow`,
which checks optimality. `Scenario` is an instance of `ScenarioManager` on the
same variables. The only object left out is the `cfg` that turns `argv` into
parameters; of a row its length, cost and expected cost are kept.

## What TLC checks

Fairness: `Terminates` assumes weak fairness of `Running` in `SearchOverHeap`,
the engine and its heap (`WF_vars(Step)` in `UnidirectionalSearch`), and
`LoadReturns` assumes `WF_vars(Read)`: a call is a sequential computation that
nothing blocks, so it goes on as long as it has a step to take. `Returns`
assumes `WF_vars(Main)` and `WF_vars(Worker(t))` for each worker: the operating
system runs every thread that can run. No fairness is assumed of calls, of
failures, or of users of the pools. Deadlock is not checked where a run ends by
itself: after `MaxCalls` calls, `MaxLoads` loads, `MaxOps` operations, the exit
of the program, the return of `parallel_compute`, or when a pool at `ChunkLimit`
has no object left to hand out.

| run | what it shows | bounds |
|---|---|---|
| `GraphsManyCalls` | default traits, two calls with ids from the constructor: the inductive invariant `SearchInv`, paths of the map without circles, failures with a cut, no node expanded twice, and `KeepsPromise`, the refinement of `PathFinder` | 6 edges between 4 nodes, each absent or of cost 1 or 3, with a circle; estimates 0 or 3, also too high ones; 3 queries, one without a path from most graphs |
| `GraphsOverHeap` | the engine over its heap, `eps_admissible`, `until_cutoff`, reopening, two calls: the array is OPEN, in order and with one of the first nodes on top, whatever the call before left in it; paths within eps when nothing limits the search; a search that its cost cutoff has stopped had nothing to find up to the cutoff; every call returns (`Terminates`), although the map has a circle and nodes are reopened | 7 edges, estimates 0 and 3 that are not too high, a start with two successors or more; cutoffs 4 and none; eps 0 and 2; stopped after one expansion, after any, or not at all; a first array of 2 that is enlarged |
| `ProgramRuns` | the program: rows are those of the drawing, exactly (astar, astar4c), within a diagonal step (dijkstra), or not below (astar_wgm); the exit status tells what happened; cells are the tiles of the file, also of a damaged one; and of the engine in it that the heuristics are consistent with the moves they are used with, that closed nodes are final and the lower bound grows, and that an answer is as good as the estimates at the target | every 3x3 drawing with at most 2 blocked cells for each of the three grid algorithms, with and without `--checkopt`; every 3x2 drawing of costs 1, 4 and at most one 0 for astar_wgm; 14 damaged or unusual maps for all four, and one that is in order but wider than gridmap's limit (3 here); 6 refused files of costs; 11 scenarios, with every candidate of the map's name; up to 3 experiments, one beyond the end of a row; 100 and 140 for 1 and the root of 2 |
| `PQueueMin` | the heap: `contains()` is membership also in the middle of a heapify, elements know their places, only the element heapify works on is out of order; it implements `PriorityQueue` | 4 nodes, 3 keys two of which tie in f, a first array of 2 that is enlarged once; no bound on operations |
| `PoolReuse` | the pool: no object handed out twice or lost, the fixed stacks suffice, chunks are only added when all is in use; it implements `Allocator` | 3 chunks of 3 objects, 4 places for chunks that may overlap or touch; no bound on operations |
| `NodeBlocks` | records bear the ids of their places, blocks never move, the list of successors shows what was added while it grows; `NodePool` implements `NodeStore` under such a policy | 3 blocks of 8, ids at both ends of blocks, the last one below `num_nodes`, and one out of range; chunks of 2 blocks; up to 3 successors in an array that starts with 1 and grows twice |
| `ThreadsRace` | `parallel_compute` returns only after all work and the last write to `task_data`, the bar never claims too much, and the call returns if all threads could be started | 3 workers, up to 5 tasks: workers with no task, one and two; 2^32 is 256, so that the product with 100 wraps from 3 on |
| `GridWalks` | ids, points, directions and turns agree on every step; every read of several cells shows the cells; a write changes one value; spans | rows of 63 cells and one of padding, 64 in all, which is the smallest row of the code; cells around the ends of rows and words open and close |
| `DimacsFiles` | the arcs of a gr file and the nodes of the last co file, the meaning of the return value, what a printed graph gives back, queries counted from zero, the metis file is the graph, loads return | 3 loads out of 42 graph files and 13 query files of up to 4 lines, of what was printed, and of a file that is not there; arcs both ways, doubled and looped, damaged and overlong lines and second problem lines; 2^32 is 8, so id 0 of a file that counts from one wraps |
| `ScenarioFiles` | experiments of all loads add up and none is lost, made up, or lost by sorting, but for damaged lines and written files; a sort ends in the order of distances (`SortOrders`) | 4 operations over 12 files of up to 3 lines, half of them damaged, one experiment added by hand, and what was written; sort, clear |

The bounds are chosen so that the hard cases happen: two nodes in a circle with
paths of both orders suffice for a node to be closed by a longer path, relaxed
while closed, reopened, or pruned; two calls suffice for the records of one
search to meet the next, and its index that of a node in the heap; a 3x3 grid
has a corner to cut and a row end to run across, and three experiments suffice
for the second to find what the first left; three loads are needed to print
nodes and arcs that two files brought, and four nodes give the heap an inner
node with a single child. Every property has a mutant of the code in
`PROJECT.json` that breaks it: an operator next to the original, with the
comment "Mutant:", that no specification uses.

### Where the code and its documentation disagree

Each of these runs has one property, taken from a comment of the source, and
TLC finds it violated by what the code does.

| run | statement | what happens |
|---|---|---|
| `GraphsReset` | "Search failed; no solution exists." | `reset()`, copies and assignments of an instance take the id before the increment; a second search with the id of the first takes its records for its own and fails on a target that can be reached (`FailureIsRight`). So it does with `IdOps = {"construct", "convert"}`, whose ids come from two counters |
| `GridsDijkstra` | "optimal solution cost" of the default parameters | `run_dijkstra` uses `admissibility_criteria::any`, which returns the first path that reaches the target; with `zero_heuristic` the first one may come from a node that a wall makes dearer than a later one, and costs up to `DBL_ROOT_TWO` - 1 too much |

Other disagreements are hazards with a note in `PROJECT.json`; the properties
exclude these cases or leave them open, so that a run which passes says nothing
for or against the comments quoted here. With w = 2 the bound of `w_admissible` multiplies by w
an f-value that already contains w, against `search_parameters.h:84-85` (the
models take w = 1). The default traits are exact for astar and astar4c on a
gridmap, but over terrain costs (`run_wgm_astar`) they are not, for the reason
that `GridsDijkstra` shows (`SumIsNearOptimal` says how far off an answer may
be). A search that starts in an obstacle of a terrain map, whose cost is 0,
leaves it more cheaply than the octile heuristic expects, so there the heuristic
is not consistent. With w- or eps-admissibility the path returned may be cheaper
than the reported cost, against "w=1 guarantees optimality" (`uds_traits.h:48`):
`relax` lowers g-values below a target that has been generated, and nothing
updates `sum_of_edge_costs_`; `PathWithinEps` is therefore about the path.
`write_scenario` leaves out the bucket, so what it writes does not load again,
but for maps whose names start with digits, against `scenario_manager.h:8-15`
(`LoadsAddUp` leaves open what such a file brings).
`gm_parser` refuses a map that is too short and `io::grid` fills it up with the
rows before (`CellsAreDrawn`). `check_optimality` lets through twice its epsilon
(`apps/warthog.cpp:83`, `StatusIsHonest`). `load_graph` does not discard the arcs
of an earlier gr file, nor anything when a file announces no nodes or edges,
against `dimacs_parser.h:66-68` (`GraphIsLoaded` speaks of one gr file, and of
nodes when every co file announces some). A line of more than 1023 characters
ends a load silently, with the result true (`TrueMeansAllRead` and
`QueriesAreLoaded` except what is behind it). `node_pool` has a record for ids
from `num_nodes` to the end of the last block, for which
`expansion_policy.h:201-202` and `209-211` promise null (`NodesAssumption`
excludes such ids, which no policy asks for). A query without a source is
not skipped but holds `load_instance` in an endless loop
(`dimacs_parser.cpp:369`): `LoadReturns` excepts that state, `Hangs`.

Smaller things met on the way, outside the models: `search_node::relax` lowers
`ub_` by a difference that is always 0 (`search_node.h:146`); `INTERCARDINAL` is
the four cardinal directions (`grid.h:122`); `dir_unit_point_secic` asserts that
it gets no such direction (`grid.h:588`); `set_label(x, y)` and `get_label(x, y)`
of `gridmap` take different coordinates (`gridmap.h:298`); with assertions on,
the metis converter stops at the last node of a graph that is all core
(`dimacs_parser.cpp:432`), and `cpool` at most objects that are given back
(`cpool.h:85`); the last column of a row, "map", is the name of the scenario;
`generate_experiments` is declared
and has no definition; the build with BMI2 computes other points for a
direction, `GridWalks` with `BMI2 = TRUE` is violated by its first step.

## What is proved

A theorem holds for every value of the constants that meets the assumptions of
the modules (which TLC evaluates in the runs) and the hypotheses it names.
`Spec` below is the specification of the component, without fairness.

### The search

`SearchSafety` proves `TypeCorrect` without hypotheses: the types of the
records, in particular that path extraction stays within nodes and that a
g-value that is compared is one. Everything else about the engine assumes
`FreshIds`: ids come from constructors or from conversions, from both only where
one unit counts them, and the counter does not go around
(`2 * MaxCalls < IdMod`). `GraphsReset` shows what happens without it. The
program only converts.
Under it the module proves `SearchInv` and from it `Backpointers`,
`PathIsSupported`, `FailureMeansUnreachable` and `ExpandsOnce`, that the search
implements `PathFinder`, and `PathIsReal`, for every map, heuristic, trait,
parameter and number of calls. None of these is inductive by itself:

- `IdsGrow`: no node carries an id above the counter that the ids come from, so a new call finds no
  node of its own. Everything else speaks of the nodes `Generated` in this
  search only.
- `Backpointers` says `<=` and not `=`: a node's parent may be relaxed later,
  which lowers the left side only. With `CurrentIsClosed` (the parent of a node
  is an expanded node of this search) and `StartIsRoot` (the start has cost 0
  and can never be relaxed) it survives every step.
- As long as there is no incumbent nothing is pruned (`NothingDropped`), so an
  empty OPEN means that the generated nodes are closed under edges; the target
  is not among them (`TargetIsIncumbent`); they are the cut.
- `PathSoFar` carries the edges from the incumbent backwards while the path is
  extracted; no step changes a node in that phase. That no node comes twice
  (`PathIsReal`) needs more, since edges may cost nothing: `NoCircle` says that
  every set of generated nodes has one whose parent is outside, and relaxing
  cannot close a circle because the node relaxed would have to be cheaper than
  itself.

Its second half compares with the reference, `ShortestFrom` of
`ShortestPaths`. Its rounds of relaxation are a recursive function over the
naturals, so that what the reference computes is proved too (`PathCostSums` and
the lemmas beside it): a round never falls below the cost of a walk, and what
the rounds have reached is the cost of one. Inductions are over the least
counterexample.

- `AnswersAreWithinEps` and `CutoffsAreExact` need nodes to be reopened
  (`RP = "yes"`), w = 1 and estimates that are not too high
  (`AdmissibleEstimates`), but no consistent heuristic. The invariant is
  `NothingLost`: the edges out of a closed node have been looked at for the
  g-value that it has now, or what they lead to was not worth pushing, so a
  shortest path to the target always has a node in OPEN or one that the incumbent
  outweighs. Other limits are excepted by the properties themselves.
- `BoundsNeverFall` holds of a consistent heuristic and all traits:
  `ClosedInOrder` says that nothing in OPEN is below what is closed.
- `ClosedNodesAreFinal` needs `AC = "any"` or reopening. Under `RP = "no"` with
  another `AC` a node that was not worth pushing against the incumbent is not
  pushed later on, when a shorter path to it is found, and nodes behind it may
  be closed by a detour; with `AC = "any"` the first incumbent ends the search.
  The traits of `ProgramRuns` are within the hypothesis.
- `SumsAreNearOptimal` has no such hypothesis. `LostKept` says that nothing is
  lost before there is an incumbent; when the target is generated, the last edge
  of any other path to it leaves a node that is not before the one being
  expanded, so the two differ by what the estimates before the target differ
  (`SumIsNear`), and later incumbents are only better.

The last two and those under reopening assume that `Node` is finite, as the pool
is. `AdmissibleEstimates` and `Consistent` speak of maps and heuristics and hold
in the runs; that the heuristics of the grids are consistent is proved with the
program, below.

`SearchOverHeapSafety` composes. `HeapHoldsOpen` (`HeapIsOpen`): the array holds
OPEN, in order, for every map, parameter and size of the first array, and
without `FreshIds`: `clear()` makes `contains()` false of whatever an earlier
call has left. The invariant is that of `PQueueSafety` for the fields that the
two share, with `OneSearch`, that all of OPEN belongs to this search, so that
the key which the engine changes is one that the heap has. From it
`HeapDecidesAlike`: whatever the engine asks the heap, OPEN would tell it too. The
steps of the composition are steps of the engine or, during heapify, none, by
the way it is put together (a lemma, `HeapSearchIsSearch`), so
`HeapSearchKeepsPromise` and all the results above carry over, and the properties that `GraphsOverHeap`
checks are theorems of the specification that it checks them on.

### Heap, pools, threads

`PQueueSafety` proves `TypeOK`, `QueueInv` and the refinement of `PriorityQueue`,
for both orders, any set of nodes and any initial size. `QueueInv` is inductive
because `HeapOrder` says where the order may fail during a heapify and that the
children of the displaced element fit below its parent. That the top precedes
every element (`TopIsFirst`) is an induction along parents, done as a smallest
counterexample in the well-founded order of the naturals.

`NodePoolSafety` proves of `CPool` that `PoolInv`, `StackFits`, `GrowsWhenFull`
and the refinement of `Allocator` hold for every size and placement of chunks
within 4 GB. `Located` and `HoldsIsExact` show that the unsigned difference
finds the right chunk; that a stack never overflows is the pigeonhole principle
applied to its entries, which `PoolInv` says are distinct. Above it, `generate`
takes from the pool as `Allocator` promises, so blocks are apart, and every
record has the id of its place. From that `PoolStoresNodes`, the refinement of
`NodeStore`, for ids of the pool (`IdsOfPool`) and beyond its table. Both hold under a policy that lists successors too
(`PolicyStoresNodes`), since its steps are steps of the pool or none.
`ListCorrect` adds that the list is what was added: `PointersStay` says that no
step takes the record from a pointer, and `AddNeighbourStep` that the larger
array begins with the old one.

`ParallelSafety` proves `WatchInv` and `ReturnsAfterWork` for every number of
threads and tasks: in a round, as many finished workers as were looked at means
that all of those are done, and a worker that is done stays done. `BarInv` adds
that what the main thread has counted in a round is at most what the workers
that it has looked at have done, though they go on while it counts; `BarIsHonest`
follows, since it compares sums over all of them.

### Scenarios

`LoadersSafety` proves `SortOrders` for lists of every length: `PlacesOrdered`
says that the first `i` places are final and place `i` holds the least of what
the inner loop has seen. `SortLosesNone` says that each comparison keeps every
experiment as often as it was there. `ScenarioTypes` is the type invariant they
need; that what comes out of damaged lines has a number in each place is proved
of `Extract`, one `>>` on a field, and carried through the record.

`ScenarioAddsUp` proves `LoadsAddUp` for any files, damaged anywhere, without a
hypothesis, with everything left open of files that were written. `ReadsAs` says
that a line makes a record whatever follows it: a whole line makes its own
(`WholeReads`). What is not such a line may borrow fields from the lines behind it, and how many
records that makes depends on where each begins; what holds of all of them is
that a record takes at least seven fields (`SevenGone`: a number may leave its
field to the string behind it, and there are two strings), and that a load ends
at once at a field without a number in front (`FailsAtOnce`). So `LoadsAreRead`
follows a load in two parts: first the lines that are known to bring something,
one by one (`LinesComing`), then the fields behind them, of which every record
uses up seven (`FieldsComing`). Between loads it says that all that is expected
is there (`Covered`), which a sort keeps since it keeps how often each is there.

### Graph files

`LoadersSafety` also proves `GraphIsLoaded`, `TrueMeansAllRead`, `PrintedReloads`
and `QueriesAreLoaded`, for any number of loads of files of any length, damaged
or too long anywhere. Each of these says of whole files, and between loads, what the code
does line by line, so each needs to know how far a load has come: `GraphIsRead`
says in which lines nothing was decided or ended yet and that `nodes` or `edges`
is what the earlier loads brought and the lines so far (`SoFar`) add, of the part
of the file that is taken. It has the arcs of all gr files; `OneBrings` makes of
that what `GraphIsLoaded` says of one. `QueriesAreRead` is the same for `load_instance`, whose `format` is that of the
line `FormatAt`. `PrintIsReread` keeps what a parser held when it printed, of
which `Printed` is a file whose nodes are numbered by place and whose `p gr`
line, after the nodes, ends the load before its arcs; without nodes that line is
the first one and announces 0 nodes, and `load_graph` returns false. Either way
the arcs are not read again. `DimacsTypes` is the type invariant below them.

The converter is a loop over the arcs whose result is a recursive function of
their number. `GraphOf` says what the arcs so far have become, by the new ids: the
nodes of a set `C` and, both ways, the edges of a set `P` of pairs. The count is
the size of `P` because ids of the core are moved to different ids
(`MovedApart`), so an arc is found in `adj` exactly if its pair was there.
`RanksInOrder` says that `id_map` numbers any finite set of ids in their order.
From both follows `MetisIsTheGraph`. It needs that ids are below 2^32 (`IdsFit`),
which the casts of `load_gr_file` make true of every file and `print` keeps true.
An id that `lex_order` has no level for makes `at` throw; of that the model says
nothing. Of the constants these proofs use `LinesAssumption` and
`OrdersAssumption`.

### Grids

`GridSafety` proves all four properties of `GridWalk` under two hypotheses:
`Bytes`, the words of the code (8 bits in the table, 64 in a read), and
`NothingWraps`: ids and coordinates fit their types, and the build has no BMI2
(with it `PlacesAgree` is false). Map, walls, content of the memory behind the
map (`Junk`), and every move are arbitrary. The inductive invariant is
`GridInv`. `OnlyCellsAreOpen` says that no id of the padding is ever open: a
walker could otherwise step from the end of a row to the next, where the id
moves by one and the point by a row. `WalksStraight` says that the point is
where the number of steps since the last turn leads from `from`, which the
direction between two points needs. The rest is about bits: `Bit` numbers those
of a table, `Stored` says what a write leaves and `Shows` what a read returns,
and every operation of `bitarray` and `bittable`, every width from one value to
64 with the shift and mask that it needs, has a lemma in these terms.

### Heuristics, maps and the program

`ProgramSafety` speaks of `ProgramSpec`, the program on any set of map files,
scenarios, files of costs and arguments. Its engine takes steps of
`UnidirectionalSearch` or none (`EngineInv` carries the invariants of the search
over all stages), so that what
`SearchSafety` proves of every map and every estimate holds of the maps that the
program builds. Their policies and heuristics are shown to be what those
theorems ask for, on grids of every size: a move changes the two distances that
the octile and Manhattan heuristics add up by at most one each, never runs from
the end of a row to the next (`EdgeOfMove`, `ToPaddedId`), and over terrain
costs no less than the floor that the heuristic scales with. From that
`HeuristicsAreConsistent`, `ProgramPathsAreReal`, `ProgramSumsAreNear`,
`ProgramClosesFinally` and `ProgramBoundsNeverFall`.

`ProgramCellsAreDrawn` has no hypotheses. Both readers are loops over the
characters of a file. What is left of these without spaces is `Solid`, a
recursive function of the place; that rows read one after the other show the
tiles in the same order, whatever newlines are between or within them, is
proved for each place by a least counterexample (`SolidStep`, `RowStep`,
`Reaches`), and `BuiltInv` carries the cells to the first experiment.

`ProgramRowsAreTrue` compares with the reference on the drawing. If the map is
built of a drawing (`OnDrawing`), the points stand for nodes, the moves of a
point for the successors of its node, with the same costs (`DrawnStandsFor`), and
nothing leads out; so walks of one are walks of the other (`DrawnWalks`), and
the two references agree. `RowInv` says which experiment the engine was asked
last, and that the last row is its answer; that the length is in keeping with the
cost uses that every step of an answer is a move. `ProgramStatusIsHonest` adds `StatusInv`, which follows the
reasons to stop through the stages. A usable drawing never stops early since its
file is in order and fits: the characters of its lines are its tiles (`TilesInOrder`),
and gridmap finds no other ones (`GridInOrder`).

The hypotheses:

- `TablesFit`: the constants of the engine, which are tables because TLC wants
  them so, are those of maps, with at least one cell of a cost other than 0 in a
  terrain. Without one the floor of the heuristic is that of no cell.
- `[]WithinTables`: what is built has such tables, and the scenario asks for
  queries of the tables. `[]WithinMap`: the points of its experiments are points
  of the map. The code compares them with nothing, and a point behind the last
  row is an id behind the last node. A point beyond the end of a row is one of
  the next row, and allowed.
- `FreshIds` and that ids come from conversions, as for the search;
  `EngineIsSet`: `run_experiments` uses the default traits and no weight.
- `NumbersFit`: maps are finite, and the nodes on a path fewer than `SizeWrap`,
  which wraps the length of a row.
- for the status, that an exception which nobody catches does not end with 0 or 4.

All of them hold in `ProgramRuns`. Three assumptions of the models are used:
`NewlineAssumption` (a newline is no cell), `CostAssumption` (the root of 2 is
between 1 and 2; a half and a quarter of a move are exact in the unit) and
`WordAssumption` (rows are padded to words of at least one bit).

### What is left to TLC

Liveness: `Terminates`, `Returns` and `LoadReturns`. Every other property of a
passing run is a theorem. The type invariants are theorems only: no run lists them, nor
`WatchInv`, `GridInv` and the other invariants that only serve a proof.

## Not modelled

Rounding of `double`; heuristics that know a path to the target (`feasible_`,
`ub_`: none in the library, so lines 92-98 are never reached); a solution used
twice without `reset()`; listeners and logging; `set_map` on a policy that has
nodes already; `cfg`, which turns `argv` into parameters, and the columns of a
row that count or time; the conversions of coordinates that no program calls;
the readers of 128 bits and of labels; geometry, which is floating-point
formulas; maps of size 0 or over 2^32 cells; a machine with a weaker memory
order than x86-64; `hardware_concurrency()` returning 0. `PROJECT.json` gives the
reason for each component, and with a hazard without a property the reason why.

## Plan

Done, in this order: the search and its proofs, the heap, the pools, the
threads, the grids, the graph parser; then the engine over the heap, the
scenarios, the readers of maps, the costs of terrains, the program, and the list
of successors with its proof; then the proofs about costs of answers, the engine
over its heap, the progress bar, sorting, and the grids; last the proofs about
heuristics, readers, rows, the exit status, graph files, and what scenario files
bring. Nothing of the plan is left; what the models leave out is listed above.
