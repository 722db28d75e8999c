-------------------------------- MODULE Program --------------------------------
(***************************************************************************)
(* apps/warthog.cpp: from the arguments to the exit status.  The program   *)
(* loads a scenario with scenario_manager, finds and reads a map, builds   *)
(* policy and heuristic for it, and has the engine answer one experiment   *)
(* after the other, all of them on one map.                                *)
(***************************************************************************)
EXTENDS UnidirectionalSearch, Algorithms

CONSTANTS
  Arguments,     \* BOUND: the command lines
  ScenarioAt,    \* the scenarios: a function from paths to files
  GarbageCells,  \* BOUND: what unwritten memory may contain
  MapAt,         \* the map files: a function from paths
  NameOf,        \* the paths that the names of maps stand for
  Words,         \* words of scenarios
  SizeWrap,      \* 2^64, the range of size_t
  Aborted        \* the exit status of an exception that nobody catches

ASSUME ProgramAssumption ==
  /\ \A path \in DOMAIN MapAt : MapAt[path] \in MapFile
  /\ \A a \in Arguments : a.costs # Null => a.costs \in CostFile

VARIABLES
  args,      \* the command line
  experiments, sfile, input, spc,    \* of the scenario_manager
  stage,     \* "start", "load", "build", "run", "exit"
  mapfile,   \* the path of the map
  rows,      \* the rows printed: length and cost of the path, the cost expected
  status     \* the exit status

svars == <<experiments, sfile, input, spc>>
pvars == <<args, stage, mapfile, rows, status>>

Scenario == INSTANCE ScenarioManager WITH Files <- {}, i <- 0, j <- 0

ProgramInit ==
  /\ Unused /\ map = Null
  /\ Scenario!ScenarioInit
  /\ args \in Arguments
  /\ stage = "start"
  /\ mapfile = Null
  /\ rows = <<>>
  /\ status = Null

Exit(s) ==
  /\ stage' = "exit" /\ status' = s
  /\ UNCHANGED <<args, mapfile, rows>>

GoOn(next) ==
  /\ stage' = next
  /\ UNCHANGED <<args, mapfile, rows, status>>

\* main: help, or the scenario is opened.
ParseArguments ==
  /\ stage = "start"
  /\ IF args.alg = "" \/ args.scen = Null
     THEN Exit(0) /\ UNCHANGED svars
     ELSE /\ Scenario!LoadScenario(ScenarioAt[args.scen])
          /\ IF spc' = "exit" THEN Exit(1) ELSE GoOn("load")
  /\ UNCHANGED vars

ReadExperiment ==
  /\ stage = "load"
  /\ Scenario!ReadExperiment
  /\ UNCHANGED <<vars, pvars>>

-----------------------------------------------------------------------------
WithoutExtension(path) == [path EXCEPT !.exts = Front(@)]

(* The paths that find_map_filename tries, in this order: what the first   *)
(* experiment names, as an absolute path or next to the scenario; the      *)
(* scenario's own name with .map for its extension, or without it.         *)
Candidates(scen, name) ==
  IF name.absolute THEN <<name.path>>
  ELSE << [name.path EXCEPT !.dir = scen.dir],
          [scen EXCEPT !.exts = Front(@) \o <<".map">>] >>
       \o (IF Len(scen.exts) > 1 /\ Last(Front(scen.exts)) = ".map"
           THEN << WithoutExtension(scen) >> ELSE <<>>)

FindMapFilename(scen, name) ==
  LET found == SelectSeq(Candidates(scen, name), LAMBDA p : p \in DOMAIN MapAt)
  IN  IF found = <<>> THEN Null ELSE Head(found)

\* The map of the arguments, or else the one of the first experiment.
Located ==
  IF args.map # Null THEN args.map
  ELSE FindMapFilename(args.scen,
                       NameOf[Scenario!GetExperiment(0).map.word])

LocateMap ==
  /\ stage = "load" /\ spc = "idle"
  /\ IF Scenario!NumExperiments = 0 THEN Exit(1)
     ELSE IF Located = Null THEN Exit(0)
     ELSE /\ mapfile' = Located /\ stage' = "build"
          /\ UNCHANGED <<args, rows, status>>
  /\ UNCHANGED <<vars, svars>>

-----------------------------------------------------------------------------
\* A path without a file is one that cannot be opened.
FileAt(path) ==
  IF path \in DOMAIN MapAt THEN MapAt[path] ELSE [head |-> <<>>, body |-> <<>>]

(* The constructor of gridmap, whose buffer has any contents at first; its *)
(* exceptions end the program.                                             *)
BuildGrid ==
  /\ stage = "build" /\ args.alg \in GridAlgs
  /\ \E junk \in GarbageCells :
       LET r == ReadGrid(FileAt(mapfile), junk) IN
       IF r.ok
       THEN map' = MapOf(args.alg, r, GridCells(r)) /\ GoOn("run")
       ELSE Exit(Aborted) /\ UNCHANGED map
  /\ UNCHANGED <<node, open, pi, par, sol, counter, calls, pc, current, i, svars>>

\* run_wgm_astar: the costs, the map, and the lowest cost.
BuildTerrain ==
  LET r == GmParser(FileAt(mapfile))
      m == MapOf(args.alg, r, TerrainCells(r, args.costs))
  IN
  /\ stage = "build" /\ args.alg = "astar_wgm"
  /\ IF args.costs # Null /\ CostsAccepted(args.costs) /\ r.ok /\ Priced(m)
     THEN map' = m /\ GoOn("run")
     ELSE Exit(1) /\ UNCHANGED map
  /\ UNCHANGED <<node, open, pi, par, sol, counter, calls, pc, current, i, svars>>

BuildNothing ==
  /\ stage = "build" /\ args.alg \notin GridAlgs \cup {"astar_wgm"}
  /\ Exit(1)
  /\ UNCHANGED <<vars, svars>>

-----------------------------------------------------------------------------
(* run_experiments                                                         *)

Running == stage = "run" /\ pc = "idle"

\* The experiment whose row is printed next.
Current == Scenario!GetExperiment(Len(rows))

BeginExperiment ==
  /\ Running /\ calls = Len(rows) /\ calls < Scenario!NumExperiments
  /\ \E p \in Params :
       GetPath("convert", Ids(map, Current)[1], Ids(map, Current)[2], p)
  /\ UNCHANGED <<svars, pvars>>

Search == stage = "run" /\ Step /\ UNCHANGED <<svars, pvars>>

\* sol.path_.size() - 1, of size_t
PathLength == (Len(sol.path) - 1) % SizeWrap

Row == [plen |-> PathLength, pcost |-> sol.sum, scost |-> Current.distance]

\* Mutant: an answer that is too cheap passes.
CheckOneSide(row) == ~Lt(row.scost + 1, row.pcost)

(* check_optimality, in hundredths: |delta - epsilon| <= epsilon holds for *)
(* a delta of up to twice epsilon.                                         *)
CheckOptimality(row) ==
  /\ row.pcost # CostMax
  /\ row.pcost - row.scost \in -1 .. 1

PrintRow ==
  /\ Running /\ calls = Len(rows) + 1
  /\ rows' = Append(rows, Row)
  /\ IF args.checkopt /\ ~CheckOptimality(Row)
     THEN stage' = "exit" /\ status' = 4
     ELSE UNCHANGED <<stage, status>>
  /\ UNCHANGED <<vars, svars, args, mapfile>>

AllDone ==
  /\ Running /\ Len(rows) = Scenario!NumExperiments
  /\ Exit(0)
  /\ UNCHANGED <<vars, svars>>

ProgramNext ==
  \/ ParseArguments \/ ReadExperiment \/ LocateMap
  \/ BuildGrid \/ BuildTerrain \/ BuildNothing
  \/ BeginExperiment \/ Search \/ PrintRow \/ AllDone

ProgramVars == <<vars, svars, pvars>>

ProgramSpec == ProgramInit /\ [][ProgramNext]_ProgramVars
=============================================================================
