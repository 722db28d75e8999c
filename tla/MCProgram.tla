------------------------------- MODULE MCProgram -------------------------------
(***************************************************************************)
(* Files for TLC: all small drawings for each algorithm, and what can be   *)
(* wrong with a map, with costs, with a scenario and with their names.     *)
(***************************************************************************)
EXTENDS ProgramCorrectness

CONSTANTS
  MCBlocked       \* BOUND: blocked cells of the drawings for gridmap

MCNumeral == "2" :> 2 @@ "3" :> 3 @@ "4" :> 4

Head3x3 == <<"type", "octile", "height", "3", "width", "3", "map">>
Head3x2 == <<"type", "octile", "height", "2", "width", "3", "map">>
Head4x2 == <<"type", "octile", "height", "2", "width", "4", "map">>
Reordered == <<"type", "octile", "width", "3", "height", "2", "map">>

Lines(r) ==
  LET upto[k \in 0 .. Len(r)] == IF k = 0 THEN <<>> ELSE upto[k - 1] \o Append(r[k], "nl")
  IN  upto[Len(r)]
MapOfRows(head, r) == [head |-> head, body |-> Lines(r)]

Path(dir, base, exts) == [dir |-> dir, base |-> base, exts |-> exts]

\* A drawing as the sequence of its tiles, also the name of its file.
RowsOf(tile, w, h) == [y \in 1 .. h |-> [x \in 1 .. w |-> tile[(y - 1) * w + x]]]

GridPaths ==
  {Path("grids", [k \in 1 .. 9 |-> IF k \in blocked THEN "@" ELSE "."], <<".map">>) :
     blocked \in {b \in SUBSET (1 .. 9) : Cardinality(b) <= MCBlocked}}

TerrainPaths ==
  {Path("terrains", tile, <<".map">>) :
     tile \in {t \in [1 .. 6 -> {".", "T", "@"}] :
                 t[1] = "." /\ Cardinality({k \in 1 .. 6 : t[k] = "@"}) <= 1}}

Plain == MapOfRows(Head3x3, << <<".", ".", ".">>, <<".", "@", ".">>, <<".", ".", "G">> >>)
Turned == MapOfRows(Reordered, << <<".", "@", ".">>, <<".", "G", ".">> >>)

Odd ==
  LET row == <<".", "@", ".">> free == <<".", "G", ".">> swamp == <<".", "S", "T">> IN
  <<MapOfRows(Head3x2, <<row, swamp>>),
   Turned,
   MapOfRows(<<"height", "2", "width", "3", "type", "octile", "map">>, <<row, free>>),
   MapOfRows(<<"type", "patch", "patches", "2", "height", "2", "width", "3", "map">>, <<row, free>>),
   MapOfRows(<<"type", "tile", "height", "2", "width", "3", "map">>, <<row, free>>),
   MapOfRows(<<"height", "2", "width", "3", "map">>, <<row, free>>),
   MapOfRows(SubSeq(Head3x2, 1, 6), <<row, free>>),
   MapOfRows(Head3x2, <<row, <<".", "x", ".">> >>),
   MapOfRows(Head3x2, <<row>>),                              \* a row is missing
   MapOfRows(Head3x2, <<row, <<".">> >>),                    \* half of a row
   MapOfRows(Head3x2, << <<".">>, <<"@", ".">>, free >>),    \* short lines
   MapOfRows(Head3x2, << row \o free >>),                    \* one long line
   MapOfRows(Head3x2, <<row, free, row>>),                   \* a row too many
   [head |-> Head3x2, body |-> <<>>],
   MapOfRows(Head4x2, <<Append(row, "."), Append(free, ".")>>)>>   \* in order, too wide

OddPath(k) == Path("odd", <<ToString(k)>>, <<".map">>)
OddPaths == {OddPath(k) : k \in 1 .. 14}
WidePath == OddPath(15)

\* Maps next to the scenarios, for find_map_filename.
Neighbouring ==
  {Path("d", <<"a">>, <<".map">>), Path("d", <<"b">>, <<".map">>),
   Path("d", <<"c">>, <<".map">>), Path("e", <<"z">>, <<".map">>)}

MCMapAt ==
  [p \in GridPaths \cup TerrainPaths \cup OddPaths \cup {WidePath} \cup Neighbouring |->
     CASE p.dir = "grids"     -> MapOfRows(Head3x3, RowsOf(p.base, 3, 3))
       [] p.dir = "terrains"  -> MapOfRows(Head3x2, RowsOf(p.base, 3, 2))
       [] p.dir = "odd"       -> Odd[CHOOSE k \in 1 .. 15 : OddPath(k) = p]
       [] p.base = <<"b">>    -> Turned
       [] OTHER               -> Plain]

-----------------------------------------------------------------------------
Text == INSTANCE ScenarioFile

MCWords == {"c.map", "gone.map", "/e/z.map", "/e/gone.map"}

MCNameOf ==
  [w \in MCWords |->
     CASE w = "c.map"       -> [absolute |-> FALSE, path |-> Path("", <<"c">>, <<".map">>)]
       [] w = "gone.map"    -> [absolute |-> FALSE, path |-> Path("", <<"gone">>, <<".map">>)]
       [] w = "/e/z.map"    -> [absolute |-> TRUE, path |-> Path("e", <<"z">>, <<".map">>)]
       [] w = "/e/gone.map" -> [absolute |-> TRUE, path |-> Path("e", <<"gone">>, <<".map">>)]]

Line(name, s, t, hundredths) ==
  <<Text!Digits(0), Text!Word(name), Text!Digits(3), Text!Digits(3), Text!Digits(s[1]), Text!Digits(s[2]),
    Text!Digits(t[1]), Text!Digits(t[2]), Text!Decimal(hundredths, 2)>>

File(lines) == [readable |-> TRUE, version1 |-> TRUE, lines |-> lines]

\* Points that the experiments start from, and those they lead to.
From == {<<0, 0>>, <<2, 1>>, <<1, 0>>}
To   == {<<2, 2>>, <<0, 2>>, <<0, 1>>, <<0, 0>>, <<2, 1>>, <<1, 0>>}

Across  == Line("c.map", <<0, 0>>, <<2, 2>>, 280)
Back    == Line("c.map", <<2, 1>>, <<0, 2>>, 240)
Middle  == Line("c.map", <<2, 1>>, <<0, 1>>, 200)
Beyond  == Line("c.map", <<1, 0>>, <<3, 0>>, 140)     \* x is the width: <<0, 1>>
Nowhere == Line("c.map", <<1, 0>>, <<1, 0>>, 0)
Low     == Line("c.map", <<2, 1>>, <<0, 0>>, 240)
High    == Line("c.map", <<0, 0>>, <<2, 1>>, 241)

Scen(base) == Path("d", <<base>>, <<".scen">>)

BesideMap == Path("d", <<"b">>, <<".map", ".scen">>)

Scenarios ==
  {BesideMap} \cup
  {Scen(base) : base \in {"three", "middle", "two", "empty", "old", "none",
                          "a", "y", "x", "w"}}

MCScenarioAt ==
  Scen("three")  :> File(<<Across, Back, Beyond>>) @@
  Scen("middle") :> File(<<Across, Middle>>) @@
  Scen("two")    :> File(<<Low, High, Nowhere>>) @@
  Scen("empty")  :> File(<<>>) @@
  Scen("old")    :> [File(<<Low>>) EXCEPT !.version1 = FALSE] @@
  Scen("none")   :> [File(<<>>) EXCEPT !.readable = FALSE] @@
  Scen("a")      :> File(<<Line("gone.map", <<0, 0>>, <<2, 1>>, 240)>>) @@
  BesideMap      :> File(<<Line("gone.map", <<0, 0>>, <<2, 1>>, 300)>>) @@
  Scen("y")      :> File(<<Line("/e/z.map", <<0, 0>>, <<2, 2>>, 450)>>) @@
  Scen("x")      :> File(<<Line("/e/gone.map", <<0, 0>>, <<2, 2>>, 400)>>) @@
  Scen("w")      :> File(<<Line("gone.map", <<0, 0>>, <<2, 2>>, 400)>>)

Entry(terrain, cost) == [terrain |-> terrain, cost |-> cost, parsed |-> TRUE]
Costs(entries) == [entries |-> entries, newline |-> TRUE]

Priced3 == Costs(<<Entry(".", 1), Entry("T", 4), Entry("@", 0)>>)

BadCosts ==
  {Costs(<<>>), [Priced3 EXCEPT !.newline = FALSE],
   Costs(Priced3.entries \o <<Entry("T", 2)>>),
   Costs(<<Entry(".", 1), Entry("T", -4), Entry("@", 0)>>),
   Costs(<<Entry(".", 1), Entry("@", 0)>>),
   Costs(<<Entry(".", 1), [Entry("T", 4) EXCEPT !.parsed = FALSE], Entry("@", 0)>>)}

-----------------------------------------------------------------------------
Call4(alg, scen, path, costs, checkopt) ==
  [alg |-> alg, scen |-> scen, map |-> path, costs |-> costs, checkopt |-> checkopt]

Algs == GridAlgs \cup {"astar_wgm"}

MCArguments ==
  {Call4(alg, Scen("three"), p, Null, FALSE) : alg \in GridAlgs, p \in GridPaths}
  \cup {Call4(alg, Scen("middle"), p, Null, TRUE) : alg \in GridAlgs, p \in GridPaths}
  \cup {Call4("astar_wgm", Scen("two"), p, Priced3, c) :
          p \in TerrainPaths, c \in {FALSE}}
  \cup {Call4(alg, Scen("two"), p, Priced3, c) :
          alg \in Algs, p \in OddPaths, c \in BOOLEAN}
  \cup {Call4(alg, Scen("two"), WidePath, Null, FALSE) : alg \in GridAlgs}
  \cup {Call4("astar_wgm", Scen("two"), OddPath(2), c, FALSE) : c \in BadCosts \cup {Null}}
  \cup {Call4(alg, scen, Null, Null, TRUE) :
          alg \in {"astar", "astar4c", "jps", ""}, scen \in Scenarios}
  \cup {Call4("astar", Null, Null, Null, FALSE),
        Call4("dijkstra", Scen("two"), Path("d", <<"gone">>, <<".map">>), Null, FALSE)}

-----------------------------------------------------------------------------
(* The tables of the engine.                                               *)

\* What is built of a file, by whom.
Built(a, f, g) ==
  IF a.alg = "astar_wgm"
  THEN LET r == GmParser(f) IN
       IF a.costs # Null /\ CostsAccepted(a.costs) /\ r.ok
       THEN {m \in {MapOf(a.alg, r, TerrainCells(r, a.costs))} : Priced(m)} ELSE {}
  ELSE LET r == ReadGrid(f, g) IN
       IF a.alg \in GridAlgs /\ r.ok THEN {MapOf(a.alg, r, GridCells(r))} ELSE {}

MCMaps ==
  LET fileAt == MapAt IN
  UNION {UNION {Built(a, fileAt[p], g) :
                  p \in (IF a.map = Null THEN Neighbouring ELSE {a.map}) \cap DOMAIN fileAt,
                  g \in GarbageCells} :
           a \in MCArguments}

\* Maps of both kinds with rows of three keep their cells under these ids.
MCNode == Grid(3, 3)!Cells

MCSuccessors == [m \in MCMaps |-> [n \in MCNode |-> SuccessorsOf(m, n)]]
MCLowerBound ==
  [m \in MCMaps |-> [n \in MCNode |-> [t \in MCNode |-> Estimate(m, n, t)]]]
MCStartable == [m \in MCMaps |-> StartableOf(m)]

\* The ids of the points in maps that are three cells wide.
MCQueries == {Grid(3, 3)!ProblemInstance(s, t) : s \in From, t \in To}

MCParams ==
  {[w |-> 1, eps |-> 0, cost_cutoff |-> CostMax, exp_cutoff |-> 1000, timed |-> FALSE]}
=============================================================================
