---------------------------- MODULE DimacsParser ----------------------------
(***************************************************************************)
(* dimacs_parser: graphs and queries that are read line by line from files *)
(* and collected over any number of loads.  A line is a record of its kind *)
(* and two numbers; of an arc they are tail and head, of a node its id and *)
(* coordinates, of a query source and target, of a problem line the counts *)
(* that it announces (a co line has one, given as both).  Asserts are off: *)
(* with them a second gr file, or a wrong count, ends the program.         *)
(***************************************************************************)
EXTENDS Integers, Sequences, FiniteSets, SequencesExt

CONSTANTS
  GraphFiles,  \* BOUND: files for load_graph, sequences of lines
  QueryFiles,  \* BOUND: files for load_instance
  MaxLoads,    \* BOUND: number of loads
  INF32,       \* target of a query without one
  Wrap         \* 2^32

(* "aux" is `p aux' without sp, "unknown" any other problem line that      *)
(* load_graph does not take.  A line without its numbers is "bad arc" or   *)
(* "bad node", a query without a source is a "bad query".                  *)
Problem == {"gr", "co", "aux", "unknown"}
GraphKind == Problem \cup {"arc", "bad arc", "node", "bad node", "comment", "other"}
Format == {"p2p", "p2p-zero", "ss", "ss-zero"}
QueryKind == Format \cup {"query", "bad query", "comment", "other"}

\* A line that is not ended is longer than the 1023 characters getline takes,
\* or the last one and without a newline: the stream is not good after it.  Its
\* kind and numbers are those of the part that is taken.
Line(kinds) == [kind : kinds, a : Nat, b : Nat, ended : BOOLEAN]

FirstLost(ls) == SelectInSeq(ls, LAMBDA l : ~l.ended)

\* What `while(good()) getline' sees of a file, and what it sees if the loop
\* tests the stream between getline and the use of the line.
Readable(ls) == IF FirstLost(ls) = 0 THEN ls ELSE SubSeq(ls, 1, FirstLost(ls))
Whole(ls) == IF FirstLost(ls) = 0 THEN ls ELSE SubSeq(ls, 1, FirstLost(ls) - 1)

\* Queries that make load_instance read through a null pointer (an empty
\* line, a source without the target it needs) are left out.
\* The ids of an arc are what the casts to uint32_t make of its fields.
ASSUME LinesAssumption ==
  /\ GraphFiles \subseteq Seq(Line(GraphKind))
  /\ \A f \in GraphFiles : \A i \in DOMAIN f :
       f[i].kind = "arc" => f[i].a < Wrap /\ f[i].b < Wrap
  /\ QueryFiles \subseteq Seq(Line(QueryKind))
  /\ MaxLoads \in Nat /\ Wrap \in Nat \ {0} /\ INF32 \notin Nat

VARIABLES
  nodes, edges, queries,      \* nodes_, edges_, experiments_
  lines, pos,                 \* the file being read and the next line of it
  mode,                       \* "idle", or the loop that reads
  retval,                     \* result of the load
  format,                     \* p2p and id_offset of load_instance
  loads                       \* the files loaded so far, for the properties

loading == <<lines, pos, mode, retval, format>>
vars == <<nodes, edges, queries, loading, loads>>

Init ==
  /\ nodes = <<>> /\ edges = <<>> /\ queries = <<>>
  /\ lines = <<>> /\ pos = 1 /\ mode = "idle" /\ retval = TRUE
  /\ format = [p2p |-> TRUE, id_offset |-> 1]
  /\ loads = <<>>

-----------------------------------------------------------------------------
\* The stream is no longer good: at the end of the file, or after a line that
\* getline did not take whole.
AtEnd == pos > Len(lines)
At(kinds) == ~AtEnd /\ lines[pos].kind \in kinds

Open(ls, m) ==
  /\ mode = "idle" /\ Len(loads) < MaxLoads
  /\ lines' = ls /\ pos' = 1 /\ mode' = m

\* Mutant: the line is left where it is.
SkipStays ==
  UNCHANGED <<nodes, edges, queries, lines, pos, mode, retval, format, loads>>

Skip ==
  /\ pos' = pos + 1
  /\ UNCHANGED <<nodes, edges, queries, lines, mode, retval, format, loads>>

Return(r) ==
  /\ retval' = r /\ mode' = "idle"
  /\ UNCHANGED <<nodes, edges, queries, lines, pos, format, loads>>

LoadGraph(f) ==
  /\ Open(Readable(f), "graph")
  /\ retval' = TRUE
  /\ loads' = Append(loads, [op |-> "graph", file |-> f])
  /\ UNCHANGED <<nodes, edges, queries, format>>

\* load_graph of a file that cannot be opened
LoadMissing ==
  /\ mode = "idle" /\ retval' = FALSE
  /\ UNCHANGED <<nodes, edges, queries, lines, pos, mode, format, loads>>

\* The first problem line decides what the file holds.
FindProblem ==
  /\ mode = "graph"
  /\ \/ AtEnd /\ Return(retval)
     \/ At(GraphKind \ Problem) /\ Skip
     \/ /\ At({"aux"})
        /\ retval' = FALSE /\ pos' = pos + 1
        /\ UNCHANGED <<nodes, edges, queries, lines, mode, format, loads>>
     \/ At({"unknown"}) /\ Return(FALSE)
     \/ At({"gr", "co"}) /\ 0 \in {lines[pos].a, lines[pos].b} /\ Return(FALSE)
     \/ /\ At({"gr", "co"}) /\ 0 \notin {lines[pos].a, lines[pos].b}
        /\ mode' = lines[pos].kind /\ pos' = pos + 1
        /\ nodes' = IF lines[pos].kind = "co" THEN <<>> ELSE nodes
        /\ UNCHANGED <<edges, queries, lines, retval, format, loads>>

\* Mutant: another problem line is skipped.
StopsIfBad(bad) == At({bad})

\* What ends load_co_file and load_gr_file before the end of the file.
Stops(bad) == At(Problem \cup {bad})

\* load_co_file
ReadNode ==
  /\ mode = "co"
  /\ \/ AtEnd /\ Return(TRUE)
     \/ Stops("bad node") /\ Return(FALSE)
     \/ /\ At({"node"})
        /\ nodes' = Append(nodes, [id |-> lines[pos].a, xy |-> lines[pos].b])
        /\ pos' = pos + 1
        /\ UNCHANGED <<edges, queries, lines, mode, retval, format, loads>>
     \/ ~AtEnd /\ ~Stops("bad node") /\ ~At({"node"}) /\ Skip

\* load_gr_file, which adds to the arcs that are there
ReadArc ==
  /\ mode = "gr"
  /\ \/ AtEnd /\ Return(TRUE)
     \/ Stops("bad arc") /\ Return(FALSE)
     \/ /\ At({"arc"})
        /\ edges' = Append(edges, [tail |-> lines[pos].a, head |-> lines[pos].b])
        /\ pos' = pos + 1
        /\ UNCHANGED <<nodes, queries, lines, mode, retval, format, loads>>
     \/ ~AtEnd /\ ~Stops("bad arc") /\ ~At({"arc"}) /\ Skip

\* Mutant: ids are counted from zero.
PrintedNodeFromZero(i) ==
  [kind |-> "node", a |-> i - 1, b |-> nodes[i].xy, ended |-> TRUE]

\* print
PrintedNode(i) == [kind |-> "node", a |-> i, b |-> nodes[i].xy, ended |-> TRUE]

PrintedArc(i) ==
  [kind |-> "arc", a |-> edges[i].tail, b |-> edges[i].head, ended |-> TRUE]

PrintedProblem(kind, n, m) == [kind |-> kind, a |-> n, b |-> m, ended |-> TRUE]

Printed ==
  LET n == Len(nodes)
      m == Len(edges)
      co == <<PrintedProblem("co", n, n)>> \o [i \in 1..n |-> PrintedNode(i)]
      gr == <<PrintedProblem("gr", n, m)>> \o [i \in 1..m |-> PrintedArc(i)]
  IN  (IF n > 0 THEN co ELSE <<>>) \o (IF m > 0 THEN gr ELSE <<>>)

\* What this parser printed is loaded again.
Reload ==
  /\ Open(Readable(Printed), "graph")
  /\ retval' = TRUE
  /\ loads' = Append(loads, [op |-> "printed", file |-> Printed,
                            nodes |-> nodes, edges |-> edges])
  /\ UNCHANGED <<nodes, edges, queries, format>>

\* A file that cannot be opened is as good as an empty one.
LoadInstance(f) ==
  /\ Open(Whole(f), "format")
  /\ format' = [p2p |-> TRUE, id_offset |-> 1]
  /\ loads' = Append(loads, [op |-> "queries", file |-> f])
  /\ UNCHANGED <<nodes, edges, queries, retval>>

FindFormat ==
  /\ mode = "format"
  /\ \/ AtEnd /\ Return(TRUE)
     \/ At(QueryKind \ Format) /\ Skip
     \/ /\ At(Format)
        /\ format' = [p2p |-> lines[pos].kind \in {"p2p", "p2p-zero"},
                      id_offset |->
                        IF lines[pos].kind \in {"p2p-zero", "ss-zero"} THEN 0 ELSE 1]
        /\ mode' = "queries" /\ pos' = pos + 1
        /\ UNCHANGED <<nodes, edges, queries, lines, retval, loads>>

\* Mutant: sources only are counted from zero.
TargetFromOne(t) == IF format.p2p THEN t ELSE INF32

Target(t) == IF format.p2p THEN (t - format.id_offset) % Wrap ELSE INF32

ReadQuery ==
  /\ mode = "queries"
  /\ \/ AtEnd /\ Return(TRUE)
     \/ /\ At({"query"})
        /\ queries' = Append(queries,
             [source |-> (lines[pos].a - format.id_offset) % Wrap,
              target |-> Target(lines[pos].b), p2p |-> format.p2p])
        /\ pos' = pos + 1
        /\ UNCHANGED <<nodes, edges, lines, mode, retval, format, loads>>
     \/ ~AtEnd /\ ~At({"query", "bad query"}) /\ Skip

\* A bad query is never left: `continue' comes before the next getline.
Hangs == mode = "queries" /\ At({"bad query"})

-----------------------------------------------------------------------------
(* print_undirected_unweighted_metis.  lex_order gives the level of every  *)
(* id, from 1, or is empty; the core is the nodes from level low.          *)
Included(id, lex_order, low) == lex_order = <<>> \/ lex_order[id] >= low

Moved(id, lex_order, low) ==
  IF lex_order = <<>> \/ ~Included(id, lex_order, low) THEN id ELSE (id - low) % Wrap

\* Mutant: every arc is counted.
AddArcTwice(g, id1, id2) ==
  [nodes |-> g.nodes, num |-> g.num + 1,
   adj |-> g.adj \cup {<<id1, id2>>, <<id2, id1>>}]

AddArc(g, id1, id2) ==
  [nodes |-> g.nodes,
   num |-> IF {<<id1, id2>>, <<id2, id1>>} \cap g.adj = {} THEN g.num + 1 ELSE g.num,
   adj |-> g.adj \cup {<<id1, id2>>, <<id2, id1>>}]

AddEdge(g, e, lex_order, low) ==
  LET In(id) == Included(id, lex_order, low)
      To(id) == Moved(id, lex_order, low)
      seen == [g EXCEPT !.nodes = @ \cup {To(id) : id \in {i \in {e.head, e.tail} : In(i)}}]
  IN  IF In(e.head) /\ In(e.tail) THEN AddArc(seen, To(e.head), To(e.tail)) ELSE seen

\* The graph that the arcs make, one after the other.
Graph(es, lex_order, low) ==
  LET graph[k \in 0 .. Len(es)] ==
        IF k = 0 THEN [nodes |-> {}, adj |-> {}, num |-> 0]
        ELSE AddEdge(graph[k - 1], es[k], lex_order, low)
  IN  graph[Len(es)]

\* Nodes are numbered from 1 in the order of their ids.
IdMap(ids) == [n \in ids |-> Cardinality({k \in ids : k <= n})]

\* The header's counts, and for every node the row of its neighbours' new ids.
Metis(es, lex_order, low) ==
  LET g == Graph(es, lex_order, low)
      id_map == IdMap(g.nodes)
  IN  [nodes |-> Cardinality(g.nodes),
       edges |-> g.num,
       rows |-> [i \in 1..Cardinality(g.nodes) |->
                   {id_map[a[2]] : a \in {x \in g.adj : id_map[x[1]] = i}}]]

-----------------------------------------------------------------------------
Read == FindProblem \/ ReadNode \/ ReadArc \/ FindFormat \/ ReadQuery

Next ==
  \/ \E f \in GraphFiles : LoadGraph(f)
  \/ LoadMissing
  \/ \E f \in QueryFiles : LoadInstance(f)
  \/ Reload
  \/ Read

Spec == Init /\ [][Next]_vars /\ WF_vars(Read)
=============================================================================
