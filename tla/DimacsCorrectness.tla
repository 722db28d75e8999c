-------------------------- MODULE DimacsCorrectness --------------------------
(***************************************************************************)
(* What a dimacs_parser holds after any loads, said of whole files, and    *)
(* what its converter makes of it.                                         *)
(***************************************************************************)
EXTENDS DimacsParser

CONSTANT LexOrders  \* BOUND: values of lex_order, the empty one for a null pointer

ASSUME OrdersAssumption == LexOrders \subseteq Seq(Nat)

-----------------------------------------------------------------------------
(* The first line that decides what a file holds, and the part of the file *)
(* up to the line that ends its loading.                                   *)
Decides(l) == l.kind \in Problem \ {"aux"}

Decided(f) == SelectInSeq(f, Decides)

IsOf(f, kind) ==
  LET i == Decided(f)
  IN  i > 0 /\ f[i].kind = kind /\ f[i].a > 0 /\ f[i].b > 0

Rest(f) == SubSeq(f, Decided(f) + 1, Len(f))

EndOf(ls, bad) ==
  LET i == SelectInSeq(ls, LAMBDA l : l.kind \in Problem \cup {bad})
  IN  IF i = 0 THEN Len(ls) ELSE i - 1

\* The lines of some kinds, in their order.
Chosen(ls, kinds) ==
  FlattenSeq([k \in DOMAIN ls |-> IF ls[k].kind \in kinds THEN <<ls[k]>> ELSE <<>>])

Content(f, kind, good, bad) ==
  IF IsOf(f, kind)
  THEN Chosen(SubSeq(Rest(f), 1, EndOf(Rest(f), bad)), {good})
  ELSE <<>>

ArcsOf(f) == Content(f, "gr", "arc", "bad arc")
NodesOf(f) == Content(f, "co", "node", "bad node")

AsArcs(ls) == [i \in DOMAIN ls |-> [tail |-> ls[i].a, head |-> ls[i].b]]
AsNodes(ls) == [i \in DOMAIN ls |-> [id |-> ls[i].a, xy |-> ls[i].b]]

\* The lines that a load takes.  A query that is not taken whole is not asked.
Taken(x) == IF x.op = "queries" THEN Whole(x.file) ELSE Readable(x.file)

\* What one load brings: arcs, nodes in place of others, and queries.
ArcsIn(x) == IF x.op = "queries" THEN <<>> ELSE ArcsOf(Taken(x))

BringsNodes(x) == x.op # "queries" /\ IsOf(Taken(x), "co")

\* x loads a file of this kind, whatever its problem line announces.
Loads(x, kind) ==
  x.op # "queries" /\ Decided(Taken(x)) > 0 /\ Taken(x)[Decided(Taken(x))].kind = kind

FormatAt(ls) == SelectInSeq(ls, LAMBDA l : l.kind \in Format)

AsQueries(qs, kind) ==
  LET first == IF kind \in {"p2p-zero", "ss-zero"} THEN 0 ELSE 1
      p2p == kind \in {"p2p", "p2p-zero"}
  IN  [k \in DOMAIN qs |->
         [source |-> (qs[k].a + (Wrap - first)) % Wrap,
          target |-> IF p2p THEN (qs[k].b + (Wrap - first)) % Wrap ELSE INF32,
          p2p |-> p2p]]

QueriesOf(ls) ==
  LET i == FormatAt(ls)
  IN  IF i = 0 THEN <<>>
      ELSE AsQueries(Chosen(SubSeq(ls, i + 1, Len(ls)), {"query"}), ls[i].kind)

QueriesIn(x) == IF x.op = "queries" THEN QueriesOf(Taken(x)) ELSE <<>>

-----------------------------------------------------------------------------
\* Between loads the arcs are those of the gr file that was loaded, and the
\* nodes those of the last co file, up to what ended each.  Said where the code
\* keeps the promise that a load discards what it replaces: a second gr file
\* adds to the arcs of the first, and one that announces nothing discards nothing.
GraphIsLoaded ==
  mode = "idle" =>
    LET grs == {k \in DOMAIN loads : Loads(loads[k], "gr")}
        co == SelectLastInSeq(loads, BringsNodes)
    IN  /\ grs = {} => edges = <<>>
        /\ \A k \in DOMAIN loads : grs = {k} => edges = AsArcs(ArcsIn(loads[k]))
        /\ (\A k \in DOMAIN loads : Loads(loads[k], "co") => BringsNodes(loads[k])) =>
             nodes = IF co = 0 THEN <<>> ELSE AsNodes(NodesOf(Taken(loads[co])))

\* load_graph returns true only if nothing of the file was left unread: no
\* line of it is damaged and none but the first problem line is of a problem.
\* Of files whose lines are taken whole: what lies behind a line that is too
\* long is lost, and the result is true all the same.
TrueMeansAllRead ==
  mode = "idle" /\ loads # <<>> /\ Last(loads).op # "queries" /\ retval =>
    LET f == Last(loads).file
        kind == f[Decided(f)].kind
    IN  \/ Readable(f) # f
        \/ Decided(f) = 0
        \/ /\ IsOf(f, kind) /\ \A k \in DOMAIN Rest(f) : Rest(f)[k].kind \notin Problem
           /\ kind = "gr" => ArcsOf(f) = Chosen(Rest(f), {"arc", "bad arc"})
           /\ kind = "co" => NodesOf(f) = Chosen(Rest(f), {"node", "bad node"})

\* What print writes keeps its coordinates but numbers the nodes from 1, and
\* brings its arcs back in no case: nothing that it writes doubles an arc.
PrintedReloads ==
  mode = "idle" /\ loads # <<>> /\ Last(loads).op = "printed" =>
    LET was == Last(loads)
    IN  /\ edges = was.edges
        /\ nodes = [i \in DOMAIN was.nodes |-> [id |-> i, xy |-> was.nodes[i].xy]]

\* The experiments are the queries of all files so far, each up to its first
\* line that is not taken whole, counted from zero whatever the file counts
\* from, targets included.
QueriesAreLoaded ==
  mode = "idle" => queries = FlattenSeq([k \in DOMAIN loads |-> QueriesIn(loads[k])])

\* The metis file is the core's undirected graph up to the names of nodes,
\* whichever way and however often the arcs were loaded: the header counts
\* its nodes and edges, and a row holds exactly the node's neighbours.
MetisIsTheGraph ==
  mode = "idle" =>
    \A lex_order \in LexOrders : \A low \in 0..Len(lex_order) :
      LET M == Metis(edges, lex_order, low)
          ends == UNION {{edges[i].tail, edges[i].head} : i \in DOMAIN edges}
          core == {id \in ends : Included(id, lex_order, low)}
          Joined == {{edges[i].tail, edges[i].head} : i \in DOMAIN edges}
      IN  /\ M.nodes = Cardinality(core)
          /\ M.edges = Cardinality({j \in Joined : j \subseteq core})
          /\ \E name \in Bijection(core, 1..M.nodes) :
               /\ lex_order = <<>> => \A u, v \in core : u < v => name[u] < name[v]
               /\ \A u \in core :
                    M.rows[name[u]] = {name[v] : v \in {x \in core : {u, x} \in Joined}}

\* Every load returns, but for one that meets a query without a source.
LoadReturns == mode # "idle" ~> mode = "idle" \/ Hangs
=============================================================================
