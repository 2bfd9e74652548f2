--------------------------- MODULE KnowledgeGraph ---------------------------
(***************************************************************************)
(* The knowledge graph of a project (orchestration/graph.py): what the      *)
(* extractor makes of a codebase, the rebuild that replaces the stored      *)
(* graph, and impact_analysis, whose three queries see what is committed    *)
(* when each of them runs.  A rebuild gives every row a new id, so rows of  *)
(* two generations never match.                                             *)
(***************************************************************************)
EXTENDS Naturals, FiniteSets, Sequences

CONSTANTS
  Codebase,     \* states of the repository: sets of files
  MaxDepth,     \* max_depth of a request
  Many,         \* 10: how many impacted nodes raise the risk
  MaxBuilds     \* bound: rebuilds committed

ASSUME GraphAssumption == MaxDepth \in Nat /\ Many \in Nat /\ MaxBuilds \in Nat

----------------------------------------------------------------------------
(* The extractor.  A file is a record of path, dirs (its directory chain),  *)
(* skipped (below a directory of _SKIP_DIRS), lang, parses, funcs, calls    *)
(* (pairs of a function and a name it calls), routes (pairs of a function   *)
(* and a route), classes, bases, tables (pairs of a class and a name) and   *)
(* imports (roots of the absolute ones).                                    *)

Node(kind, path, name) == <<kind, path, name>>
FileNode(f) == Node("file", f.path, "")
ModuleNode(f, i) == Node("module", f.dirs[i], "")
Func(f, name) == Node("function", f.path, name)
Class(f, name) == Node("class", f.path, name)
External(name) == Node("external", "", name)

Read(f) == f.lang = "js" \/ (f.lang = "py" /\ f.parses)
IsPython(f) == f.lang = "py" /\ f.parses

\* Nodes one file contributes.
NodesOf(f) ==
  {FileNode(f)} \cup {ModuleNode(f, i) : i \in DOMAIN f.dirs}
  \cup IF ~Read(f) THEN {} ELSE
         {Func(f, n) : n \in f.funcs} \cup {Class(f, n) : n \in f.classes}
         \cup {External(n) : n \in f.imports}
         \cup IF ~IsPython(f) THEN {} ELSE
                {Node("api_route", "", p[2]) : p \in f.routes}
                \cup {Node("db_table", "", p[2]) : p \in f.tables}

\* Directory chain: CONTAINS from each directory to the next, and to the file.
ChainOf(f) ==
  {<<ModuleNode(f, i), ModuleNode(f, i + 1)>> : i \in 1 .. Len(f.dirs) - 1}
  \cup IF f.dirs = <<>> THEN {} ELSE {<<ModuleNode(f, Len(f.dirs)), FileNode(f)>>}

\* Edges <<source, target>>, their kinds left out.  A base class is looked for
\* under a key without a path, which no class node has.
EdgesOf(f) ==
  ChainOf(f)
  \cup IF ~Read(f) THEN {} ELSE
         {<<FileNode(f), Func(f, n)>> : n \in f.funcs}
         \cup {<<FileNode(f), Class(f, n)>> : n \in f.classes}
         \cup {<<FileNode(f), External(n)>> : n \in f.imports}
         \cup IF ~IsPython(f) THEN {} ELSE
                {<<Func(f, p[1]), Func(f, p[2])>> : p \in f.calls}
                \cup {<<Func(f, p[1]), Node("api_route", "", p[2])>> : p \in f.routes}
                \cup {<<Class(f, p[1]), Node("db_table", "", p[2])>> : p \in f.tables}
                \cup {<<Class(f, p[1]), Node("class", "", p[2])>> : p \in f.bases}

Seen(files) == {f \in files : ~f.skipped}
Nodes(files) == UNION {NodesOf(f) : f \in Seen(files)}

\* rebuild keeps an edge only between two nodes.
Edges(files) == {e \in UNION {EdgesOf(f) : f \in Seen(files)} :
                   e[1] \in Nodes(files) /\ e[2] \in Nodes(files)}

----------------------------------------------------------------------------
VARIABLES
  build,     \* generation of the stored graph; 0 before the first
  nodes,     \* graph_nodes
  edges,     \* graph_edges
  rebuilds,  \* open rebuilds: the generation they replace, and the files
  impact,    \* where the open impact_analysis is
  target,    \* its node, and the generation of the row it read
  reverse,   \* the edges it read, as far as their ids match
  depth, frontier,
  depth_of,  \* hop count of a node, 0 for one that was not hit
  risk       \* its answer

storedVars == <<build, nodes, edges, rebuilds>>
queryVars == <<impact, target, reverse, depth, frontier, depth_of, risk>>
graphVars == <<storedVars, queryVars>>

AllNodes == UNION {Nodes(files) : files \in Codebase}
NoTarget == [node |-> Node("none", "", ""), build |-> 0]
Unhit == [n \in AllNodes |-> 0]
Hit == {n \in AllNodes : depth_of[n] # 0}

GraphInit ==
  /\ build = 0 /\ nodes = {} /\ edges = {} /\ rebuilds = {}
  /\ impact = "idle" /\ target = NoTarget /\ reverse = {}
  /\ depth = 0 /\ frontier = {} /\ depth_of = Unhit /\ risk = "none"

\* rebuild: extract, delete what is stored, insert.
RebuildBegin(files) ==
  /\ build < MaxBuilds
  /\ rebuilds' = rebuilds \cup {[on |-> build, files |-> files]}
  /\ UNCHANGED <<build, nodes, edges, queryVars>>

\* The delete does not see the rows another rebuild committed meanwhile; the
\* unique key of the nodes refuses the insert.
RebuildCommit(r) ==
  /\ r \in rebuilds /\ r.on = build /\ build < MaxBuilds
  /\ build' = build + 1 /\ rebuilds' = rebuilds \ {r}
  /\ nodes' = Nodes(r.files) /\ edges' = Edges(r.files)
  /\ UNCHANGED queryVars

RebuildFails(r) ==
  /\ r \in rebuilds /\ rebuilds' = rebuilds \ {r}
  /\ UNCHANGED <<build, nodes, edges, queryVars>>

\* impact_analysis: the node.
ImpactAsk(n) ==
  /\ impact = "idle"
  /\ depth' = 0 /\ frontier' = {n} /\ depth_of' = Unhit /\ reverse' = {}
  /\ IF n \in nodes
     THEN impact' = "found" /\ target' = [node |-> n, build |-> build] /\ risk' = "none"
     ELSE impact' = "answered" /\ target' = NoTarget /\ risk' = "unknown"
  /\ UNCHANGED storedVars

\* ... the edges of the project.
ImpactEdges ==
  /\ impact = "found" /\ impact' = "walking"
  /\ reverse' = IF target.build = build THEN edges ELSE {}
  /\ UNCHANGED <<storedVars, target, depth, frontier, depth_of, risk>>

Dependents(S) == {e[1] : e \in {x \in reverse : x[2] \in S}}

\* Mutant: a node that is reached again takes the later depth.
ImpactHopAgain ==
  LET next == Dependents(frontier) \ {target.node}  IN
  /\ impact = "walking" /\ frontier # {} /\ depth < MaxDepth
  /\ depth' = depth + 1 /\ frontier' = next
  /\ depth_of' = [n \in AllNodes |-> IF n \in next THEN depth + 1 ELSE depth_of[n]]
  /\ UNCHANGED <<storedVars, impact, target, reverse, risk>>

\* One level of the breadth-first walk.
ImpactHop ==
  LET next == Dependents(frontier) \ (Hit \cup {target.node})  IN
  /\ impact = "walking" /\ frontier # {} /\ depth < MaxDepth
  /\ depth' = depth + 1 /\ frontier' = next
  /\ depth_of' = [n \in AllNodes |-> IF n \in next THEN depth + 1 ELSE depth_of[n]]
  /\ UNCHANGED <<storedVars, impact, target, reverse, risk>>

Critical(S) == {n \in S : n[1] \in {"api_route", "db_table"}}
Risk(S) == IF Critical(S) # {} /\ Cardinality(S) >= Many THEN "high"
           ELSE IF Critical(S) # {} \/ Cardinality(S) >= Many THEN "medium" ELSE "low"

\* Mutant: an empty walk falls through to the risk rules.
ImpactAnswerLow ==
  /\ impact = "walking" /\ (frontier = {} \/ depth = MaxDepth)
  /\ impact' = "answered"
  /\ risk' = Risk(IF target.build = build THEN Hit ELSE {})
  /\ UNCHANGED <<storedVars, target, reverse, depth, frontier, depth_of>>

\* ... the rows of the nodes that were hit, and the risk.
ImpactAnswer ==
  /\ impact = "walking" /\ (frontier = {} \/ depth = MaxDepth)
  /\ impact' = "answered"
  /\ risk' = IF Hit = {} THEN "isolated" ELSE Risk(IF target.build = build THEN Hit ELSE {})
  /\ UNCHANGED <<storedVars, target, reverse, depth, frontier, depth_of>>

ImpactDone ==
  /\ impact = "answered" /\ impact' = "idle"
  /\ UNCHANGED <<storedVars, target, reverse, depth, frontier, depth_of, risk>>

GraphNext ==
  \/ \E files \in Codebase : RebuildBegin(files)
  \/ \E r \in rebuilds : RebuildCommit(r) \/ RebuildFails(r)
  \/ \E n \in AllNodes : ImpactAsk(n)
  \/ ImpactEdges \/ ImpactHop \/ ImpactAnswer \/ ImpactDone

GraphSpec == GraphInit /\ [][GraphNext]_graphVars

----------------------------------------------------------------------------
\* The depths of the walk are distances: every hit node depends on one that is
\* one hop nearer, and every dependent of a node that was expanded is hit, no
\* later than one hop after it.  Together they fix depth_of.
DepthsAreDistances ==
  impact \in {"walking", "answered"} /\ target # NoTarget =>
    LET from(n) == IF n = target.node THEN 0 ELSE depth_of[n]
        placed  == Hit \cup {target.node}  IN
    /\ depth_of[target.node] = 0
    /\ \A n \in Hit : /\ from(n) <= depth
                      /\ \E m \in placed : <<n, m>> \in reverse /\ from(n) = from(m) + 1
    /\ \A e \in reverse : e[2] \in placed /\ from(e[2]) < depth =>
         e[1] \in placed /\ from(e[1]) <= from(e[2]) + 1

\* An answer about the graph that is still stored is right: "isolated" only if
\* nothing depends on the node, any level of risk only if something does.
RiskIsRight ==
  impact = "answered" /\ target.build = build /\ build > 0 /\ MaxDepth > 0 =>
    (risk = "isolated" <=> \A e \in edges : e[2] = target.node => e[1] = target.node)
=============================================================================
