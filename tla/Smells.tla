------------------------------- MODULE Smells -------------------------------
(***************************************************************************)
(* The search for architectural smells in the stored knowledge graph        *)
(* (orchestration/refactor.py), as GET /projects/{id}/smells asks for it.   *)
(* The graph is that of one file at the top of the repository, where paths  *)
(* and cycles arise: the file defines functions, and these call each other. *)
(* Nodes and edges are read by two queries; a rebuild that commits in       *)
(* between gives every node a new id.                                       *)
(***************************************************************************)
EXTENDS Naturals, Sequences, FiniteSets, SequencesExt

CONSTANTS
  SourceFile,
  Function,
  GodDegree,     \* god_object_threshold: 20
  HubFanIn,      \* hub_fanin_threshold: 15
  ChainLength,   \* deep_chain_threshold: 6
  MaxRebuilds    \* bound: rebuilds of the graph

ASSUME SmellsAssumption ==
  /\ SourceFile \notin Function /\ IsFiniteSet(Function)
  /\ {GodDegree, HubFanIn, ChainLength, MaxRebuilds} \subseteq Nat

VARIABLES
  architecture,  \* graph_edges, as pairs <<source, target>>
  generation,    \* which rebuild wrote them; 0 before the first
  scan,          \* idle, nodes (read), cutting (cycles, in _deep_chains), answered
  seen,          \* generation of the nodes it read
  torn,          \* history: the edges it read are of another generation
  dag,           \* the edges _deep_chains has left
  smells         \* kinds it found

storedGraphVars == <<architecture, generation>>
smellVars == <<storedGraphVars, scan, seen, torn, dag, smells>>

Symbol == Function \cup {SourceFile}
Defines == {SourceFile} \X Function
Calls == Function \X Function

SmellsInit ==
  /\ architecture \in {Defines \cup calls : calls \in SUBSET Calls} /\ generation = 0
  /\ scan = "idle" /\ seen = 0 /\ torn = FALSE /\ dag = {} /\ smells = {}

----------------------------------------------------------------------------
Orders == {p \in SeqOf(Symbol, Cardinality(Symbol)) : p # <<>> /\ IsInjective(p)}
Chains(E) == {p \in Orders : \A i \in 1 .. Len(p) - 1 : <<p[i], p[i + 1]>> \in E}

\* Edges of the cycles through more than one node.
OnCycle(E) == {e \in E : e[1] # e[2] /\ \E p \in Chains(E) : p[1] = e[2] /\ Last(p) = e[1]}
SelfCalls(E) == {e \in E : e[1] = e[2]}

FanIn(E, n) == Cardinality({e \in E : e[2] = n})
FanOut(E, n) == Cardinality({e \in E : e[1] = n})

Rebuild ==
  /\ generation < MaxRebuilds /\ generation' = generation + 1
  /\ UNCHANGED <<architecture, scan, seen, torn, dag, smells>>

\* analyze: the nodes; none, no smells.
ReadNodes ==
  /\ scan = "idle" /\ seen' = generation
  /\ scan' = IF generation = 0 THEN "answered" ELSE "nodes"
  /\ UNCHANGED <<storedGraphVars, torn, dag, smells>>

\* ... the edges between them, god objects, hub files and cycles.
ReadEdges ==
  LET E == IF seen = generation THEN architecture ELSE {}  IN
  /\ scan = "nodes" /\ scan' = "cutting"
  /\ dag' = E /\ torn' = (seen # generation)
  /\ smells' = {kind \in {"god_object", "hub_file", "cycle"} :
       \/ kind = "god_object" /\ FanIn(E, SourceFile) + FanOut(E, SourceFile) >= GodDegree
       \/ kind = "hub_file" /\ FanIn(E, SourceFile) >= HubFanIn
       \/ kind = "cycle" /\ OnCycle(E) # {}}
  /\ UNCHANGED <<storedGraphVars, seen>>

\* _deep_chains: the first edge of the cycle networkx lists first; which one that
\* is, and where it starts, is left open.
Cut(e) ==
  /\ scan = "cutting" /\ SelfCalls(dag) = {} /\ e \in OnCycle(dag)
  /\ dag' = dag \ {e}
  /\ UNCHANGED <<storedGraphVars, scan, seen, torn, smells>>

\* The listing begins with the functions that call themselves: the loop ends at
\* once, and the longest path of a graph with a cycle is an exception.
NoLongestPath ==
  /\ scan = "cutting" /\ SelfCalls(dag) # {} /\ scan' = "answered"
  /\ UNCHANGED <<storedGraphVars, seen, torn, dag, smells>>

\* Mutant: a chain has to be longer than the threshold.
LongestPathBeyond ==
  /\ scan = "cutting" /\ SelfCalls(dag) \cup OnCycle(dag) = {} /\ scan' = "answered"
  /\ smells' = smells \cup IF \E p \in Chains(dag) : Len(p) > ChainLength
                           THEN {"deep_chain"} ELSE {}
  /\ UNCHANGED <<storedGraphVars, seen, torn, dag>>

LongestPath ==
  /\ scan = "cutting" /\ SelfCalls(dag) \cup OnCycle(dag) = {} /\ scan' = "answered"
  /\ smells' = smells \cup IF \E p \in Chains(dag) : Len(p) >= ChainLength
                           THEN {"deep_chain"} ELSE {}
  /\ UNCHANGED <<storedGraphVars, seen, torn, dag>>

SmellsReported ==
  /\ scan = "answered" /\ scan' = "idle"
  /\ seen' = 0 /\ torn' = FALSE /\ dag' = {} /\ smells' = {}
  /\ UNCHANGED storedGraphVars

SmellsNext ==
  \/ Rebuild \/ ReadNodes \/ ReadEdges \/ NoLongestPath \/ LongestPath \/ SmellsReported
  \/ \E e \in architecture : Cut(e)

SmellsSpec == SmellsInit /\ [][SmellsNext]_smellVars

----------------------------------------------------------------------------
\* A graph that is called clean is: without a cycle and a deep chain in the answer
\* there is no chain of the forbidden length, unless a rebuild came between the
\* two queries or a function calls itself.  Whatever the cuts leave of a cyclic
\* graph, a chain that is reported is one of the graph; and a cycle is reported
\* exactly when two functions reach each other.
CleanBillIsTrue ==
  scan = "answered" /\ seen > 0 /\ ~torn =>
    LET long == \E p \in Chains(architecture) : Len(p) >= ChainLength  IN
    /\ "deep_chain" \in smells => long
    /\ smells \cap {"cycle", "deep_chain"} = {} /\ long => SelfCalls(architecture) # {}
    /\ "cycle" \in smells <=> \E f, g \in Function :
         f # g /\ \E p, q \in Chains(architecture) :
           p[1] = f /\ Last(p) = g /\ q[1] = g /\ Last(q) = f
=============================================================================
