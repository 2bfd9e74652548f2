----------------------------- MODULE MCRecords -----------------------------
(***************************************************************************)
(* The components around the pipeline that keep rows of their own and share *)
(* no state with each other, in one instance: a behaviour is one of a       *)
(* single component, picked at the start, while the others stay as they     *)
(* are.                                                                     *)
(***************************************************************************)
EXTENDS Accounts, Prompts, RepoSwarm, KnowledgeGraph, Memories, Workspace, Smells, TLC

CONSTANTS
  b1, b2, c1, c2, c3, x1, x2,    \* Accounts
  r1, r2, g1, g2, g3, fe, be,    \* Prompts, RepoSwarm
  j1, a1, a2,                    \* Memories
  k1, k2, f1, f2,                \* Workspace
  sf, u1, u2, u3                 \* Smells

VARIABLE part

vars == <<part, accountsVars, promptVars, swarmVars, graphVars, memoryVars, workspaceVars,
          smellVars>>

----------------------------------------------------------------------------
(* The inputs.                                                             *)

\* Two requests of one tab and one of another.
TabsOf == c1 :> b1 @@ c2 :> b1 @@ c3 :> b2

Ranks == g1 :> 1 @@ g2 :> 2 @@ g3 :> 3

File(path, dirs, lang) ==
  [path |-> path, dirs |-> dirs, skipped |-> FALSE, lang |-> lang, parses |-> TRUE,
   funcs |-> {}, calls |-> {}, routes |-> {}, classes |-> {}, bases |-> {},
   tables |-> {}, imports |-> {}]

\* Calls of a function by itself, of one no file defines, and by two ways.
ApiFile ==
  [File("api", <<"app">>, "py") EXCEPT
     !.funcs = {"get", "load", "help"}, !.routes = {<<"get", "r">>}, !.imports = {"lib"},
     !.calls = {<<"get", "load">>, <<"load", "help">>, <<"help", "help">>,
                <<"get", "print">>, <<"get", "help">>}]

ModelFile ==
  [File("m", <<"app", "db">>, "py") EXCEPT
     !.classes = {"User"}, !.bases = {<<"User", "Base">>}, !.tables = {<<"User", "users">>},
     !.imports = {"lib"}]

UiFile ==
  [File("ui", <<>>, "js") EXCEPT
     !.funcs = {"view"}, !.imports = {"react"}, !.calls = {<<"view", "view">>}]

Codebases ==
  {{ApiFile, ModelFile, [File("old", <<"node_modules">>, "js") EXCEPT !.skipped = TRUE]},
   {ApiFile, [ModelFile EXCEPT !.parses = FALSE], UiFile}}

----------------------------------------------------------------------------
Init ==
  /\ part \in {"accounts", "prompts", "swarm", "graph", "memories", "workspace", "smells"}
  /\ AccountsInit /\ PromptsInit /\ SwarmInit /\ GraphInit /\ MemoriesInit /\ WorkspaceInit
  /\ SmellsInit /\ (part # "smells" => architecture = Defines)

FirstThree == <<accountsVars, promptVars, swarmVars>>
Middle == <<graphVars, memoryVars>>
LastTwo == <<workspaceVars, smellVars>>

Next ==
  /\ UNCHANGED part
  /\ \/ part = "accounts" /\ AccountsNext /\ UNCHANGED <<promptVars, swarmVars, Middle, LastTwo>>
     \/ part = "prompts" /\ PromptsNext /\ UNCHANGED <<accountsVars, swarmVars, Middle, LastTwo>>
     \/ part = "swarm" /\ SwarmNext /\ UNCHANGED <<accountsVars, promptVars, Middle, LastTwo>>
     \/ part = "graph" /\ GraphNext /\ UNCHANGED <<FirstThree, memoryVars, LastTwo>>
     \/ part = "memories" /\ MemoriesNext /\ UNCHANGED <<FirstThree, graphVars, LastTwo>>
     \/ part = "workspace" /\ WorkspaceNext /\ UNCHANGED <<FirstThree, Middle, smellVars>>
     \/ part = "smells" /\ SmellsNext /\ UNCHANGED <<FirstThree, Middle, workspaceVars>>

Spec == Init /\ [][Next]_vars

\* Passes, exchanges, the requests of the first tab, and workers are told apart by
\* nothing.
Alike == Permutations({a1, a2}) \cup Permutations({x1, x2}) \cup Permutations({c1, c2})
         \cup Permutations({k1, k2})
=============================================================================
