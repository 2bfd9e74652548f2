------------------------------ MODULE Workspace ------------------------------
(***************************************************************************)
(* The files of one task on their way to GitHub: what its agents read and   *)
(* stage, and the branch that collects what its runs commit.  Runs follow   *)
(* each other: a claim locks the task's row for the whole tick.  But nobody *)
(* locks GitHub: other tasks and people move the default branch meanwhile,  *)
(* and people push to the branch of the open pull request.  What the        *)
(* scanner finds a secret in is not staged, so that the same scan at the    *)
(* gate finds nothing.                                                      *)
(***************************************************************************)
EXTENDS Naturals, Sequences, FiniteSets, SequencesExt

CONSTANTS
  Path,
  Present,      \* files of the repository when the task begins
  Worker,       \* who runs the task, one at a time
  MaxFiles,     \* settings.max_files_changed_per_pr
  MaxVersions,  \* bound: contents written, by agents and by others
  MaxTrouble    \* bound: calls to GitHub that fail

ASSUME WorkspaceAssumption ==
  Present \subseteq Path /\ MaxFiles \in Nat /\ MaxVersions \in Nat /\ MaxTrouble \in Nat

VARIABLES
  main,      \* the default branch: path -> version of its content, 0 if absent
  branch,    \* the trees of the commits on the task's branch
  pull,      \* is a pull request open for it?
  worker,    \* the run of each worker
  versions,  \* contents so far
  trouble

workspaceVars == <<main, branch, pull, worker, versions, trouble>>

Tree == [Path -> Nat]
Nothing == [p \in {} |-> 0]
Idle == [pc |-> "idle", staged |-> Nothing, known |-> Nothing, outdated |-> {},
         tip |-> [p \in Path |-> 0], base |-> 0]

WorkspaceInit ==
  /\ main = [p \in Path |-> IF p \in Present THEN 1 ELSE 0] /\ versions = 1
  /\ branch = <<>> /\ pull = FALSE
  /\ worker = [w \in Worker |-> Idle] /\ trouble = 0

NewVersion == versions < MaxVersions /\ versions' = versions + 1
CallFails == trouble < MaxTrouble /\ trouble' = trouble + 1
At(w, pc) == worker[w].pc = pc
Go(w, pc) == worker' = [worker EXCEPT ![w].pc = pc]
With(f, p, v) == [q \in DOMAIN f \cup {p} |-> IF q = p THEN v ELSE f[q]]
Onto(files, tree) == [p \in Path |-> IF p \in DOMAIN files THEN files[p] ELSE tree[p]]

----------------------------------------------------------------------------
(* The agents of a run.                                                     *)

\* execute_task: a fresh WorkspaceFiles, for the one whose claim holds the row.
Begin(w) ==
  /\ \A u \in Worker : At(u, "idle")
  /\ worker' = [worker EXCEPT ![w] = [Idle EXCEPT !.pc = "work"]]
  /\ UNCHANGED <<main, branch, pull, versions, trouble>>

OnBranch(p) == IF branch = <<>> THEN 0 ELSE Last(branch)[p]

\* Mutant: the default branch is read.
ReadDefault(p) == main[p]

\* read_file of what is not staged: the branch, and the default branch if the
\* branch does not have the file.
Content(p) == IF OnBranch(p) # 0 THEN OnBranch(p) ELSE main[p]

Knows(w, p, v) == worker' = [worker EXCEPT ![w].known = With(@, p, v),
                                           ![w].outdated = @ \ {p}]

ReadFile(w, p) ==
  /\ At(w, "work") /\ p \notin DOMAIN worker[w].staged
  /\ Knows(w, p, Content(p))
  /\ UNCHANGED <<main, branch, pull, versions, trouble>>

\* Any exception is taken for a file that the branch does not have (and a file
\* that comes to the branch before the second call is not seen either).
ReadFallsBack(w, p) ==
  /\ At(w, "work") /\ p \notin DOMAIN worker[w].staged /\ CallFails
  /\ worker' = [worker EXCEPT ![w].known = With(@, p, main[p]), ![w].outdated = @ \cup {p}]
  /\ UNCHANGED <<main, branch, pull, versions>>

\* write_file
WriteFile(w, p) ==
  /\ At(w, "work") /\ NewVersion
  /\ worker' = [worker EXCEPT ![w].staged = With(@, p, versions')]
  /\ UNCHANGED <<main, branch, pull, trouble>>

\* The end of the agents' work, a gate that fails, and the limit of _ship.
Leave(w) ==
  /\ At(w, "work")
  /\ worker' = [worker EXCEPT ![w] = Idle]
  /\ UNCHANGED <<main, branch, pull, versions, trouble>>

\* A gate that passes what was staged.
Ship(w) ==
  /\ At(w, "work") /\ DOMAIN worker[w].staged # {}
  /\ Cardinality(DOMAIN worker[w].staged) <= MaxFiles
  /\ Go(w, "tip")
  /\ UNCHANGED <<main, branch, pull, versions, trouble>>

----------------------------------------------------------------------------
(* The calls to GitHub.                                                     *)

\* History: what a run has read and a change of the branches made different.
Visible(p, default, commits) ==
  IF commits # <<>> /\ Last(commits)[p] # 0 THEN Last(commits)[p] ELSE default[p]
Noting(w) ==
  worker[w].outdated
  \cup {p \in DOMAIN worker[w].known : Visible(p, main', branch') # Visible(p, main, branch)}

\* create_branch: the tip of the default branch ...
GetTip(w) ==
  /\ At(w, "tip")
  /\ worker' = [worker EXCEPT ![w].pc = "create", ![w].tip = main]
  /\ UNCHANGED <<main, branch, pull, versions, trouble>>

\* ... and the new ref, refused if the branch exists, which is suppressed.
CreateRef(w) ==
  /\ At(w, "create")
  /\ branch' = IF branch = <<>> THEN <<worker[w].tip>> ELSE branch
  /\ UNCHANGED <<main, pull, versions, trouble>>
  /\ worker' = [u \in Worker |->
       [worker[u] EXCEPT !.pc = IF u = w THEN "head" ELSE @, !.outdated = Noting(u)]]

\* Either call of create_branch may fail, which is suppressed, too.
CreateFails(w) ==
  /\ worker[w].pc \in {"tip", "create"} /\ CallFails /\ Go(w, "head")
  /\ UNCHANGED <<main, branch, pull, versions>>

\* commit_files: the head the new commit is built on.
GetHead(w) ==
  /\ At(w, "head") /\ branch # <<>>
  /\ worker' = [worker EXCEPT ![w].pc = "push", ![w].base = Len(branch)]
  /\ UNCHANGED <<main, branch, pull, versions, trouble>>

\* Mutant: "force": true.
PushForced(w) ==
  /\ At(w, "push")
  /\ branch' = Append(SubSeq(branch, 1, worker[w].base),
                      Onto(worker[w].staged, branch[worker[w].base]))
  /\ UNCHANGED <<main, pull, versions, trouble>>
  /\ worker' = [u \in Worker |->
       [worker[u] EXCEPT !.pc = IF u = w THEN "pull" ELSE @, !.outdated = Noting(u)]]

\* The staged files on the head's tree, and the ref moved if that is a
\* fast-forward.
Push(w) ==
  /\ At(w, "push") /\ worker[w].base = Len(branch)
  /\ branch' = Append(branch, Onto(worker[w].staged, branch[worker[w].base]))
  /\ UNCHANGED <<main, pull, versions, trouble>>
  /\ worker' = [u \in Worker |->
       [worker[u] EXCEPT !.pc = IF u = w THEN "pull" ELSE @, !.outdated = Noting(u)]]

\* GitHub keeps one open pull request per branch.
OpenPull(w) ==
  /\ At(w, "pull") /\ ~pull /\ pull' = TRUE
  /\ worker' = [worker EXCEPT ![w] = Idle]
  /\ UNCHANGED <<main, branch, versions, trouble>>

\* A call is refused and the run raises ...
Refused(w) ==
  /\ \/ At(w, "head") /\ branch = <<>>
     \/ At(w, "push") /\ worker[w].base # Len(branch)
     \/ At(w, "pull") /\ pull
  /\ worker' = [worker EXCEPT ![w] = Idle]
  /\ UNCHANGED <<main, branch, pull, versions, trouble>>

\* ... as it does when one fails.
Fails(w) ==
  /\ worker[w].pc \in {"head", "push", "pull"} /\ CallFails
  /\ worker' = [worker EXCEPT ![w] = Idle]
  /\ UNCHANGED <<main, branch, pull, versions>>

\* A person pushes to the branch of the pull request ...
BranchMoves(p) ==
  /\ NewVersion /\ branch # <<>>
  /\ branch' = Append(branch, [Last(branch) EXCEPT ![p] = versions']) /\ UNCHANGED main
  /\ worker' = [u \in Worker |-> [worker[u] EXCEPT !.outdated = Noting(u)]]
  /\ UNCHANGED <<pull, trouble>>

\* ... or to the default branch, or another task is merged.
MainMoves(p) ==
  /\ NewVersion
  /\ main' = [main EXCEPT ![p] = versions'] /\ UNCHANGED branch
  /\ worker' = [u \in Worker |-> [worker[u] EXCEPT !.outdated = Noting(u)]]
  /\ UNCHANGED <<pull, trouble>>

WorkspaceNext ==
  \/ \E w \in Worker : \/ Begin(w) \/ Leave(w) \/ Ship(w)
                       \/ \E p \in Path : ReadFile(w, p) \/ ReadFallsBack(w, p) \/ WriteFile(w, p)
                       \/ GetTip(w) \/ CreateRef(w) \/ CreateFails(w) \/ GetHead(w) \/ Push(w)
                       \/ OpenPull(w) \/ Refused(w) \/ Fails(w)
  \/ \E p \in Path : BranchMoves(p) \/ MainMoves(p)

WorkspaceSpec == WorkspaceInit /\ [][WorkspaceNext]_workspaceVars

----------------------------------------------------------------------------
\* What is on the branch stays in its history, the commit of an earlier run as
\* well as one that a person pushes between a run's look at the head and its own
\* push: a run only adds to it.
PushesStay == [][branch # <<>> => IsPrefix(branch, branch')]_workspaceVars

\* A push that replaces a file an agent has read replaces what it read, unless
\* the file changed after the read (between the read and the push nothing holds
\* the branches still) or the read was an exception taken for an answer.
NothingUnseenReplaced ==
  [][\A w \in Worker : Push(w) =>
       \A p \in DOMAIN worker[w].staged \cap DOMAIN worker[w].known :
         \/ branch[worker[w].base][p] \in {0, worker[w].known[p]}
         \/ p \in worker[w].outdated]_workspaceVars
=============================================================================
