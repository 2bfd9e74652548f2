---------------------------- MODULE TaskPipeline ----------------------------
(***************************************************************************)
(* The execution core of RiMo for one project: the worker loop             *)
(* (orchestration/worker.py), one orchestrator tick (tick, next_task,      *)
(* execute_task, plan_project, _ship, _maybe_merge of                      *)
(* orchestration/orchestrator.py) and the API handlers that write the same *)
(* rows (api/projects.py, api/resources.py).                               *)
(*                                                                         *)
(* What an action reads and writes follows db/session.py: a tick is ONE    *)
(* database transaction that lasts for minutes.  project, task and pr hold *)
(* committed rows only; what a session has written and not committed is in *)
(* its record of sess, and everybody else still sees the committed row.    *)
(* An UPDATE that was flushed keeps its row locked until the session ends. *)
(* GitHub is not part of the transaction: gh changes when a call is made   *)
(* and nothing ever undoes it.                                             *)
(***************************************************************************)
EXTENDS Naturals, FiniteSets

CONSTANTS
  Work,                \* ordinary tasks of the project
  Planning,            \* the tasks plan_project creates for itself
  Deps,                \* what its plan or its creator says a task depends on
  Rank,                \* ORDER BY priority, complexity, created_at
  Tick,                \* _advance coroutines of the worker
  Request,             \* POST /projects/{id}/plan requests of the API
  Number,              \* pull request numbers
  LocalNumber,         \* _local_pr_number
  GitHub,              \* is a GitHub App configured and a repository linked?
  MergeNeedsApproval,  \* ActionGuard.evaluate_merge(...).requires_approval
  MaxAttempts,         \* 3 in the code
  MaxFaults,           \* bound: exceptions, lost calls, crashes
  MaxEdits,            \* bound: PATCH requests
  None

Task == Work \cup Planning
Session == Tick \cup Request

ASSUME ConstantsAssumption ==
  /\ Work \cap Planning = {} /\ Tick \cap Request = {}
  /\ Deps \in [Task -> SUBSET Work] /\ \A p \in Planning : Deps[p] = {}
  /\ Rank \in [Task -> Nat]
  /\ Number \subseteq Nat \ {0} /\ LocalNumber \in [Task -> Number]
  /\ GitHub \in BOOLEAN /\ MergeNeedsApproval \in BOOLEAN
  /\ MaxAttempts \in Nat \ {0} /\ MaxFaults \in Nat /\ MaxEdits \in Nat
  /\ None \notin Task /\ None \notin Number

VARIABLES
  project,  \* committed row of the project; is _analyze_repo still running?
  task,     \* committed rows of its tasks
  depends,  \* their depends_on column
  pr,       \* committed rows of its pull requests, each with its approval
  gh,       \* pull requests as GitHub knows them
  sess,     \* open sessions: ticks of the worker and planning requests
  worker,   \* the loop of run_forever and the ticks its gather waits for
  faults,   \* exceptions, lost calls and crashes so far
  edits     \* PATCH requests so far

vars == <<project, task, depends, pr, gh, sess, worker, faults, edits>>

ProjectStatus == {"draft", "analyzing", "active", "paused", "blocked", "archived"}
TaskStatus == {"backlog", "ready", "in_progress", "in_review", "blocked",
               "done", "cancelled", "failed"}

Row == [status : TaskStatus \cup {"absent"}, attempts : Nat,
        lease : {"none", "live", "expired"}]
Absent == [status |-> "absent", attempts |-> 0, lease |-> "none"]
NewTask(status) == [status |-> status, attempts |-> 0, lease |-> "none"]

PrRow == [task : Task \cup {None}, status : {"none", "open", "merged"},
          approval : {"none", "pending", "approved", "rejected"}]
NoPr == [task |-> None, status |-> "none", approval |-> "none"]

Remote == [head : Task \cup {None}, state : {"none", "open", "merged"}]
NoRemote == [head |-> None, state |-> "none"]

(***************************************************************************)
(* A session: where it is, the task it picked and the row it will write,   *)
(* the pull request it inserted, the project status it set ("none" when    *)
(* the attribute is unchanged), the tasks it created and those of them     *)
(* whose depends_on it has set.                                            *)
(***************************************************************************)
Stage == {"idle", "opened", "picking", "picked", "working", "shipping",
          "shipped", "learning", "planning", "settled"}
SessionRow == [pc : Stage, task : Task \cup {None}, row : Row,
               number : Number \cup {None}, pr : PrRow,
               proj : ProjectStatus \cup {"none"},
               new : SUBSET Work, linked : SUBSET Work]
Idle == [pc |-> "idle", task |-> None, row |-> Absent, number |-> None,
         pr |-> NoPr, proj |-> "none", new |-> {}, linked |-> {}]

\* Stages in which the session has flushed a write to the row of its task.
Writing == {"working", "shipping", "shipped", "learning", "planning", "settled"}
Writes(s, t) == sess[s].task = t /\ sess[s].pc \in Writing
Locked(t) == \E s \in Session : Writes(s, t)

Exists(t) == task[t].status # "absent"
\* Identifiers that no committed row and no open session uses.
Fresh(t) == ~Exists(t) /\ \A s \in Session : t # sess[s].task /\ t \notin sess[s].new

Init ==
  /\ project \in {[status |-> "draft", running |-> FALSE, analyzing |-> FALSE],
                  [status |-> "analyzing", running |-> FALSE, analyzing |-> TRUE]}
  /\ task = [t \in Task |-> Absent]
  /\ depends = [t \in Task |-> {}]
  /\ pr = [n \in Number |-> NoPr]
  /\ gh = [n \in Number |-> NoRemote]
  /\ sess = [s \in Session |-> Idle]
  /\ worker = [pc |-> "reclaim", waits |-> {}]
  /\ faults = 0 /\ edits = 0

Fault == faults < MaxFaults /\ faults' = faults + 1
Edit == edits < MaxEdits /\ edits' = edits + 1

----------------------------------------------------------------------------
(* The loop of the worker.                                                 *)

\* Mutant: the row is reset as a whole, retry counter included.
ReclaimAsNew ==
  LET expired == {t \in Task : task[t].status = "in_progress" /\ task[t].lease = "expired"}
  IN  /\ worker.pc = "reclaim"
      /\ task' = [t \in Task |-> IF t \in expired THEN NewTask("ready") ELSE task[t]]
      /\ worker' = [worker EXCEPT !.pc = "list"]
      /\ UNCHANGED <<project, depends, pr, gh, sess, faults, edits>>

\* Mutant: the comparison with the present is the wrong way round.
ReclaimLive ==
  LET live == {t \in Task : task[t].status = "in_progress" /\ task[t].lease = "live"}
  IN  /\ worker.pc = "reclaim"
      /\ \A t \in live : ~Locked(t)
      /\ task' = [t \in Task |-> IF t \in live
                                 THEN [task[t] EXCEPT !.status = "ready", !.lease = "none"]
                                 ELSE task[t]]
      /\ worker' = [worker EXCEPT !.pc = "list"]
      /\ UNCHANGED <<project, depends, pr, gh, sess, faults, edits>>

\* _reclaim_expired_leases: one UPDATE; it waits for the rows that are locked.
ReclaimExpired ==
  LET expired == {t \in Task : task[t].status = "in_progress" /\ task[t].lease = "expired"}
  IN  /\ worker.pc = "reclaim"
      /\ \A t \in expired : ~Locked(t)
      /\ task' = [t \in Task |-> IF t \in expired
                                 THEN [task[t] EXCEPT !.status = "ready", !.lease = "none"]
                                 ELSE task[t]]
      /\ worker' = [worker EXCEPT !.pc = "list"]
      /\ UNCHANGED <<project, depends, pr, gh, sess, faults, edits>>

\* _running_project_ids, and one _advance for the project if it is listed.
ListProject ==
  /\ worker.pc = "list"
  /\ \/ /\ project.running /\ project.status = "active"
        /\ \E a \in Tick :
             /\ sess[a].pc = "idle"
             /\ sess' = [sess EXCEPT ![a].pc = "opened"]
             /\ worker' = [pc |-> "gather", waits |-> {a}]
     \/ /\ ~(project.running /\ project.status = "active")
        /\ worker' = [worker EXCEPT !.pc = "reclaim"]
        /\ UNCHANGED sess
  /\ UNCHANGED <<project, task, depends, pr, gh, faults, edits>>

\* asyncio.gather returns: every coroutine it waits for has finished.
GatherDone ==
  /\ worker.pc = "gather"
  /\ \A a \in worker.waits : sess[a].pc = "idle"
  /\ worker' = [worker EXCEPT !.pc = "reclaim"]
  /\ UNCHANGED <<project, task, depends, pr, gh, sess, faults, edits>>

\* The _advance of another project raises: gather re-raises at once, the
\* handler logs it, and the loop goes on while this project's tick still runs.
GatherAborted ==
  /\ worker.pc = "gather"
  /\ Fault
  /\ worker' = [worker EXCEPT !.pc = "reclaim"]
  /\ UNCHANGED <<project, task, depends, pr, gh, sess, edits>>

\* The worker process dies and is started again; its transactions roll back.
CrashRestart ==
  /\ Fault
  /\ sess' = [s \in Session |-> IF s \in Tick THEN Idle ELSE sess[s]]
  /\ worker' = [pc |-> "reclaim", waits |-> {}]
  /\ UNCHANGED <<project, task, depends, pr, gh, edits>>

\* Time passes; only the lease of a committed IN_PROGRESS row is ever read.
LeaseExpires(t) ==
  /\ task[t].status = "in_progress" /\ task[t].lease = "live"
  /\ task' = [task EXCEPT ![t].lease = "expired"]
  /\ UNCHANGED <<project, depends, pr, gh, sess, worker, faults, edits>>

----------------------------------------------------------------------------
(* One tick.                                                               *)

\* _advance loads the project and returns unless it is ACTIVE.
OpenSession(a) ==
  /\ sess[a].pc = "opened"
  /\ sess' = IF project.status = "active" THEN [sess EXCEPT ![a].pc = "picking"]
                                          ELSE [sess EXCEPT ![a] = Idle]
  /\ UNCHANGED <<project, task, depends, pr, gh, worker, faults, edits>>

\* _budget_exceeded: the spend on the ledger has reached the cap.
BudgetHalt(a) ==
  /\ sess[a].pc = "picking"
  /\ sess' = [sess EXCEPT ![a] = [@ EXCEPT !.pc = "settled", !.proj = "paused"]]
  /\ UNCHANGED <<project, task, depends, pr, gh, worker, faults, edits>>

\* Mutant: a dependency in review counts as met.
DependenciesReviewed(t) ==
  \A d \in depends[t] : task[d].status \in {"absent", "in_review", "done"}

\* _dependencies_met: the query returns the dependencies that exist.
DependenciesMet(t) == \A d \in depends[t] : task[d].status \in {"absent", "done"}
\* Mutant: every task that is not running is a candidate.
EligibleUnlessRunning(t) == task[t].status \notin {"absent", "in_progress"} /\ DependenciesMet(t)
Eligible(t) == task[t].status = "ready" /\ DependenciesMet(t)

\* Mutant: only the first READY task is looked at; the tick is idle if it waits
\* for a dependency.
PickFirstReady(a, t) ==
  /\ sess[a].pc = "picking" /\ task[t].status = "ready"
  /\ \A u \in Task : task[u].status = "ready" => Rank[t] <= Rank[u]
  /\ sess' = [sess EXCEPT ![a] =
                IF Eligible(t) THEN [@ EXCEPT !.pc = "picked", !.task = t, !.row = task[t]]
                               ELSE [@ EXCEPT !.pc = "settled"]]
  /\ UNCHANGED <<project, task, depends, pr, gh, worker, faults, edits>>

\* next_task found a task: its row, as loaded here, is what the tick works on.
PickTask(a, t) ==
  /\ sess[a].pc = "picking"
  /\ Eligible(t) /\ \A u \in Task : Eligible(u) => Rank[t] <= Rank[u]
  /\ sess' = [sess EXCEPT ![a] = [@ EXCEPT !.pc = "picked", !.task = t, !.row = task[t]]]
  /\ UNCHANGED <<project, task, depends, pr, gh, worker, faults, edits>>

Pending == \E t \in Task : task[t].status \in {"ready", "in_progress"}

\* No task is eligible but some task is READY or IN_PROGRESS: "idle".  The
\* second disjunct is the bound on planning cycles.
PickNothing(a) ==
  /\ sess[a].pc = "picking"
  /\ ~\E t \in Task : Eligible(t)
  /\ Pending \/ ~\E p \in Planning : Fresh(p)
  /\ sess' = [sess EXCEPT ![a].pc = "settled"]
  /\ UNCHANGED <<project, task, depends, pr, gh, worker, faults, edits>>

\* execute_task up to its first flush: the UPDATE waits for the row lock and
\* then writes what was computed from the row as it was when it was picked.
Claim(a) ==
  /\ sess[a].pc = "picked" /\ ~Locked(sess[a].task)
  /\ sess' = [sess EXCEPT ![a] = [@ EXCEPT !.pc = "working",
                !.row = [status |-> "in_progress", lease |-> "live",
                         attempts |-> sess[a].row.attempts + 1]]]
  /\ UNCHANGED <<project, task, depends, pr, gh, worker, faults, edits>>

\* Mutant: off by one.
RetryEarly(attempts) == IF attempts + 1 < MaxAttempts THEN "ready" ELSE "failed"
Retry(attempts) == IF attempts < MaxAttempts THEN "ready" ELSE "failed"

\* The build is empty, a secret is found, the quality gate says no, or the
\* change has too many files: _fail_task and the re-queue of execute_task.
WorkFails(a) ==
  /\ sess[a].pc = "working"
  /\ sess' = [sess EXCEPT ![a] =
                [@ EXCEPT !.pc = "settled", !.row.status = Retry(sess[a].row.attempts)]]
  /\ UNCHANGED <<project, task, depends, pr, gh, worker, faults, edits>>

\* Architecture, build, QA, review and security all passed.
WorkPasses(a) ==
  /\ sess[a].pc = "working"
  /\ sess' = [sess EXCEPT ![a].pc = "shipping"]
  /\ UNCHANGED <<project, task, depends, pr, gh, worker, faults, edits>>

----------------------------------------------------------------------------
(* Shipping and merging.                                                   *)

\* What _advance does with an exception of the tick: the project becomes
\* BLOCKED and the session still commits whatever the tick had written.
Blocked(s) == [s EXCEPT !.pc = "settled", !.proj = "blocked"]

\* What a failed flush does: the transaction is gone and the exception leaves
\* _advance, so a gather that waits for it ends.
Discard(a) ==
  /\ sess' = [sess EXCEPT ![a] = Idle]
  /\ worker' = IF worker.pc = "gather" /\ a \in worker.waits
               THEN [worker EXCEPT !.pc = "reclaim"] ELSE worker

OpenOnGitHub(t) == \E n \in Number : gh[n] = [head |-> t, state |-> "open"]
\* GitHub numbers its pull requests consecutively.
NextNumber(n) == gh[n] = NoRemote /\ \A m \in Number : gh[m] = NoRemote => n <= m

OpenPr(t) == [task |-> t, status |-> "open", approval |-> "none"]
Shipped(s, n) == [s EXCEPT !.pc = "shipped", !.number = n, !.pr = OpenPr(s.task)]

\* _ship: branch and commit, open the pull request, insert its row.  The
\* exception of open_pull_request, and one raised after GitHub has opened it,
\* reach _advance.
ShipToGitHub(a) ==
  LET t == sess[a].task
  IN  /\ GitHub /\ sess[a].pc = "shipping"
      /\ \/ /\ OpenOnGitHub(t)
            /\ sess' = [sess EXCEPT ![a] = Blocked(@)]
            /\ UNCHANGED <<gh, faults>>
         \/ /\ ~OpenOnGitHub(t)
            /\ \E n \in Number :
                 /\ NextNumber(n)
                 /\ gh' = [gh EXCEPT ![n] = [head |-> t, state |-> "open"]]
                 /\ \/ /\ sess' = [sess EXCEPT ![a] = Shipped(@, n)]
                       /\ UNCHANGED faults
                    \/ Fault /\ sess' = [sess EXCEPT ![a] = Blocked(@)]
      /\ UNCHANGED <<project, task, depends, pr, worker, edits>>

\* Mutant: an upsert takes the place of the INSERT.
ShipUpsert(a) ==
  LET n == LocalNumber[sess[a].task]
  IN  /\ ~GitHub /\ sess[a].pc = "shipping"
      /\ sess' = [sess EXCEPT ![a] = Shipped(@, n)]
      /\ UNCHANGED <<project, task, depends, pr, gh, worker, faults, edits>>

\* _ship without GitHub: the number is computed from the id of the task, so
\* uq_pr_project_number rejects the row of a second pull request.  The INSERT
\* waits for a session that has inserted the same number.
ShipLocally(a) ==
  LET n == LocalNumber[sess[a].task]
  IN  /\ ~GitHub /\ sess[a].pc = "shipping"
      /\ \A b \in Session : sess[b].number # n
      /\ \/ /\ pr[n] = NoPr
            /\ sess' = [sess EXCEPT ![a] = Shipped(@, n)]
            /\ UNCHANGED worker
         \/ pr[n] # NoPr /\ Discard(a)
      /\ UNCHANGED <<project, task, depends, pr, gh, faults, edits>>

\* Mutant: the verdict of the guard is ignored.
MergeUnasked(a) ==
  /\ sess[a].pc = "shipped"
  /\ gh' = IF GitHub THEN [gh EXCEPT ![sess[a].number].state = "merged"] ELSE gh
  /\ sess' = [sess EXCEPT ![a] = [@ EXCEPT !.pc = "learning", !.pr.status = "merged"]]
  /\ UNCHANGED <<project, task, depends, pr, worker, faults, edits>>

\* _maybe_merge: ask for an approval, or merge now.  GitHub may merge and the
\* answer be lost; the exception then reaches _advance.
MaybeMerge(a) ==
  LET n == sess[a].number
      merged == [sess EXCEPT ![a] = [@ EXCEPT !.pc = "learning", !.pr.status = "merged"]]
  IN  /\ sess[a].pc = "shipped"
      /\ \/ /\ MergeNeedsApproval
            /\ sess' = [sess EXCEPT ![a] = [@ EXCEPT !.pc = "learning", !.pr.approval = "pending"]]
            /\ UNCHANGED <<gh, faults>>
         \/ /\ ~MergeNeedsApproval /\ GitHub
            /\ gh' = [gh EXCEPT ![n].state = "merged"]
            /\ \/ sess' = merged /\ UNCHANGED faults
               \/ Fault /\ sess' = [sess EXCEPT ![a] = Blocked(@)]
         \/ /\ ~MergeNeedsApproval /\ ~GitHub
            /\ sess' = merged
            /\ UNCHANGED <<gh, faults>>
      /\ UNCHANGED <<project, task, depends, pr, worker, edits>>

\* Mutant: the task is DONE whether or not its pull request was merged.
LearnedDone(a) ==
  /\ sess[a].pc = "learning"
  /\ sess' = [sess EXCEPT ![a] = [@ EXCEPT !.pc = "settled", !.row.status = "done"]]
  /\ UNCHANGED <<project, task, depends, pr, gh, worker, faults, edits>>

\* _learn returned: the task is DONE or waits for the human decision.
Learned(a) ==
  /\ sess[a].pc = "learning"
  /\ sess' = [sess EXCEPT ![a] = [@ EXCEPT !.pc = "settled",
                !.row.status = IF sess[a].pr.status = "merged" THEN "done" ELSE "in_review"]]
  /\ UNCHANGED <<project, task, depends, pr, gh, worker, faults, edits>>

----------------------------------------------------------------------------
(* Planning.                                                               *)

\* plan_project up to its first flush: an IN_PROGRESS task without a lease.
Plan(s, p) ==
  [s EXCEPT !.pc = "planning", !.task = p, !.row = NewTask("in_progress")]

\* tick: nothing is eligible and nothing is pending.
PlanFromTick(a, p) ==
  /\ sess[a].pc = "picking" /\ ~Pending /\ Fresh(p)
  /\ sess' = [sess EXCEPT ![a] = Plan(@, p)]
  /\ UNCHANGED <<project, task, depends, pr, gh, worker, faults, edits>>

\* trigger_planning: the same from the API, whatever the project's status; the
\* assignment of ACTIVE is a change only if another status was loaded.
PlanFromRequest(r, p) ==
  /\ sess[r].pc = "idle" /\ Fresh(p)
  /\ sess' = [sess EXCEPT ![r] = [Plan(@, p) EXCEPT
                !.proj = IF project.status = "active" THEN "none" ELSE "active"]]
  /\ UNCHANGED <<project, task, depends, pr, gh, worker, faults, edits>>

\* The planner's tasks: all of them are flushed, READY and without depends_on,
\* and then the titles of the plan are resolved.
Planned(s, new) ==
  /\ sess[s].pc = "planning"
  /\ \A t \in new : Fresh(t) /\ Deps[t] \subseteq new
  /\ sess' = [sess EXCEPT ![s] = [@ EXCEPT !.pc = "settled", !.row.status = "done",
                                           !.new = new, !.linked = new]]
  /\ UNCHANGED <<project, task, depends, pr, gh, worker, faults, edits>>

\* An exception of plan_project in a tick: in an agent (nothing is flushed), at a
\* complexity that is no number (some tasks are), or at a null depends_on_titles
\* (all of them are, and some are linked).  _advance commits what there is.
PlanRaises(a, new, linked) ==
  /\ sess[a].pc = "planning" /\ sess[a].proj # "blocked"
  /\ \A t \in new : Fresh(t)
  /\ linked \subseteq new /\ (linked # {} => \A t \in new : Deps[t] \subseteq new)
  /\ Fault
  /\ sess' = [sess EXCEPT ![a] = [Blocked(@) EXCEPT !.new = new, !.linked = linked]]
  /\ UNCHANGED <<project, task, depends, pr, gh, worker, edits>>

----------------------------------------------------------------------------
(* How a session ends.                                                     *)

\* An exception inside the tick (an agent's memory lookup, a GitHub call, a
\* pending deployment) that leaves the database session usable; before the
\* claim there is nothing to commit but the status of the project.  PlanRaises
\* is the one of plan_project.
Raise(a) ==
  /\ sess[a].pc \in (Writing \ {"planning"}) \cup {"picking", "picked"}
  /\ sess[a].proj # "blocked"
  /\ Fault
  /\ sess' = [sess EXCEPT ![a] = Blocked(IF sess[a].pc \in Writing THEN @ ELSE Idle)]
  /\ UNCHANGED <<project, task, depends, pr, gh, worker, edits>>

\* A flush or the commit fails, or a request raises.
RollBack(s) ==
  /\ sess[s].pc # "idle"
  /\ Fault
  /\ Discard(s)
  /\ UNCHANGED <<project, task, depends, pr, gh, edits>>

Commit(s) ==
  LET w == sess[s]
  IN  /\ w.pc = "settled"
      /\ project' = IF w.proj = "none" THEN project ELSE [project EXCEPT !.status = w.proj]
      /\ task' = [t \in Task |-> IF t = w.task THEN w.row
                                 ELSE IF t \in w.new THEN NewTask("ready") ELSE task[t]]
      /\ depends' = [t \in Task |-> IF t \in w.linked THEN Deps[t] ELSE depends[t]]
      /\ pr' = [n \in Number |-> IF n = w.number THEN w.pr ELSE pr[n]]
      /\ sess' = [sess EXCEPT ![s] = Idle]
      /\ UNCHANGED <<gh, worker, faults, edits>>

----------------------------------------------------------------------------
(* The API.                                                                *)

\* _analyze_repo, the background task of create_project: a repository that was
\* analysed makes the project ACTIVE, whatever its status is by now.
RepoAnalyzed ==
  /\ project.analyzing
  /\ \E status \in IF GitHub THEN {"active", "draft"} ELSE {"draft"} :
       project' = [project EXCEPT !.status = status, !.analyzing = FALSE]
  /\ UNCHANGED <<task, depends, pr, gh, sess, worker, faults, edits>>

\* The API process dies and with it the background task.
AnalysisLost ==
  /\ project.analyzing /\ Fault
  /\ project' = [project EXCEPT !.analyzing = FALSE]
  /\ UNCHANGED <<task, depends, pr, gh, sess, worker, edits>>

\* start_project
StartProject ==
  /\ project' = [project EXCEPT !.status = IF @ = "draft" THEN "active" ELSE @,
                                !.running = TRUE]
  /\ UNCHANGED <<task, depends, pr, gh, sess, worker, faults, edits>>

\* pause_project
PauseProject ==
  /\ project' = [project EXCEPT !.status = "paused", !.running = FALSE]
  /\ UNCHANGED <<task, depends, pr, gh, sess, worker, faults, edits>>

\* create_task; depends_on names tasks that exist: the server makes the ids.
CreateTask(t) ==
  /\ Fresh(t) /\ \A d \in Deps[t] : Exists(d)
  /\ task' = [task EXCEPT ![t] = NewTask("ready")]
  /\ depends' = [depends EXCEPT ![t] = Deps[t]]
  /\ UNCHANGED <<project, pr, gh, sess, worker, faults, edits>>

\* Mutant: the rows change and GitHub is not called.
ApproveWithoutMerging(n) ==
  LET t == pr[n].task
  IN  /\ pr[n].approval = "pending" /\ pr[n].status = "open" /\ ~Locked(t)
      /\ pr' = [pr EXCEPT ![n] = [@ EXCEPT !.approval = "approved", !.status = "merged"]]
      /\ task' = [task EXCEPT ![t].status = "done"]
      /\ UNCHANGED <<project, depends, gh, sess, worker, faults, edits>>

\* Mutant: an approval that was rejected can be decided again.
ApproveDecided(n) ==
  LET t == pr[n].task
  IN  /\ pr[n].approval \in {"pending", "rejected"} /\ pr[n].status = "open" /\ ~Locked(t)
      /\ IF GitHub THEN gh[n].state = "open" /\ gh' = [gh EXCEPT ![n].state = "merged"]
                   ELSE UNCHANGED gh
      /\ pr' = [pr EXCEPT ![n] = [@ EXCEPT !.approval = "approved", !.status = "merged"]]
      /\ task' = [task EXCEPT ![t].status = "done"]
      /\ UNCHANGED <<project, depends, sess, worker, faults, edits>>

\* decide_approval, approved: merge_approved merges on GitHub (which refuses a
\* pull request it has merged before) and closes the task; the answer of GitHub
\* may be lost, and then the request rolls back.
ApproveMerge(n) ==
  LET t == pr[n].task
  IN  /\ pr[n].approval = "pending" /\ pr[n].status = "open"
      /\ IF GitHub THEN gh[n].state = "open" /\ gh' = [gh EXCEPT ![n].state = "merged"]
                   ELSE UNCHANGED gh
      /\ \/ /\ ~Locked(t)
            /\ pr' = [pr EXCEPT ![n] = [@ EXCEPT !.approval = "approved", !.status = "merged"]]
            /\ task' = [task EXCEPT ![t].status = "done"]
            /\ UNCHANGED faults
         \/ GitHub /\ Fault /\ UNCHANGED <<pr, task>>
      /\ UNCHANGED <<project, depends, sess, worker, edits>>

\* decide_approval, rejected: nothing but the approval row changes.
RejectMerge(n) ==
  /\ pr[n].approval = "pending"
  /\ pr' = [pr EXCEPT ![n].approval = "rejected"]
  /\ UNCHANGED <<project, task, depends, gh, sess, worker, faults, edits>>

\* update_project and update_task write any status.
PatchProject(status) ==
  /\ Edit
  /\ project' = [project EXCEPT !.status = status]
  /\ UNCHANGED <<task, depends, pr, gh, sess, worker, faults>>

PatchTask(t, status) ==
  /\ Edit
  /\ Exists(t) /\ ~Locked(t)
  /\ task' = [task EXCEPT ![t].status = status]
  /\ UNCHANGED <<project, depends, pr, gh, sess, worker, faults>>

----------------------------------------------------------------------------
WorkerLoop == ReclaimExpired \/ ListProject \/ GatherDone

TickStep(a) ==
  \/ OpenSession(a) \/ BudgetHalt(a) \/ PickNothing(a)
  \/ \E t \in Task : PickTask(a, t)
  \/ \E p \in Planning : PlanFromTick(a, p)
  \/ Claim(a) \/ WorkFails(a) \/ WorkPasses(a)
  \/ ShipToGitHub(a) \/ ShipLocally(a) \/ MaybeMerge(a) \/ Learned(a)

Failure ==
  \/ CrashRestart \/ AnalysisLost
  \/ \E a \in Tick : Raise(a)
  \/ \E a \in Tick, new \in SUBSET Work : \E linked \in SUBSET new : PlanRaises(a, new, linked)
  \/ \E s \in Session : RollBack(s)

Human ==
  \/ RepoAnalyzed \/ StartProject \/ PauseProject
  \/ \E t \in Work : CreateTask(t)
  \/ \E n \in Number : ApproveMerge(n) \/ RejectMerge(n)
  \/ \E r \in Request, p \in Planning : PlanFromRequest(r, p)
  \/ \E status \in ProjectStatus : PatchProject(status)

\* One worker whose gather always waits for this project's tick, and humans who
\* use every endpoint but PATCH /tasks.
SerialNext ==
  \/ WorkerLoop
  \/ \E t \in Task : LeaseExpires(t)
  \/ \E a \in Tick : TickStep(a)
  \/ \E s \in Session : (\E new \in SUBSET Work : Planned(s, new)) \/ Commit(s)
  \/ Failure \/ Human

\* Also gathers that end early and tasks whose status a human sets.
Next ==
  \/ SerialNext
  \/ GatherAborted
  \/ \E t \in Task, status \in TaskStatus : PatchTask(t, status)

Spec == Init /\ [][Next]_vars
SerialSpec == Init /\ [][SerialNext]_vars

\* The loop goes on while its process lives, its coroutines are scheduled, and
\* time passes; nothing is assumed of humans, GitHub or failures.
Fairness ==
  /\ WF_vars(ReclaimExpired) /\ WF_vars(ListProject) /\ WF_vars(GatherDone)
  /\ \A t \in Task : WF_vars(LeaseExpires(t))
  /\ \A a \in Tick : WF_vars(TickStep(a))
  /\ \A s \in Session : WF_vars(\E new \in SUBSET Work : Planned(s, new)) /\ WF_vars(Commit(s))

FairSerialSpec == SerialSpec /\ Fairness

----------------------------------------------------------------------------
(* Properties.                                                             *)

TypeOK ==
  /\ project \in [status : ProjectStatus, running : BOOLEAN, analyzing : BOOLEAN]
  /\ task \in [Task -> Row]
  /\ depends \in [Task -> SUBSET Work]
  /\ pr \in [Number -> PrRow]
  /\ gh \in [Number -> Remote]
  /\ sess \in [Session -> SessionRow]
  /\ worker \in [pc : {"reclaim", "list", "gather"}, waits : SUBSET Tick]
  /\ faults \in Nat /\ edits \in Nat

(* Whatever crashes or calls are lost, and however cycles overlap, GitHub    *)
(* merges only pull requests whose approval row is committed (the claim of   *)
(* test_merge_requires_approval_and_does_not_merge).                        *)
MergedOnlyWithApproval ==
  MergeNeedsApproval =>
    \A n \in Number : gh[n].state = "merged" => pr[n].approval # "none"

(* The pull requests pass the human gate: asked, then refused or merged,     *)
(* once.  GateOf is where a pull request is in the gate, given its row.     *)
GateOf(p) == IF p.status = "merged" THEN "performed"
             ELSE IF p.approval \in {"pending", "rejected"} THEN p.approval ELSE "absent"
PullGate == [n \in Number |-> GateOf(pr[n])]
Gate == INSTANCE HumanGate WITH
  Item <- Number, Gated <- MergeNeedsApproval, gate <- PullGate
GateSpec == Gate!Spec

(* The database never claims a merge GitHub does not know: _maybe_merge and  *)
(* merge_approved set MERGED after the call, in rows that point at the pull  *)
(* request of the same task.                                                *)
MergedOnGitHub ==
  GitHub => \A n \in Number : pr[n].status = "merged" =>
              gh[n] = [head |-> pr[n].task, state |-> "merged"]

Started(t) == task[t].attempts > 0 \/ task[t].status \in {"in_progress", "in_review", "done", "failed"}

(* Dependency order: the row of a task shows work only if everything its     *)
(* depends_on names is DONE, and stays DONE - although next_task checks that  *)
(* once, on rows that other transactions may change before the claim.        *)
DependencyOrder ==
  \A t \in Work : Started(t) => \A d \in depends[t] : task[d].status = "done"

(* The same for what the plan says, whether or not it reached the column     *)
(* ("dependency-ordered, scoped tasks", docs/architecture.md, Planner).      *)
PlanOrder ==
  \A t \in Work : Started(t) => \A d \in Deps[t] : task[d].status \in {"absent", "done"}

(* A task waits for review only while it has an open pull request, and is    *)
(* DONE only when one of its pull requests was merged: the two tables move   *)
(* together through exceptions, rollbacks and re-runs.                      *)
ReviewHasPullRequest ==
  \A t \in Work :
    /\ task[t].status = "in_review" => \E n \in Number : pr[n].task = t /\ pr[n].status = "open"
    /\ task[t].status = "done" => \E n \in Number : pr[n].task = t /\ pr[n].status = "merged"

(* A task is given up only after MaxAttempts committed runs: rollbacks and   *)
(* reclaims never use up its retries (attempts in _fail_task).              *)
FailedOnlyExhausted ==
  \A t \in Task : task[t].status = "failed" => task[t].attempts >= MaxAttempts

(* No run of a task is forgotten: the retry counter a commit writes is never *)
(* below the one it replaces, whoever wrote that in between.                *)
AttemptsNeverDecrease == [][\A t \in Task : task'[t].attempts >= task[t].attempts]_vars

(* Without approvals a DONE task is never run again: nothing but a PATCH     *)
(* takes it out of DONE.                                                    *)
DoneIsFinal ==
  [][\A t \in Task : task[t].status = "done" => task'[t].status = "done"]_vars

(* A row that says MERGED is never replaced by that of another pull request, *)
(* whichever overlapping cycle ships the task again (uq_pr_project_number). *)
MergedIsFinal ==
  [][\A n \in Number : pr[n].status = "merged" => pr'[n].status = "merged"]_vars

(* An IN_PROGRESS task that has a lease is returned to READY or finished.    *)
LeasedTaskIsReclaimed ==
  \A t \in Task : (task[t].status = "in_progress" /\ task[t].lease # "none")
                    ~> (task[t].status # "in_progress")

(* The same for every IN_PROGRESS task (docs/architecture.md, Resumability). *)
InProgressIsReclaimed ==
  \A t \in Task : (task[t].status = "in_progress") ~> (task[t].status # "in_progress")

Running == project.running /\ project.status = "active"

(* A READY task whose dependencies are DONE is run until it is shipped or    *)
(* out of retries, unless its project is stopped or a dependency reopened.  *)
EligibleTaskSettles ==
  \A t \in Work : (Running /\ Eligible(t)) ~> ~(Running /\ Eligible(t))
=============================================================================
