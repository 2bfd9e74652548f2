# RiMo: formal models of the orchestration engine

TLA+ models of RiMo (`src/`), an autonomous software engineering platform: a
FastAPI API, a single worker process and a Next.js dashboard over one PostgreSQL
database, with GitHub and a language model as external services. The models are
translated from the Python source; each definition and the lines it stands for
are listed in `PROJECT.json` under `map`.

All paths below are relative to `src/backend/app/` unless they start with `src/`.

## 1. The system

| Part | State it keeps | Operations | Hard behaviour |
|---|---|---|---|
| Worker loop (`orchestration/worker.py`) | the running cycle, a semaphore | reclaim expired leases, list running projects, advance each, maintenance every Nth cycle | `gather` returns at the first exception while the other ticks go on; a restart rolls back every open tick |
| Task pipeline (`orchestration/orchestrator.py`) | tasks, pull requests, approvals of a project | `tick`, `next_task`, `execute_task`, `plan_project`, `_ship`, `_maybe_merge`, `_learn` | one transaction lasts as long as the whole task; GitHub calls inside it are never undone; `_advance` commits what an exception left behind |
| Deployments (same file) | deployments and their approvals | `_deploy`, `execute_deployment`, `rollback_deployment`, `process_pending_deployments` | the queue is read before the approvals, and requests commit in between |
| Project and task API (`api/projects.py`, `api/resources.py`) | the same rows | create, start, pause, plan, PATCH, create task, decide approval, roll back | last writer wins over a running tick |
| Action guard (`services/safety.py`) | settings | `evaluate_merge`, `evaluate_deploy`, secret scan | thresholds |
| Agent loop and agents (`services/llm.py`, `agents/`) | a conversation | model call, tool dispatch, retries | iteration budget, tool errors |
| Router, economics (`services/router.py`, `services/economics.py`) | the ledger of model calls, the model on each shared agent | choose a tier, fall back, record, sum | a cap read before and charged after a tick; spend of a rolled back tick; agents that keep a model |
| Accounts (`core/security.py`, `api/auth.py`, `src/frontend/src/lib/api.ts`) | users, refresh tokens, the browser's token pair | register, login, refresh, logout, logout everywhere | concurrent rotation of one token, tabs that share the pair, a lost answer |
| GitHub and the workspace (`integrations/github.py`, `agents/tools.py`) | the staged files of a run; on GitHub, branches and pull requests | read and write files, create a branch, commit, push, open | people push to the same branch meanwhile, a failed read is taken for a missing file |
| Incidents (`services/recovery.py`) | incident rows | diagnose, retry, roll back, escalate | exceptions between steps, flushes that fail |
| Maintenance (`orchestration/research.py`, `refactor.py`, `improvement.py`) | a request flag in a JSON column, backlog proposals | survey, scan, propose | a flag every writer replaces whole, proposals made before an exception |
| Prompts (`services/prompts.py`) | prompt variants, their tallies and log | seed, select, record, evolve | counters updated from loaded rows, retirement meanwhile |
| Knowledge graph (`orchestration/graph.py`) | nodes, edges | rebuild, impact, neighbours | cycles, questions during a rebuild |
| Repository swarm (`orchestration/swarm.py`) | registered repositories | register, plan across repositories | cycles, unknown dependencies |
| Fleet, debate, benchmark (`orchestration/`) | none | allocate, vote, rank | zero slots, ties |
| Memory (`memory/`) | records, embeddings, access counts | remember, recall, prune, promote across projects | overlapping passes, pruning meanwhile |
| Events (`orchestration/utils.py`, `event_bus.py`, `api/events.py`, `src/frontend/src/hooks/index.ts`) | event rows, the pump's queue, the page's list | emit, publish, stream, poll | published before the commit; a pump that ends silently |
| Product factory, analyzer (`orchestration/product.py`, `analyzer.py`) | the first backlog, project metrics | bootstrap, analyse | metrics written from a loaded row |
| Infrastructure, migrations, rest of the frontend | - | - | - |

Parts interact through the database almost only: the API writes rows, the
worker reads them in its next cycle, and a human decision is a row the
orchestrator reads. The exceptions are GitHub (called inside a transaction) and
the event stream (published inside a transaction).

What makes them correct:

* pipeline: a plan is stored with its dependencies, and a task runs only after them; every run is counted and the
  retry limit holds; the status of a task agrees with its pull requests; a merge
  on GitHub has been asked for, and a row that says MERGED has one on GitHub; an
  eligible task does not wait for ever, and a crashed one is returned;
* decisions: what waits or was refused is not deployed; a rollback leaves a
  replacement; what was approved is run;
* agents: every tool use is answered, retries and iterations are bounded, the
  spend stops near the cap, a pinned model is kept;
* accounts: one login stays one session, and a page is signed out for a cause;
* workspace: what is on the branch stays there, and a push replaces what its
  agent has read;
* incidents: the row of a recovery says what happened;
* maintenance: a flag that was served is not served again, and surveys cost a
  bounded number of tasks per request and fault;
* prompts: tallies agree with the log, and a role keeps something to select;
* swarm and graph: an order that respects dependencies or reports the cycle,
  depths that are distances, a risk that is not "isolated" by mistake;
* memory: a lesson is shared once, and marked so;
* events: a live stream shows each published event once and in order, and the
  poll repairs what a dead one missed.

## 2. Modules

| Module | What it is |
|---|---|
| `HumanGate` | abstract: an item is asked for, then refused or performed, once |
| `TaskPipeline` | the worker's loop, the ticks, planning, shipping, merging and the API handlers that write the same rows |
| `MCTaskPipeline` | its instances for TLC: a chain of two tasks or a single one |
| `TaskPipelineProofs` | theorems about types and dependency order (extends `TaskPipeline`) |
| `TaskPipelineGateProofs` | theorems about pull requests, the gate included (extends `TaskPipelineProofs`) |
| `TaskPipelineRunProofs` | theorems about runs: attempts, FAILED, review and DONE (extends `TaskPipelineGateProofs`) |
| `Approvals` | overlapping decisions, rollbacks and pending deployments |
| `ApprovalsProofs` | theorems about decisions, rollbacks and deployments (extends `Approvals`) |
| `MCApprovals` | its instance for TLC |
| `AgentResults` | what one run of an agent can report, shared by the three modules below |
| `AgentContract` | abstract: a run reports once, within its iteration budget |
| `AgentLoop` | one run: the reasoning loop, tool dispatch, retries; implements `AgentContract` |
| `AgentLoopProofs` | theorems about it (extends `AgentLoop`) |
| `AgentRuns` | the runs of a tick: who runs next, on which model, at what cost, under the cap |
| `MCAgentRuns` | its constants for TLC |
| `Accounts` | refresh tokens of one user, and the tabs that share them |
| `Workspace` | the files of a task's runs and its branch on GitHub |
| `Prompts` | prompt variants, tallies, evolution |
| `RepoSwarm` | registered repositories and their topological order |
| `KnowledgeGraph` | extraction, rebuilds and impact questions |
| `Smells` | the search for cycles and deep chains in the stored graph |
| `Memories` | recall, pruning and promotion of lessons |
| `RecordsProofs` | theorems about `Prompts`, `RepoSwarm`, `KnowledgeGraph`, `Smells` |
| `StoresProofs` | theorems about `Memories`, `Workspace`, `Accounts` |
| `MCRecords` | `Accounts` to `Memories` in one instance |
| `Incidents` | one recovery |
| `Upkeep` | maintenance cycles and research requests |
| `EventStream` | events from the transaction to the page |
| `BackgroundProofs` | theorems about `AgentRuns`, `Incidents`, `Upkeep`, `EventStream` |
| `MCBackground` | `AgentLoop`, `MCAgentRuns`, `Incidents`, `Upkeep` and `EventStream` in one instance, with fairness |

### TaskPipeline

One project, its tasks, pull requests (each with its merge approval), the
worker's loop and its ticks, planning requests, and GitHub.

* `project`, `task`, `pr` are **committed** rows. A tick is one database
  transaction (`db/session.py`), so what it wrote is in its record of `sess`
  until `Commit`. `autoflush` is off and flushes are explicit: from the first flush
  on (`Claim`, `Plan`) the row of the task is locked (`Locked`), and another session
  that wants to write it waits, then overwrites it with values computed from the
  row it loaded earlier.
* `Deps` is what the planner said, `depends` the column `depends_on`. `plan_project`
  flushes its tasks one by one and links them after the last: `Planned` is the end
  of that, `PlanRaises` an exception on the way, which `_advance` commits with the
  tasks flushed so far, linked or not. A request that raises rolls back.
* `gh` changes when the call is made. `ShipToGitHub`, `MaybeMerge` and
  `ApproveMerge` each have the outcome in which GitHub did it and the answer is
  lost.
* `Raise` is `_advance`'s `except` (outside of planning): the project becomes BLOCKED and the
  transaction *commits*. `RollBack` is a failed flush or commit, which leaves
  `_advance` as an exception and ends the `gather`.
* `GatherAborted` is the exception of *another* project's tick: the loop starts
  a new cycle while this project's tick still runs.
* The agents are nondeterministic: a run fails (`WorkFails`), passes
  (`WorkPasses`) or raises.
* `FAILED`, the budget, PATCHes of any status, pause, start, `/plan` and the
  repository analysis are the code's.

Two next-state relations: `SerialNext` without early ends of `gather` and
without PATCH /tasks, and `Next` with both. What holds only in the first is
checked and proved for `SerialSpec`, and says so.

`HumanGate` is the abstract promise: an item is asked for, then refused or
performed, once. `TaskPipeline` implements it with every pull request as an item
(`GateSpec`): whatever crashes, a refused pull request is never recorded as
merged, and none is merged without being asked for.

### Approvals

Requests that overlap: `decide_approval` for merges and deployments,
`rollback_deployment`, and the tick's `process_pending_deployments`, each split
where it reads, calls GitHub and commits (READ COMMITTED, columns written only if
changed). `TaskPipeline` takes one decision at a time; the races are here.
Deployments need an approval (the default settings).

### AgentLoop and AgentRuns

`AgentLoop` is `BaseAgent.execute`: the model is its environment and answers
with some tool uses, refuses the call (rate limits and API errors, which are retried
with a counter of their own) or cannot be reached. `HookRaises`, and the ending
`"raised"` of every other end, are exceptions of the hooks around the calls
(memory, events), which the loop does not catch. `AgentContract` is what the
orchestrator relies on: the run reports once, within its budget, and no more
answered calls than iterations; that a run ends is `RunEnds`.

`AgentRuns` uses the contract's results for whole runs. A tick runs the agents of
a task or of a planning cycle one after the other; `After` has the early
returns. `model` is `agent.model` of the worker's singletons: set by the first
run, never reset until `CrashRestart`. `pending` is what the tick's transaction
will add to `ledger`, at the price of the *routed* model; `RollBack` loses it.
`OverCap` reads `ledger` once, when the tick begins. Requests of humans
(`ApproveMerge`, `PlanRequest`) run agents in the API process and ask for no
budget. The module follows one project; ticks of other projects share the
singletons and could fix a model sooner, which changes none of its properties.

### Accounts

`family`, `revoked` and `lapsed` are the table of refresh tokens; a rotation is
`ReadRow` and `Rotate`, because `rotate_refresh_token` reads the row without a
lock and the UPDATE is written when the request commits. `stored` is the
localStorage the tabs share, `flight` the `refreshInFlight` each has of its own.
A call is refused, waits for a refresh, is sent again and may be refused for
good, as in `request()`. `disturbed` remembers that something besides the calls
of one page interfered; the properties say what holds without.

### Workspace

One task's branch. Versions stand for contents: `main` and each commit of `branch` map
a path to the version of its file. A run reads (from what it staged, its branch,
or the default branch, which `ReadFallsBack` also reads after any failure of the
call), stages, and ships: `GetTip`, `CreateRef`, `GetHead`, `Push`, `OpenPull`
are the calls to GitHub, each with its failure; `Push` is refused unless it is a
fast-forward. `outdated` is a history of what changed under a run after it read it.
One run follows the other, because a claim locks the task's row until its tick
ends; people push to the branch of the open pull request at any time
(`BranchMoves`). `_read_file` asks for the branch first and then for the default
branch: `ReadFile` is the call that answers, and the case in which the file comes
to the branch between the two calls is one of `ReadFallsBack`.

### Incidents, Upkeep and EventStream

`Incidents` is one call of `recover` with everything it is given: each callback
may succeed, return False or raise, each flush may fail and leave the session
unusable, and the caller commits or rolls back. After a failed flush the handler
itself raises, as the timeline it appends to is expired. No code in `src/` calls it yet.

`Upkeep` is the worker's `_maintain` for one project with the requests that
raise `research_requested`. Requests, the analysis after create and the
maintenance each load the project, think, and write the whole `metrics` column,
unless its value is the one they loaded.
A project with a repository gets no maintenance (`MaintainRaises`: nothing sets
`_github`).

`EventStream` follows events from the transaction that emits them through Redis,
the pump and its bounded queue to the list the page shows, and the poll
that seeds this list. An event is its number in the order of emission.

### Prompts, RepoSwarm, KnowledgeGraph, Smells and Memories

Each is one service with concurrent sessions. `Prompts`: sessions load a variant and
write its counters later; `evolve` reads the board, awaits the mutator and
retires. `RepoSwarm`: `Take`, `Round` and `AppendRest` are the loop of
`_toposort`, one repository at a time. `KnowledgeGraph`: `Nodes` and `Edges`
translate the extractor over files with a few symbols, a rebuild replaces the
stored graph when it commits, and an impact question is a walk of separate
statements, so that a rebuild may come between (READ COMMITTED). `Smells` is the
search over that graph for one file whose functions call each other: two reads,
then `Cut`, one edge of a cycle at a time, then the longest path. `Memories`:
recall and prune go on while a promotion pass waits for the generalizer. A pass
flushes the `meta` columns that are dirty when it inserts a copy and the rest when
it commits; those rows are locked from then on. SQLAlchemy notices that a row is gone
only where one UPDATE goes out: several are one `executemany`, whose rows asyncpg does not
count, so such a pass commits a copy of a lesson that was pruned meanwhile (`Lands`).

`MCRecords` and `MCBackground` put components that share no state into one
instance: a behaviour is one of a single component, picked at the start.

## 3. Runs

| Run | Expect | Properties | Shows |
|---|---|---|---|
| `TaskPipelineSerial` | pass | `DependencyOrder`, `ReviewHasPullRequest`, `FailedOnlyExhausted`, `AttemptsNeverDecrease` | A chain of two tasks, one worker cycle at a time, with approvals, GitHub, exceptions, lost answers, crashes, planning requests and project edits: the tables agree, work respects the depends_on column, retries are counted. |
| `TaskPipelineAutonomous` | pass | `LeasedTaskIsReclaimed`, `EligibleTaskSettles`, `DoneIsFinal` | The same chain without merge approvals and with the fairness of the loop: DONE tasks stay DONE, a leased task is always reclaimed or finished, a READY task with met dependencies does not stay eligible for ever. |
| `TaskPipelineOverlap` | pass | `MergedOnlyWithApproval`, `MergedOnGitHub`, `GateSpec` | Two cycles of the worker that overlap after gather ended early: merges still pass the human gate, and the database never claims a merge GitHub does not know. |
| `TaskPipelineLocal` | pass | `MergedIsFinal` | No GitHub and no approvals, overlapping cycles, PATCHed tasks: the computed pull request number never replaces a merged row. |
| `ApprovalsDecisions` | pass | `OpenApprovalBlocks`, `RollbackHasRestore`, `MergedOnGitHub`, `ApprovedDeploymentRuns` | Two requests that decide and roll back while a tick runs deployments: nothing waiting is run, both rows of a rollback survive, merges are real, approved deployments are eventually run. |
| `Records` | pass | `TalliesMatchLog`, `DependenciesFirst`, `CycleReported`, `DepthsAreDistances`, `RiskIsRight`, `PromotedOnce`, `CleanBillIsTrue`, `SessionsDoNotMultiply`, `SignedOutForCause`, `PoolSurvives`, `PushesStay`, `NothingUnseenReplaced` | Seven components that keep rows of their own, each with concurrent sessions, passes or runs: sessions and tabs, prompt experiments, repository plans, graph rebuilds and impact questions, the search for smells, promotion of lessons, and the branch of a task on GitHub. |
| `Background` | pass | `SpendBounded`, `PinnedModels`, `ToolUsesAnswered`, `CallsBounded`, `SavedOutcomeIsTrue`, `SurveysBoundBacklog`, `StreamIsExact`, `ContractSpec`, `RunEnds`, `HaltsAtCap`, `PollHeals` | What runs by itself, with the fairness of the loop where something must happen: one run of an agent keeps its conversation acceptable and its retries bounded, ends, and implements AgentContract; overlapping ticks overrun the cost cap by a bounded amount and halt the project; an incident is recorded as what happened; surveys of a project cost a bounded number of tasks per request and fault; the dashboard's feed is exact or healed by its poll. |
| `TaskPipelineLocalLoop` | violation | `EligibleTaskSettles` | Without GitHub, one exception after the commit of a pull request makes the task ship again, fail on the unique number and be retried for ever. |
| `TaskPipelinePlanningLease` | violation | `InProgressIsReclaimed` | A planning cycle whose exception is committed leaves an IN_PROGRESS task that no lease ever returns. |
| `ApprovalsRejected` | violation | `RejectedNeverRuns` | A deployment a human refused is run by the next tick. |
| `AgentModel` | violation | `RunsOnRoutedModel` | An agent that ran once keeps the model of that run: later tasks of another tier run on it. |
| `TaskPipelineTornPlan` | violation | `PlanOrder` | Planning that raises after it stored its tasks and before it stored their dependencies is committed with the project BLOCKED: once a human makes it ACTIVE again, a tick runs a task before the one it depends on. |

### Bounds

* Chain of two tasks whose dependent one has the *smaller* rank (so the order of
  `next_task` and the dependency pull in opposite directions), one planning task;
  or a single task when two ticks overlap. A second overlapping tick is all the
  code can produce from one early `gather` per fault.
* `MaxAttempts` is 2 in the runs that must exhaust it (the code has 3; the limit
  is a constant of the theorems).
* `MaxFaults` bounds exceptions, lost answers and crashes: 2 or 3 allow a lost
  answer followed by a crash of the retry. `MaxEdits` bounds PATCHes.
* `Number` must leave a number for every pull request that the bounds allow:
  3 with approvals (a task that waits is not run again), 6 without.
* Two approvable pull requests, two deployments and two requests: a race needs
  two requests on one subject, a rollback needs two deployments.

* `Background`, one run of an agent: 3 iterations, 2 retries, 2 tool uses per turn: enough for a second
  turn after a turn with tools and for retries in different iterations. It counts
  the calls of `messages.create`; what the SDK retries below them is not counted.
* `Background`, spending: one iteration per run (a run costs 0 or one call), a
  price and a cap of 1, so that one run reaches it; two ticks overlap after a
  fault; two requests by people. The tiers resolve to a model with a key, to one
  without (fallback) and to one that differs from the pinned model. `AgentModel`
  has prices up to 2 and adds a small task of a cheap tier.
* `Background`, the rest: two retries; two requests, maintenance every second
  cycle, two proposals per survey and two faults; two sessions that emit three
  events, a queue of one, a poll of two rows and a list of three (so that both
  limits are reached), one fault.
* `Records`, accounts: two tabs, one with two calls, two refreshes at once, three
  tokens (a login and two rotations, or two logins), one disturbance.
  Prompts: two sessions, two trials to evolve, two variants, four outcomes.
  Swarm: three repositories, the smallest cycle that is not mutual, with every
  dependency relation by name and role. Graph: two codebases of two parsed files
  each, paths of length three (`MaxDepth`), four dependents are many, two rebuilds.
  Smells: all 512 call graphs of three functions, a deep chain passes through all
  of them.
  Memories: one project, two passes, three rows, one promotion per pass.
  Workspace: two files of which one is new, one run at a time, four versions
  (the first, and three written by agents or others), two failed calls, one file per
  pull request. Passes, refreshes, calls of one tab and runs are symmetric, and
  the properties of this run are safety.

### Fairness

`Fairness` assumes that the worker process, while it lives, goes on: its loop,
the coroutines of its ticks and the end of their transactions, and that time
passes (`LeaseExpires`). Each is weak fairness: nothing disables these steps but
their own completion. Nothing is assumed of humans, of GitHub or of failures. An
agent step always returns because every call has a timeout and an iteration
budget. `FairSpec` of `Approvals` assumes only that a running, ACTIVE project is
ticked again and again. `BackgroundSpec` assumes, each for its part, that ticks go on and agents
return (`TickStep`), that calls (with timeouts) and tools of an agent return (`LoopNext`), and that a visible page polls (`Polls`). Nothing is assumed of streams, of
Redis or of people, and nothing of maintenance: a project whose tick rolls back in
every cycle raises out of `gather` (`orchestration/worker.py:49`), the cycle is not counted
(`:54`), and maintenance never comes. So no liveness of surveys is stated.

### Disagreements found

* **ApprovalsRejected** (`src/backend/app/orchestration/orchestrator.py:527`, code_bug): process_pending_deployments runs every QUEUED deployment that has no undecided approval, and decide_approval leaves the deployment QUEUED when a human rejects it, so the next tick deploys what was refused. The docstring at src/backend/app/orchestration/orchestrator.py:513 says "Run any approved (queued) deployments." and src/docs/evidence.md:80 says "RiMo never merges or deploys without human approval".
* **TaskPipelineLocalLoop** (`src/backend/app/orchestration/orchestrator.py:565`, code_bug): Without GitHub the pull request number is computed from the task id. When an exception after _ship is committed with the task IN_PROGRESS, the reclaimed task ships again, the unique constraint rejects the number, the transaction with its attempts += 1 rolls back, and the task is READY for ever. The comment at src/backend/app/orchestration/orchestrator.py:373 says "Re-queue for another attempt unless we've exhausted retries."
* **TaskPipelinePlanningLease** (`src/backend/app/orchestration/orchestrator.py:221`, doc_code_divergence): plan_project inserts an IN_PROGRESS task with lease_expires_at NULL; an exception of the planning agents is committed by _advance, and NULL < now() is never true in _reclaim_expired_leases. src/docs/architecture.md:104 says of in-progress tasks that "the lease expires and the task returns to `ready`".
* **AgentModel** (`src/backend/app/orchestration/orchestrator.py:166`, code_bug): The routed model is set on the shared agent only while agent.model is None, and nothing resets it, so the first task decides the model of its role until the worker restarts; the ledger meanwhile prices each run at the newly routed model. src/README.md:51 says "every agent call is routed by complexity tier to the most cost-effective model", and the comment at src/backend/app/orchestration/orchestrator.py:157 "pick the most cost-effective model for this work".
* **TaskPipelineTornPlan** (`src/backend/app/orchestration/orchestrator.py:252`, code_bug): plan_project flushes every new task as READY with an empty depends_on, and only then links them; int() of a complexity that is no number (line 279) or a depends_on_titles that is null (line 260) raises in between, and _advance catches the exception inside its session and commits what was flushed (worker.py:92-94), so once a human sets the BLOCKED project to ACTIVE again, tasks run without their dependencies. src/docs/architecture.md:59 says the Planner turns "Roadmap → dependency-ordered, scoped tasks".

Not stated as runs, but visible in the models:

* `gather` at `orchestration/worker.py:49` ends at another project's exception and
  the next cycle ticks a project whose first tick still runs; the claim of the
  first is uncommitted, so the second picks the same task, waits for its row and
  runs it although it is no longer READY. `src/docs/deployment.md:177` says
  "project ticks are coordinated through database task leases, so one worker is
  correct and safe". `TaskPipelineOverlap` and `TaskPipelineLocal` check what still
  holds then.
* PATCH, planning and the repository analysis overwrite a committed pause (last
  writer wins); `/start` sets `is_running` but does not reactivate a PAUSED or
  BLOCKED project; a rejected merge leaves its task IN_REVIEW for ever.
* Rolling a deployment back restores the newest other release that succeeded,
  which may be newer than the one rolled back (the docstring at
  `orchestration/orchestrator.py:488` says "the previous succeeded release").
* Model calls of the analyzer and of the maintenance proposals (`analyzer.py:76`,
  `orchestrator.py:775`, `api/projects.py:127`) are not on the ledger.
* `run_maintenance` of a project with a repository always raises, because
  `self._github` (`orchestrator.py:742`) is set nowhere, although "a failure in one does
  not prevent the others" (`:698`); the knowledge graph is rebuilt by the API alone, and a
  requested survey of such a project is never made (`MaintainRaises`).
* A request for a survey that is answered "queued" while a survey runs is forgotten:
  it loaded the flag as set and writes nothing, or writes it, and the survey takes it down
  (`AskCommit`, `Propose`; the docstring at `api/intelligence.py:266` says "the worker
  performs it next cycle").
* A rejected lesson is marked `promotion_checked` "so we don't reconsider forever"
  (`memory/global_memory.py:123`), which nothing reads: every pass judges it again.
* A failed survey leaves its flag up, so a survey that fails each time grows the
  backlog each time; `SurveysBoundBacklog` counts the faults for this reason.
* A promotion pass may commit a copy of a lesson that was pruned while it ran
  (`PassCommit`), and its record of where the copy comes from then names no row.
* Two tabs that refresh at once sign each other out; the Sign out button does
  not tell the server, and a refresh in flight in another tab signs in again.
* A function that calls itself hides every deep chain of its project: the search
  for cycles lists it first and the loop that would break the others ends
  (`orchestration/refactor.py:161`). A file is never a hub: only the edge from its
  directory ends in it. A scan torn by a rebuild finds nothing.
* Nothing in `src/` moves a task from BACKLOG to READY, although proposals "enter
  the backlog for the Planner to prioritize" (`docs/intelligence-layer.md:57`):
  research and refactoring tasks wait for a human PATCH; `reprioritize` is called
  by nobody.
* The stream reads `event_type` from payloads that say `type` (`api/events.py:62`).
* Agents debate in no pipeline step (`src/README.md:52`), a retried run does not
  get the reviewer's issues (`src/docs/architecture.md:106`), and the worker does
  not follow the fleet's schedule (`orchestration/fleet.py:251`).

## 4. Proofs

The theorems about the pipeline rest on `ConstantsAssumption` of `TaskPipeline` only (ordinary and
planning tasks are disjoint, so are ticks and requests, `None` is none of the
others, dependencies are ordinary tasks, numbers are positive). They hold for
every set of tasks, ticks, requests and numbers, every dependency relation, with
and without GitHub and approvals, and for any number of failures.

* `TypeCorrect` (`Spec => []TypeOK`). The invariant is `Typed`: `TypeOK` and
  `BusyHasTask`, which says that a session in a stage that writes has a task;
  without it `ShipLocally` could apply `LocalNumber` to no task.
* `DependencyOrderHolds` (`SerialSpec => []DependencyOrder`), over the column
  `depends_on` as it is stored; that planning may leave out what it should say is the run
  `TaskPipelineTornPlan`, and no theorem denies it. `next_task` reads
  the dependencies once, on rows it does not lock, and the claim is written
  later; the invariant `OrderInv` says why that is enough. `OneTick`: the worker
  runs one tick of the project at a time. `PlansOnlyPlanning`: a planning
  request writes planning tasks and new tasks, never an existing ordinary one.
  `RowsClosed`: a stored row names only rows that exist, and what an open
  planning session has linked names rows of the same plan, also when it raises halfway; so a
  dependency cannot appear after the check. `PickedInOrder`: what the picked task depends on is
  DONE, and nothing that depends on it has been started; no action takes a
  committed DONE away while that is so. `WritesRun` and `ShippedTaskRan`: the task of a
  pull request has been run, so the human who approves it only moves a started task
  to DONE. A PATCH of a task breaks the property at once (it writes any status),
  and so does a second tick, hence `SerialSpec`.
* `MergedOnlyWithApprovalHolds`, `MergedOnGitHubHolds` (`Spec => []...`), with
  overlapping cycles, lost answers, crashes and PATCHes. The invariant `PullInv`
  adds to the first: `OwnNumber` (the number in an open session has no committed row and no
  other session holds it, so a commit replaces no row), `AskedWhereNeeded` (an
  approval is pending only where the guard asks for one, and a session has
  merged only where it does not) and `KnownToGitHub` (a row, committed or not,
  describes a pull request of the same task, merged there if the row says so).
* `MergedIsFinalHolds` (`Spec => MergedIsFinal`): `OwnNumber` again, since the only
  writer that could take a merged row back is a commit over it.
* `GateImplemented` (`Spec => GateSpec`): under `PullGate` every step of the
  pipeline is a step of `HumanGate` or leaves the gate alone. Only `Commit`,
  `ApproveMerge` and `RejectMerge` move a pull request; `OwnNumber` makes the
  commit start from "absent", `AskedWhereNeeded` makes the approved merge one
  that was asked for.

`TaskPipelineRunProofs` proves what the runs of the worker leave in the tasks. Its
invariant `RunState` is the two above and `RunInv`. A tick works on a copy of the row it
loaded and commits values computed from that copy, so nothing about the
committed row alone is inductive. `SoundSessions` says that a copy is never behind
the committed row in attempts and that what it holds may be committed: FAILED
only with the attempts used up, in review only with an open pull request of
the same task, DONE only with a merged one. `OwnTask` says that two
sessions never hold the same task, and `AbsentNeverRan` that a task that planning creates
has no past.

* `ReviewHasPullRequestHolds`, `FailedOnlyExhaustedHolds`,
  `AttemptsNeverDecreaseHolds` (`SerialSpec => ...`).
* `DoneIsFinalHolds`: without the merge gate (the run `TaskPipelineAutonomous`). With it, an
  exception after the question commits the pull request and leaves the task leased; a human
  may approve it while a reclaimed run is under way, whose commit then takes the task out of DONE.

The theorems about one agent run (`AgentLoopProofs`) rest on `LoopAssumption`:
there is at least one iteration. The invariant `IInv` adds to `TypeOK` what the
two nested loops keep between them: `Counters` (while the model is called, the
requests sent are at most those of the finished iterations and the attempts of
this one, and the usage is one behind the iteration) and `Conversation` (two
turns per finished iteration, alternating, every tool use answered).

* `CallsBoundedHolds`, `ToolUsesAnsweredHolds`, `TypeCorrect` follow from it; the
  last one includes that every outcome is one of `AgentContract`.
* `ContractImplemented`: every step leaves `outcome` alone or is the contract's
  `Return`, once. That a run ends (`RunEnds`) is checked by the run `Background`.

The other proof modules rest on the assumption of the module they extend, and on
nothing else; their theorems hold for every set of sessions, ticks, workers,
passes, exchanges and repositories and every number of failures. Each theorem follows from one
inductive invariant of its component, named at the head of its section.

`ApprovalsProofs` (`ApprovalsInv`): `OpenApprovalBlocksHolds`,
`RollbackHasRestoreHolds`, `MergedOnGitHubHolds`.

* `SoundRequest`: what an open request has read stays true in the part it uses,
  since an approval once asked for is never withdrawn and GitHub does not unmerge.
* `RestoresStayOut`: a row that restores another is never asked about and never
  queued, so no tick runs it. `RanUnblocked`: what the open tick ran does
  not wait for a human, then or later.

`BackgroundProofs`:

* `SpendBoundedHolds`, `PinnedModelsHolds` (`RunsInv`). `Charged`: what an open
  tick may have pending is bounded by the roles already run. `Covered`: the
  ledger, plus one full tick for every open tick, is at most the cap plus one
  full tick for every tick there can be, plus the requested runs; a tick opens only with
  the ledger below the cap, and what it commits is covered already. Counting
  open ticks takes the place of a sum over them.
* `IncidentsTypeCorrect`, `SavedOutcomeHolds` (`IncidentsInv`). It relates where
  `recover` stands to its attempts and to what the callbacks did
  (`NothingFixedYet`, `RetriesUsed`, `OutcomeTruthful`); a status that was
  assigned before a failing flush is never committed, because the session is
  unusable.
* `SurveysBoundBacklogHolds` (`UpkeepInv`). `BacklogPaid`: the tasks
  proposed so far are paid for by the answered requests and the faults, and while the
  flag is up one more survey is. `SurveysServeFlag`: who holds a set flag finds it set, so a
  survey takes down a flag that is paid for; the one writer that could bring an old flag back, the
  analysis after create, exists only for a project with a repository, which gets
  no survey (`NoSurveyIfLinked`). `OneMorePays` is the arithmetic of a request and of a survey.
* `StreamIsExactHolds` (`StreamInv`): what was shown, the queue and the wire, one after
  the other, are what was heard; without a subscription both are empty, so that a new one
  starts from nothing.

`RecordsProofs`:

* `TalliesMatch`, `ParentsProven`, `PoolSurvivesHolds` (`PromptsInv`).
  `LoadedWasTrue`: what a session holds was true once, so its trials are at most
  those of the log, and its successes at most its trials unless a session has
  committed over another. `ChampionIsProven`: the evolving champion was run often enough
  and is not among those it retires.
* `SwarmTypeCorrect`, `DependenciesFirstHolds`, `CycleReportedHolds` (`SwarmInv`).
  `deps` are the declared needs within the targets, places are distinct, a placed
  repository's needs are placed before it while no cycle is flagged, and
  `KnotsUntouched`: no repository of a set in which each waits for another is ever placed
  by the sort. That is why what remains at the end is exactly a cycle: the
  remainder itself is such a set.
* `DepthsAreDistancesHolds`, `RiskIsRightHolds` (`GraphInv`). `Layers`: every hit
  has a witness one hop nearer, and the neighbours of each completed layer are
  hit no later than in the next one. The edges read are those stored unless a rebuild
  came after the target was found. "Isolated" is right because the nearest
  hit depends on the target directly (`HitIffDependent`).
* `CleanBillIsTrueHolds` (`SmellsInv`): what the cuts leave is part of the
  stored graph, and all of it while there is no cycle. `CycleIsMutual`: an edge that some chain closes to
  a cycle exists exactly when two functions reach each other; the way back is
  built from two chains at the first place they meet (`PathAround`).
  `PathIsChain`: a path without repetition is no longer than the number of symbols, so the
  bounded set that the search ranges over misses none.

`StoresProofs`:

* `PromotedOnceHolds` (`MemoriesInv`), pruned rows and unnoticed ones included. `HeldAlone`: a lesson that two open passes hold is in `raced`; otherwise
  it has no copy yet. `IdsAreNew`: an id is never given out again.
* `PushesStayHolds`, `NothingUnseenHolds` (`WorkspaceInv`). `BaseIsCommit`: the
  head a run builds on is a commit of the branch. `KnownIsCurrent`: what a
  run knows of a path is what the branches show, or the path is in `outdated`. A
  push by people appends to the branch and puts its path there (`BranchMovesKeeps`).
* `SignedOutForCauseHolds` (`AccountsInv`). Until something disturbs the pages
  (two tabs rotate one token, a sign-out meets calls of another tab, a logout at the server, a
  token lapses, an answer is lost), the state is `Calm`: one
  refresh at most is waited for, it presents the stored token and nobody else
  does (`Presenting`, `NoStray`), what it is granted is unused (`GrantsNew`),
  and the stored token is usable unless its replacement is on the way
  (`StoredUsable`). So no refresh is denied.
* `SessionsDoNotMultiplyHolds` counts, for each family, the live tokens nobody is rotating and the
  rotations under way. Every step but a raced one shrinks both or trades one
  for the other (`BothShrink`, `TokenForRotation`, `RotationForToken`). It needs
  that finitely many refreshes can be open at once, which is part of
  `AccountsAssumption`.

Stay with TLC: every liveness property, since fairness and ENABLED are out of the
prover's reach (`LeasedTaskIsReclaimed`, `EligibleTaskSettles`,
`ApprovedDeploymentRuns`, `HaltsAtCap`, `PollHeals`, `RunEnds`). Every other property of a passing run is a theorem.
The type invariants (`SwarmTypeOK`, `IncidentsTypeOK`, `TypeOK` of `TaskPipeline` and
`AgentLoop`) and `ParentsAreProven` are proved and left out of the runs, where
the other properties break earlier.

No module uses a RECURSIVE operator. Induction over data is not available to the
prover. Where an argument needs one (the first rollback, the nearest hit, the
shortest chain), the proof takes a least counterexample: `LeastNatural` has a least element of every nonempty set of
naturals from the well-foundedness of `<`, a library theorem without an operator parameter.

## 5. Not modelled

* Fleet, debate and benchmark: pure computations for one request; no other
  component reads what they return.
* Economics reports and the read-only endpoints: they change nothing.
* The product factory: `bootstrap` inserts a first backlog in one transaction.
* Refactoring proposals (`propose_refactors`) and the routing advice of the improvement loop: proposals
  and reports, behind the maintenance step that raises for every project that has
  a graph.
* The content of plans, code, reviews and memories; the secret scanner's patterns;
  embedding similarity and centrality (numerical); password hashing and JWT (library calls);
  rate limits (middleware that fails open); metrics, logging and tracing (they only
  observe); infrastructure and migrations.

`PROJECT.json` lists every component with its status.

## 6. Plan

What would come next, most useful first:

1. `AgentRuns` and `TaskPipeline` composed: the spend of a tick is charged to the
   task whose attempts it uses, so the cap and the attempts could be related in one invariant.
2. The two divergences of section 3 that no run shows: the double execution, and a human's
   PAUSED that planning overwrites. Once a divergence is settled in the code, its violation
   run becomes a passing one, or goes.
3. `Product`: the first backlog of `bootstrap`, with its dependencies by title,
   as an initial state of `TaskPipeline`.
4. `Fleet`, `Debate`, `Benchmark` as functions against reference definitions, once a
   pipeline step depends on them.

`Approvals` with gated deployments as a second implementation of `HumanGate` is
not to be had: the run `ApprovalsRejected` is its counterexample.
