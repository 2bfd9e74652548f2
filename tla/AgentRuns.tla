----------------------------- MODULE AgentRuns -----------------------------
(***************************************************************************)
(* Which agents a tick runs, on which model, and what the ledger records:   *)
(* _run_agent, execute_task, plan_project, _deploy and _budget_exceeded of  *)
(* orchestration/orchestrator.py, the router (services/router.py) and the   *)
(* agents, which are singletons of the worker process                      *)
(* (agents/registry.py).  A run of an agent is one step with any result     *)
(* AgentContract allows.  A tick is one transaction: what it records is     *)
(* pending until it commits, and _budget_exceeded reads committed calls.    *)
(* Costs are whole units per answered call.                                 *)
(***************************************************************************)
EXTENDS Naturals, FiniteSets

CONSTANTS
  Tick,            \* ticks of the worker on one project
  Job,             \* its tasks: records of kind, points and criteria
  Model,           \* models of all providers
  TierModel,       \* settings.model_trivial ... model_complex
  Keyed,           \* models whose provider has a key
  Fallback,        \* _ANTHROPIC_FALLBACK
  DefaultModel,    \* settings.default_model
  RoutingEnabled,  \* settings.routing_enabled
  Pin,             \* the model an agent's class declares, or None
  Price,           \* settings.model_prices; 0 for a model that has none
  MaxPrice,
  MaxIterations,   \* settings.max_agent_iterations
  Cap,             \* settings.max_cost_usd_per_project; 0 is no cap
  MergeNeedsApproval,
  MaxRequested,    \* bound: agent runs that humans request
  MaxFaults,       \* bound: exceptions, failed commits, crashes
  None

INSTANCE AgentResults

Role == {"ceo", "planner", "architect", "builder", "qa", "reviewer", "security",
         "memory", "devops"}
Tier == {"trivial", "simple", "standard", "complex"}
PlanningJob == [kind |-> "research", points |-> 3, criteria |-> 0]

ASSUME RunsAssumption ==
  /\ MaxIterations \in Nat \ {0} /\ IsFiniteSet(Tick)
  /\ Job \subseteq [kind : STRING, points : Nat, criteria : Nat]
  /\ TierModel \in [Tier -> Model] /\ Fallback \in [Tier -> Model] /\ DefaultModel \in Model
  /\ Pin \in [Role -> Model \cup {None}] /\ None \notin Model
  /\ MaxPrice \in Nat /\ Price \in [Model -> 0 .. MaxPrice]
  /\ Cap \in Nat /\ MaxRequested \in Nat /\ MaxFaults \in Nat
  /\ RoutingEnabled \in BOOLEAN /\ MergeNeedsApproval \in BOOLEAN

VARIABLES
  projectStatus,  \* of the project: does the worker advance it?
  ledger,     \* committed cost of the project's model calls
  model,      \* agent.model of the worker's agents
  tick,       \* open transactions of the worker
  requested,  \* agent runs in requests of humans so far
  faults

vars == <<projectStatus, ledger, model, tick, requested, faults>>

\* An open tick: its task, the agent that is next or running, the model the
\* agent runs on, what the ledger will record, and whether the tick has raised.
TickRow == [pc : {"idle", "next", "running", "settled"}, job : Job \cup {PlanningJob},
            role : Role, using : Model \cup {None}, pending : Nat, raised : BOOLEAN]
Idle == [pc |-> "idle", job |-> PlanningJob, role |-> "ceo", using |-> None,
         pending |-> 0, raised |-> FALSE]

Init ==
  /\ projectStatus = "active" /\ ledger = 0
  /\ model = Pin
  /\ tick = [a \in Tick |-> Idle]
  /\ requested = 0 /\ faults = 0

Fault == faults < MaxFaults /\ faults' = faults + 1

----------------------------------------------------------------------------
(* The router.                                                             *)

Files(job) == IF job.criteria = 0 THEN 1 ELSE job.criteria

\* classify_complexity: the first rule that applies.
Classify(role, job) ==
  IF role \in {"architect", "ceo"} THEN "complex"
  ELSE IF role = "memory" THEN "trivial"
  ELSE IF job.kind = "docs" /\ job.points <= 2 THEN "trivial"
  ELSE IF job.kind \in {"refactor", "performance"} /\ Files(job) > 3 THEN "complex"
  ELSE IF job.points >= 8 \/ Files(job) > 5 THEN "complex"
  ELSE IF job.points >= 5 \/ Files(job) > 2 THEN "standard"
  ELSE IF job.points <= 1 /\ Files(job) <= 1 THEN "trivial"
  ELSE "simple"

\* route
Route(tier) ==
  IF ~RoutingEnabled THEN DefaultModel
  ELSE IF TierModel[tier] \in Keyed THEN TierModel[tier] ELSE Fallback[tier]

Routed(role, job) == Route(Classify(role, job))

----------------------------------------------------------------------------
(* One tick.                                                               *)

\* _budget_exceeded
OverCap == Cap > 0 /\ ledger >= Cap

\* A tick starts while no other is open, unless a gather ended early.
Alone == \A a \in Tick : tick[a].pc = "idle"
Starts == IF Alone THEN UNCHANGED faults ELSE Fault

\* _DESIGN_KINDS: features, refactors and infrastructure get a design first.
FirstRole(job) ==
  IF job = PlanningJob THEN "ceo"
  ELSE IF job.kind \in {"feature", "refactor", "infra"} /\ job.points >= 5 THEN "architect"
  ELSE "builder"

\* Mutant: the cap is checked in planning cycles only.
BeginUnchecked(a, job) ==
  /\ projectStatus = "active" /\ tick[a].pc = "idle" /\ Starts
  /\ job = PlanningJob => ~OverCap
  /\ tick' = [tick EXCEPT ![a] = [Idle EXCEPT !.pc = "next", !.job = job,
                                             !.role = FirstRole(job)]]
  /\ UNCHANGED <<projectStatus, ledger, model, requested>>

\* tick: a planning cycle or a task, unless the cap is reached.
Begin(a, job) ==
  /\ projectStatus = "active" /\ tick[a].pc = "idle" /\ Starts
  /\ ~OverCap
  /\ tick' = [tick EXCEPT ![a] = [Idle EXCEPT !.pc = "next", !.job = job,
                                             !.role = FirstRole(job)]]
  /\ UNCHANGED <<projectStatus, ledger, model, requested>>

\* Mutant: the tick returns and the project stays active.
BudgetSkip(a) ==
  /\ projectStatus = "active" /\ tick[a].pc = "idle" /\ Starts
  /\ OverCap
  /\ UNCHANGED <<projectStatus, ledger, model, tick, requested>>

\* tick: the project is paused instead, and the transaction ends.
BudgetHalt(a) ==
  /\ projectStatus = "active" /\ tick[a].pc = "idle" /\ Starts
  /\ OverCap
  /\ projectStatus' = "paused"
  /\ UNCHANGED <<ledger, model, tick, requested>>

\* Mutant: the routed model is set on every agent, pinned or not.
StartEveryAgent(a) ==
  LET role == tick[a].role  IN
  /\ tick[a].pc = "next"
  /\ model' = [model EXCEPT ![role] = Routed(role, tick[a].job)]
  /\ tick' = [tick EXCEPT ![a] = [@ EXCEPT !.pc = "running", !.using = model'[role]]]
  /\ UNCHANGED <<projectStatus, ledger, requested, faults>>

\* _run_agent up to agent.execute: the routed model is set on the singleton,
\* unless the agent has one, and the loop is built with what it has.
StartAgent(a) ==
  LET role == tick[a].role  IN
  /\ tick[a].pc = "next"
  /\ model' = IF model[role] = None
              THEN [model EXCEPT ![role] = Routed(role, tick[a].job)] ELSE model
  /\ tick' = [tick EXCEPT ![a] = [@ EXCEPT !.pc = "running", !.using = model'[role]]]
  /\ UNCHANGED <<projectStatus, ledger, requested, faults>>

Deployable(job) == job.kind \in {"feature", "bugfix", "infra"}

\* Who runs next: plan_project and execute_task, whose stages may give up after
\* the build (nothing staged) and after the quality gate (refused, a secret, no
\* pull request).  None ends the tick.
After(role, job, success) ==
  CASE role = "ceo"       -> {"planner"}
    [] role = "architect" -> {"builder"}
    [] role = "builder"   -> IF success THEN {"qa", None} ELSE {None}
    [] role = "qa"        -> {"reviewer"}
    [] role = "reviewer"  -> {"security"}
    [] role = "security"  -> {"memory", None}
    [] role = "memory"    -> IF ~MergeNeedsApproval /\ Deployable(job) THEN {"devops"} ELSE {None}
    [] role \in {"planner", "devops"} -> {None}

\* estimate_cost
Cost(m, usage) == Price[m] * usage

\* _run_agent after agent.execute: record the run at the price of the routed model.
FinishAgent(a) ==
  LET t == tick[a]  IN
  /\ t.pc = "running"
  /\ \E result \in Reported :
       \E next \in After(t.role, t.job, result.status = "succeeded") :
         tick' = [tick EXCEPT ![a] =
           [t EXCEPT !.pending = @ + Cost(Routed(t.role, t.job), result.usage),
                     !.using = None,
                     !.pc = IF next = None THEN "settled" ELSE "next",
                     !.role = IF next = None THEN @ ELSE next]]
  /\ UNCHANGED <<projectStatus, ledger, model, requested, faults>>

\* An exception inside the tick: the run it interrupts is not recorded, those
\* before it are.
Raise(a) ==
  /\ tick[a].pc \in {"next", "running", "settled"} /\ ~tick[a].raised /\ Fault
  /\ tick' = [tick EXCEPT ![a] = [@ EXCEPT !.pc = "settled", !.using = None, !.raised = TRUE]]
  /\ UNCHANGED <<projectStatus, ledger, model, requested>>

Commit(a) ==
  /\ tick[a].pc = "settled"
  /\ ledger' = ledger + tick[a].pending
  /\ projectStatus' = IF tick[a].raised THEN "blocked" ELSE projectStatus
  /\ tick' = [tick EXCEPT ![a] = Idle]
  /\ UNCHANGED <<model, requested, faults>>

\* A failed flush or commit: the calls were made and are not on the ledger.
RollBack(a) ==
  /\ tick[a].pc # "idle" /\ Fault
  /\ tick' = [tick EXCEPT ![a] = Idle]
  /\ UNCHANGED <<projectStatus, ledger, model, requested>>

\* The worker process is started again, with new agents.
CrashRestart ==
  /\ Fault
  /\ tick' = [a \in Tick |-> Idle]
  /\ model' = Pin
  /\ UNCHANGED <<projectStatus, ledger, requested>>

----------------------------------------------------------------------------
(* Humans.                                                                 *)

\* merge_approved in the API process deploys the task: a run of the DevOps
\* agent that no budget is asked for, in one request.
ApproveMerge(job) ==
  /\ MergeNeedsApproval /\ Deployable(job) /\ requested + 1 <= MaxRequested
  /\ requested' = requested + 1
  /\ \E result \in Reported : ledger' = ledger + Cost(Routed("devops", job), result.usage)
  /\ UNCHANGED <<projectStatus, model, tick, faults>>

\* trigger_planning runs plan_project in one request, without asking for the
\* budget either, and activates the project.
PlanRequest ==
  /\ requested + 2 <= MaxRequested
  /\ requested' = requested + 2
  /\ \E ceo, planner \in Reported :
       ledger' = ledger + Cost(Routed("ceo", PlanningJob), ceo.usage)
                        + Cost(Routed("planner", PlanningJob), planner.usage)
  /\ projectStatus' = "active"
  /\ UNCHANGED <<model, tick, faults>>

\* start_project, pause_project, update_project
SetStatus(new) ==
  /\ projectStatus' = new
  /\ UNCHANGED <<ledger, model, tick, requested, faults>>

TickStep(a) ==
  \/ \E job \in Job \cup {PlanningJob} : Begin(a, job)
  \/ BudgetHalt(a) \/ StartAgent(a) \/ FinishAgent(a) \/ Commit(a)

Next ==
  \/ \E a \in Tick : TickStep(a) \/ Raise(a) \/ RollBack(a)
  \/ CrashRestart
  \/ \E job \in Job : ApproveMerge(job)
  \/ PlanRequest
  \/ \E new \in {"active", "paused"} : SetStatus(new)

Spec == Init /\ [][Next]_vars

\* The worker goes on advancing an active project, and agents return.
FairSpec == Spec /\ \A a \in Tick : WF_vars(TickStep(a))

----------------------------------------------------------------------------
(* Properties.                                                             *)

RunCost == MaxIterations * MaxPrice
MaxRuns == 7  \* architect, builder, qa, reviewer, security, memory, devops

(* The cap is read before a tick and charged after it, and ticks may overlap: *)
(* the ledger passes the cap by at most one tick of each coroutine, and the  *)
(* runs humans request (_budget_exceeded, "hard financial stop").           *)
SpendBounded ==
  Cap > 0 => ledger <= Cap + Cardinality(Tick) * MaxRuns * RunCost + requested * RunCost

(* A role that declares its own model keeps it, whatever is routed on the    *)
(* shared agents (_with_model: "never overridden by the caller").           *)
PinnedModels == \A role \in Role : Pin[role] # None => model[role] = Pin[role]

(* At the cap the project stops, however often it is started again.          *)
HaltsAtCap == (OverCap /\ projectStatus = "active") ~> (projectStatus # "active")

(* Every other agent runs on the model its task is routed to (README.md,     *)
(* "every agent call is routed by complexity tier").                        *)
RunsOnRoutedModel ==
  \A a \in Tick : tick[a].pc = "running" /\ Pin[tick[a].role] = None =>
    tick[a].using = Routed(tick[a].role, tick[a].job)
=============================================================================
