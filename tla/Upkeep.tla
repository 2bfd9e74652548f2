------------------------------- MODULE Upkeep -------------------------------
(***************************************************************************)
(* The slow maintenance of one running project (worker.py, run_maintenance  *)
(* of orchestration/orchestrator.py, orchestration/research.py) and the     *)
(* requests that ask for a research survey (api/intelligence.py).  The      *)
(* request flag lives in the JSON column project.metrics, which every       *)
(* writer computes from the row it loaded and writes whole; a value that    *)
(* equals the loaded one is not written.                                    *)
(***************************************************************************)
EXTENDS Naturals, FiniteSets

CONSTANTS
  Asker,       \* requests to POST /projects/{id}/research
  Interval,    \* settings.maintenance_cycle_interval
  MaxTasks,    \* propose_tasks: max_tasks
  MaxUpkeepFaults    \* bound: exceptions, crashes, and humans who pause

ASSUME UpkeepAssumption ==
  /\ IsFiniteSet(Asker)
  /\ Interval \in Nat \ {0} /\ MaxTasks \in Nat /\ MaxUpkeepFaults \in Nat

VARIABLES
  linked,      \* has the project a repository?
  active,      \* is the project ACTIVE?
  flag,        \* metrics["research_requested"]
  asker,       \* the requests: idle, open with the flag as loaded, acknowledged
  analysis,    \* _analyze_repo, for a project created with a repository
  cycle,       \* the worker's cycle counter
  upkeep,      \* _maintain: idle, loaded with the flag as loaded, surveying
  backlog,     \* tasks proposed by surveys
  upkeepFaults

upkeepVars == <<linked, active, flag, asker, analysis, cycle, upkeep, backlog, upkeepFaults>>

UpkeepInit ==
  /\ linked \in BOOLEAN /\ active = TRUE /\ flag = FALSE
  /\ asker = [q \in Asker |-> "idle"]
  /\ analysis = IF linked THEN "idle" ELSE "done"
  /\ cycle = 0 /\ upkeep = "idle"
  /\ backlog = 0 /\ upkeepFaults = 0

Trouble == upkeepFaults < MaxUpkeepFaults /\ upkeepFaults' = upkeepFaults + 1

----------------------------------------------------------------------------
\* trigger_research: load the project ...
AskLoad(q) ==
  /\ asker[q] = "idle"
  /\ asker' = [asker EXCEPT ![q] = IF flag THEN "saw_true" ELSE "saw_false"]
  /\ UNCHANGED <<linked, active, flag, analysis, cycle, upkeep, backlog, upkeepFaults>>

\* ... set the flag, commit and answer "queued".
AskCommit(q) ==
  /\ asker[q] \in {"saw_true", "saw_false"}
  /\ flag' = (flag \/ asker[q] = "saw_false")
  /\ asker' = [asker EXCEPT ![q] = "queued"]
  /\ UNCHANGED <<linked, active, analysis, cycle, upkeep, backlog, upkeepFaults>>

\* _analyze_repo: load the project, ask GitHub and the model ...
AnalyzeLoad ==
  /\ linked /\ analysis = "idle"
  /\ analysis' = IF flag THEN "saw_true" ELSE "saw_false"
  /\ UNCHANGED <<linked, active, flag, asker, cycle, upkeep, backlog, upkeepFaults>>

\* ... write the metrics it loaded and what it found; or fail, or find nothing new.
AnalyzeCommit ==
  /\ analysis \in {"saw_true", "saw_false"} /\ analysis' = "done"
  /\ flag' \in {flag, analysis = "saw_true"}
  /\ UNCHANGED <<linked, active, asker, cycle, upkeep, backlog, upkeepFaults>>

\* A human pauses the project, or resumes it.
Pause ==
  /\ active /\ active' = FALSE /\ Trouble
  /\ UNCHANGED <<linked, flag, asker, analysis, cycle, upkeep, backlog>>

Resume ==
  /\ ~active /\ active' = TRUE
  /\ UNCHANGED <<linked, flag, asker, analysis, cycle, upkeep, backlog, upkeepFaults>>

----------------------------------------------------------------------------
\* run_forever: a cycle that advances the project without maintenance ...
Advance ==
  /\ active /\ upkeep = "idle"
  /\ cycle + 1 < Interval /\ cycle' = cycle + 1
  /\ UNCHANGED <<linked, active, flag, asker, analysis, upkeep, backlog, upkeepFaults>>

\* ... or with it: _maintain loads the project.
MaintainLoad ==
  /\ active /\ upkeep = "idle"
  /\ cycle + 1 = Interval /\ cycle' = 0
  /\ upkeep' = IF flag THEN "saw_true" ELSE "saw_false"
  /\ UNCHANGED <<linked, active, flag, asker, analysis, backlog, upkeepFaults>>

\* An exception of a tick's commit skips the count of the cycle; a restart of the
\* worker loses it, and whatever maintenance was under way.
LoseCycle ==
  /\ Trouble /\ cycle' \in {cycle, 0} /\ upkeep' = "idle"
  /\ UNCHANGED <<linked, active, flag, asker, analysis, backlog>>

\* _fetch_repo_files reads self._github, which no Orchestrator has: a project
\* with a repository gets no maintenance at all.
MaintainRaises ==
  /\ upkeep \in {"saw_true", "saw_false"} /\ linked
  /\ upkeep' = "idle"
  /\ UNCHANGED <<linked, active, flag, asker, analysis, cycle, backlog, upkeepFaults>>

\* run_maintenance finds the flag down.
NothingAsked ==
  /\ upkeep = "saw_false" /\ ~linked /\ upkeep' = "idle"
  /\ UNCHANGED <<linked, active, flag, asker, analysis, cycle, backlog, upkeepFaults>>

\* _run_research up to the distiller; a failed search only yields fewer findings.
Survey ==
  /\ upkeep = "saw_true" /\ ~linked /\ upkeep' = "surveying"
  /\ UNCHANGED <<linked, active, flag, asker, analysis, cycle, backlog, upkeepFaults>>

\* Mutant: the flag stays up.
ProposeAgain(n) ==
  /\ upkeep = "surveying" /\ upkeep' = "idle"
  /\ backlog' = backlog + n
  /\ UNCHANGED <<linked, active, flag, asker, analysis, cycle, upkeepFaults>>

\* Tasks are proposed and the flag is taken down.
Propose(n) ==
  /\ upkeep = "surveying" /\ upkeep' = "idle"
  /\ backlog' = backlog + n
  /\ flag' = FALSE
  /\ UNCHANGED <<linked, active, asker, analysis, cycle, upkeepFaults>>

\* The distiller raises, or a proposal has no number for a complexity: _maintain
\* catches it inside its session, which commits the tasks made so far; the flag
\* stays up.
ProposeFails(n) ==
  /\ upkeep = "surveying" /\ Trouble /\ upkeep' = "idle"
  /\ backlog' = backlog + n
  /\ UNCHANGED <<linked, active, flag, asker, analysis, cycle>>

UpkeepNext ==
  \/ \E q \in Asker : AskLoad(q) \/ AskCommit(q)
  \/ AnalyzeLoad \/ AnalyzeCommit \/ Pause \/ Resume
  \/ Advance \/ MaintainLoad \/ LoseCycle \/ MaintainRaises \/ NothingAsked \/ Survey
  \/ \E n \in 0 .. MaxTasks : Propose(n) \/ ProposeFails(n)

UpkeepSpec == UpkeepInit /\ [][UpkeepNext]_upkeepVars

----------------------------------------------------------------------------
\* A survey costs MaxTasks tasks at the most, and is paid for: by a request, whose
\* flag is served once, or by the exception that ended the last one.  Only faults
\* make one request cost more than one survey.
SurveysBoundBacklog ==
  backlog <= MaxTasks * (Cardinality({q \in Asker : asker[q] = "queued"}) + upkeepFaults)
=============================================================================
