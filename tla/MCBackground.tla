---------------------------- MODULE MCBackground ----------------------------
(***************************************************************************)
(* What runs by itself: one run of an agent, the ticks that spend a         *)
(* project's budget, the recovery of an incident, the maintenance of a      *)
(* project, and the feed of its events.  A behaviour is one of a single component, picked at the     *)
(* start, while the others stay as they are.                                *)
(***************************************************************************)
EXTENDS MCAgentRuns, AgentLoop, Incidents, Upkeep, EventStream

CONSTANTS q1, q2, w1, w2

VARIABLE part

spendVars == vars
backgroundVars == <<part, spendVars, loopVars, incidentVars, upkeepVars, streamVars>>

BackgroundInit ==
  /\ part \in {"spend", "loop", "incidents", "upkeep", "stream"}
  /\ Init /\ LoopInit /\ IncidentsInit /\ UpkeepInit /\ StreamInit
  /\ part # "upkeep" => ~linked

SpendOnly == part = "spend" /\ UNCHANGED <<part, loopVars, incidentVars, upkeepVars, streamVars>>
LoopOnly == part = "loop" /\ UNCHANGED <<part, spendVars, incidentVars, upkeepVars, streamVars>>
IncidentsOnly == part = "incidents" /\ UNCHANGED <<part, spendVars, loopVars, upkeepVars, streamVars>>
UpkeepOnly == part = "upkeep" /\ UNCHANGED <<part, spendVars, loopVars, incidentVars, streamVars>>
StreamOnly == part = "stream" /\ UNCHANGED <<part, spendVars, loopVars, incidentVars, upkeepVars>>

BackgroundNext ==
  \/ SpendOnly /\ Next
  \/ LoopOnly /\ LoopNext
  \/ IncidentsOnly /\ IncidentsNext
  \/ UpkeepOnly /\ UpkeepNext
  \/ StreamOnly /\ StreamNext

\* Agents return, as every call has a timeout and every tool returns; open ticks go
\* on, and the page polls.
BackgroundSpec ==
  /\ BackgroundInit /\ [][BackgroundNext]_backgroundVars
  /\ \A a \in Tick : WF_backgroundVars(SpendOnly /\ TickStep(a))
  /\ WF_backgroundVars(LoopOnly /\ LoopNext)
  /\ WF_backgroundVars(StreamOnly /\ Polls)
=============================================================================
