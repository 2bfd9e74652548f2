---------------------------- MODULE AgentResults ----------------------------
(***************************************************************************)
(* What one run of an agent can report (AgentResult of services/llm.py):    *)
(* how it ended, in which iteration, and how many calls were answered.      *)
(***************************************************************************)
EXTENDS Naturals

CONSTANT MaxIterations  \* settings.max_agent_iterations

Succeeded == {[status |-> "succeeded", iterations |-> n, usage |-> n] : n \in 1 .. MaxIterations}
Exhausted == {[status |-> "exhausted", iterations |-> MaxIterations, usage |-> MaxIterations]}
\* The model could not be reached; the call that failed is not charged.
Failed == {[status |-> "failed", iterations |-> n, usage |-> n - 1] : n \in 1 .. MaxIterations}
\* An exception of the caller's own hooks, before, between and after the calls.
Raised == {[status |-> "raised", iterations |-> n, usage |-> u] :
             n \in 0 .. MaxIterations, u \in 0 .. MaxIterations}

Reported == Succeeded \cup Exhausted \cup Failed
=============================================================================
