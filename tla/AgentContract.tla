--------------------------- MODULE AgentContract ---------------------------
(***************************************************************************)
(* What the engine relies on when it runs an agent: the run reports once,   *)
(* within its iteration budget, the calls that were answered.               *)
(***************************************************************************)
EXTENDS AgentResults

VARIABLE outcome

Running == [status |-> "running", iterations |-> 0, usage |-> 0]

Init == outcome = Running
Return == outcome = Running /\ outcome' \in Reported \cup Raised

Spec == Init /\ [][Return]_outcome
=============================================================================
