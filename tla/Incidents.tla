----------------------------- MODULE Incidents -----------------------------
(***************************************************************************)
(* One incident and its recovery (services/recovery.py): diagnose, bounded  *)
(* retries, rollback, escalation.  The failing step, its retry and its      *)
(* rollback are the caller's; fault says what the successful ones did.  A    *)
(* flush can fail; a session that failed one stays unusable until it is     *)
(* rolled back, and its objects cannot even be read.                        *)
(***************************************************************************)
EXTENDS Naturals

CONSTANTS
  MaxRetries    \* FailureRecovery._max_retries

ASSUME IncidentsAssumption == MaxRetries \in Nat

VARIABLES
  at,           \* where recover is; none before the incident exists
  revertible,   \* does the caller pass a rollback?
  attempts,     \* incident.attempts
  status,       \* incident.status in the session
  saved,        \* incident.status in the database
  usable,       \* can the session flush?
  fault         \* the failure itself

incidentVars == <<at, revertible, attempts, status, saved, usable, fault>>

Status == {"open", "diagnosing", "recovered", "rolled_back", "escalated"}

IncidentsTypeOK ==
  /\ at \in {"none", "open", "retrying", "rolling_back", "escalating", "returned", "raised", "closed"}
  /\ revertible \in BOOLEAN /\ attempts \in 0 .. MaxRetries
  /\ status \in Status /\ saved \in Status
  /\ usable \in BOOLEAN /\ fault \in {"present", "fixed", "reverted"}

IncidentsInit ==
  /\ at = "none" /\ revertible = FALSE /\ attempts = 0
  /\ status = "open" /\ saved = "open"
  /\ usable = TRUE /\ fault = "present"

\* open_incident, committed by its caller.
OpenIncident ==
  /\ at = "none" /\ at' = "open"
  /\ revertible' \in BOOLEAN
  /\ UNCHANGED <<attempts, status, saved, usable, fault>>

\* flush: `then` if it succeeds, `otherwise` if it raises.
Flush(then, otherwise) ==
  \/ usable /\ at' = then /\ UNCHANGED usable
  \/ usable' = FALSE /\ at' = otherwise

\* diagnose, which may raise: nothing in recover catches it.
Diagnose ==
  /\ at = "open"
  /\ status' = "diagnosing"
  /\ Flush("retrying", "raised") \/ (at' = "raised" /\ UNCHANGED usable)
  /\ UNCHANGED <<revertible, attempts, saved, fault>>

\* An attempt that returns False or raises.
RetryFails ==
  /\ at = "retrying" /\ attempts < MaxRetries
  /\ attempts' = attempts + 1
  /\ UNCHANGED <<revertible, at, status, saved, usable, fault>>

\* Mutant: no return after a successful attempt.
RetryFallsThrough ==
  /\ at = "retrying" /\ attempts < MaxRetries
  /\ attempts' = attempts + 1 /\ fault' = "fixed"
  /\ status' = "recovered" /\ Flush("retrying", "raised")
  /\ UNCHANGED <<revertible, saved>>

\* An attempt that repairs the failure.  The flush that follows is inside the
\* try, but after one that failed the handler's _append raises in its turn: the
\* timeline it reads is expired.
RetrySucceeds ==
  /\ at = "retrying" /\ attempts < MaxRetries
  /\ attempts' = attempts + 1 /\ fault' = "fixed"
  /\ status' = "recovered" /\ Flush("returned", "raised")
  /\ UNCHANGED <<revertible, saved>>

RetriesExhausted ==
  /\ at = "retrying" /\ attempts = MaxRetries
  /\ at' = IF revertible THEN "rolling_back" ELSE "escalating"
  /\ UNCHANGED <<revertible, attempts, status, saved, usable, fault>>

RollbackFails ==
  /\ at = "rolling_back" /\ at' = "escalating"
  /\ UNCHANGED <<revertible, attempts, status, saved, usable, fault>>

RollbackSucceeds ==
  /\ at = "rolling_back" /\ fault' = "reverted"
  /\ status' = "rolled_back" /\ Flush("returned", "raised")
  /\ UNCHANGED <<revertible, attempts, saved>>

Escalate ==
  /\ at = "escalating"
  /\ status' = "escalated" /\ Flush("returned", "raised")
  /\ UNCHANGED <<revertible, attempts, saved, fault>>

\* The caller's transaction: committed, or rolled back, which is all that an
\* unusable session allows.
Close ==
  /\ at \in {"returned", "raised"} /\ at' = "closed"
  /\ \/ usable /\ saved' = status
     \/ UNCHANGED saved
  /\ UNCHANGED <<revertible, attempts, status, usable, fault>>

IncidentsNext ==
  \/ OpenIncident \/ Diagnose \/ RetryFails \/ RetrySucceeds \/ RetriesExhausted
  \/ RollbackFails \/ RollbackSucceeds \/ Escalate \/ Close

IncidentsSpec == IncidentsInit /\ [][IncidentsNext]_incidentVars

----------------------------------------------------------------------------
\* What the database says is what happened: recovered and rolled back only if
\* the last action did that, escalated only if every attempt and the rollback
\* failed, and stuck in diagnosis only if nothing was attempted.
SavedOutcomeIsTrue ==
  /\ saved = "recovered" => fault = "fixed"
  /\ saved = "rolled_back" => fault = "reverted" /\ attempts = MaxRetries
  /\ saved = "escalated" => fault = "present" /\ attempts = MaxRetries
  /\ saved = "diagnosing" => fault = "present" /\ attempts = 0

=============================================================================
