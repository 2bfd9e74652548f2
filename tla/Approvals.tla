----------------------------- MODULE Approvals -----------------------------
(***************************************************************************)
(* The human decisions of one project: decide_approval and                  *)
(* rollback_deployment (api/resources.py), what they start                  *)
(* (merge_approved, _deploy, rollback_deployment, execute_deployment of     *)
(* orchestration/orchestrator.py) and process_pending_deployments, which    *)
(* the worker runs after every tick.                                        *)
(*                                                                         *)
(* Every API request and every tick is one READ COMMITTED transaction: it   *)
(* acts on rows as it loaded them and writes, when it commits, the columns  *)
(* it changed.  TaskPipeline takes one decision at a time; here requests    *)
(* overlap.                                                                 *)
(***************************************************************************)
EXTENDS Naturals, FiniteSets, FiniteSetsExt

CONSTANTS
  Pull,       \* open pull requests, each with a merge approval
  Slots,      \* bound: deployments, numbered in the order of creation
  Request,    \* API requests that may be open at once
  GitHub,     \* is there a GitHub App and a linked repository?
  MaxFaults,  \* bound: crashes, lost answers, failing deployments
  None

Deployment == 1 .. Slots
Subject == Pull \cup Deployment

ASSUME ApprovalsAssumption ==
  /\ Slots \in Nat /\ Pull \cap Deployment = {} /\ GitHub \in BOOLEAN
  /\ MaxFaults \in Nat /\ None \notin Subject

VARIABLES
  approval,    \* Approval.approved of the merge or deployment it is about
  pull,        \* committed status of the pull requests
  github,      \* the same on GitHub
  deployment,  \* committed rows of deployments
  request,     \* open requests
  tick,        \* process_pending_deployments: rows loaded and not visited, rows run
  faults

vars == <<approval, pull, github, deployment, request, tick, faults>>

\* release is commit_sha: the pull request that was merged last.
DeploymentRow == [status : {"absent", "queued", "succeeded", "failed", "rolled_back"},
                  release : Pull \cup {None}, from : Deployment \cup {None}]
Absent == [status |-> "absent", release |-> None, from |-> None]
Queued(p) == [status |-> "queued", release |-> p, from |-> None]

RequestRow == [pc : {"idle", "loaded", "merging", "rolling"}, subject : Subject \cup {None},
               verdict : BOOLEAN, seen : {"none", "queued", "other"}, release : Pull \cup {None}]
Idle == [pc |-> "idle", subject |-> None, verdict |-> FALSE, seen |-> "none", release |-> None]

Exists(d) == deployment[d].status # "absent"
Free(d) == ~Exists(d) /\ \A e \in Deployment : e < d => Exists(e)

Init ==
  /\ approval = [x \in Subject |-> IF x \in Pull THEN "pending" ELSE "none"]
  /\ pull = [p \in Pull |-> "open"]
  /\ github = [p \in Pull |-> "open"]
  /\ deployment = [d \in Deployment |-> Absent]
  /\ request = [r \in Request |-> Idle]
  /\ tick = [pc |-> "idle", queue |-> {}, ran |-> {}]
  /\ faults = 0

Fault == faults < MaxFaults /\ faults' = faults + 1

----------------------------------------------------------------------------
(* decide_approval.                                                        *)

\* The approval is loaded and not decided yet; a decided one is a 409.
LoadApproval(r, x, verdict) ==
  /\ request[r].pc = "idle" /\ approval[x] = "pending"
  /\ request' = [request EXCEPT ![r] = [Idle EXCEPT !.pc = "loaded", !.subject = x,
                                                    !.verdict = verdict]]
  /\ UNCHANGED <<approval, pull, github, deployment, tick, faults>>

\* Rejected, or approved for a pull request that is no longer OPEN.
CommitDecision(r) ==
  LET x == request[r].subject
  IN  /\ request[r].pc = "loaded"
      /\ request[r].verdict => x \in Pull /\ pull[x] # "open"
      /\ approval' = [approval EXCEPT ![x] = IF request[r].verdict THEN "approved" ELSE "rejected"]
      /\ request' = [request EXCEPT ![r] = Idle]
      /\ UNCHANGED <<pull, github, deployment, tick, faults>>

\* Mutant: the rows are written and GitHub is not called.
CallNobody(r) ==
  /\ request[r].pc = "loaded" /\ request[r].verdict
  /\ request[r].subject \in Pull /\ pull[request[r].subject] = "open"
  /\ request' = [request EXCEPT ![r].pc = "merging"]
  /\ UNCHANGED <<approval, pull, github, deployment, tick, faults>>

\* merge_approved: the pull request was loaded OPEN; GitHub refuses to merge it
\* twice, and its exception ends the request.
CallMerge(r) ==
  LET x == request[r].subject
  IN  /\ request[r].pc = "loaded" /\ request[r].verdict
      /\ x \in Pull /\ pull[x] = "open"
      /\ IF GitHub /\ github[x] = "merged"
         THEN request' = [request EXCEPT ![r] = Idle] /\ UNCHANGED github
         ELSE /\ github' = IF GitHub THEN [github EXCEPT ![x] = "merged"] ELSE github
              /\ request' = [request EXCEPT ![r].pc = "merging"]
      /\ UNCHANGED <<approval, pull, deployment, tick, faults>>

\* The rows of merge_approved and, for a deployable task, those of _deploy: a
\* QUEUED deployment and its approval.
CommitMerge(r) ==
  LET x == request[r].subject
  IN  /\ request[r].pc = "merging"
      /\ pull' = [pull EXCEPT ![x] = "merged"]
      /\ \/ /\ approval' = [approval EXCEPT ![x] = "approved"]
            /\ UNCHANGED deployment
         \/ \E d \in Deployment :
              /\ Free(d)
              /\ deployment' = [deployment EXCEPT ![d] = Queued(IF GitHub THEN x ELSE None)]
              /\ approval' = [approval EXCEPT ![x] = "approved", ![d] = "pending"]
      /\ request' = [request EXCEPT ![r] = Idle]
      /\ UNCHANGED <<github, tick, faults>>

\* An approved deployment: session.get loads the row, and assigning QUEUED
\* writes the column only if something else was loaded.
LoadDeployment(r) ==
  LET x == request[r].subject
  IN  /\ request[r].pc = "loaded" /\ request[r].verdict /\ request[r].seen = "none"
      /\ x \in Deployment
      /\ request' = [request EXCEPT ![r].seen =
                       IF deployment[x].status = "queued" THEN "queued" ELSE "other"]
      /\ UNCHANGED <<approval, pull, github, deployment, tick, faults>>

CommitDeployment(r) ==
  LET x == request[r].subject
  IN  /\ request[r].pc = "loaded" /\ request[r].seen # "none"
      /\ approval' = [approval EXCEPT ![x] = "approved"]
      /\ deployment' = IF request[r].seen = "queued" THEN deployment
                       ELSE [deployment EXCEPT ![x].status = "queued"]
      /\ request' = [request EXCEPT ![r] = Idle]
      /\ UNCHANGED <<pull, github, tick, faults>>

----------------------------------------------------------------------------
(* rollback_deployment.                                                    *)

Succeeded(d) == {e \in Deployment \ {d} : deployment[e].status = "succeeded"}

\* Any deployment may be rolled back; the newest other one that SUCCEEDED is
\* what will be restored.
LoadRollback(r, d) ==
  /\ request[r].pc = "idle" /\ Exists(d)
  /\ request' = [request EXCEPT ![r] =
       [Idle EXCEPT !.pc = "rolling", !.subject = d,
                    !.release = IF Succeeded(d) = {} THEN None
                                ELSE deployment[Max(Succeeded(d))].release]]
  /\ UNCHANGED <<approval, pull, github, deployment, tick, faults>>

\* Mutant: the restoring deployment is left in the queue for the worker.
CommitRollbackQueued(r) ==
  LET d == request[r].subject
  IN  /\ request[r].pc = "rolling"
      /\ \E e \in Deployment :
           /\ Free(e)
           /\ deployment' = [deployment EXCEPT
                ![d].status = "rolled_back",
                ![e] = [status |-> "queued", release |-> request[r].release, from |-> d]]
      /\ request' = [request EXCEPT ![r] = Idle]
      /\ UNCHANGED <<approval, pull, github, tick, faults>>

\* The restoring deployment is inserted and executed, the other one marked; an
\* exception in execute_deployment is caught and makes it FAILED.
CommitRollback(r) ==
  LET d == request[r].subject
  IN  /\ request[r].pc = "rolling"
      /\ \E e \in Deployment, status \in {"succeeded", "failed"} :
           /\ Free(e)
           /\ IF status = "failed" THEN Fault ELSE UNCHANGED faults
           /\ deployment' = [deployment EXCEPT
                ![d].status = "rolled_back",
                ![e] = [status |-> status, release |-> request[r].release, from |-> d]]
      /\ request' = [request EXCEPT ![r] = Idle]
      /\ UNCHANGED <<approval, pull, github, tick>>

\* A request raises, or the API process dies: nothing of it is committed.
RollBackRequest(r) ==
  /\ request[r].pc # "idle" /\ Fault
  /\ request' = [request EXCEPT ![r] = Idle]
  /\ UNCHANGED <<approval, pull, github, deployment, tick>>

----------------------------------------------------------------------------
(* process_pending_deployments.                                            *)

LoadQueue ==
  LET queue == {d \in Deployment : deployment[d].status = "queued"}
  IN  /\ tick.pc = "idle" /\ queue # {}
      /\ tick' = [pc |-> "running", queue |-> queue, ran |-> {}]
      /\ UNCHANGED <<approval, pull, github, deployment, request, faults>>

\* "Only run deployments that are not waiting on an open approval."
\* Mutants: no approval is looked for; a decided approval blocks as well.
NeverWaiting(d) == FALSE
WaitingOnAny(d) == approval[d] # "none"
Waiting(d) == approval[d] = "pending"

Visit(d) ==
  /\ tick.pc = "running" /\ d \in tick.queue
  /\ tick' = [tick EXCEPT !.queue = @ \ {d}, !.ran = IF Waiting(d) THEN @ ELSE @ \cup {d}]
  /\ UNCHANGED <<approval, pull, github, deployment, request, faults>>

\* What was run is written over the rows that were loaded.
CommitTick ==
  /\ tick.pc = "running" /\ tick.queue = {}
  /\ \E failed \in SUBSET tick.ran :
       /\ IF failed # {} THEN Fault ELSE UNCHANGED faults
       /\ deployment' = [d \in Deployment |->
            IF d \in tick.ran
            THEN [deployment[d] EXCEPT !.status = IF d \in failed THEN "failed" ELSE "succeeded"]
            ELSE deployment[d]]
  /\ tick' = [pc |-> "idle", queue |-> {}, ran |-> {}]
  /\ UNCHANGED <<approval, pull, github, request>>

\* The worker dies, or the flush fails.
RollBackTick ==
  /\ tick.pc = "running" /\ Fault
  /\ tick' = [pc |-> "idle", queue |-> {}, ran |-> {}]
  /\ UNCHANGED <<approval, pull, github, deployment, request>>

----------------------------------------------------------------------------
Decide(r) ==
  \/ \E x \in Subject, verdict \in BOOLEAN : LoadApproval(r, x, verdict)
  \/ CommitDecision(r) \/ CallMerge(r) \/ CommitMerge(r)
  \/ LoadDeployment(r) \/ CommitDeployment(r)

Restore(r) == (\E d \in Deployment : LoadRollback(r, d)) \/ CommitRollback(r)

Worker == LoadQueue \/ (\E d \in Deployment : Visit(d)) \/ CommitTick

Next ==
  \/ \E r \in Request : Decide(r) \/ Restore(r) \/ RollBackRequest(r)
  \/ Worker \/ RollBackTick

Spec == Init /\ [][Next]_vars

\* The project is running and ACTIVE, so its worker ticks again and again.
FairSpec == Spec /\ WF_vars(Worker)

----------------------------------------------------------------------------
(* Properties.                                                             *)

Ran(d) == deployment[d].status \in {"succeeded", "failed"}

(* A deployment is not run while its approval is open, whatever requests     *)
(* commit between the tick's queries (process_pending_deployments).         *)
OpenApprovalBlocks == \A d \in Deployment : Ran(d) => approval[d] # "pending"

(* A deployment is ROLLED_BACK only together with the one that took its      *)
(* place: both rows of rollback_deployment survive, or neither.             *)
RollbackHasRestore ==
  \A d \in Deployment : deployment[d].status = "rolled_back" =>
    \E e \in Deployment : deployment[e].from = d /\ deployment[e].status # "queued"

(* The database does not say MERGED before GitHub merged, although two        *)
(* requests may approve the same pull request.                              *)
MergedOnGitHub == GitHub => \A p \in Pull : pull[p] = "merged" => github[p] = "merged"

(* An approved deployment that is QUEUED is eventually taken from the queue. *)
ApprovedDeploymentRuns ==
  \A d \in Deployment :
    (deployment[d].status = "queued" /\ approval[d] = "approved") ~> (deployment[d].status # "queued")

(* docs/evidence.md: "RiMo never merges or deploys without human approval":   *)
(* what a human refused is not deployed.                                    *)
RejectedNeverRuns == \A d \in Deployment : approval[d] = "rejected" => ~Ran(d)
=============================================================================
