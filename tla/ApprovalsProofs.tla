-------------------------- MODULE ApprovalsProofs --------------------------
(***************************************************************************)
(* Human decisions, for any pull requests, deployments and overlapping      *)
(* requests: an open approval blocks a deployment, a rolled-back deployment *)
(* has the one that replaced it, and MERGED rows are merged on GitHub.      *)
(***************************************************************************)
EXTENDS Approvals, WellFoundedInduction, TLAPS

-----------------------------------------------------------------------------
(* The inductive invariant.                                                 *)

Typed ==
  /\ approval \in [Subject -> {"none", "pending", "approved", "rejected"}]
  /\ pull \in [Pull -> {"open", "merged"}] /\ github \in [Pull -> {"open", "merged"}]
  /\ deployment \in [Deployment -> DeploymentRow]
  /\ request \in [Request -> RequestRow]
  /\ tick \in [pc : {"idle", "running"}, queue : SUBSET Deployment, ran : SUBSET Deployment]

\* The open request w was about something that exists when it was loaded, and
\* whose approval had been asked for.
SoundRequest(w) ==
  /\ w.pc \in {"loaded", "merging"} => w.subject \in Subject /\ approval[w.subject] # "none"
  /\ w.pc = "merging" => w.subject \in Pull /\ (GitHub => github[w.subject] = "merged")
  /\ w.seen # "none" => w.pc = "loaded" /\ w.subject \in Deployment
  /\ w.pc = "rolling" => w.subject \in Deployment /\ Exists(w.subject)

\* Nobody is ever asked about a row that restores another, and it is never
\* queued; so no tick holds it.
RestoresStayOut ==
  \A d \in Deployment :
    /\ approval[d] # "none" => Exists(d) /\ deployment[d].from = None
    /\ deployment[d].from # None => deployment[d].status \notin {"absent", "queued"}
    /\ d \in tick.queue \cup tick.ran => Exists(d) /\ deployment[d].from = None

\* What the open tick has run was not waiting, and will not be again.
RanUnblocked == \A d \in tick.ran : approval[d] # "pending"

ApprovalsInv ==
  /\ Typed /\ (\A r \in Request : SoundRequest(request[r]))
  /\ RestoresStayOut /\ RanUnblocked
  /\ OpenApprovalBlocks /\ RollbackHasRestore /\ MergedOnGitHub

LEMMA ApprovalsInit == Init => ApprovalsInv
<1> SUFFICES ASSUME Init PROVE ApprovalsInv
    OBVIOUS
<1>1. Typed
      BY DEF Init, Typed, Idle, RequestRow, Absent, DeploymentRow
<1>2. \A r \in Request : SoundRequest(request[r])
      BY DEF Init, SoundRequest, Idle
<1>3. \A d \in Deployment : approval[d] = "none" /\ deployment[d] = Absent
      BY ApprovalsAssumption DEF Init, Subject
<1>4. RestoresStayOut /\ RanUnblocked
      BY <1>3 DEF Init, RestoresStayOut, RanUnblocked, Absent
<1>5. OpenApprovalBlocks /\ RollbackHasRestore /\ MergedOnGitHub
      BY <1>3 DEF Init, OpenApprovalBlocks, Ran, RollbackHasRestore, MergedOnGitHub, Absent
<1> QED
    BY <1>1, <1>2, <1>4, <1>5 DEF ApprovalsInv

LEMMA LeastNatural ==
  ASSUME NEW T \in SUBSET Nat, T # {}
  PROVE  \E m \in T : \A y \in T : m <= y
<1> DEFINE Smaller == OpToRel(<, Nat)
<1>1. IsWellFoundedOn(Smaller, Nat)
      BY NatLessThanWellFounded, Zenon
<1>2. \A x, y : x \in Nat /\ y \in Nat /\ x < y => <<x, y>> \in Smaller
      BY Zenon DEF OpToRel
<1> HIDE DEF Smaller
<1>3. PICK m \in T : \A y \in T : ~ (<<y, m>> \in Smaller)
      BY <1>1, WFMin, Zenon
<1>4. \A y \in T : y \in Nat /\ m \in Nat /\ ~ (y < m)
  <2> SUFFICES ASSUME NEW y \in T PROVE y \in Nat /\ m \in Nat /\ ~ (y < m)
      OBVIOUS
  <2>1. y \in Nat /\ m \in Nat
        OBVIOUS
  <2> QED
      BY <1>2, <1>3, <2>1, Zenon
<1>5. \A y \in T : m <= y
      BY <1>4
<1> QED
    BY <1>5

LEMMA MaxIsMember ==
  ASSUME NEW n \in Nat, NEW S \in SUBSET (1 .. n), S # {}
  PROVE  Max(S) \in S
<1> DEFINE T == {n - x : x \in S}
<1>1. T \in SUBSET Nat /\ T # {}
  <2>1. \A x \in S : n - x \in Nat
        OBVIOUS
  <2>2. \E x \in S : n - x \in T
        OBVIOUS
  <2> QED
      BY <2>1, <2>2
<1> HIDE DEF T
<1>2. PICK m \in T : \A y \in T : m <= y
      BY <1>1, LeastNatural
<1> USE DEF T
<1>3. PICK x \in S : m = n - x
      BY <1>2
<1>4. \A y \in S : x >= y
  <2> SUFFICES ASSUME NEW y \in S PROVE x >= y
      OBVIOUS
  <2>1. n - y \in T
        OBVIOUS
  <2> HIDE DEF T
  <2>2. m <= n - y
        BY <1>2, <2>1
  <2> QED
      BY <1>3, <2>2
<1> QED
    BY <1>4 DEF Max

LEMMA Constants ==
  /\ Pull \subseteq Subject /\ Deployment \subseteq Subject /\ Pull \cap Deployment = {}
  /\ GitHub \in BOOLEAN /\ None \notin Subject
  BY ApprovalsAssumption DEF Subject

-----------------------------------------------------------------------------
(* Requests that write no row yet, or end without one.                      *)

LEMMA IdleSound == SoundRequest(Idle) /\ Idle \in RequestRow
  BY DEF SoundRequest, Idle, RequestRow

\* The rows stay, so the other requests stay sound.
LEMMA RequestMoves ==
  ASSUME ApprovalsInv, UNCHANGED <<approval, pull, github, deployment, tick>>,
         NEW r \in Request, NEW w \in RequestRow, SoundRequest(w),
         request' = [request EXCEPT ![r] = w]
  PROVE  ApprovalsInv'
<1>1. Typed'
      BY DEF ApprovalsInv, Typed
<1>2. ASSUME NEW q \in Request PROVE SoundRequest(request[q])'
  <2>1. SoundRequest(request'[q])
        BY DEF ApprovalsInv, Typed
  <2> QED
      BY <2>1 DEF SoundRequest, Exists
<1>3. (RestoresStayOut /\ RanUnblocked)'
      BY DEF ApprovalsInv, RestoresStayOut, RanUnblocked, Exists
<1>4. (OpenApprovalBlocks /\ RollbackHasRestore /\ MergedOnGitHub)'
      BY DEF ApprovalsInv, OpenApprovalBlocks, Ran, RollbackHasRestore, MergedOnGitHub
<1> QED
    BY <1>1, <1>2, <1>3, <1>4 DEF ApprovalsInv

LEMMA LoadsSound ==
  ASSUME ApprovalsInv, NEW r \in Request,
         \/ \E x \in Subject, verdict \in BOOLEAN : LoadApproval(r, x, verdict)
         \/ LoadDeployment(r)
         \/ \E d \in Deployment : LoadRollback(r, d)
         \/ RollBackRequest(r)
  PROVE  ApprovalsInv'
<1>0. request[r] \in RequestRow /\ SoundRequest(request[r])
      BY DEF ApprovalsInv, Typed
<1>1. ASSUME NEW x \in Subject, NEW verdict \in BOOLEAN, LoadApproval(r, x, verdict)
      PROVE  ApprovalsInv'
  <2> DEFINE w == [Idle EXCEPT !.pc = "loaded", !.subject = x, !.verdict = verdict]
  <2>1. w \in RequestRow /\ SoundRequest(w)
        BY <1>1 DEF Idle, RequestRow, SoundRequest, LoadApproval
  <2> QED
      BY <1>1, <2>1, RequestMoves DEF LoadApproval
<1>2. ASSUME LoadDeployment(r) PROVE ApprovalsInv'
  <2> DEFINE w == [request[r] EXCEPT !.seen =
                     IF deployment[request[r].subject].status = "queued" THEN "queued" ELSE "other"]
  <2>1. w \in RequestRow /\ SoundRequest(w)
        BY <1>0, <1>2 DEF RequestRow, SoundRequest, LoadDeployment
  <2>2. request' = [request EXCEPT ![r] = w]
        BY <1>2 DEF LoadDeployment, ApprovalsInv, Typed
  <2> QED
      BY <1>2, <2>1, <2>2, RequestMoves DEF LoadDeployment
<1>3. ASSUME NEW d \in Deployment, LoadRollback(r, d) PROVE ApprovalsInv'
  <2> DEFINE release == IF Succeeded(d) = {} THEN None ELSE deployment[Max(Succeeded(d))].release
             w == [Idle EXCEPT !.pc = "rolling", !.subject = d, !.release = release]
  <2>1. release \in Pull \cup {None}
    <3>1. Succeeded(d) # {} => Max(Succeeded(d)) \in Deployment
          BY MaxIsMember, ApprovalsAssumption DEF Succeeded, Deployment
    <3> QED
        BY <3>1 DEF ApprovalsInv, Typed, DeploymentRow
  <2>2. w \in RequestRow /\ SoundRequest(w)
        BY <1>3, <2>1, Constants DEF Idle, RequestRow, SoundRequest, LoadRollback
  <2> QED
      BY <1>3, <2>2, RequestMoves DEF LoadRollback
<1>4. CASE RollBackRequest(r)
      BY <1>4, IdleSound, RequestMoves DEF RollBackRequest
<1> QED
    BY <1>1, <1>2, <1>3, <1>4

-----------------------------------------------------------------------------
(* Decisions.                                                               *)

LEMMA DecisionSound ==
  ASSUME ApprovalsInv, NEW r \in Request, CommitDecision(r)
  PROVE  ApprovalsInv'
<1> DEFINE x == request[r].subject
           answer == IF request[r].verdict THEN "approved" ELSE "rejected"
<1>0. /\ Typed /\ SoundRequest(request[r]) /\ x \in Subject /\ approval[x] # "none"
      /\ approval' = [approval EXCEPT ![x] = answer] /\ answer \in {"approved", "rejected"}
      /\ request' = [request EXCEPT ![r] = Idle]
      /\ UNCHANGED <<pull, github, deployment, tick>>
      BY DEF CommitDecision, ApprovalsInv, SoundRequest
<1> HIDE DEF answer
<1>1. Typed'
      BY <1>0, IdleSound DEF Typed
<1>2. ASSUME NEW q \in Request PROVE SoundRequest(request[q])'
  <2>1. SoundRequest(request'[q])
        BY <1>0, IdleSound DEF ApprovalsInv, Typed
  <2> QED
      BY <1>0, <2>1 DEF SoundRequest, Exists, Typed
<1>3. \A d \in Deployment : /\ approval'[d] = "none" <=> approval[d] = "none"
                            /\ approval'[d] = "pending" => approval[d] = "pending"
      BY <1>0, Constants DEF Typed
<1>4. (RestoresStayOut /\ RanUnblocked)'
      BY <1>0, <1>3 DEF ApprovalsInv, RestoresStayOut, RanUnblocked, Exists, Typed
<1>5. (OpenApprovalBlocks /\ RollbackHasRestore /\ MergedOnGitHub)'
      BY <1>0, <1>3 DEF ApprovalsInv, OpenApprovalBlocks, Ran, RollbackHasRestore, MergedOnGitHub
<1> QED
    BY <1>1, <1>2, <1>4, <1>5 DEF ApprovalsInv

LEMMA CallSound ==
  ASSUME ApprovalsInv, NEW r \in Request, CallMerge(r)
  PROVE  ApprovalsInv'
<1> DEFINE x == request[r].subject
           w == [request[r] EXCEPT !.pc = "merging"]
<1>0. Typed /\ SoundRequest(request[r]) /\ request[r] \in RequestRow /\ x \in Pull
      /\ approval[x] # "none" /\ request[r].seen \notin {"queued", "other"}
      BY Constants DEF CallMerge, ApprovalsInv, Typed, SoundRequest
<1>1. CASE GitHub /\ github[x] = "merged"
      BY <1>1, IdleSound, RequestMoves DEF CallMerge
<1>2. CASE ~(GitHub /\ github[x] = "merged")
  <2>1. /\ request' = [request EXCEPT ![r] = w]
        /\ github' = IF GitHub THEN [github EXCEPT ![x] = "merged"] ELSE github
        /\ UNCHANGED <<approval, pull, deployment, tick>>
        BY <1>0, <1>2 DEF CallMerge, Typed
  <2>2. /\ github' \in [Pull -> {"open", "merged"}]
        /\ \A p \in Pull : github[p] = "merged" => github'[p] = "merged"
        /\ GitHub => github'[x] = "merged"
        BY <1>0, <2>1 DEF Typed
  <2>3. Typed'
        BY <1>0, <2>1, <2>2 DEF Typed, RequestRow
  <2>4. ASSUME NEW q \in Request PROVE SoundRequest(request[q])'
    <3>1. CASE q = r
      <4>1. request'[q] = w /\ w.pc = "merging" /\ w.subject = x /\ w.seen = "none"
            BY <1>0, <2>1, <3>1 DEF Typed, RequestRow
      <4> QED
          BY <1>0, <2>1, <2>2, <4>1, Constants DEF SoundRequest
    <3>2. CASE q # r
      <4>1. SoundRequest(request[q]) /\ request'[q] = request[q]
            BY <2>1, <3>2 DEF ApprovalsInv, Typed
      <4> QED
          BY <2>1, <2>2, <4>1 DEF SoundRequest, Exists
    <3> QED
        BY <3>1, <3>2
  <2>5. (RestoresStayOut /\ RanUnblocked)'
        BY <2>1 DEF ApprovalsInv, RestoresStayOut, RanUnblocked, Exists
  <2>6. (OpenApprovalBlocks /\ RollbackHasRestore /\ MergedOnGitHub)'
        BY <2>1, <2>2 DEF ApprovalsInv, OpenApprovalBlocks, Ran, RollbackHasRestore, MergedOnGitHub
  <2> QED
      BY <2>3, <2>4, <2>5, <2>6 DEF ApprovalsInv
<1> QED
    BY <1>1, <1>2

-----------------------------------------------------------------------------
(* Commits of a request.                                                    *)

\* What every commit of a request keeps of the other requests.
LEMMA OthersSound ==
  ASSUME ApprovalsInv, NEW r \in Request, request' = [request EXCEPT ![r] = Idle],
         \A x \in Subject : approval[x] # "none" => approval'[x] # "none",
         \A d \in Deployment : Exists(d) => Exists(d)',
         UNCHANGED github
  PROVE  \A q \in Request : SoundRequest(request[q])'
<1> SUFFICES ASSUME NEW q \in Request PROVE SoundRequest(request[q])'
    OBVIOUS
<1>1. CASE q = r
  <2>1. request'[q] = Idle
        BY <1>1 DEF ApprovalsInv, Typed
  <2> QED
      BY <2>1 DEF SoundRequest, Idle
<1>2. CASE q # r
  <2>1. request'[q] = request[q] /\ SoundRequest(request[q])
        BY <1>2 DEF ApprovalsInv, Typed
  <2> QED
      BY <2>1 DEF SoundRequest, Exists
<1> QED
    BY <1>1, <1>2

LEMMA MergeSound ==
  ASSUME ApprovalsInv, NEW r \in Request, CommitMerge(r)
  PROVE  ApprovalsInv'
<1> DEFINE x == request[r].subject
<1>0. /\ Typed /\ x \in Pull /\ x \in Subject /\ x \notin Deployment
      /\ GitHub => github[x] = "merged"
      /\ pull' = [pull EXCEPT ![x] = "merged"] /\ request' = [request EXCEPT ![r] = Idle]
      /\ UNCHANGED <<github, tick>>
      BY Constants DEF CommitMerge, ApprovalsInv, SoundRequest
<1>m. MergedOnGitHub'
      BY <1>0 DEF ApprovalsInv, MergedOnGitHub, Typed
<1>1. CASE approval' = [approval EXCEPT ![x] = "approved"] /\ UNCHANGED deployment
  <2>1. Typed'
        BY <1>0, <1>1, IdleSound DEF Typed
  <2>2. \A d \in Deployment : approval'[d] = approval[d]
        BY <1>0, <1>1 DEF Typed
  <2>3. (RestoresStayOut /\ RanUnblocked)'
        BY <1>0, <1>1, <2>2 DEF ApprovalsInv, RestoresStayOut, RanUnblocked, Exists, Typed
  <2>4. (OpenApprovalBlocks /\ RollbackHasRestore)'
        BY <1>1, <2>2 DEF ApprovalsInv, OpenApprovalBlocks, Ran, RollbackHasRestore
  <2>5. \A y \in Subject : approval[y] # "none" => approval'[y] # "none"
        BY <1>0, <1>1 DEF Typed
  <2>6. \A q \in Request : SoundRequest(request[q])'
        BY <1>0, <1>1, <2>5, OthersSound DEF Exists
  <2> QED
      BY <1>m, <2>1, <2>3, <2>4, <2>6 DEF ApprovalsInv
<1>2. ASSUME NEW d \in Deployment, Free(d),
             deployment' = [deployment EXCEPT ![d] = Queued(IF GitHub THEN x ELSE None)],
             approval' = [approval EXCEPT ![x] = "approved", ![d] = "pending"]
      PROVE  ApprovalsInv'
  <2>1. Typed'
    <3>1. Queued(IF GitHub THEN x ELSE None) \in DeploymentRow
          BY <1>0 DEF Queued, DeploymentRow
    <3> QED
        BY <1>0, <1>2, <3>1, IdleSound DEF Typed
  <2>2. /\ deployment[d].status = "absent" /\ approval'[d] = "pending"
        /\ deployment'[d].status = "queued" /\ deployment'[d].from = None
        /\ \A e \in Deployment \ {d} : approval'[e] = approval[e] /\ deployment'[e] = deployment[e]
        BY <1>0, <1>2, Constants DEF Typed, Free, Exists, Queued
  <2>3. d \notin tick.queue \cup tick.ran /\ deployment[d].from = None
        BY <2>2 DEF ApprovalsInv, RestoresStayOut, Exists
  <2>4. (RestoresStayOut /\ RanUnblocked)'
    <3>1. RestoresStayOut'
          BY <1>0, <2>2, <2>3 DEF ApprovalsInv, RestoresStayOut, Exists
    <3>2. RanUnblocked'
          BY <1>0, <2>2, <2>3 DEF ApprovalsInv, RanUnblocked, Typed
    <3> QED
        BY <3>1, <3>2
  <2>5. OpenApprovalBlocks'
        BY <2>2 DEF ApprovalsInv, OpenApprovalBlocks, Ran
  <2>6. RollbackHasRestore'
    <3> SUFFICES ASSUME NEW f \in Deployment, deployment'[f].status = "rolled_back"
                 PROVE  \E e \in Deployment : deployment'[e].from = f /\ deployment'[e].status # "queued"
        BY DEF RollbackHasRestore
    <3>1. PICK e \in Deployment : deployment[e].from = f /\ deployment[e].status # "queued"
          BY <2>2 DEF ApprovalsInv, RollbackHasRestore
    <3>2. e # d
          BY <2>3, <3>1, Constants
    <3> QED
        BY <2>2, <3>1, <3>2
  <2>7. \A y \in Subject : approval[y] # "none" => approval'[y] # "none"
        BY <1>0, <1>2 DEF Typed
  <2>8. \A e \in Deployment : Exists(e) => Exists(e)'
        BY <2>2 DEF Exists
  <2>9. \A q \in Request : SoundRequest(request[q])'
        BY <1>0, <2>7, <2>8, OthersSound
  <2> QED
      BY <1>m, <2>1, <2>4, <2>5, <2>6, <2>9 DEF ApprovalsInv
<1> QED
    BY <1>1, <1>2 DEF CommitMerge

LEMMA DeploymentSound ==
  ASSUME ApprovalsInv, NEW r \in Request, CommitDeployment(r)
  PROVE  ApprovalsInv'
<1> DEFINE x == request[r].subject
<1>0. /\ Typed /\ x \in Deployment /\ x \in Subject /\ approval[x] # "none"
      /\ Exists(x) /\ deployment[x].from = None
      /\ approval' = [approval EXCEPT ![x] = "approved"]
      /\ request' = [request EXCEPT ![r] = Idle]
      /\ UNCHANGED <<pull, github, tick>>
      BY Constants DEF CommitDeployment, ApprovalsInv, SoundRequest, RestoresStayOut
<1>1. /\ deployment'[x].status \notin {"absent", "rolled_back"} \/ deployment'[x] = deployment[x]
      /\ deployment'[x].from = None /\ deployment'[x].status # "absent"
      /\ \A e \in Deployment \ {x} : deployment'[e] = deployment[e]
      /\ deployment' \in [Deployment -> DeploymentRow]
      BY <1>0 DEF CommitDeployment, Typed, DeploymentRow, Exists
<1>2. approval'[x] = "approved" /\ \A y \in Subject \ {x} : approval'[y] = approval[y]
      BY <1>0 DEF Typed
<1>3. Typed'
      BY <1>0, <1>1, IdleSound DEF Typed
<1>4. RestoresStayOut'
      BY <1>0, <1>1, <1>2, Constants DEF ApprovalsInv, RestoresStayOut, Exists
<1>5. RanUnblocked'
      BY <1>0, <1>2, Constants DEF ApprovalsInv, RanUnblocked, Typed
<1>6. (OpenApprovalBlocks /\ MergedOnGitHub)'
      BY <1>0, <1>1, <1>2, Constants DEF ApprovalsInv, OpenApprovalBlocks, Ran, MergedOnGitHub
<1>7. RollbackHasRestore'
  <2> SUFFICES ASSUME NEW f \in Deployment, deployment'[f].status = "rolled_back"
               PROVE  \E e \in Deployment : deployment'[e].from = f /\ deployment'[e].status # "queued"
      BY DEF RollbackHasRestore
  <2>1. deployment[f].status = "rolled_back"
        BY <1>1
  <2>2. PICK e \in Deployment : deployment[e].from = f /\ deployment[e].status # "queued"
        BY <2>1 DEF ApprovalsInv, RollbackHasRestore
  <2>3. e # x
        BY <1>0, <2>2, Constants
  <2> QED
      BY <1>1, <2>2, <2>3
<1>8. \A q \in Request : SoundRequest(request[q])'
  <2>1. \A e \in Deployment : Exists(e) => Exists(e)'
        BY <1>1 DEF Exists
  <2> QED
      BY <1>0, <1>2, <2>1, OthersSound
<1> QED
    BY <1>3, <1>4, <1>5, <1>6, <1>7, <1>8 DEF ApprovalsInv

LEMMA RollbackSound ==
  ASSUME ApprovalsInv, NEW r \in Request, CommitRollback(r)
  PROVE  ApprovalsInv'
<1> DEFINE d == request[r].subject
<1>0. /\ Typed /\ d \in Deployment /\ Exists(d)
      /\ request' = [request EXCEPT ![r] = Idle]
      /\ UNCHANGED <<approval, pull, github, tick>>
      BY DEF CommitRollback, ApprovalsInv, SoundRequest
<1>1. PICK e \in Deployment, status \in {"succeeded", "failed"} :
        /\ Free(e)
        /\ deployment' = [deployment EXCEPT
             ![d].status = "rolled_back",
             ![e] = [status |-> status, release |-> request[r].release, from |-> d]]
      BY DEF CommitRollback
<1>2. /\ deployment[e].status = "absent" /\ e # d
      /\ deployment'[e].status = status /\ deployment'[e].from = d
      /\ deployment'[d].status = "rolled_back" /\ deployment'[d].from = deployment[d].from
      /\ \A f \in Deployment \ {d, e} : deployment'[f] = deployment[f]
      BY <1>0, <1>1 DEF Typed, Free, Exists, DeploymentRow
<1>3. /\ approval[e] = "none" /\ deployment[e].from = None
      /\ e \notin tick.queue \cup tick.ran
      BY <1>0, <1>2, Constants DEF ApprovalsInv, RestoresStayOut, Exists, Typed
<1>4. Typed'
  <2>1. request[r].release \in Pull \cup {None}
        BY <1>0 DEF Typed, RequestRow
  <2>2. deployment' \in [Deployment -> DeploymentRow]
        BY <1>0, <1>1, <2>1 DEF Typed, DeploymentRow
  <2> QED
      BY <1>0, <2>2, IdleSound DEF Typed
<1>5. (RestoresStayOut /\ RanUnblocked)'
      BY <1>0, <1>2, <1>3 DEF ApprovalsInv, RestoresStayOut, RanUnblocked, Exists
<1>6. (OpenApprovalBlocks /\ MergedOnGitHub)'
      BY <1>0, <1>2, <1>3 DEF ApprovalsInv, OpenApprovalBlocks, Ran, MergedOnGitHub
<1>7. RollbackHasRestore'
  <2> SUFFICES ASSUME NEW f \in Deployment, deployment'[f].status = "rolled_back"
               PROVE  \E g \in Deployment : deployment'[g].from = f /\ deployment'[g].status # "queued"
      BY DEF RollbackHasRestore
  <2>1. CASE f = d
        BY <1>2, <2>1
  <2>2. CASE f # d
    <3>1. deployment[f].status = "rolled_back"
          BY <1>2, <2>2
    <3>2. PICK g \in Deployment : deployment[g].from = f /\ deployment[g].status # "queued"
          BY <3>1 DEF ApprovalsInv, RollbackHasRestore
    <3>3. g # e
          BY <1>3, <3>2, Constants
    <3> QED
        BY <1>2, <3>2, <3>3
  <2> QED
      BY <2>1, <2>2
<1>8. \A q \in Request : SoundRequest(request[q])'
  <2>1. \A f \in Deployment : Exists(f) => Exists(f)'
        BY <1>2 DEF Exists
  <2> QED
      BY <1>0, <2>1, OthersSound
<1> QED
    BY <1>4, <1>5, <1>6, <1>7, <1>8 DEF ApprovalsInv

-----------------------------------------------------------------------------
(* process_pending_deployments.                                             *)

\* A step of the tick that leaves every row alone.
LEMMA TickMoves ==
  ASSUME ApprovalsInv, UNCHANGED <<approval, pull, github, deployment, request>>,
         tick' \in [pc : {"idle", "running"}, queue : SUBSET Deployment, ran : SUBSET Deployment],
         (RestoresStayOut /\ RanUnblocked)'
  PROVE  ApprovalsInv'
<1>1. Typed'
      BY DEF ApprovalsInv, Typed
<1>2. \A r \in Request : SoundRequest(request[r])'
      BY DEF ApprovalsInv, SoundRequest, Exists
<1>3. (OpenApprovalBlocks /\ RollbackHasRestore /\ MergedOnGitHub)'
      BY DEF ApprovalsInv, OpenApprovalBlocks, Ran, RollbackHasRestore, MergedOnGitHub
<1> QED
    BY <1>1, <1>2, <1>3 DEF ApprovalsInv

LEMMA QueueSound ==
  ASSUME ApprovalsInv,
         LoadQueue \/ RollBackTick \/ \E d \in Deployment : Visit(d)
  PROVE  ApprovalsInv'
<1>0. Typed /\ tick.queue \subseteq Deployment /\ tick.ran \subseteq Deployment
      BY DEF ApprovalsInv, Typed
<1>1. CASE LoadQueue
  <2>1. \A d \in tick'.queue \cup tick'.ran : deployment[d].status = "queued"
        BY <1>1 DEF LoadQueue
  <2>2. (RestoresStayOut /\ RanUnblocked)'
        BY <1>1, <2>1 DEF LoadQueue, ApprovalsInv, RestoresStayOut, RanUnblocked, Exists
  <2> QED
      BY <1>1, <2>2, TickMoves DEF LoadQueue
<1>2. CASE RollBackTick
  <2>1. (RestoresStayOut /\ RanUnblocked)'
        BY <1>2 DEF RollBackTick, ApprovalsInv, RestoresStayOut, RanUnblocked, Exists
  <2> QED
      BY <1>2, <2>1, TickMoves DEF RollBackTick
<1>3. ASSUME NEW d \in Deployment, Visit(d) PROVE ApprovalsInv'
  <2>1. /\ tick'.queue \subseteq tick.queue /\ tick'.ran \subseteq tick.ran \cup {d} /\ d \in tick.queue
        /\ approval[d] = "pending" /\ d \in tick'.ran => d \in tick.ran
        /\ tick' \in [pc : {"idle", "running"}, queue : SUBSET Deployment, ran : SUBSET Deployment]
        BY <1>0, <1>3 DEF Visit, Typed, Waiting
  <2>2. (RestoresStayOut /\ RanUnblocked)'
        BY <1>3, <2>1 DEF Visit, ApprovalsInv, RestoresStayOut, RanUnblocked, Exists
  <2> QED
      BY <1>3, <2>1, <2>2, TickMoves DEF Visit
<1> QED
    BY <1>1, <1>2, <1>3

LEMMA CommitTickSound ==
  ASSUME ApprovalsInv, CommitTick
  PROVE  ApprovalsInv'
<1>0. Typed /\ tick.ran \subseteq Deployment /\ tick'.queue = {} /\ tick'.ran = {}
      BY DEF ApprovalsInv, Typed, CommitTick
<1>1. \A d \in Deployment :
        /\ deployment'[d].from = deployment[d].from
        /\ d \in tick.ran => deployment'[d].status \in {"succeeded", "failed"}
        /\ d \notin tick.ran => deployment'[d] = deployment[d]
      BY <1>0 DEF CommitTick, Typed, DeploymentRow
<1>2. \A d \in tick.ran : Exists(d) /\ approval[d] # "pending"
      BY <1>0 DEF ApprovalsInv, RestoresStayOut, RanUnblocked
<1>3. Typed'
      BY <1>0 DEF CommitTick, Typed, DeploymentRow
<1>4. \A r \in Request : SoundRequest(request[r])'
      BY <1>0, <1>1 DEF CommitTick, ApprovalsInv, SoundRequest, Exists
<1>5. (RestoresStayOut /\ RanUnblocked)'
      BY <1>0, <1>1, <1>2 DEF CommitTick, ApprovalsInv, RestoresStayOut, RanUnblocked, Exists
<1>6. (OpenApprovalBlocks /\ MergedOnGitHub)'
      BY <1>0, <1>1, <1>2 DEF CommitTick, ApprovalsInv, OpenApprovalBlocks, Ran, MergedOnGitHub
<1>7. RollbackHasRestore'
      BY <1>1 DEF ApprovalsInv, RollbackHasRestore
<1> QED
    BY <1>3, <1>4, <1>5, <1>6, <1>7 DEF ApprovalsInv

-----------------------------------------------------------------------------
(* Every step.                                                              *)

LEMMA ApprovalsStep == ApprovalsInv /\ [Next]_vars => ApprovalsInv'
<1> SUFFICES ASSUME ApprovalsInv, [Next]_vars PROVE ApprovalsInv'
    OBVIOUS
<1>1. ASSUME NEW r \in Request, Decide(r) PROVE ApprovalsInv'
      BY <1>1, LoadsSound, DecisionSound, CallSound, MergeSound, DeploymentSound DEF Decide
<1>2. ASSUME NEW r \in Request, Restore(r) \/ RollBackRequest(r) PROVE ApprovalsInv'
      BY <1>2, LoadsSound, RollbackSound DEF Restore
<1>3. CASE Worker \/ RollBackTick
      BY <1>3, QueueSound, CommitTickSound DEF Worker
<1>4. CASE UNCHANGED vars
  <2>1. tick' \in [pc : {"idle", "running"}, queue : SUBSET Deployment, ran : SUBSET Deployment]
        BY <1>4 DEF vars, ApprovalsInv, Typed
  <2>2. (RestoresStayOut /\ RanUnblocked)'
        BY <1>4 DEF vars, ApprovalsInv, RestoresStayOut, RanUnblocked, Exists
  <2> QED
      BY <1>4, <2>1, <2>2, TickMoves DEF vars
<1> QED
    BY <1>1, <1>2, <1>3, <1>4 DEF Next

LEMMA ApprovalsCorrect == Spec => []ApprovalsInv
  BY ApprovalsInit, ApprovalsStep, PTL DEF Spec

(* No deployment is run while its approval is open, whatever decisions and    *)
(* rollbacks commit between the queries of process_pending_deployments.     *)
THEOREM OpenApprovalBlocksHolds == Spec => []OpenApprovalBlocks
<1>1. ApprovalsInv => OpenApprovalBlocks
      BY DEF ApprovalsInv
<1> QED
    BY ApprovalsCorrect, <1>1, PTL

(* A deployment is ROLLED_BACK only with a row that took its place, which no   *)
(* decision or tick ever puts back in the queue (rollback_deployment).      *)
THEOREM RollbackHasRestoreHolds == Spec => []RollbackHasRestore
<1>1. ApprovalsInv => RollbackHasRestore
      BY DEF ApprovalsInv
<1> QED
    BY ApprovalsCorrect, <1>1, PTL

(* Two requests that approve the same pull request never make the database    *)
(* say MERGED before GitHub has merged it (decide_approval, merge_approved). *)
THEOREM MergedOnGitHubHolds == Spec => []MergedOnGitHub
<1>1. ApprovalsInv => MergedOnGitHub
      BY DEF ApprovalsInv
<1> QED
    BY ApprovalsCorrect, <1>1, PTL
=============================================================================
