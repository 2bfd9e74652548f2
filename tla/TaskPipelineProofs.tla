------------------------- MODULE TaskPipelineProofs -------------------------
(***************************************************************************)
(* Theorems about TaskPipeline, for every set of tasks, dependency graph,   *)
(* rank, number of coroutines and bound.                                    *)
(***************************************************************************)
EXTENDS TaskPipeline, TLAPS

-----------------------------------------------------------------------------
(* Type correctness of the full specification, overlapping cycles included. *)

\* A session that works on a task knows which one.
Busy == {"picked", "working", "shipping", "shipped", "learning", "planning"}
BusyHasTask == \A s \in Session : sess[s].pc \in Busy => sess[s].task \in Task

SessionTyped(r) == r \in SessionRow /\ (r.pc \in Busy => r.task \in Task)
Typed == TypeOK /\ BusyHasTask

LEMMA IdleTyped == SessionTyped(Idle)
  BY DEF SessionTyped, Idle, SessionRow, Stage, Row, Absent, PrRow, NoPr, Busy

LEMMA BlockedTyped ==
  ASSUME NEW r \in SessionRow
  PROVE  SessionTyped(Blocked(r))
  BY DEF SessionTyped, Blocked, SessionRow, Stage, ProjectStatus, Busy

LEMMA TypedInit == Init => Typed
<1> SUFFICES ASSUME Init PROVE Typed
    OBVIOUS
<1>1. sess \in [Session -> SessionRow] /\ BusyHasTask
      BY IdleTyped DEF Init, SessionTyped, BusyHasTask
<1>2. project \in [status : ProjectStatus, running : BOOLEAN, analyzing : BOOLEAN]
  <2>1. \/ project = [status |-> "draft", running |-> FALSE, analyzing |-> FALSE]
        \/ project = [status |-> "analyzing", running |-> FALSE, analyzing |-> TRUE]
        BY DEF Init
  <2>2. CASE project = [status |-> "draft", running |-> FALSE, analyzing |-> FALSE]
        BY <2>2 DEF ProjectStatus
  <2>3. CASE project = [status |-> "analyzing", running |-> FALSE, analyzing |-> TRUE]
        BY <2>3 DEF ProjectStatus
  <2> QED
      BY <2>1, <2>2, <2>3
<1>3. depends \in [Task -> SUBSET Work]
      BY DEF Init
<1>6. task \in [Task -> Row] /\ pr \in [Number -> PrRow] /\ gh \in [Number -> Remote]
      BY DEF Init, Row, Absent, PrRow, NoPr, Remote, NoRemote
<1>4. worker \in [pc : {"reclaim", "list", "gather"}, waits : SUBSET Tick]
      BY DEF Init
<1>5. QED
      BY <1>1, <1>2, <1>3, <1>4, <1>6 DEF Init, Typed, TypeOK

\* Replacing one session by a well-typed one keeps all of them well typed.
LEMMA SessionStep ==
  ASSUME Typed, NEW s \in Session, NEW r, SessionTyped(r), sess' = [sess EXCEPT ![s] = r]
  PROVE  sess' \in [Session -> SessionRow] /\ BusyHasTask'
  BY DEF Typed, TypeOK, BusyHasTask, SessionTyped

LEMMA WorkerLoopTyped ==
  ASSUME Typed, WorkerLoop
  PROVE  Typed'
<1>1. CASE ReclaimExpired
  <2>1. ASSUME NEW t \in Task
        PROVE  [task[t] EXCEPT !.status = "ready", !.lease = "none"] \in Row
    <3>1. task[t] \in Row
          BY DEF Typed, TypeOK
    <3> QED
        BY <3>1 DEF Row, TaskStatus
  <2>2. task' \in [Task -> Row]
        BY <1>1, <2>1 DEF ReclaimExpired, Typed, TypeOK
  <2> QED
      BY <1>1, <2>2 DEF ReclaimExpired, Typed, TypeOK, BusyHasTask
<1>2. CASE ListProject
      BY <1>2 DEF ListProject, Session, SessionRow, Stage, Busy, Typed, TypeOK, BusyHasTask
<1>3. CASE GatherDone
      BY <1>3 DEF GatherDone, Typed, TypeOK, BusyHasTask
<1> QED
    BY <1>1, <1>2, <1>3 DEF WorkerLoop

LEMMA PickTyped ==
  ASSUME Typed, NEW a \in Tick,
         OpenSession(a) \/ BudgetHalt(a) \/ PickNothing(a) \/ \E t \in Task : PickTask(a, t)
  PROVE  Typed'
<1> USE DEF Session
<1>0. sess[a] \in SessionRow
      BY DEF Typed, TypeOK
<1>1. CASE OpenSession(a)
  <2> DEFINE r == IF project.status = "active" THEN [sess[a] EXCEPT !.pc = "picking"] ELSE Idle
  <2>1. SessionTyped(r)
        BY <1>0, IdleTyped DEF SessionTyped, SessionRow, Stage, Busy
  <2>2. sess' = [sess EXCEPT ![a] = r]
        BY <1>1 DEF OpenSession
  <2> HIDE DEF r
  <2>3. sess' \in [Session -> SessionRow] /\ BusyHasTask'
        BY <2>1, <2>2, SessionStep
  <2> QED
      BY <2>3, <1>1 DEF OpenSession, Typed, TypeOK
<1>2. CASE BudgetHalt(a)
  <2> DEFINE r == [sess[a] EXCEPT !.pc = "settled", !.proj = "paused"]
  <2>1. SessionTyped(r)
        BY <1>0 DEF SessionTyped, SessionRow, Stage, Busy, ProjectStatus
  <2>2. sess' = [sess EXCEPT ![a] = r]
        BY <1>2 DEF BudgetHalt
  <2> HIDE DEF r
  <2>3. sess' \in [Session -> SessionRow] /\ BusyHasTask'
        BY <2>1, <2>2, SessionStep
  <2> QED
      BY <2>3, <1>2 DEF BudgetHalt, Typed, TypeOK
<1>3. CASE PickNothing(a)
  <2> DEFINE r == [sess[a] EXCEPT !.pc = "settled"]
  <2>1. SessionTyped(r)
        BY <1>0 DEF SessionTyped, SessionRow, Stage, Busy
  <2>2. sess' = [sess EXCEPT ![a] = r]
        BY <1>3 DEF PickNothing
  <2> HIDE DEF r
  <2>3. sess' \in [Session -> SessionRow] /\ BusyHasTask'
        BY <2>1, <2>2, SessionStep
  <2> QED
      BY <2>3, <1>3 DEF PickNothing, Typed, TypeOK
<1>4. ASSUME NEW t \in Task, PickTask(a, t) PROVE Typed'
  <2> DEFINE r == [sess[a] EXCEPT !.pc = "picked", !.task = t, !.row = task[t]]
  <2>0. task[t] \in Row
        BY DEF Typed, TypeOK
  <2>1. SessionTyped(r)
        BY <1>0, <2>0 DEF SessionTyped, SessionRow, Stage, Busy
  <2>2. sess' = [sess EXCEPT ![a] = r]
        BY <1>4 DEF PickTask
  <2> HIDE DEF r
  <2>3. sess' \in [Session -> SessionRow] /\ BusyHasTask'
        BY <2>1, <2>2, SessionStep
  <2> QED
      BY <2>3, <1>4 DEF PickTask, Typed, TypeOK
<1> QED
    BY <1>1, <1>2, <1>3, <1>4

LEMMA WorkTyped ==
  ASSUME Typed, NEW a \in Tick,
         Claim(a) \/ WorkFails(a) \/ WorkPasses(a) \/ Learned(a)
  PROVE  Typed'
<1> USE DEF Session
<1>0. sess[a] \in SessionRow /\ (sess[a].pc \in Busy => sess[a].task \in Task)
      BY DEF Typed, TypeOK, BusyHasTask
<1>1. CASE Claim(a)
  <2> DEFINE r == [sess[a] EXCEPT !.pc = "working",
        !.row = [status |-> "in_progress", lease |-> "live",
                 attempts |-> sess[a].row.attempts + 1]]
  <2>0. sess[a].row.attempts + 1 \in Nat
        BY <1>0 DEF SessionRow, Row
  <2>1. SessionTyped(r)
        BY <1>0, <1>1, <2>0 DEF SessionTyped, SessionRow, Stage, Busy, Row, TaskStatus, Claim
  <2>2. sess' = [sess EXCEPT ![a] = r]
        BY <1>1 DEF Claim
  <2> HIDE DEF r
  <2>3. sess' \in [Session -> SessionRow] /\ BusyHasTask'
        BY <2>1, <2>2, SessionStep
  <2> QED
      BY <2>3, <1>1 DEF Claim, Typed, TypeOK
<1>2. CASE WorkFails(a)
  <2> DEFINE r == [sess[a] EXCEPT !.pc = "settled", !.row.status = Retry(sess[a].row.attempts)]
  <2>1. SessionTyped(r)
        BY <1>0 DEF SessionTyped, SessionRow, Stage, Busy, Row, TaskStatus, Retry
  <2>2. sess' = [sess EXCEPT ![a] = r]
        BY <1>2 DEF WorkFails
  <2> HIDE DEF r
  <2>3. sess' \in [Session -> SessionRow] /\ BusyHasTask'
        BY <2>1, <2>2, SessionStep
  <2> QED
      BY <2>3, <1>2 DEF WorkFails, Typed, TypeOK
<1>3. CASE WorkPasses(a)
  <2> DEFINE r == [sess[a] EXCEPT !.pc = "shipping"]
  <2>1. SessionTyped(r)
        BY <1>0, <1>3 DEF SessionTyped, SessionRow, Stage, Busy, WorkPasses
  <2>2. sess' = [sess EXCEPT ![a] = r]
        BY <1>3 DEF WorkPasses
  <2> HIDE DEF r
  <2>3. sess' \in [Session -> SessionRow] /\ BusyHasTask'
        BY <2>1, <2>2, SessionStep
  <2> QED
      BY <2>3, <1>3 DEF WorkPasses, Typed, TypeOK
<1>4. CASE Learned(a)
  <2> DEFINE r == [sess[a] EXCEPT !.pc = "settled",
        !.row.status = IF sess[a].pr.status = "merged" THEN "done" ELSE "in_review"]
  <2>1. SessionTyped(r)
        BY <1>0 DEF SessionTyped, SessionRow, Stage, Busy, Row, TaskStatus
  <2>2. sess' = [sess EXCEPT ![a] = r]
        BY <1>4 DEF Learned
  <2> HIDE DEF r
  <2>3. sess' \in [Session -> SessionRow] /\ BusyHasTask'
        BY <2>1, <2>2, SessionStep
  <2> QED
      BY <2>3, <1>4 DEF Learned, Typed, TypeOK
<1> QED
    BY <1>1, <1>2, <1>3, <1>4

LEMMA PlanTyped ==
  ASSUME Typed, NEW s \in Session, NEW p \in Planning,
         PlanFromRequest(s, p) \/ PlanFromTick(s, p)
  PROVE  Typed'
<1>0. sess[s] \in SessionRow
      BY DEF Typed, TypeOK
<1>p. SessionTyped(Plan(sess[s], p)) /\ Plan(sess[s], p).pc = "planning"
      BY <1>0 DEF Plan, SessionTyped, SessionRow, Stage, Busy, NewTask, Row, TaskStatus, Task
<1>1. CASE PlanFromRequest(s, p)
  <2> DEFINE r == [Plan(sess[s], p) EXCEPT
        !.proj = IF project.status = "active" THEN "none" ELSE "active"]
  <2>1. SessionTyped(r)
        BY <1>p DEF SessionTyped, SessionRow, Stage, Busy, ProjectStatus
  <2>2. sess' = [sess EXCEPT ![s] = r]
        BY <1>1 DEF PlanFromRequest
  <2> HIDE DEF r
  <2>3. sess' \in [Session -> SessionRow] /\ BusyHasTask'
        BY <2>1, <2>2, SessionStep
  <2> QED
      BY <2>3, <1>1 DEF PlanFromRequest, Typed, TypeOK
<1>2. CASE PlanFromTick(s, p)
  <2> DEFINE r == Plan(sess[s], p)
  <2>1. SessionTyped(r)
        BY <1>p DEF SessionTyped, SessionRow, Stage, Busy
  <2>2. sess' = [sess EXCEPT ![s] = r]
        BY <1>2 DEF PlanFromTick
  <2> HIDE DEF r
  <2>3. sess' \in [Session -> SessionRow] /\ BusyHasTask'
        BY <2>1, <2>2, SessionStep
  <2> QED
      BY <2>3, <1>2 DEF PlanFromTick, Typed, TypeOK
<1> QED
    BY <1>1, <1>2

LEMMA PlannedTyped ==
  ASSUME Typed, NEW s \in Session, NEW new \in SUBSET Work,
         \/ Planned(s, new)
         \/ \E linked \in SUBSET new : PlanRaises(s, new, linked)
  PROVE  Typed'
<1>0. sess[s] \in SessionRow
      BY DEF Typed, TypeOK
<1>1. CASE Planned(s, new)
  <2> DEFINE r == [sess[s] EXCEPT !.pc = "settled", !.row.status = "done",
                                  !.new = new, !.linked = new]
  <2>1. SessionTyped(r)
        BY <1>0 DEF SessionTyped, SessionRow, Stage, Busy, Row, TaskStatus
  <2>2. sess' = [sess EXCEPT ![s] = r]
        BY <1>1 DEF Planned
  <2> HIDE DEF r
  <2>3. sess' \in [Session -> SessionRow] /\ BusyHasTask'
        BY <2>1, <2>2, SessionStep
  <2> QED
      BY <2>3, <1>1 DEF Planned, Typed, TypeOK
<1>2. ASSUME NEW linked \in SUBSET new, PlanRaises(s, new, linked) PROVE Typed'
  <2> DEFINE r == [Blocked(sess[s]) EXCEPT !.new = new, !.linked = linked]
  <2>1. SessionTyped(r)
    <3>1. Blocked(sess[s]) \in SessionRow /\ Blocked(sess[s]).pc = "settled"
          BY <1>0 DEF Blocked, SessionRow, Stage, ProjectStatus
    <3> QED
        BY <3>1 DEF SessionTyped, SessionRow, Busy
  <2>2. sess' = [sess EXCEPT ![s] = r]
        BY <1>2 DEF PlanRaises
  <2> HIDE DEF r
  <2>3. sess' \in [Session -> SessionRow] /\ BusyHasTask'
        BY <2>1, <2>2, SessionStep
  <2>4. Fault /\ UNCHANGED <<project, task, depends, pr, gh, worker, edits>>
        BY <1>2 DEF PlanRaises
  <2>5. faults' \in Nat
        BY <2>4 DEF Fault, Typed, TypeOK
  <2> QED
      BY <2>3, <2>4, <2>5 DEF Typed, TypeOK
<1> QED
    BY <1>1, <1>2

LEMMA ShippedTyped ==
  ASSUME NEW r \in SessionRow, r.task \in Task, NEW n \in Number
  PROVE  SessionTyped(Shipped(r, n))
  BY DEF SessionTyped, Shipped, OpenPr, SessionRow, Stage, PrRow, Busy

LEMMA ShipTyped ==
  ASSUME Typed, NEW a \in Tick,
         ShipToGitHub(a) \/ ShipLocally(a) \/ MaybeMerge(a)
  PROVE  Typed'
<1> USE DEF Session
<1>0. sess[a] \in SessionRow /\ (sess[a].pc \in Busy => sess[a].task \in Task)
      BY DEF Typed, TypeOK, BusyHasTask
<1>b. SessionTyped(Blocked(sess[a]))
      BY <1>0, BlockedTyped
<1>1. CASE ShipToGitHub(a)
  <2>1. sess[a].task \in Task
        BY <1>0, <1>1 DEF ShipToGitHub, Busy
  <2>2. \E r : SessionTyped(r) /\ sess' = [sess EXCEPT ![a] = r]
        BY <1>0, <1>1, <1>b, <2>1, ShippedTyped DEF ShipToGitHub
  <2>3. sess' \in [Session -> SessionRow] /\ BusyHasTask'
        BY <2>2, SessionStep
  <2>4. gh' \in [Number -> Remote]
        BY <1>1, <2>1 DEF ShipToGitHub, Remote, Typed, TypeOK
  <2>5. faults' \in Nat
        BY <1>1 DEF ShipToGitHub, Fault, Typed, TypeOK
  <2> QED
      BY <2>3, <2>4, <2>5, <1>1 DEF ShipToGitHub, Typed, TypeOK
<1>2. CASE ShipLocally(a)
  <2>1. sess[a].task \in Task /\ LocalNumber[sess[a].task] \in Number
        BY <1>0, <1>2, ConstantsAssumption DEF ShipLocally, Busy
  <2>2. \E r : SessionTyped(r) /\ sess' = [sess EXCEPT ![a] = r]
        BY <1>0, <1>2, <2>1, ShippedTyped, IdleTyped DEF ShipLocally, Discard
  <2>3. sess' \in [Session -> SessionRow] /\ BusyHasTask'
        BY <2>2, SessionStep
  <2> QED
      BY <2>3, <1>2 DEF ShipLocally, Discard, Typed, TypeOK
<1>3. CASE MaybeMerge(a)
  <2>1. SessionTyped([sess[a] EXCEPT !.pc = "learning", !.pr.status = "merged"])
        BY <1>0, <1>3 DEF MaybeMerge, SessionTyped, SessionRow, Stage, PrRow, Busy
  <2>2. SessionTyped([sess[a] EXCEPT !.pc = "learning", !.pr.approval = "pending"])
        BY <1>0, <1>3 DEF MaybeMerge, SessionTyped, SessionRow, Stage, PrRow, Busy
  <2>3. \E r : SessionTyped(r) /\ sess' = [sess EXCEPT ![a] = r]
        BY <1>3, <1>b, <2>1, <2>2 DEF MaybeMerge
  <2>4. sess' \in [Session -> SessionRow] /\ BusyHasTask'
        BY <2>3, SessionStep
  <2>5. gh' \in [Number -> Remote] /\ faults' \in Nat
        BY <1>3 DEF MaybeMerge, Fault, Remote, Typed, TypeOK
  <2> QED
      BY <2>4, <2>5, <1>3 DEF MaybeMerge, Typed, TypeOK
<1> QED
    BY <1>1, <1>2, <1>3

LEMMA EndTyped ==
  ASSUME Typed, NEW s \in Session,
         RollBack(s) \/ Commit(s) \/ (s \in Tick /\ Raise(s))
  PROVE  Typed'
<1>0. sess[s] \in SessionRow
      BY DEF Typed, TypeOK
<1>2. CASE RollBack(s)
  <2>1. sess' \in [Session -> SessionRow] /\ BusyHasTask'
        BY <1>2, IdleTyped, SessionStep DEF RollBack, Discard
  <2> QED
      BY <2>1, <1>2 DEF RollBack, Discard, Fault, Typed, TypeOK
<1>3. CASE Commit(s)
  <2>1. sess' \in [Session -> SessionRow] /\ BusyHasTask'
        BY <1>3, IdleTyped, SessionStep DEF Commit
  <2>2. task' \in [Task -> Row]
        BY <1>0, <1>3 DEF Commit, NewTask, Row, TaskStatus, SessionRow, Typed, TypeOK
  <2>4. depends' \in [Task -> SUBSET Work]
        BY <1>3, ConstantsAssumption DEF Commit, Typed, TypeOK
  <2>3. pr' \in [Number -> PrRow] /\ project' \in [status : ProjectStatus, running : BOOLEAN, analyzing : BOOLEAN]
        BY <1>0, <1>3 DEF Commit, SessionRow, Typed, TypeOK
  <2> QED
      BY <2>1, <2>2, <2>3, <2>4, <1>3 DEF Commit, Typed, TypeOK
<1>4. CASE s \in Tick /\ Raise(s)
  <2>1. sess' \in [Session -> SessionRow] /\ BusyHasTask'
        BY <1>0, <1>4, BlockedTyped, IdleTyped, SessionStep DEF Raise, SessionTyped
  <2> QED
      BY <2>1, <1>4 DEF Raise, Fault, Typed, TypeOK
<1> QED
    BY <1>2, <1>3, <1>4

LEMMA ApiTyped ==
  ASSUME Typed,
         \/ CrashRestart
         \/ \E t \in Task : LeaseExpires(t)
         \/ RepoAnalyzed \/ AnalysisLost \/ StartProject \/ PauseProject
         \/ \E t \in Work : CreateTask(t)
         \/ \E n \in Number : ApproveMerge(n) \/ RejectMerge(n)
         \/ \E status \in ProjectStatus : PatchProject(status)
         \/ GatherAborted
         \/ \E t \in Task, status \in TaskStatus : PatchTask(t, status)
  PROVE  Typed'
<1> USE DEF Typed, TypeOK, BusyHasTask
<1>0. CASE CrashRestart
      BY <1>0, IdleTyped DEF CrashRestart, Fault, SessionTyped
<1>1. CASE GatherAborted
      BY <1>1 DEF GatherAborted, Fault
<1>2. ASSUME NEW t \in Task, LeaseExpires(t) \/ CreateTask(t) PROVE Typed'
  <2>1. task' \in [Task -> Row]
    <3>1. [task[t] EXCEPT !.lease = "expired"] \in Row /\ NewTask("ready") \in Row
      <4>1. task[t] \in Row
            OBVIOUS
      <4> QED
          BY <4>1 DEF Row, TaskStatus, NewTask
    <3> QED
        BY <1>2, <3>1 DEF LeaseExpires, CreateTask
  <2>2. depends' \in [Task -> SUBSET Work]
        BY <1>2, ConstantsAssumption DEF LeaseExpires, CreateTask
  <2> QED
      BY <1>2, <2>1, <2>2 DEF LeaseExpires, CreateTask
<1>3. ASSUME NEW t \in Task, NEW status \in TaskStatus, PatchTask(t, status) PROVE Typed'
      BY <1>3 DEF PatchTask, Row, Edit
<1>4. CASE StartProject \/ PauseProject
      BY <1>4 DEF StartProject, PauseProject, ProjectStatus
<1>5. CASE RepoAnalyzed \/ AnalysisLost
  <2>1. \E status \in ProjectStatus : \E analyzing \in BOOLEAN :
          project' = [project EXCEPT !.status = status, !.analyzing = analyzing]
    <3>1. CASE RepoAnalyzed
      <4>1. \E status \in {"active", "draft"} :
              project' = [project EXCEPT !.status = status, !.analyzing = FALSE]
            BY <3>1, Zenon DEF RepoAnalyzed
      <4> QED
          BY <4>1 DEF ProjectStatus
    <3>2. CASE AnalysisLost
      <4>1. project' = [project EXCEPT !.status = project.status, !.analyzing = FALSE]
            BY <3>2 DEF AnalysisLost
      <4> QED
          BY <4>1
    <3> QED
        BY <1>5, <3>1, <3>2
  <2>2. project' \in [status : ProjectStatus, running : BOOLEAN, analyzing : BOOLEAN]
        BY <2>1
  <2>3. UNCHANGED <<task, depends, pr, gh, sess, worker, edits>>
        BY <1>5 DEF RepoAnalyzed, AnalysisLost
  <2>4. faults' \in {faults, faults + 1}
        BY <1>5 DEF RepoAnalyzed, AnalysisLost, Fault
  <2> QED
      BY <2>2, <2>3, <2>4
<1>6. ASSUME NEW n \in Number, RejectMerge(n) PROVE Typed'
      BY <1>6 DEF RejectMerge, PrRow
<1>7. ASSUME NEW n \in Number, ApproveMerge(n) PROVE Typed'
  <2>1. [pr[n] EXCEPT !.approval = "approved", !.status = "merged"] \in PrRow
    <3>1. pr[n] \in PrRow
          BY <1>7
    <3> QED
        BY <3>1 DEF PrRow
  <2>2. pr' \in [Number -> PrRow]
        BY <1>7, <2>1 DEF ApproveMerge
  <2>3. gh' \in [Number -> Remote]
    <3>1. [gh[n] EXCEPT !.state = "merged"] \in Remote
          BY DEF Remote
    <3> QED
        BY <1>7, <3>1 DEF ApproveMerge
  <2>4. \A t \in Task : [task[t] EXCEPT !.status = "done"] \in Row
        BY DEF Row, TaskStatus
  <2>5. \/ task' = [task EXCEPT ![pr[n].task].status = "done"] /\ faults' = faults
        \/ task' = task /\ Fault
        BY <1>7, Zenon DEF ApproveMerge
  <2>6. task' \in [Task -> Row]
        BY <2>4, <2>5
  <2>7. faults' \in Nat
        BY <2>5 DEF Fault
  <2> QED
      BY <2>2, <2>3, <2>6, <2>7, <1>7 DEF ApproveMerge
<1>8. ASSUME NEW status \in ProjectStatus, PatchProject(status) PROVE Typed'
      BY <1>8 DEF PatchProject, Edit
<1> QED
    BY <1>0, <1>1, <1>2, <1>3, <1>4, <1>5, <1>6, <1>7, <1>8 DEF Task

LEMMA TypedStep == Typed /\ [Next]_vars => Typed'
<1> SUFFICES ASSUME Typed, [Next]_vars PROVE Typed'
    OBVIOUS
<1>1. CASE UNCHANGED vars
      BY <1>1 DEF vars, Typed, TypeOK, BusyHasTask
<1>2. CASE WorkerLoop
      BY <1>2, WorkerLoopTyped
<1>3. ASSUME NEW a \in Tick, TickStep(a) PROVE Typed'
      BY <1>3, PickTyped, WorkTyped, ShipTyped, PlanTyped DEF TickStep, Session
<1>4. ASSUME NEW s \in Session, (\E new \in SUBSET Work : Planned(s, new)) \/ Commit(s)
      PROVE  Typed'
      BY <1>4, PlannedTyped, EndTyped
<1>5. CASE Failure
      BY <1>5, EndTyped, ApiTyped, PlannedTyped DEF Failure, Session
<1>6. CASE Human
      BY <1>6, ApiTyped, PlanTyped DEF Human, Session
<1> QED
    BY <1>1, <1>2, <1>3, <1>4, <1>5, <1>6, ApiTyped DEF Next, SerialNext

\* TypeOK in every behaviour of the full specification.
THEOREM TypeCorrect == Spec => []TypeOK
<1>1. Typed => TypeOK
      BY DEF Typed
<1> QED
    BY TypedInit, TypedStep, <1>1, PTL DEF Spec

-----------------------------------------------------------------------------
(* Dependency order of the serial specification.  The invariant says why    *)
(* next_task may check the dependencies on rows it does not lock: one tick   *)
(* runs at a time (OneTick), a planning request touches no ordinary row      *)
(* (PlansOnlyPlanning), and whoever else writes a task finds its             *)
(* dependencies DONE already (PickedInOrder, ShippedTaskRan).                *)

\* The worker's gather waits for the only tick that is running.
OneTick ==
  /\ \A s \in Session : sess[s].pc = "idle" => sess[s] = Idle
  /\ \A a \in Tick : sess[a].pc # "idle" => worker = [pc |-> "gather", waits |-> {a}]

\* A planning session works on a planning task, a request on nothing else.
PlansOnlyPlanning ==
  /\ \A s \in Session : sess[s].pc = "planning" => sess[s].task \in Planning
  /\ \A r \in Request : sess[r].task \in Planning \cup {None}

\* What a row depends on is created with it or before it, and rows never vanish;
\* a row that was not created depends on nothing.
RowsClosed ==
  /\ \A t \in Work : ~Exists(t) => task[t].attempts = 0 /\ depends[t] = {}
  /\ \A t \in Work : \A d \in depends[t] : Exists(d)
  /\ \A s \in Session : \A t \in sess[s].new :
       ~Exists(t) /\ \A u \in Session : t \in sess[u].new => u = s
  /\ \A s \in Session : \A t \in sess[s].linked :
       t \in sess[s].new /\ Deps[t] \subseteq sess[s].new
  /\ \A a \in Tick : sess[a].task \in Work => Exists(sess[a].task)

\* What a tick has written about its task counts as a run.
WritesRun ==
  \A a \in Tick :
    sess[a].pc \in Writing /\ sess[a].task \in Work =>
      sess[a].row.attempts > 0 /\ sess[a].row.status # "absent"

\* Everything the picked task depends on is DONE, and nothing that depends on
\* the picked task has been started.
PickedInOrder ==
  \A a \in Tick :
    /\ sess[a].task \in Work => \A d \in depends[sess[a].task] : task[d].status = "done"
    /\ \A t \in Work : sess[a].task \in depends[t] => ~Started(t)

\* A task with a pull request has been run.
ShippedTaskRan ==
  /\ \A n \in Number : pr[n].task \in Work => task[pr[n].task].attempts > 0
  /\ \A s \in Session : sess[s].pr.task \in {None, sess[s].task}
  /\ \A s \in Session : sess[s].pc \in {"opened", "picking"} => sess[s].task = None
  /\ \A s \in Session : sess[s].pc \in {"opened", "picking", "picked"} => sess[s].pr = NoPr

OrderInv ==
  /\ Typed /\ OneTick /\ PlansOnlyPlanning /\ RowsClosed /\ WritesRun
  /\ PickedInOrder /\ ShippedTaskRan /\ DependencyOrder

\* A tick that changes nothing but its own session, and not the task it works on.
Keeps(a, r) ==
  /\ worker' = worker
  /\ r.pc \notin {"idle", "planning"}
  /\ r.task \in {None, sess[a].task}
  /\ \/ r.new = sess[a].new /\ r.linked = sess[a].linked
     \/ r.new = {} /\ r.linked = {}
  /\ r.pr.task \in {None, r.task}
  /\ r.pc \in Writing /\ r.task \in Work => r.row.attempts > 0 /\ r.row.status # "absent"
  /\ r.pc \in {"opened", "picking"} => r.task = None
  /\ r.pc \in {"opened", "picking", "picked"} => r.pr = NoPr

LEMMA OrderInit == Init => OrderInv
<1> SUFFICES ASSUME Init PROVE OrderInv
    OBVIOUS
<1>1. \A s \in Session : sess[s] = Idle
      BY DEF Init
<1>2. \A t \in Task : task[t] = Absent /\ depends[t] = {}
      BY DEF Init
<1>3. \A n \in Number : pr[n] = NoPr
      BY DEF Init
<1>4. None \notin Task /\ Work \subseteq Task /\ Tick \subseteq Session /\ Request \subseteq Session
      BY ConstantsAssumption DEF Task, Session
<1>5. OneTick /\ PlansOnlyPlanning
      BY <1>1, <1>4 DEF OneTick, PlansOnlyPlanning, Idle
<1>6. RowsClosed
      BY <1>1, <1>2, <1>4 DEF RowsClosed, Idle, Absent, Exists
<1>7. WritesRun /\ PickedInOrder
      BY <1>1, <1>2, <1>4 DEF WritesRun, PickedInOrder, Idle, Writing, Task
<1>8. ShippedTaskRan
      BY <1>1, <1>3, <1>4 DEF ShippedTaskRan, Idle, NoPr
<1>9. DependencyOrder
      BY <1>2, <1>4 DEF DependencyOrder, Started, Absent
<1> QED
    BY <1>5, <1>6, <1>7, <1>8, <1>9, TypedInit DEF OrderInv

LEMMA TickKeepsOrder ==
  ASSUME OrderInv, Typed', NEW a \in Tick, NEW r, sess' = [sess EXCEPT ![a] = r],
         sess[a].pc # "idle", r = Idle \/ Keeps(a, r), UNCHANGED <<task, depends, pr>>
  PROVE  OrderInv'
<1>1. /\ \A s \in Session : s # a => sess'[s] = sess[s]
      /\ sess'[a] = r /\ a \in Session /\ None \notin Task
      /\ Tick \subseteq Session /\ Request \subseteq Session /\ a \notin Request /\ Work \subseteq Task
      BY ConstantsAssumption DEF OrderInv, Typed, TypeOK, Session, Task
<1>2. OneTick'
  <2>1. \A b \in Tick : b # a => sess[b].pc = "idle"
        BY <1>1 DEF OrderInv, OneTick
  <2>2. sess'[a].pc # "idle" => worker' = [pc |-> "gather", waits |-> {a}]
        BY <1>1 DEF OrderInv, OneTick, Keeps, Idle
  <2> QED
      BY <2>1, <2>2, <1>1 DEF OrderInv, OneTick, Keeps, Idle
<1>3. PlansOnlyPlanning'
      BY <1>1 DEF OrderInv, PlansOnlyPlanning, Keeps, Idle
<1>4. RowsClosed'
  <2>1. \A s \in Session : sess'[s].new \subseteq sess[s].new
        BY <1>1 DEF Keeps, Idle
  <2>2. \A s \in Session : \/ sess'[s].new = sess[s].new /\ sess'[s].linked = sess[s].linked
                           \/ sess'[s].linked = {}
        BY <1>1 DEF Keeps, Idle
  <2>3. \A b \in Tick : sess'[b].task \in Work => sess'[b].task = sess[b].task
        BY <1>1 DEF Keeps, Idle
  <2> QED
      BY <2>1, <2>2, <2>3, <1>1 DEF OrderInv, RowsClosed, Exists
<1>5. WritesRun'
      BY <1>1 DEF OrderInv, WritesRun, Keeps, Idle
<1>6. PickedInOrder'
  <2>1. \A b \in Tick : sess'[b].task \in {None, sess[b].task}
        BY <1>1 DEF Keeps, Idle
  <2>2. \A t \in Work : None \notin depends[t]
        BY <1>1 DEF OrderInv, Typed, TypeOK
  <2> QED
      BY <2>1, <2>2, <1>1 DEF OrderInv, PickedInOrder, Started
<1>7. ShippedTaskRan'
      BY <1>1 DEF OrderInv, ShippedTaskRan, Keeps, Idle, NoPr
<1>8. DependencyOrder'
      BY DEF OrderInv, DependencyOrder, Started
<1> QED
    BY <1>2, <1>3, <1>4, <1>5, <1>6, <1>7, <1>8 DEF OrderInv

LEMMA TickOrder ==
  ASSUME OrderInv, Typed', NEW a \in Tick,
         \/ OpenSession(a) \/ BudgetHalt(a) \/ PickNothing(a)
         \/ Claim(a) \/ WorkFails(a) \/ WorkPasses(a) \/ Learned(a)
         \/ ShipToGitHub(a) \/ ShipLocally(a) \/ MaybeMerge(a)
         \/ Raise(a) \/ RollBack(a)
  PROVE  OrderInv'
<1>0. /\ a \in Session /\ sess[a] \in SessionRow /\ sess[a].row.attempts \in Nat
      /\ None \notin Task /\ Work \subseteq Task
      /\ sess[a].pr.task \in {None, sess[a].task}
      /\ sess[a].pc \in {"opened", "picking"} => sess[a].task = None
      /\ sess[a].pc \in {"opened", "picking", "picked"} => sess[a].pr = NoPr
      /\ sess[a].pc \in Writing /\ sess[a].task \in Work =>
           sess[a].row.attempts > 0 /\ sess[a].row.status # "absent"
  <2>1. a \in Session /\ sess[a] \in SessionRow
        BY DEF OrderInv, Typed, TypeOK, Session
  <2>2. sess[a].row.attempts \in Nat
        BY <2>1 DEF SessionRow, Row
  <2> QED
      BY <2>1, <2>2, ConstantsAssumption DEF Task, OrderInv, ShippedTaskRan, WritesRun
<1>b. ASSUME worker' = worker
      PROVE  /\ sess[a].pc \in Writing => Keeps(a, Blocked(sess[a]))
             /\ Keeps(a, Blocked(Idle))
      BY <1>0, <1>b DEF Keeps, Blocked, SessionRow, Writing, Idle, NoPr
<1>1. CASE OpenSession(a)
  <2> DEFINE r == IF project.status = "active" THEN [sess[a] EXCEPT !.pc = "picking"] ELSE Idle
  <2>1. r = Idle \/ Keeps(a, r)
        BY <1>0, <1>1 DEF OpenSession, Keeps, SessionRow, PrRow, Writing
  <2>2. sess' = [sess EXCEPT ![a] = r] /\ UNCHANGED <<task, depends, pr>> /\ sess[a].pc # "idle"
        BY <1>1 DEF OpenSession
  <2> HIDE DEF r
  <2> QED
      BY <2>1, <2>2, TickKeepsOrder
<1>2. CASE BudgetHalt(a)
  <2> DEFINE r == [sess[a] EXCEPT !.pc = "settled", !.proj = "paused"]
  <2>1. Keeps(a, r)
        BY <1>0, <1>2 DEF BudgetHalt, Keeps, SessionRow, PrRow, Writing
  <2>2. sess' = [sess EXCEPT ![a] = r] /\ UNCHANGED <<task, depends, pr>> /\ sess[a].pc # "idle"
        BY <1>2 DEF BudgetHalt
  <2> HIDE DEF r
  <2> QED
      BY <2>1, <2>2, TickKeepsOrder
<1>3. CASE PickNothing(a)
  <2> DEFINE r == [sess[a] EXCEPT !.pc = "settled"]
  <2>1. Keeps(a, r)
        BY <1>0, <1>3 DEF PickNothing, Keeps, SessionRow, PrRow, Writing
  <2>2. sess' = [sess EXCEPT ![a] = r] /\ UNCHANGED <<task, depends, pr>> /\ sess[a].pc # "idle"
        BY <1>3 DEF PickNothing
  <2> HIDE DEF r
  <2> QED
      BY <2>1, <2>2, TickKeepsOrder
<1>4. CASE Claim(a)
  <2> DEFINE r == [sess[a] EXCEPT !.pc = "working",
        !.row = [status |-> "in_progress", lease |-> "live",
                 attempts |-> sess[a].row.attempts + 1]]
  <2>1. Keeps(a, r)
        BY <1>0, <1>4 DEF Claim, Keeps, SessionRow, PrRow, Writing
  <2>2. sess' = [sess EXCEPT ![a] = r] /\ UNCHANGED <<task, depends, pr>> /\ sess[a].pc # "idle"
        BY <1>4 DEF Claim
  <2> HIDE DEF r
  <2> QED
      BY <2>1, <2>2, TickKeepsOrder
<1>5. CASE WorkFails(a)
  <2> DEFINE r == [sess[a] EXCEPT !.pc = "settled", !.row.status = Retry(sess[a].row.attempts)]
  <2>1. Keeps(a, r)
        BY <1>0, <1>5 DEF WorkFails, Keeps, SessionRow, PrRow, Writing, Retry, Row
  <2>2. sess' = [sess EXCEPT ![a] = r] /\ UNCHANGED <<task, depends, pr>> /\ sess[a].pc # "idle"
        BY <1>5 DEF WorkFails
  <2> HIDE DEF r
  <2> QED
      BY <2>1, <2>2, TickKeepsOrder
<1>6. CASE WorkPasses(a)
  <2> DEFINE r == [sess[a] EXCEPT !.pc = "shipping"]
  <2>1. Keeps(a, r)
        BY <1>0, <1>6 DEF WorkPasses, Keeps, SessionRow, PrRow, Writing
  <2>2. sess' = [sess EXCEPT ![a] = r] /\ UNCHANGED <<task, depends, pr>> /\ sess[a].pc # "idle"
        BY <1>6 DEF WorkPasses
  <2> HIDE DEF r
  <2> QED
      BY <2>1, <2>2, TickKeepsOrder
<1>7. CASE Learned(a)
  <2> DEFINE r == [sess[a] EXCEPT !.pc = "settled",
        !.row.status = IF sess[a].pr.status = "merged" THEN "done" ELSE "in_review"]
  <2>1. Keeps(a, r)
        BY <1>0, <1>7 DEF Learned, Keeps, SessionRow, PrRow, Writing, Row
  <2>2. sess' = [sess EXCEPT ![a] = r] /\ UNCHANGED <<task, depends, pr>> /\ sess[a].pc # "idle"
        BY <1>7 DEF Learned
  <2> HIDE DEF r
  <2> QED
      BY <2>1, <2>2, TickKeepsOrder
<1>8. CASE ShipToGitHub(a)
  <2>1. \A n : Keeps(a, Shipped(sess[a], n))
        BY <1>0, <1>8 DEF ShipToGitHub, Keeps, Shipped, OpenPr, SessionRow, Writing
  <2>2. Keeps(a, Blocked(sess[a]))
        BY <1>b, <1>8 DEF ShipToGitHub, Writing
  <2>3. \E r : Keeps(a, r) /\ sess' = [sess EXCEPT ![a] = r]
        BY <1>8, <2>1, <2>2 DEF ShipToGitHub
  <2>4. UNCHANGED <<task, depends, pr>> /\ sess[a].pc # "idle"
        BY <1>8 DEF ShipToGitHub
  <2> QED
      BY <2>3, <2>4, TickKeepsOrder
<1>9. CASE ShipLocally(a)
  <2>1. UNCHANGED <<task, depends, pr>> /\ sess[a].pc # "idle"
        BY <1>9 DEF ShipLocally
  <2>2. \E r : (r = Idle \/ Keeps(a, r)) /\ sess' = [sess EXCEPT ![a] = r]
    <3>1. worker' = worker => \A n : Keeps(a, Shipped(sess[a], n))
          BY <1>0, <1>9 DEF ShipLocally, Keeps, Shipped, OpenPr, SessionRow, Writing
    <3> QED
        BY <1>9, <3>1 DEF ShipLocally, Discard
  <2> QED
      BY <2>1, <2>2, TickKeepsOrder
<1>10. CASE MaybeMerge(a)
  <2>1. Keeps(a, [sess[a] EXCEPT !.pc = "learning", !.pr.status = "merged"])
        BY <1>0, <1>10 DEF MaybeMerge, Keeps, SessionRow, PrRow, Writing
  <2>2. Keeps(a, [sess[a] EXCEPT !.pc = "learning", !.pr.approval = "pending"])
        BY <1>0, <1>10 DEF MaybeMerge, Keeps, SessionRow, PrRow, Writing
  <2>3. Keeps(a, Blocked(sess[a]))
        BY <1>b, <1>10 DEF MaybeMerge, Writing
  <2>4. \E r : Keeps(a, r) /\ sess' = [sess EXCEPT ![a] = r]
        BY <1>10, <2>1, <2>2, <2>3 DEF MaybeMerge
  <2>5. UNCHANGED <<task, depends, pr>> /\ sess[a].pc # "idle"
        BY <1>10 DEF MaybeMerge
  <2> QED
      BY <2>4, <2>5, TickKeepsOrder
<1>11. CASE Raise(a)
  <2>1. \E r : Keeps(a, r) /\ sess' = [sess EXCEPT ![a] = r]
        BY <1>b, <1>11 DEF Raise
  <2>2. UNCHANGED <<task, depends, pr>> /\ sess[a].pc # "idle"
        BY <1>11 DEF Raise, Writing
  <2> QED
      BY <2>1, <2>2, TickKeepsOrder
<1>12. CASE RollBack(a)
      BY <1>12, TickKeepsOrder DEF RollBack, Discard
<1> QED
    BY <1>1, <1>2, <1>3, <1>4, <1>5, <1>6, <1>7, <1>8, <1>9, <1>10, <1>11, <1>12

LEMMA PickOrder ==
  ASSUME OrderInv, Typed', NEW a \in Tick, NEW t \in Task, PickTask(a, t)
  PROVE  OrderInv'
<1> DEFINE r == [sess[a] EXCEPT !.pc = "picked", !.task = t, !.row = task[t]]
<1>0. /\ sess' = [sess EXCEPT ![a] = r] /\ UNCHANGED <<task, depends, pr, worker>>
      /\ sess[a].pc = "picking" /\ task[t].status = "ready" /\ DependenciesMet(t)
      BY DEF PickTask, Eligible
<1>1. /\ r.pc = "picked" /\ r.task = t /\ r.new = sess[a].new /\ r.linked = sess[a].linked
      /\ r.pr = sess[a].pr
      /\ r.pr = NoPr
  <2>1. sess[a] \in SessionRow
        BY DEF OrderInv, Typed, TypeOK, Session
  <2> QED
      BY <1>0, <2>1 DEF SessionRow, OrderInv, ShippedTaskRan, Session
<1> HIDE DEF r
<1>2. /\ \A s \in Session : s # a => sess'[s] = sess[s]
      /\ sess'[a] = r /\ a \in Session /\ None \notin Task
      /\ Tick \subseteq Session /\ Request \subseteq Session /\ a \notin Request /\ Work \subseteq Task
      BY <1>0, ConstantsAssumption DEF OrderInv, Typed, TypeOK, Session, Task
<1>3. OneTick'
      BY <1>0, <1>1, <1>2 DEF OrderInv, OneTick, Idle
<1>4. PlansOnlyPlanning'
      BY <1>1, <1>2 DEF OrderInv, PlansOnlyPlanning
<1>5. RowsClosed'
  <2>1. \A s \in Session : sess'[s].new = sess[s].new /\ sess'[s].linked = sess[s].linked
        BY <1>1, <1>2
  <2>2. Exists(t)
        BY <1>0 DEF Exists
  <2> QED
      BY <2>1, <2>2, <1>0, <1>1, <1>2 DEF OrderInv, RowsClosed, Exists
<1>6. WritesRun'
      BY <1>1, <1>2 DEF OrderInv, WritesRun, Writing
<1>7. PickedInOrder'
  <2>1. t \in Work => \A d \in depends[t] : task[d].status = "done"
        BY <1>0 DEF DependenciesMet, OrderInv, RowsClosed, Exists
  <2>2. \A u \in Work : t \in depends[u] => ~Started(u)
        BY <1>0 DEF OrderInv, DependencyOrder
  <2> QED
      BY <2>1, <2>2, <1>0, <1>1, <1>2 DEF OrderInv, PickedInOrder, Started
<1>8. ShippedTaskRan'
      BY <1>0, <1>1, <1>2 DEF OrderInv, ShippedTaskRan, NoPr
<1>9. DependencyOrder'
      BY <1>0 DEF OrderInv, DependencyOrder, Started
<1> QED
    BY <1>3, <1>4, <1>5, <1>6, <1>7, <1>8, <1>9 DEF OrderInv

LEMMA PlanBegins ==
  ASSUME OrderInv, Typed', NEW s \in Session, NEW p \in Planning,
         \/ s \in Tick /\ PlanFromTick(s, p)
         \/ s \in Request /\ PlanFromRequest(s, p)
  PROVE  OrderInv'
<1>0. sess[s] \in SessionRow /\ sess[s].pr = NoPr
      BY DEF OrderInv, Typed, TypeOK, ShippedTaskRan, OneTick, Idle, PlanFromTick, PlanFromRequest
<1>1. PICK r : /\ sess' = [sess EXCEPT ![s] = r]
               /\ r.pc = "planning" /\ r.task = p /\ r.pr = NoPr
               /\ r.new = sess[s].new /\ r.linked = sess[s].linked
  <2>1. CASE PlanFromTick(s, p)
    <3> DEFINE r == Plan(sess[s], p)
    <3>1. /\ r.pc = "planning" /\ r.task = p /\ r.pr = NoPr
          /\ r.new = sess[s].new /\ r.linked = sess[s].linked
          BY <1>0 DEF Plan, SessionRow
    <3> QED
        BY <2>1, <3>1 DEF PlanFromTick
  <2>2. CASE PlanFromRequest(s, p)
    <3> DEFINE r == [Plan(sess[s], p) EXCEPT
                       !.proj = IF project.status = "active" THEN "none" ELSE "active"]
    <3>1. /\ r.pc = "planning" /\ r.task = p /\ r.pr = NoPr
          /\ r.new = sess[s].new /\ r.linked = sess[s].linked
          BY <1>0 DEF Plan, SessionRow
    <3> QED
        BY <2>2, <3>1 DEF PlanFromRequest
  <2> QED
      BY <2>1, <2>2
<1>2. /\ \A u \in Session : u # s => sess'[u] = sess[u]
      /\ sess'[s] = r /\ p \notin Work /\ None \notin Task /\ p # None
      /\ Tick \subseteq Session /\ Request \subseteq Session /\ Tick \cap Request = {} /\ Work \subseteq Task
      /\ \A t \in Work : p \notin depends[t]
      BY <1>1, ConstantsAssumption DEF OrderInv, Typed, TypeOK, Session, Task
<1>3. UNCHANGED <<task, depends, pr, worker>> /\ (s \in Tick => sess[s].pc = "picking")
      BY <1>2 DEF PlanFromTick, PlanFromRequest
<1>4. OneTick'
      BY <1>1, <1>2, <1>3 DEF OrderInv, OneTick, Idle
<1>5. PlansOnlyPlanning'
      BY <1>1, <1>2 DEF OrderInv, PlansOnlyPlanning
<1>6. RowsClosed'
  <2>1. \A u \in Session : sess'[u].new = sess[u].new /\ sess'[u].linked = sess[u].linked
        BY <1>1, <1>2
  <2> QED
      BY <2>1, <1>1, <1>2, <1>3 DEF OrderInv, RowsClosed, Exists
<1>7. WritesRun'
      BY <1>1, <1>2 DEF OrderInv, WritesRun
<1>8. PickedInOrder'
      BY <1>1, <1>2, <1>3 DEF OrderInv, PickedInOrder, Started
<1>9. ShippedTaskRan'
      BY <1>1, <1>2, <1>3 DEF OrderInv, ShippedTaskRan, NoPr
<1>10. DependencyOrder'
      BY <1>3 DEF OrderInv, DependencyOrder, Started
<1> QED
    BY <1>4, <1>5, <1>6, <1>7, <1>8, <1>9, <1>10 DEF OrderInv

LEMMA PlannedOrder ==
  ASSUME OrderInv, Typed', NEW s \in Session, NEW new \in SUBSET Work,
         \/ Planned(s, new)
         \/ \E linked \in SUBSET new : PlanRaises(s, new, linked)
  PROVE  OrderInv'
<1>0. sess[s] \in SessionRow
      BY DEF OrderInv, Typed, TypeOK
<1>1. PICK r : /\ sess' = [sess EXCEPT ![s] = r]
               /\ r.pc = "settled" /\ r.task = sess[s].task /\ r.pr = sess[s].pr
               /\ r.new = new /\ r.linked \subseteq new
               /\ r.linked # {} => \A t \in new : Deps[t] \subseteq new
  <2>1. CASE Planned(s, new)
    <3> DEFINE r == [sess[s] EXCEPT !.pc = "settled", !.row.status = "done",
                                    !.new = new, !.linked = new]
    <3>1. /\ r.pc = "settled" /\ r.task = sess[s].task /\ r.pr = sess[s].pr
          /\ r.new = new /\ r.linked = new
          BY <1>0 DEF SessionRow
    <3>2. sess' = [sess EXCEPT ![s] = r] /\ \A t \in new : Deps[t] \subseteq new
          BY <2>1 DEF Planned
    <3> HIDE DEF r
    <3> QED
        BY <3>1, <3>2
  <2>2. ASSUME NEW linked \in SUBSET new, PlanRaises(s, new, linked)
        PROVE  \E r : /\ sess' = [sess EXCEPT ![s] = r]
                      /\ r.pc = "settled" /\ r.task = sess[s].task /\ r.pr = sess[s].pr
                      /\ r.new = new /\ r.linked \subseteq new
                      /\ r.linked # {} => \A t \in new : Deps[t] \subseteq new
    <3> DEFINE r == [Blocked(sess[s]) EXCEPT !.new = new, !.linked = linked]
    <3>1. /\ r.pc = "settled" /\ r.task = sess[s].task /\ r.pr = sess[s].pr
          /\ r.new = new /\ r.linked = linked
          BY <1>0 DEF Blocked, SessionRow
    <3>2. /\ sess' = [sess EXCEPT ![s] = r]
          /\ linked # {} => \A t \in new : Deps[t] \subseteq new
          BY <2>2 DEF PlanRaises
    <3> HIDE DEF r
    <3> QED
        BY <3>1, <3>2
  <2> QED
      BY <2>1, <2>2
<1>2. /\ \A u \in Session : u # s => sess'[u] = sess[u]
      /\ sess'[s] = r /\ sess[s].task \in Planning
      /\ Tick \subseteq Session /\ Request \subseteq Session /\ Work \cap Planning = {} /\ Work \subseteq Task
      BY <1>1, ConstantsAssumption
         DEF OrderInv, Typed, TypeOK, Session, Task, PlansOnlyPlanning, Planned, PlanRaises
<1>3. UNCHANGED <<task, depends, pr, worker>> /\ sess[s].pc = "planning"
      BY DEF Planned, PlanRaises
<1>4. OneTick'
      BY <1>1, <1>2, <1>3 DEF OrderInv, OneTick, Idle
<1>5. PlansOnlyPlanning'
      BY <1>1, <1>2 DEF OrderInv, PlansOnlyPlanning
<1>6. RowsClosed'
  <2>1. \A t \in new : ~Exists(t) /\ \A u \in Session : t \notin sess[u].new
        BY DEF Planned, PlanRaises, Fresh
  <2> QED
      BY <2>1, <1>1, <1>2, <1>3 DEF OrderInv, RowsClosed, Exists
<1>7. WritesRun'
      BY <1>1, <1>2 DEF OrderInv, WritesRun
<1>8. PickedInOrder'
      BY <1>1, <1>2, <1>3 DEF OrderInv, PickedInOrder, Started
<1>9. ShippedTaskRan'
      BY <1>1, <1>2, <1>3 DEF OrderInv, ShippedTaskRan, NoPr
<1>10. DependencyOrder'
      BY <1>3 DEF OrderInv, DependencyOrder, Started
<1> QED
    BY <1>4, <1>5, <1>6, <1>7, <1>8, <1>9, <1>10 DEF OrderInv

\* The commit of a tick: the task it ran, or the plan it made.
LEMMA CommitOrder ==
  ASSUME OrderInv, Typed', NEW s \in Session, Commit(s)
  PROVE  OrderInv'
<1> DEFINE w == sess[s]
<1>0. /\ w \in SessionRow /\ w.pc = "settled" /\ w.task \in Task \cup {None}
      /\ \A t \in Task : task'[t] = IF t = w.task THEN w.row
                                     ELSE IF t \in w.new THEN NewTask("ready") ELSE task[t]
      /\ \A t \in Task : depends'[t] = IF t \in w.linked THEN Deps[t] ELSE depends[t]
      /\ \A n \in Number : pr'[n] = IF n = w.number THEN w.pr ELSE pr[n]
      /\ sess' = [sess EXCEPT ![s] = Idle] /\ worker' = worker
      BY DEF Commit, OrderInv, Typed, TypeOK, SessionRow
<1>1. /\ \A u \in Session : u # s => sess'[u] = sess[u]
      /\ sess'[s] = Idle /\ None \notin Task
      /\ Tick \subseteq Session /\ Request \subseteq Session /\ Session \subseteq Tick \cup Request
      /\ Tick \cap Request = {} /\ Work \cap Planning = {} /\ Work \subseteq Task
      /\ Deps \in [Task -> SUBSET Work] /\ depends \in [Task -> SUBSET Work]
      BY <1>0, ConstantsAssumption DEF OrderInv, Typed, TypeOK, Session, Task
\* Ordinary tasks are written by ticks only, and then they have been run.
<1>2. w.task \in Work => s \in Tick /\ w.row.attempts > 0 /\ w.row.status # "absent"
      BY <1>0, <1>1 DEF OrderInv, PlansOnlyPlanning, WritesRun, Writing
<1>3. /\ \A t \in w.new : ~Exists(t)
      /\ \A t \in w.linked : t \in w.new /\ Deps[t] \subseteq w.new
      BY DEF OrderInv, RowsClosed
<1>4. \A t \in Work : t \notin w.new /\ t # w.task => task'[t] = task[t]
      BY <1>0, <1>1
<1>5. \A t \in Work : t \in w.new /\ t # w.task => task'[t] = NewTask("ready")
      BY <1>0, <1>1
<1>6. \A t \in Work : t = w.task => task'[t] = w.row
      BY <1>0, <1>1
<1>d. \A t \in Work : \/ t \notin w.linked /\ depends'[t] = depends[t]
                      \/ t \in w.linked /\ depends'[t] = Deps[t]
      BY <1>0, <1>1
<1>7. s \in Tick => \A b \in Tick : b # s => sess[b] = Idle
      BY <1>0, <1>1 DEF OrderInv, OneTick
<1>8. \A b \in Tick : sess'[b].task \in Work => b # s /\ sess'[b] = sess[b] /\ s \notin Tick
      BY <1>1, <1>7 DEF Idle
<1> HIDE DEF w
<1>9. \A t \in Work : Exists(t) => task'[t].status # "absent"
      BY <1>2, <1>3, <1>4, <1>6 DEF Exists
<1>10. \A t \in Work : task[t].attempts > 0 => task'[t].attempts > 0
  <2>1. \A t \in Work : task[t].attempts > 0 => Exists(t)
        BY <1>1 DEF OrderInv, RowsClosed
  <2> QED
      BY <2>1, <1>2, <1>3, <1>4, <1>6
<1>11. OneTick'
  <2>1. Idle.pc = "idle"
        BY DEF Idle
  <2> QED
      BY <2>1, <1>0, <1>1 DEF OrderInv, OneTick
<1>12. PlansOnlyPlanning'
      BY <1>1 DEF OrderInv, PlansOnlyPlanning, Idle
<1>e. \A t \in Work : t \in w.new => Exists(t)'
      BY <1>2, <1>5, <1>6 DEF Exists, NewTask
<1>13. RowsClosed'
  <2>1. ASSUME NEW t \in Work, ~Exists(t)' PROVE task'[t].attempts = 0 /\ depends'[t] = {}
    <3>1. ~Exists(t) /\ t \notin w.new /\ t # w.task
          BY <2>1, <1>2, <1>6, <1>9, <1>e DEF Exists
    <3> QED
        BY <3>1, <1>3, <1>4, <1>d DEF OrderInv, RowsClosed
  <2>2. ASSUME NEW t \in Work, NEW d \in depends'[t] PROVE Exists(d)'
    <3>1. CASE t \in w.linked
      <4>1. d \in w.new /\ d \in Work
            BY <2>2, <3>1, <1>1, <1>3, <1>d
      <4> QED
          BY <4>1, <1>e
    <3>2. CASE t \notin w.linked
      <4>1. d \in Work /\ Exists(d)
            BY <2>2, <3>2, <1>1, <1>d DEF OrderInv, RowsClosed
      <4> QED
          BY <4>1, <1>9 DEF Exists
    <3> QED
        BY <3>1, <3>2
  <2>3. ASSUME NEW u \in Session, NEW t \in sess'[u].new
        PROVE  ~Exists(t)' /\ \A v \in Session : t \in sess'[v].new => v = u
    <3>1. u # s /\ sess'[u] = sess[u]
          BY <2>3, <1>1 DEF Idle
    <3>2. /\ ~Exists(t) /\ t \notin w.new
          /\ \A v \in Session : t \in sess[v].new => v = u
          BY <3>1 DEF OrderInv, RowsClosed, w
    <3>3. t \in Work
          BY <3>1 DEF OrderInv, Typed, TypeOK, SessionRow
    <3>4. t # w.task
          BY <3>2, <3>3, <1>2 DEF OrderInv, RowsClosed, w
    <3>5. ~Exists(t)'
          BY <3>2, <3>3, <3>4, <1>4 DEF Exists
    <3> QED
        BY <3>1, <3>2, <3>5, <1>1 DEF Idle
  <2>5. ASSUME NEW u \in Session, NEW t \in sess'[u].linked
        PROVE  t \in sess'[u].new /\ Deps[t] \subseteq sess'[u].new
        BY <2>5, <1>1 DEF Idle, OrderInv, RowsClosed
  <2>4. ASSUME NEW b \in Tick, sess'[b].task \in Work PROVE task'[sess'[b].task].status # "absent"
        BY <2>4, <1>8, <1>9 DEF OrderInv, RowsClosed, Exists
  <2> QED
      BY <2>1, <2>2, <2>3, <2>4, <2>5 DEF RowsClosed, Exists
<1>14. WritesRun'
      BY <1>1 DEF OrderInv, WritesRun, Idle, Writing
\* A task that is committed with its dependencies did not exist, so nobody works on
\* it, on what it depends on, or has started it.
<1>15. PickedInOrder'
  <2>0. ASSUME NEW b \in Tick, sess'[b].task \in Work
        PROVE  sess'[b] = sess[b] /\ sess[b].task \notin w.new /\ w.task \notin Work
    <3>1. sess'[b] = sess[b] /\ s \notin Tick
          BY <2>0, <1>8
    <3>2. Exists(sess[b].task)
          BY <2>0, <3>1 DEF OrderInv, RowsClosed
    <3> QED
        BY <3>1, <3>2, <1>2, <1>3
  <2>1. ASSUME NEW b \in Tick, sess'[b].task \in Work, NEW d \in depends'[sess'[b].task]
        PROVE  task'[d].status = "done"
    <3>1. d \in depends[sess[b].task]
          BY <2>0, <2>1, <1>3, <1>d
    <3>2. d \in Work /\ task[d].status = "done"
          BY <2>0, <2>1, <3>1, <1>1 DEF OrderInv, PickedInOrder
    <3> QED
        BY <3>2, <2>0, <2>1, <1>3, <1>4 DEF Exists
  <2>2. ASSUME NEW b \in Tick, NEW t \in Work, sess'[b].task \in depends'[t] PROVE ~Started(t)'
    <3>1. sess'[b].task \in Work
          BY <2>2, <1>1, <1>d
    <3>2. t \notin w.linked
          BY <2>0, <2>2, <3>1, <1>3, <1>d
    <3>3. ~Started(t) /\ t # w.task
          BY <2>0, <2>2, <3>1, <3>2, <1>d DEF OrderInv, PickedInOrder
    <3> QED
        BY <3>3, <1>4, <1>5 DEF Started, NewTask
  <2> QED
      BY <2>1, <2>2 DEF PickedInOrder
<1>16. ShippedTaskRan'
  <2>1. ASSUME NEW n \in Number, pr'[n].task \in Work PROVE task'[pr'[n].task].attempts > 0
    <3>1. CASE pr'[n] = w.pr
          BY <2>1, <3>1, <1>1, <1>2, <1>6 DEF OrderInv, ShippedTaskRan, w
    <3>2. CASE pr'[n] = pr[n]
          BY <2>1, <3>2, <1>10 DEF OrderInv, ShippedTaskRan
    <3> QED
        BY <3>1, <3>2, <1>0
  <2> QED
      BY <2>1, <1>1 DEF OrderInv, ShippedTaskRan, Idle, NoPr
<1>17. DependencyOrder'
  <2> SUFFICES ASSUME NEW t \in Work, Started(t)', NEW d \in depends'[t]
               PROVE  task'[d].status = "done"
      BY DEF DependencyOrder
  <2>0. d \in Work
        BY <1>1, <1>d
  <2>2. CASE t = w.task
    <3>0. d \in depends[t]
      <4>1. Exists(t)
            BY <2>2, <1>2 DEF OrderInv, RowsClosed, w
      <4> QED
          BY <4>1, <1>3, <1>d
    <3>1. task[d].status = "done"
          BY <2>2, <3>0, <1>2 DEF OrderInv, PickedInOrder, w
    <3>2. d # w.task
          BY <3>0, <3>1, <2>2, <1>2 DEF OrderInv, PickedInOrder, Started, w
    <3> QED
        BY <3>1, <3>2, <2>0, <1>3, <1>4 DEF Exists
  <2>3. CASE t # w.task
    <3>1. Started(t) /\ t \notin w.new
          BY <2>3, <1>4, <1>5 DEF Started, NewTask
    <3>2. d \in depends[t]
          BY <3>1, <1>3, <1>d
    <3>3. task[d].status = "done"
          BY <3>1, <3>2 DEF OrderInv, DependencyOrder
    <3>4. d # w.task
          BY <3>1, <3>2, <2>0, <1>2 DEF OrderInv, PickedInOrder, w
    <3> QED
        BY <3>3, <3>4, <2>0, <1>3, <1>4 DEF Exists
  <2> QED
      BY <2>2, <2>3
<1> QED
    BY <1>11, <1>12, <1>13, <1>14, <1>15, <1>16, <1>17 DEF OrderInv

\* A session that ends without a trace: CrashRestart, and RollBack of a request.
LEMMA EndOrder ==
  ASSUME OrderInv, Typed', CrashRestart \/ \E r \in Request : RollBack(r)
  PROVE  OrderInv'
<1>0. /\ None \notin Task /\ Work \subseteq Task /\ Tick \cap Request = {}
      /\ Tick \subseteq Session /\ Request \subseteq Session /\ worker.waits \subseteq Tick
      /\ \A t \in Work : None \notin depends[t]
      BY ConstantsAssumption DEF OrderInv, Typed, TypeOK, Session, Task
<1>i. /\ Idle.pc = "idle" /\ Idle.task = None /\ Idle.new = {} /\ Idle.linked = {}
      /\ Idle.pr = NoPr /\ NoPr.task = None
      BY DEF Idle, NoPr
<1>1. /\ UNCHANGED <<task, depends, pr>>
      /\ \A s \in Session : sess'[s] = Idle \/ sess'[s] = sess[s]
      /\ \A a \in Tick : sess'[a] # Idle => worker' = worker
      BY <1>0 DEF CrashRestart, RollBack, Discard, OrderInv, Typed, TypeOK
<1>2. OneTick'
      BY <1>0, <1>1, <1>i DEF OrderInv, OneTick
<1>3. PlansOnlyPlanning'
      BY <1>0, <1>1, <1>i DEF OrderInv, PlansOnlyPlanning
<1>4. RowsClosed'
  <2>1. \A s \in Session : \/ sess'[s].new = sess[s].new /\ sess'[s].linked = sess[s].linked
                           \/ sess'[s].new = {} /\ sess'[s].linked = {}
        BY <1>1, <1>i
  <2> QED
      BY <2>1, <1>0, <1>1, <1>i DEF OrderInv, RowsClosed, Exists
<1>5. WritesRun'
      BY <1>0, <1>1, <1>i DEF OrderInv, WritesRun
<1>6. PickedInOrder'
      BY <1>0, <1>1, <1>i DEF OrderInv, PickedInOrder, Started
<1>7. ShippedTaskRan'
      BY <1>1, <1>i DEF OrderInv, ShippedTaskRan
<1>8. DependencyOrder'
      BY <1>1 DEF OrderInv, DependencyOrder, Started
<1> QED
    BY <1>2, <1>3, <1>4, <1>5, <1>6, <1>7, <1>8 DEF OrderInv

\* The loop of the worker.
LEMMA LoopOrder ==
  ASSUME OrderInv, Typed', ListProject \/ GatherDone
  PROVE  OrderInv'
<1>0. /\ None \notin Task /\ Work \subseteq Task /\ Tick \cap Request = {}
      /\ Tick \subseteq Session /\ Request \subseteq Session /\ UNCHANGED <<task, depends, pr>>
      /\ sess \in [Session -> SessionRow]
      BY ConstantsAssumption
         DEF OrderInv, Typed, TypeOK, Session, Task, ListProject, GatherDone
<1>1. \A s \in Session :
        /\ sess'[s].task = sess[s].task /\ sess'[s].pr = sess[s].pr
        /\ sess'[s].new = sess[s].new /\ sess'[s].linked = sess[s].linked
        /\ sess'[s] # sess[s] => sess[s] = Idle /\ sess'[s].pc = "opened" /\ s \in Tick
      BY <1>0 DEF ListProject, GatherDone, OrderInv, OneTick, SessionRow
<1>i. Idle.pc = "idle" /\ Idle.task = None /\ Idle.pr = NoPr
      BY DEF Idle
<1>2. OneTick'
  <2>1. CASE GatherDone
    <3>1. \A a \in Tick : sess[a].pc = "idle"
          BY <2>1 DEF GatherDone, OrderInv, OneTick
    <3> QED
        BY <2>1, <3>1 DEF GatherDone, OrderInv, OneTick
  <2>2. CASE ListProject
    <3>1. \A a \in Tick : sess[a].pc = "idle"
          BY <2>2 DEF ListProject, OrderInv, OneTick
    <3> QED
        BY <2>2, <3>1, <1>0 DEF ListProject, OrderInv, OneTick, Idle
  <2> QED
      BY <2>1, <2>2
<1>3. PlansOnlyPlanning'
      BY <1>0, <1>1 DEF OrderInv, PlansOnlyPlanning
<1>4. RowsClosed'
      BY <1>0, <1>1 DEF OrderInv, RowsClosed, Exists
<1>5. WritesRun'
      BY <1>0, <1>1 DEF OrderInv, WritesRun, Writing
<1>6. PickedInOrder'
      BY <1>0, <1>1 DEF OrderInv, PickedInOrder, Started
<1>7. ShippedTaskRan'
      BY <1>0, <1>1, <1>i DEF OrderInv, ShippedTaskRan
<1>8. DependencyOrder'
      BY <1>0 DEF OrderInv, DependencyOrder, Started
<1> QED
    BY <1>2, <1>3, <1>4, <1>5, <1>6, <1>7, <1>8 DEF OrderInv

\* A row that stays as it is, as far as the dependency order can tell.
RowKept(t) ==
  /\ task'[t].attempts = task[t].attempts
  /\ task'[t].status = "absent" <=> task[t].status = "absent"
  /\ task[t].status = "done" => task'[t].status = "done"
  /\ Started(t)' => Started(t)

\* Writers of committed rows other than a session: what they write keeps every
\* attempts, every DONE, and makes nothing DONE or IN_PROGRESS that has not run.
LEMMA RowOrder ==
  ASSUME OrderInv, Typed', UNCHANGED sess, NEW F \in SUBSET Work,
         \A a \in Tick : sess[a].pc # "idle" => worker' = worker,
         \A n \in Number : pr'[n].task = pr[n].task,
         \A t \in Work \ F : RowKept(t) /\ depends'[t] = depends[t],
         \A t \in F : /\ task'[t] = NewTask("ready") /\ Fresh(t)
                      /\ \A d \in depends'[t] : Exists(d)
  PROVE  OrderInv'
<1>0. /\ None \notin Task /\ Work \subseteq Task
      /\ depends \in [Task -> SUBSET Work] /\ depends' \in [Task -> SUBSET Work]
      /\ Tick \subseteq Session /\ Request \subseteq Session
      BY ConstantsAssumption DEF OrderInv, Typed, TypeOK, Session, Task
<1> USE DEF RowKept
<1>1. \A t \in F : /\ ~Exists(t) /\ \A s \in Session : t # sess[s].task /\ t \notin sess[s].new
                   /\ Exists(t)' /\ ~Started(t)' /\ task'[t].attempts = 0
      BY DEF Fresh, Exists, Started, NewTask
<1>2. OneTick' /\ PlansOnlyPlanning' /\ WritesRun'
      BY <1>0 DEF OrderInv, OneTick, PlansOnlyPlanning, WritesRun
<1>3. RowsClosed'
  <2>1. \A t \in Work : Exists(t) => Exists(t)'
        BY <1>1 DEF Exists
  <2>2. \A t \in Work : Exists(t)' => Exists(t) \/ t \in F
        BY DEF Exists
  <2>3. ASSUME NEW t \in Work, ~Exists(t)' PROVE task'[t].attempts = 0 /\ depends'[t] = {}
        BY <2>3, <1>1 DEF OrderInv, RowsClosed, Exists
  <2>4. ASSUME NEW t \in Work, NEW d \in depends'[t] PROVE Exists(d)'
    <3>1. d \in Work
          BY <1>0
    <3>2. Exists(d)
          BY DEF OrderInv, RowsClosed
    <3> QED
        BY <3>1, <3>2, <2>1
  <2>5. ASSUME NEW s \in Session, NEW t \in sess[s].new PROVE ~Exists(t)'
    <3>1. t \in Work
          BY DEF OrderInv, Typed, TypeOK, SessionRow
    <3> QED
        BY <3>1, <2>2, <1>1 DEF OrderInv, RowsClosed
  <2>6. ASSUME NEW a \in Tick, sess[a].task \in Work PROVE Exists(sess[a].task)'
        BY <2>1, <2>6 DEF OrderInv, RowsClosed
  <2> QED
      BY <2>3, <2>4, <2>5, <2>6 DEF OrderInv, RowsClosed, Exists
<1>4. PickedInOrder'
  <2>1. ASSUME NEW a \in Tick, sess[a].task \in Work, NEW d \in depends'[sess[a].task]
        PROVE  task'[d].status = "done"
    <3>1. d \in Work /\ task[d].status = "done"
          BY <2>1, <1>0, <1>1 DEF OrderInv, PickedInOrder
    <3> QED
        BY <3>1, <1>1 DEF Exists
  <2>2. ASSUME NEW a \in Tick, NEW t \in Work, sess[a].task \in depends'[t] PROVE ~Started(t)'
        BY <2>2, <1>1 DEF OrderInv, PickedInOrder
  <2> QED
      BY <2>1, <2>2 DEF PickedInOrder
<1>5. ShippedTaskRan'
  <2>1. ASSUME NEW n \in Number, pr[n].task \in Work PROVE task'[pr[n].task].attempts > 0
    <3>1. task[pr[n].task].attempts > 0
          BY <2>1 DEF OrderInv, ShippedTaskRan
    <3>2. pr[n].task \notin F
          BY <2>1, <3>1, <1>0, <1>1 DEF OrderInv, RowsClosed
    <3> QED
        BY <2>1, <3>1, <3>2
  <2> QED
      BY <2>1 DEF OrderInv, ShippedTaskRan
<1>6. DependencyOrder'
  <2> SUFFICES ASSUME NEW t \in Work, Started(t)', NEW d \in depends'[t]
               PROVE  task'[d].status = "done"
      BY DEF DependencyOrder
  <2>1. Started(t) /\ d \in Work /\ d \in depends[t]
        BY <1>0, <1>1
  <2>2. task[d].status = "done"
        BY <2>1 DEF OrderInv, DependencyOrder
  <2> QED
      BY <2>1, <2>2, <1>1 DEF Exists
<1> QED
    BY <1>2, <1>3, <1>4, <1>5, <1>6 DEF OrderInv

LEMMA RowsKeptOrder ==
  ASSUME OrderInv, Typed', UNCHANGED <<sess, depends>>,
         \A a \in Tick : sess[a].pc # "idle" => worker' = worker,
         \A n \in Number : pr'[n].task = pr[n].task,
         \A t \in Work : RowKept(t)
  PROVE  OrderInv'
<1> DEFINE F == {}
<1>1. F \in SUBSET Work /\ Work \ F = Work /\ \A t \in F : FALSE
      OBVIOUS
<1> HIDE DEF F
<1> QED
    BY <1>1, RowOrder

LEMMA ApiOrder ==
  ASSUME OrderInv, Typed',
         \/ ReclaimExpired
         \/ \E t \in Task : LeaseExpires(t)
         \/ RepoAnalyzed \/ AnalysisLost \/ StartProject \/ PauseProject
         \/ \E t \in Work : CreateTask(t)
         \/ \E n \in Number : ApproveMerge(n) \/ RejectMerge(n)
         \/ \E status \in ProjectStatus : PatchProject(status)
  PROVE  OrderInv'
<1>0. /\ Work \subseteq Task /\ task \in [Task -> Row] /\ pr \in [Number -> PrRow]
      /\ depends \in [Task -> SUBSET Work]
      BY DEF OrderInv, Typed, TypeOK, Task
<1>k. task' = task => \A t \in Work : RowKept(t)
      BY DEF RowKept, Started
<1>1. CASE ReclaimExpired
  <2>0. worker.pc = "reclaim" /\ UNCHANGED <<depends, pr, sess>>
        BY <1>1 DEF ReclaimExpired
  <2>1. \A a \in Tick : sess[a].pc = "idle"
        BY <2>0 DEF OrderInv, OneTick
  <2>2. \A t \in Work : RowKept(t)
        BY <1>0, <1>1 DEF ReclaimExpired, RowKept, Started, Row
  <2> QED
      BY <2>0, <2>1, <2>2, RowsKeptOrder
<1>2. ASSUME NEW t \in Task, LeaseExpires(t) PROVE OrderInv'
  <2>1. \A u \in Work : RowKept(u)
        BY <1>0, <1>2 DEF LeaseExpires, RowKept, Started, Row
  <2> QED
      BY <1>2, <2>1, RowsKeptOrder DEF LeaseExpires
<1>3. CASE RepoAnalyzed \/ AnalysisLost \/ StartProject \/ PauseProject
      BY <1>3, <1>k, RowsKeptOrder DEF RepoAnalyzed, AnalysisLost, StartProject, PauseProject
<1>4. ASSUME NEW t \in Work, CreateTask(t) PROVE OrderInv'
  <2>1. \A u \in Work \ {t} : RowKept(u) /\ depends'[u] = depends[u]
        BY <1>0, <1>4 DEF CreateTask, RowKept, Started
  <2>2. task'[t] = NewTask("ready") /\ Fresh(t) /\ \A d \in depends'[t] : Exists(d)
        BY <1>0, <1>4 DEF CreateTask
  <2>3. UNCHANGED <<sess, worker, pr>>
        BY <1>4 DEF CreateTask
  <2>4. ASSUME NEW F \in SUBSET Work, F = {t} PROVE OrderInv'
        BY <2>1, <2>2, <2>3, <2>4, RowOrder
  <2> QED
      BY <2>4
<1>5. ASSUME NEW n \in Number, RejectMerge(n) PROVE OrderInv'
  <2>1. \A m \in Number : pr'[m].task = pr[m].task
        BY <1>0, <1>5 DEF RejectMerge, PrRow
  <2> QED
      BY <1>5, <1>k, <2>1, RowsKeptOrder DEF RejectMerge
<1>6. ASSUME NEW n \in Number, ApproveMerge(n) PROVE OrderInv'
  <2>1. \A m \in Number : pr'[m].task = pr[m].task
    <3>1. [pr[n] EXCEPT !.approval = "approved", !.status = "merged"].task = pr[n].task
          BY <1>0 DEF PrRow
    <3> QED
        BY <1>0, <1>6, <3>1 DEF ApproveMerge
  <2>2. task' = [task EXCEPT ![pr[n].task].status = "done"] \/ task' = task
        BY <1>6, Zenon DEF ApproveMerge
  <2>3. pr[n].task \in Work =>
          task[pr[n].task].attempts > 0 /\ task[pr[n].task].status # "absent"
        BY DEF OrderInv, ShippedTaskRan, RowsClosed, Exists
  <2>4. \A t \in Work : RowKept(t)
        BY <1>0, <2>2, <2>3 DEF RowKept, Started, Row
  <2>5. UNCHANGED <<sess, depends, worker>>
        BY <1>6 DEF ApproveMerge
  <2> QED
      BY <2>1, <2>4, <2>5, RowsKeptOrder
<1>7. ASSUME NEW status \in ProjectStatus, PatchProject(status) PROVE OrderInv'
      BY <1>7, <1>k, RowsKeptOrder DEF PatchProject
<1> QED
    BY <1>1, <1>2, <1>3, <1>4, <1>5, <1>6, <1>7

LEMMA OrderStep == OrderInv /\ [SerialNext]_vars => OrderInv'
<1> SUFFICES ASSUME OrderInv, [SerialNext]_vars PROVE OrderInv'
    OBVIOUS
<1>1. Typed'
      BY TypedStep DEF Next, OrderInv
<1>2. CASE UNCHANGED vars
      BY <1>1, <1>2 DEF vars, OrderInv, OneTick, PlansOnlyPlanning, RowsClosed, WritesRun,
                        PickedInOrder, ShippedTaskRan, DependencyOrder, Started, Exists
<1>3. CASE WorkerLoop
      BY <1>1, <1>3, LoopOrder, ApiOrder DEF WorkerLoop
<1>4. ASSUME NEW a \in Tick, TickStep(a) PROVE OrderInv'
      BY <1>1, <1>4, TickOrder, PickOrder, PlanBegins DEF TickStep, Session
<1>5. ASSUME NEW s \in Session, (\E new \in SUBSET Work : Planned(s, new)) \/ Commit(s)
      PROVE  OrderInv'
      BY <1>1, <1>5, PlannedOrder, CommitOrder
<1>6. CASE Failure
      BY <1>1, <1>6, EndOrder, TickOrder, ApiOrder, PlannedOrder DEF Failure, Session
<1>7. CASE Human
      BY <1>1, <1>7, ApiOrder, PlanBegins DEF Human, Session
<1> QED
    BY <1>1, <1>2, <1>3, <1>4, <1>5, <1>6, <1>7, ApiOrder DEF SerialNext

\* Whatever fails, crashes or is decided by humans while one worker runs: a task
\* shows work only if everything its depends_on names is DONE (next_task).
THEOREM DependencyOrderHolds == SerialSpec => []DependencyOrder
<1>1. OrderInv => DependencyOrder
      BY DEF OrderInv
<1> QED
    BY OrderInit, OrderStep, <1>1, PTL DEF SerialSpec
=============================================================================
