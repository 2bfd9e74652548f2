----------------------- MODULE TaskPipelineRunProofs ------------------------
(***************************************************************************)
(* Runs of a task in the serial specification: what a commit writes is      *)
(* never behind the row it replaces, a task that fails has used up its      *)
(* retries, a task that is in review or DONE has the pull request to show   *)
(* for it, and without approvals DONE is final.                             *)
(***************************************************************************)
EXTENDS TaskPipelineGateProofs

-----------------------------------------------------------------------------
(* The inductive invariant, on top of OrderInv and PullInv.                 *)

\* A session works on a task nobody else works on; a planning request on one
\* that is in no committed row.
OwnTask ==
  /\ \A s, u \in Session : sess[s].task # None /\ sess[s].task = sess[u].task => s = u
  /\ \A r \in Request : sess[r].task # None => ~Exists(sess[r].task)

\* The session w has a pull request of its task with this status.
Carries(w, status) == w.number # None /\ w.pr.task = w.task /\ w.pr.status = status

\* What a session will write is not behind the committed row, and true.
SoundSession(w) ==
  /\ w.task # None => w.row.status # "absent" /\ w.row.attempts >= task[w.task].attempts
  /\ w.task # None /\ ~MergeNeedsApproval => task[w.task].status # "done"
  /\ w.row.status = "failed" => w.row.attempts >= MaxAttempts
  /\ w.pc = "picked" => w.row.status = "ready"
  /\ w.pc \in {"working", "shipping", "shipped", "learning"} => w.row.status = "in_progress"
  /\ w.pc \in {"shipped", "learning"} => Carries(w, "open") \/ Carries(w, "merged")
  /\ w.task \in Work /\ w.row.status = "in_review" => Carries(w, "open")
  /\ w.task \in Work /\ w.row.status = "done" => Carries(w, "merged")

SoundSessions == \A s \in Session : SoundSession(sess[s])

\* A task that was never created was never run, and has no pull request.
AbsentNeverRan ==
  /\ \A t \in Task : ~Exists(t) => task[t].attempts = 0
  /\ \A n \in Number : pr[n].task \in Task => Exists(pr[n].task)

RunInv ==
  /\ OwnTask /\ SoundSessions /\ AbsentNeverRan
  /\ ReviewHasPullRequest /\ FailedOnlyExhausted

\* All that the proofs below know of a state.
RunState == OrderInv /\ PullInv /\ RunInv

LEMMA IdleSound == SoundSession(Idle)
  BY ConstantsAssumption DEF SoundSession, Idle, Absent, Task

LEMMA RunInit == Init => RunInv
<1> SUFFICES ASSUME Init PROVE RunInv
    OBVIOUS
<1>1. /\ \A s \in Session : sess[s] = Idle
      /\ \A t \in Task : task[t] = Absent
      /\ \A n \in Number : pr[n] = NoPr
      /\ None \notin Task
      /\ Work \subseteq Task /\ Request \subseteq Session
      BY ConstantsAssumption DEF Init, Task, Session
<1>2. OwnTask /\ SoundSessions
      BY <1>1, IdleSound DEF OwnTask, SoundSessions, Idle
<1>3. AbsentNeverRan /\ ReviewHasPullRequest /\ FailedOnlyExhausted
      BY <1>1 DEF AbsentNeverRan, ReviewHasPullRequest, FailedOnlyExhausted, Absent,
                     NoPr
<1> QED
    BY <1>2, <1>3 DEF RunInv

-----------------------------------------------------------------------------
(* Steps of a session that leave the committed rows alone.                  *)

\* Nobody else works on the task of the record r, which s is about to become.
Apart(s, r) ==
  \/ r.task \in {None, sess[s].task}
  \/ /\ \A u \in Session \ {s} : sess[u].task # r.task
     /\ s \in Request => ~Exists(r.task)

LEMMA RowsStay ==
  ASSUME RunInv, UNCHANGED <<task, depends, pr>>
  PROVE  AbsentNeverRan' /\ ReviewHasPullRequest' /\ FailedOnlyExhausted'
  BY DEF RunInv, AbsentNeverRan, ReviewHasPullRequest, FailedOnlyExhausted, Exists

LEMMA SessionMoves ==
  ASSUME RunState, UNCHANGED <<task, depends, pr>>, NEW s \in Session, NEW r,
         sess' = [sess EXCEPT ![s] = r], SoundSession(r), Apart(s, r)
  PROVE  RunInv'
<1>1. /\ sess'[s] = r /\ \A u \in Session \ {s} : sess'[u] = sess[u]
      /\ Request \subseteq Session
      BY DEF RunState, OrderInv, Typed, TypeOK, Session
<1>2. OwnTask'
      BY <1>1 DEF RunState, RunInv, OwnTask, Apart, Exists
<1>3. SoundSessions'
  <2>1. \A u \in Session : SoundSession(sess'[u])
        BY <1>1 DEF RunState, RunInv, SoundSessions
  <2> QED
      BY <2>1 DEF SoundSessions, SoundSession, Carries
<1> QED
    BY <1>2, <1>3, RowsStay DEF RunState, RunInv

\* A tick fails, is blocked, or ends: what it has written stays sound.
LEMMA BlockedSound ==
  ASSUME NEW w \in SessionRow, SoundSession(w)
  PROVE  SoundSession(Blocked(w)) /\ Blocked(w).task = w.task
  BY DEF SoundSession, Carries, Blocked, SessionRow

LEMMA TickSound ==
  ASSUME RunState, NEW a \in Tick,
         \/ OpenSession(a) \/ BudgetHalt(a) \/ PickNothing(a)
         \/ Claim(a) \/ WorkFails(a) \/ WorkPasses(a) \/ Learned(a)
         \/ Raise(a)
  PROVE  RunInv'
<1>0. /\ a \in Session /\ sess[a] \in SessionRow /\ sess[a].row \in Row
      /\ SoundSession(sess[a]) /\ None \notin Task /\ task \in [Task -> Row]
      /\ sess[a].pc \in {"opened", "picking"} => sess[a].task = None
      BY ConstantsAssumption
         DEF RunState, OrderInv, Typed, TypeOK, SessionRow, Session, RunInv, SoundSessions,
             ShippedTaskRan
<1>1. ASSUME NEW r, SoundSession(r), r.task \in {None, sess[a].task},
             sess' = [sess EXCEPT ![a] = r], UNCHANGED <<task, depends, pr>>
      PROVE  RunInv'
      BY <1>0, <1>1, SessionMoves DEF Apart
<1>2. CASE OpenSession(a)
  <2> DEFINE r == IF project.status = "active" THEN [sess[a] EXCEPT !.pc = "picking"] ELSE Idle
  <2>1. SoundSession(r) /\ r.task \in {None, sess[a].task}
    <3>1. SoundSession([sess[a] EXCEPT !.pc = "picking"])
          BY <1>0 DEF SoundSession, Carries, SessionRow
    <3> QED
        BY <3>1, <1>0, IdleSound DEF SessionRow, Idle
  <2>2. sess' = [sess EXCEPT ![a] = r] /\ UNCHANGED <<task, depends, pr>>
        BY <1>2 DEF OpenSession
  <2> HIDE DEF r
  <2> QED
      BY <1>1, <2>1, <2>2
<1>3. CASE BudgetHalt(a)
  <2> DEFINE r == [sess[a] EXCEPT !.pc = "settled", !.proj = "paused"]
  <2>1. SoundSession(r) /\ r.task \in {None, sess[a].task}
        BY <1>0 DEF SoundSession, Carries, SessionRow
  <2>2. sess' = [sess EXCEPT ![a] = r] /\ UNCHANGED <<task, depends, pr>>
        BY <1>3 DEF BudgetHalt
  <2> HIDE DEF r
  <2> QED
      BY <1>1, <2>1, <2>2
<1>4. CASE PickNothing(a)
  <2> DEFINE r == [sess[a] EXCEPT !.pc = "settled"]
  <2>1. SoundSession(r) /\ r.task \in {None, sess[a].task}
        BY <1>0 DEF SoundSession, Carries, SessionRow
  <2>2. sess' = [sess EXCEPT ![a] = r] /\ UNCHANGED <<task, depends, pr>>
        BY <1>4 DEF PickNothing
  <2> HIDE DEF r
  <2> QED
      BY <1>1, <2>1, <2>2
<1>5. CASE Claim(a)
  <2> DEFINE row == [status |-> "in_progress", lease |-> "live",
                     attempts |-> sess[a].row.attempts + 1]
             r == [sess[a] EXCEPT !.pc = "working", !.row = row]
  <2>1. r.task = sess[a].task /\ r.row = row /\ r.pc = "working"
        BY <1>0 DEF SessionRow
  <2>2. sess[a].task # None => row.attempts >= task[sess[a].task].attempts
    <3> SUFFICES ASSUME sess[a].task # None
                 PROVE  row.attempts >= task[sess[a].task].attempts
        OBVIOUS
    <3>1. sess[a].task \in Task
          BY <1>0 DEF SessionRow
    <3>2. /\ sess[a].row.attempts \in Nat /\ task[sess[a].task].attempts \in Nat
          /\ sess[a].row.attempts >= task[sess[a].task].attempts
          BY <1>0, <3>1 DEF SoundSession, Row
    <3> QED
        BY <3>2
  <2>3. sess' = [sess EXCEPT ![a] = r] /\ UNCHANGED <<task, depends, pr>>
        BY <1>5 DEF Claim
  <2>4. SoundSession(r)
    <3>1. row.status = "in_progress"
          OBVIOUS
    <3> HIDE DEF row, r
    <3> QED
        BY <1>0, <2>1, <2>2, <3>1 DEF SoundSession
  <2> HIDE DEF r
  <2> QED
      BY <1>1, <2>1, <2>3, <2>4
<1>6. CASE WorkFails(a)
  <2> DEFINE r == [sess[a] EXCEPT !.pc = "settled", !.row.status = Retry(sess[a].row.attempts)]
  <2>1. SoundSession(r) /\ r.task \in {None, sess[a].task}
        BY <1>0, ConstantsAssumption DEF SoundSession, Carries, SessionRow, Row, Retry
  <2>2. sess' = [sess EXCEPT ![a] = r] /\ UNCHANGED <<task, depends, pr>>
        BY <1>6 DEF WorkFails
  <2> HIDE DEF r
  <2> QED
      BY <1>1, <2>1, <2>2
<1>7. CASE WorkPasses(a)
  <2> DEFINE r == [sess[a] EXCEPT !.pc = "shipping"]
  <2>1. SoundSession(r) /\ r.task \in {None, sess[a].task}
        BY <1>0, <1>7 DEF SoundSession, Carries, SessionRow, WorkPasses
  <2>2. sess' = [sess EXCEPT ![a] = r] /\ UNCHANGED <<task, depends, pr>>
        BY <1>7 DEF WorkPasses
  <2> HIDE DEF r
  <2> QED
      BY <1>1, <2>1, <2>2
<1>8. CASE Learned(a)
  <2> DEFINE r == [sess[a] EXCEPT !.pc = "settled",
        !.row.status = IF sess[a].pr.status = "merged" THEN "done" ELSE "in_review"]
  <2>1. SoundSession(r) /\ r.task \in {None, sess[a].task}
        BY <1>0, <1>8 DEF SoundSession, Carries, SessionRow, Row, Learned
  <2>2. sess' = [sess EXCEPT ![a] = r] /\ UNCHANGED <<task, depends, pr>>
        BY <1>8 DEF Learned
  <2> HIDE DEF r
  <2> QED
      BY <1>1, <2>1, <2>2
<1>9. CASE Raise(a)
  <2> DEFINE r == Blocked(IF sess[a].pc \in Writing THEN sess[a] ELSE Idle)
  <2>0. Idle \in SessionRow /\ Idle.task = None
        BY IdleTyped DEF SessionTyped, Idle
  <2>1. SoundSession(r) /\ r.task \in {None, sess[a].task}
        BY <1>0, <2>0, IdleSound, BlockedSound
  <2>2. sess' = [sess EXCEPT ![a] = r] /\ UNCHANGED <<task, depends, pr>>
        BY <1>9 DEF Raise
  <2> HIDE DEF r
  <2> QED
      BY <1>1, <2>1, <2>2
<1> QED
    BY <1>2, <1>3, <1>4, <1>5, <1>6, <1>7, <1>8, <1>9

LEMMA ShipSound ==
  ASSUME RunState, NEW a \in Tick, ShipToGitHub(a) \/ ShipLocally(a) \/ MaybeMerge(a)
  PROVE  RunInv'
<1>0. /\ a \in Session /\ sess[a] \in SessionRow /\ SoundSession(sess[a])
      /\ None \notin Number /\ UNCHANGED <<task, depends, pr>>
      /\ sess[a].pc \in Busy => sess[a].task \in Task
      BY ConstantsAssumption
         DEF RunState, OrderInv, Typed, TypeOK, BusyHasTask, Session, RunInv, SoundSessions,
             ShipToGitHub, ShipLocally, MaybeMerge
<1>1. \E r : /\ sess' = [sess EXCEPT ![a] = r]
             /\ SoundSession(r) /\ r.task \in {None, sess[a].task}
  <2>1. SoundSession(Blocked(sess[a])) /\ Blocked(sess[a]).task = sess[a].task
        BY <1>0, BlockedSound
  <2>2. sess[a].pc = "shipping" =>
          \A n \in Number : /\ SoundSession(Shipped(sess[a], n))
                            /\ Shipped(sess[a], n).task = sess[a].task
        BY <1>0 DEF SoundSession, Carries, Shipped, OpenPr, SessionRow
  <2>3. CASE ShipToGitHub(a)
        BY <2>1, <2>2, <2>3 DEF ShipToGitHub
  <2>4. CASE ShipLocally(a)
    <3>1. LocalNumber[sess[a].task] \in Number
          BY <1>0, <2>4, ConstantsAssumption DEF ShipLocally, Busy
    <3> QED
        BY <2>2, <2>4, <3>1, IdleSound DEF ShipLocally, Discard, Idle
  <2>5. CASE MaybeMerge(a)
    <3> DEFINE asked == [sess[a] EXCEPT !.pc = "learning", !.pr.approval = "pending"]
               merged == [sess[a] EXCEPT !.pc = "learning", !.pr.status = "merged"]
    <3>1. sess[a].pc = "shipped"
          BY <2>5 DEF MaybeMerge
    <3>2. SoundSession(asked) /\ asked.task = sess[a].task
          BY <1>0, <3>1 DEF SoundSession, Carries, SessionRow, PrRow
    <3>3. SoundSession(merged) /\ merged.task = sess[a].task
          BY <1>0, <3>1 DEF SoundSession, Carries, SessionRow, PrRow
    <3>4. \/ sess' = [sess EXCEPT ![a] = asked]
          \/ sess' = [sess EXCEPT ![a] = merged]
          \/ sess' = [sess EXCEPT ![a] = Blocked(sess[a])]
          BY <2>5, Zenon DEF MaybeMerge
    <3> HIDE DEF asked, merged
    <3> QED
        BY <2>1, <3>2, <3>3, <3>4
  <2> QED
      BY <2>3, <2>4, <2>5
<1> QED
    BY <1>0, <1>1, SessionMoves DEF Apart

\* The picked row is READY, so no request is planning it, and no other tick is
\* open.
LEMMA PickSound ==
  ASSUME RunState, NEW a \in Tick, NEW t \in Task, PickTask(a, t)
  PROVE  RunInv'
<1> DEFINE r == [sess[a] EXCEPT !.pc = "picked", !.task = t, !.row = task[t]]
<1>0. /\ a \in Session /\ sess[a] \in SessionRow /\ task[t] \in Row /\ None \notin Task
      /\ sess[a].pc = "picking" /\ task[t].status = "ready" /\ UNCHANGED <<task, depends, pr>>
      /\ sess' = [sess EXCEPT ![a] = r]
      BY ConstantsAssumption
         DEF RunState, OrderInv, Typed, TypeOK, Session, PickTask, Eligible
<1>1. SoundSession(r)
      BY <1>0 DEF SoundSession, SessionRow, Row
<1>2. Apart(a, r)
  <2>1. r.task = t /\ a \notin Request /\ Exists(t)
        BY <1>0, ConstantsAssumption DEF SessionRow, Exists
  <2>2. \A b \in Tick \ {a} : sess[b].task # t
        BY <1>0 DEF RunState, OrderInv, OneTick, Session, Idle
  <2>3. \A u \in Request : sess[u].task # t
        BY <1>0, <2>1 DEF RunState, RunInv, OwnTask
  <2> HIDE DEF r
  <2> QED
      BY <2>1, <2>2, <2>3 DEF Apart, Session
<1> HIDE DEF r
<1> QED
    BY <1>0, <1>1, <1>2, SessionMoves

LEMMA PlanSound ==
  ASSUME RunState, NEW s \in Session, NEW p \in Planning,
         PlanFromTick(s, p) \/ PlanFromRequest(s, p)
  PROVE  RunInv'
<1>0. /\ sess[s] \in SessionRow /\ Fresh(p) /\ p \in Task /\ p \notin Work /\ p # None
      /\ task[p] \in Row /\ UNCHANGED <<task, depends, pr>>
      BY ConstantsAssumption
         DEF RunState, OrderInv, Typed, TypeOK, Task, PlanFromTick, PlanFromRequest
<1>1. task[p].attempts = 0 /\ task[p].status = "absent"
      BY <1>0 DEF Fresh, Exists, RunState, RunInv, AbsentNeverRan
<1>2. PICK r : /\ sess' = [sess EXCEPT ![s] = r] /\ r.pc = "planning" /\ r.task = p
               /\ r.row = NewTask("in_progress")
  <2>1. Plan(sess[s], p).pc = "planning" /\ Plan(sess[s], p).task = p
        /\ Plan(sess[s], p).row = NewTask("in_progress")
        BY <1>0 DEF Plan, SessionRow
  <2>2. CASE PlanFromTick(s, p)
        BY <2>1, <2>2 DEF PlanFromTick
  <2>3. CASE PlanFromRequest(s, p)
    <3> DEFINE r == [Plan(sess[s], p) EXCEPT
                       !.proj = IF project.status = "active" THEN "none" ELSE "active"]
    <3>1. r.pc = "planning" /\ r.task = p /\ r.row = NewTask("in_progress")
          BY <1>0 DEF Plan, SessionRow
    <3> QED
        BY <2>3, <3>1 DEF PlanFromRequest
  <2> QED
      BY <2>2, <2>3
<1>3. SoundSession(r)
      BY <1>0, <1>1, <1>2 DEF SoundSession, NewTask
<1>4. Apart(s, r)
      BY <1>0, <1>2 DEF Apart, Fresh
<1> QED
    BY <1>0, <1>2, <1>3, <1>4, SessionMoves

LEMMA PlannedSound ==
  ASSUME RunState, NEW s \in Session, NEW new \in SUBSET Work,
         \/ Planned(s, new)
         \/ \E linked \in SUBSET new : PlanRaises(s, new, linked)
  PROVE  RunInv'
<1>0. /\ sess[s] \in SessionRow /\ SoundSession(sess[s]) /\ sess[s].task \notin Work
      /\ UNCHANGED <<task, depends, pr>>
      BY ConstantsAssumption
         DEF RunState, OrderInv, Typed, TypeOK, RunInv, SoundSessions, PlansOnlyPlanning,
             Planned, PlanRaises
<1>1. CASE Planned(s, new)
  <2> DEFINE r == [sess[s] EXCEPT !.pc = "settled", !.row.status = "done",
                                  !.new = new, !.linked = new]
  <2>1. SoundSession(r) /\ r.task = sess[s].task
        BY <1>0 DEF SoundSession, SessionRow, Row
  <2>2. sess' = [sess EXCEPT ![s] = r]
        BY <1>1 DEF Planned
  <2> HIDE DEF r
  <2> QED
      BY <1>0, <2>1, <2>2, SessionMoves DEF Apart
<1>2. ASSUME NEW linked \in SUBSET new, PlanRaises(s, new, linked) PROVE RunInv'
  <2> DEFINE b == Blocked(sess[s])
             r == [b EXCEPT !.new = new, !.linked = linked]
  <2>1. SoundSession(b) /\ b.task = sess[s].task /\ b \in SessionRow
        BY <1>0, BlockedSound, BlockedTyped DEF SessionTyped
  <2>2. sess' = [sess EXCEPT ![s] = r]
        BY <1>2 DEF PlanRaises
  <2> HIDE DEF b
  <2>3. SoundSession(r) /\ r.task = b.task
        BY <2>1 DEF SoundSession, Carries, SessionRow
  <2> HIDE DEF r
  <2> QED
      BY <1>0, <2>1, <2>2, <2>3, SessionMoves DEF Apart
<1> QED
    BY <1>1, <1>2

\* Sessions that end without a trace, and the loop that opens the next one.
LEMMA EndSound ==
  ASSUME RunState, CrashRestart \/ ListProject \/ \E s \in Session : RollBack(s)
  PROVE  RunInv'
<1>1. ASSUME NEW s \in Session, RollBack(s) PROVE RunInv'
      BY <1>1, IdleSound, SessionMoves DEF RollBack, Discard, Apart, Idle
<1>2. CASE CrashRestart
  <2>1. /\ \A s \in Session : sess'[s] = Idle \/ sess'[s] = sess[s]
        /\ UNCHANGED <<task, depends, pr>> /\ Request \subseteq Session
        BY <1>2 DEF CrashRestart, Session
  <2>2. OwnTask'
        BY <2>1 DEF RunState, RunInv, OwnTask, Idle, Exists
  <2>3. SoundSessions'
    <3>1. \A s \in Session : SoundSession(sess'[s])
          BY <2>1, IdleSound DEF RunState, RunInv, SoundSessions
    <3> QED
        BY <2>1, <3>1 DEF SoundSessions, SoundSession, Carries
  <2> QED
      BY <2>1, <2>2, <2>3, RowsStay DEF RunState, RunInv
<1>3. CASE ListProject
  <2>1. CASE sess' = sess
    <3>1. UNCHANGED <<task, depends, pr>>
          BY <1>3 DEF ListProject
    <3>2. OwnTask' /\ SoundSessions'
          BY <2>1, <3>1 DEF RunState, RunInv, OwnTask, SoundSessions, SoundSession, Carries, Exists
    <3> QED
        BY <3>1, <3>2, RowsStay DEF RunState, RunInv
  <2>2. ASSUME NEW a \in Tick, sess[a].pc = "idle", sess' = [sess EXCEPT ![a].pc = "opened"]
        PROVE  RunInv'
    <3> DEFINE r == [Idle EXCEPT !.pc = "opened"]
    <3>1. sess[a] = Idle /\ a \in Session
          BY <2>2 DEF RunState, OrderInv, OneTick, Session
    <3>2. SoundSession(r) /\ r.task = None
          BY ConstantsAssumption DEF SoundSession, Idle, Absent, Task
    <3>3. sess' = [sess EXCEPT ![a] = r] /\ UNCHANGED <<task, depends, pr>>
          BY <1>3, <2>2, <3>1 DEF ListProject
    <3> HIDE DEF r
    <3> QED
        BY <3>1, <3>2, <3>3, SessionMoves DEF Apart
  <2> QED
      BY <1>3, <2>1, <2>2 DEF ListProject
<1> QED
    BY <1>1, <1>2, <1>3

-----------------------------------------------------------------------------
(* Committed rows, written by the loop, by time and by humans.              *)

\* Rows stay in step with their pull requests: whoever writes them outside a
\* session makes no task fail or wait for review, and makes one DONE only
\* together with its pull request.
InStep(t) ==
  /\ task'[t].attempts = task[t].attempts
  /\ Exists(t)' => Exists(t) \/ Fresh(t)
  /\ Exists(t) => Exists(t)'
  /\ task'[t].status \in {"failed", "in_review"} => task'[t].status = task[t].status
  /\ task'[t].status = "done" =>
       \/ task[t].status = "done"
       \/ MergeNeedsApproval /\ \E n \in Number : pr'[n].task = t /\ pr'[n].status = "merged"

PullKept(n) ==
  /\ pr'[n].task = pr[n].task
  /\ pr[n].status = "merged" => pr'[n].status = "merged"
  /\ pr[n].status = "open" =>
       \/ pr'[n].status = "open"
       \/ pr'[n].status = "merged" /\ (pr[n].task \in Task => task'[pr[n].task].status = "done")

LEMMA RowsInStep ==
  ASSUME RunState, UNCHANGED sess,
         \A t \in Task : InStep(t), \A n \in Number : PullKept(n)
  PROVE  RunInv'
<1>0. /\ Work \subseteq Task /\ Request \subseteq Session /\ None \notin Task
      /\ task \in [Task -> Row] /\ sess \in [Session -> SessionRow]
      BY ConstantsAssumption DEF Task, Session, RunState, OrderInv, Typed, TypeOK
<1>1. OwnTask'
  <2>1. ASSUME NEW r \in Request, sess[r].task # None PROVE ~Exists(sess[r].task)'
    <3>1. sess[r].task \in Task /\ ~Exists(sess[r].task) /\ ~Fresh(sess[r].task)
          BY <1>0, <2>1 DEF RunState, RunInv, OwnTask, Fresh, SessionRow
    <3> QED
        BY <3>1 DEF InStep
  <2> QED
      BY <2>1 DEF RunState, RunInv, OwnTask
<1>2. SoundSessions'
  <2> SUFFICES ASSUME NEW s \in Session PROVE SoundSession(sess[s])'
      BY DEF SoundSessions
  <2> DEFINE w == sess[s]
  <2>1. SoundSession(w) /\ w.task \in Task \cup {None}
        BY <1>0 DEF RunState, RunInv, SoundSessions, SessionRow
  <2>2. w.task # None =>
          /\ task'[w.task].attempts = task[w.task].attempts
          /\ ~MergeNeedsApproval /\ task'[w.task].status = "done" => task[w.task].status = "done"
        BY <2>1 DEF InStep
  <2> QED
      BY <2>1, <2>2 DEF SoundSession, Carries
<1>3. AbsentNeverRan' /\ FailedOnlyExhausted'
      BY <1>0 DEF InStep, PullKept, RunState, RunInv, AbsentNeverRan, FailedOnlyExhausted, Exists
<1>4. ReviewHasPullRequest'
  <2>1. ASSUME NEW t \in Work, task'[t].status = "in_review"
        PROVE  \E n \in Number : pr'[n].task = t /\ pr'[n].status = "open"
    <3>1. PICK n \in Number : pr[n].task = t /\ pr[n].status = "open"
          BY <1>0, <2>1 DEF InStep, RunState, RunInv, ReviewHasPullRequest
    <3> QED
        BY <1>0, <2>1, <3>1 DEF PullKept
  <2>2. ASSUME NEW t \in Work, task'[t].status = "done"
        PROVE  \E n \in Number : pr'[n].task = t /\ pr'[n].status = "merged"
        BY <1>0, <2>2 DEF InStep, PullKept, RunState, RunInv, ReviewHasPullRequest
  <2> QED
      BY <2>1, <2>2 DEF ReviewHasPullRequest
<1> QED
    BY <1>1, <1>2, <1>3, <1>4 DEF RunInv

LEMMA RowsSound ==
  ASSUME RunState,
         \/ ReclaimExpired \/ GatherDone
         \/ \E t \in Task : LeaseExpires(t)
         \/ RepoAnalyzed \/ AnalysisLost \/ StartProject \/ PauseProject
         \/ \E t \in Work : CreateTask(t)
         \/ \E n \in Number : ApproveMerge(n) \/ RejectMerge(n)
         \/ \E status \in ProjectStatus : PatchProject(status)
         \/ UNCHANGED vars
  PROVE  RunInv'
<1>0. /\ Work \subseteq Task /\ task \in [Task -> Row] /\ pr \in [Number -> PrRow]
      BY DEF Task, RunState, OrderInv, Typed, TypeOK
<1>t. task' = task => \A t \in Task : InStep(t)
      BY DEF InStep, Exists
<1>p. pr' = pr => \A n \in Number : PullKept(n)
      BY DEF PullKept
<1>1. CASE ReclaimExpired
  <2>1. \A t \in Task : InStep(t)
        BY <1>0, <1>1 DEF ReclaimExpired, InStep, Exists, Row
  <2> QED
      BY <1>p, <1>1, <2>1, RowsInStep DEF ReclaimExpired
<1>2. ASSUME NEW t \in Task, LeaseExpires(t) PROVE RunInv'
  <2>1. \A u \in Task : InStep(u)
        BY <1>0, <1>2 DEF LeaseExpires, InStep, Exists, Row
  <2> QED
      BY <1>p, <1>2, <2>1, RowsInStep DEF LeaseExpires
<1>3. CASE \/ GatherDone \/ RepoAnalyzed \/ AnalysisLost \/ StartProject \/ PauseProject
           \/ UNCHANGED vars
      BY <1>t, <1>p, <1>3, RowsInStep
         DEF GatherDone, RepoAnalyzed, AnalysisLost, StartProject, PauseProject, vars
<1>4. ASSUME NEW t \in Work, CreateTask(t) PROVE RunInv'
  <2>1. ~Exists(t) /\ task[t].attempts = 0 /\ Fresh(t) /\ t \in Task
        BY <1>0, <1>4 DEF CreateTask, Fresh, RunState, RunInv, AbsentNeverRan
  <2>2. \A u \in Task : InStep(u)
        BY <1>0, <1>4, <2>1 DEF CreateTask, InStep, Exists, NewTask
  <2> QED
      BY <1>p, <1>4, <2>2, RowsInStep DEF CreateTask
<1>5. ASSUME NEW n \in Number, RejectMerge(n) PROVE RunInv'
  <2>1. \A m \in Number : PullKept(m)
        BY <1>0, <1>5 DEF RejectMerge, PullKept, PrRow
  <2> QED
      BY <1>t, <1>5, <2>1, RowsInStep DEF RejectMerge
<1>6. ASSUME NEW n \in Number, ApproveMerge(n) PROVE RunInv'
  <2>0. UNCHANGED sess /\ pr[n].approval = "pending" /\ MergeNeedsApproval
        BY <1>6 DEF ApproveMerge, RunState, PullInv, AskedWhereNeeded
  <2>1. CASE UNCHANGED <<pr, task>>
        BY <1>t, <1>p, <2>0, <2>1, RowsInStep
  <2>2. CASE /\ ~Locked(pr[n].task)
             /\ pr' = [pr EXCEPT ![n] = [pr[n] EXCEPT !.approval = "approved", !.status = "merged"]]
             /\ task' = [task EXCEPT ![pr[n].task].status = "done"]
    <3>1. /\ pr'[n].task = pr[n].task /\ pr'[n].status = "merged"
          /\ \A m \in Number \ {n} : pr'[m] = pr[m]
          BY <1>0, <2>2 DEF PrRow
    <3>2. ASSUME NEW t \in Task PROVE InStep(t)
      <4>1. CASE t = pr[n].task
        <5>1. task'[t].attempts = task[t].attempts /\ task'[t].status = "done"
              BY <1>0, <2>2, <4>1 DEF Row
        <5>2. Exists(t)
              BY <4>1 DEF RunState, RunInv, AbsentNeverRan
        <5> QED
            BY <2>0, <3>1, <4>1, <5>1, <5>2 DEF InStep, Exists
      <4>2. CASE t # pr[n].task
            BY <1>0, <2>2, <4>2 DEF InStep, Exists
      <4> QED
          BY <4>1, <4>2
    <3>3. \A m \in Number : PullKept(m)
          BY <1>0, <2>2, <3>1 DEF PullKept, Row
    <3> QED
        BY <2>0, <3>2, <3>3, RowsInStep
  <2> QED
      BY <1>6, <2>1, <2>2, Zenon DEF ApproveMerge
<1>7. ASSUME NEW status \in ProjectStatus, PatchProject(status) PROVE RunInv'
      BY <1>t, <1>p, <1>7, RowsInStep DEF PatchProject
<1> QED
    BY <1>1, <1>2, <1>3, <1>4, <1>5, <1>6, <1>7

-----------------------------------------------------------------------------
(* The commit of a session.                                                 *)

LEMMA Committed ==
  ASSUME RunState, NEW s \in Session, Commit(s)
  PROVE  /\ sess[s] \in SessionRow /\ SoundSession(sess[s]) /\ None \notin Task
         /\ \A t \in Task :
              \/ t = sess[s].task /\ task'[t] = sess[s].row
              \/ t # sess[s].task /\ task'[t] = task[t]
              \/ /\ t # sess[s].task /\ t \in sess[s].new /\ task'[t] = NewTask("ready")
                 /\ ~Exists(t) /\ task[t].attempts = 0
         /\ \A n \in Number :
              \/ n = sess[s].number /\ pr'[n] = sess[s].pr /\ pr[n] = NoPr
              \/ n # sess[s].number /\ pr'[n] = pr[n]
         /\ sess'[s] = Idle /\ \A u \in Session \ {s} : sess'[u] = sess[u]
<1> DEFINE w == sess[s]
<1>1. /\ w \in SessionRow /\ SoundSession(w) /\ None \notin Task /\ None \notin Number
      /\ \A t \in Task : task'[t] = IF t = w.task THEN w.row
                                     ELSE IF t \in w.new THEN NewTask("ready") ELSE task[t]
      /\ \A n \in Number : pr'[n] = IF n = w.number THEN w.pr ELSE pr[n]
      /\ sess' = [sess EXCEPT ![s] = Idle] /\ sess \in [Session -> SessionRow]
      BY ConstantsAssumption
         DEF Commit, RunState, OrderInv, Typed, TypeOK, RunInv, SoundSessions
<1>2. \A t \in w.new : ~Exists(t)
      BY DEF RunState, OrderInv, RowsClosed
<1>3. \A t \in Task : ~Exists(t) => task[t].attempts = 0
      BY DEF RunState, RunInv, AbsentNeverRan
<1>4. \A n \in Number : n = w.number => pr[n] = NoPr
      BY <1>1 DEF RunState, PullInv, OwnNumber
<1>5. \A t \in Task :
        \/ t = w.task /\ task'[t] = w.row
        \/ t # w.task /\ task'[t] = task[t]
        \/ t # w.task /\ t \in w.new /\ task'[t] = NewTask("ready") /\ ~Exists(t) /\ task[t].attempts = 0
      BY <1>1, <1>2, <1>3
<1>6. \A n \in Number : \/ n = w.number /\ pr'[n] = w.pr /\ pr[n] = NoPr
                        \/ n # w.number /\ pr'[n] = pr[n]
      BY <1>1, <1>4
<1>7. sess'[s] = Idle /\ \A u \in Session \ {s} : sess'[u] = sess[u]
      BY <1>1
<1> QED
    BY <1>1, <1>5, <1>6, <1>7

LEMMA CommitSound ==
  ASSUME RunState, NEW s \in Session, Commit(s)
  PROVE  RunInv'
<1> DEFINE w == sess[s]
<1>0. /\ w \in SessionRow /\ SoundSession(w) /\ None \notin Task
      /\ \A t \in Task :
           \/ t = w.task /\ task'[t] = w.row
           \/ t # w.task /\ task'[t] = task[t]
           \/ /\ t # w.task /\ t \in w.new /\ task'[t] = NewTask("ready")
              /\ ~Exists(t) /\ task[t].attempts = 0
      /\ \A n \in Number :
           \/ n = w.number /\ pr'[n] = w.pr /\ pr[n] = NoPr
           \/ n # w.number /\ pr'[n] = pr[n]
      /\ sess'[s] = Idle /\ \A u \in Session \ {s} : sess'[u] = sess[u]
      BY Committed
<1>1. /\ Work \subseteq Task /\ Request \subseteq Session /\ sess \in [Session -> SessionRow]
      /\ w.task \in Task \cup {None} /\ w.number \in Number \cup {None}
      /\ w.pr.task \in {None, w.task}
      BY <1>0 DEF Task, Session, RunState, OrderInv, Typed, TypeOK, SessionRow, ShippedTaskRan
<1>2. \A u \in Session \ {s} : sess[u].task # None => sess[u].task # w.task
      BY DEF RunState, RunInv, OwnTask
<1> HIDE DEF w
<1>i. Idle.task = None /\ Idle.pc = "idle" /\ NewTask("ready").status = "ready"
      /\ NewTask("ready").attempts = 0
      BY DEF Idle, NewTask
<1>3. OwnTask'
  <2>1. ASSUME NEW r \in Request, sess'[r].task # None
        PROVE  task'[sess'[r].task].status = "absent"
    <3>1. r # s /\ sess'[r] = sess[r]
          BY <1>0, <1>1, <1>i, <2>1
    <3>2. sess[r].task \in Task /\ ~Exists(sess[r].task) /\ sess[r].task # w.task
          BY <1>1, <1>2, <2>1, <3>1 DEF RunState, RunInv, OwnTask, SessionRow
    <3>3. sess[r].task \notin w.new
      <4>1. w.new \subseteq Work
            BY <1>0 DEF SessionRow
      <4>2. sess[r].task \in Planning
            BY <3>2, <1>0 DEF RunState, OrderInv, PlansOnlyPlanning
      <4> QED
          BY <4>1, <4>2, ConstantsAssumption
    <3> QED
        BY <1>0, <3>1, <3>2, <3>3 DEF Exists
  <2>2. ASSUME NEW u \in Session, NEW v \in Session,
               sess'[u].task # None, sess'[u].task = sess'[v].task
        PROVE  u = v
        BY <1>0, <1>i, <2>2 DEF RunState, RunInv, OwnTask
  <2> QED
      BY <2>1, <2>2 DEF OwnTask, Exists
<1>4. SoundSessions'
  <2> SUFFICES ASSUME NEW u \in Session PROVE SoundSession(sess[u])'
      BY DEF SoundSessions
  <2>1. CASE u = s
    <3>1. SoundSession(Idle)'
          BY ConstantsAssumption DEF SoundSession, Idle, Absent, Task
    <3> QED
        BY <1>0, <2>1, <3>1
  <2>2. CASE u # s
    <3>1. SoundSession(sess[u]) /\ sess'[u] = sess[u] /\ sess[u].task \in Task \cup {None}
          BY <1>0, <1>1, <2>2 DEF RunState, RunInv, SoundSessions, SessionRow
    <3>2. ASSUME sess[u].task # None
          PROVE  /\ sess[u].row.attempts >= task'[sess[u].task].attempts
                 /\ task'[sess[u].task].status = "done" => task[sess[u].task].status = "done"
      <4> DEFINE t == sess[u].task
      <4>1. \/ task'[t] = task[t]
            \/ task'[t] = NewTask("ready") /\ task[t].attempts = 0
            BY <1>0, <1>2, <2>2, <3>1, <3>2
      <4>2. sess[u].row.attempts >= task[t].attempts
            BY <3>1, <3>2 DEF SoundSession
      <4> QED
          BY <4>1, <4>2, <1>i
    <3> QED
        BY <3>1, <3>2 DEF SoundSession, Carries
  <2> QED
      BY <2>1, <2>2
<1>5. AbsentNeverRan'
  <2>1. ASSUME NEW t \in Task, ~Exists(t)' PROVE task'[t].attempts = 0
        BY <1>0, <1>i, <2>1 DEF Exists, SoundSession, RunState, RunInv, AbsentNeverRan
  <2>2. \A t \in Task : Exists(t) \/ t = w.task => Exists(t)'
        BY <1>0, <1>i DEF Exists, SoundSession
  <2>3. ASSUME NEW n \in Number, pr'[n].task \in Task
        PROVE  task'[pr'[n].task].status # "absent"
    <3>1. CASE n = w.number
          BY <1>0, <1>1, <2>2, <2>3, <3>1 DEF Exists
    <3>2. CASE n # w.number
          BY <1>0, <2>2, <2>3, <3>2 DEF Exists, RunState, RunInv, AbsentNeverRan
    <3> QED
        BY <3>1, <3>2
  <2> QED
      BY <2>1, <2>3 DEF AbsentNeverRan, Exists
<1>6. FailedOnlyExhausted'
      BY <1>0, <1>i DEF RunState, RunInv, FailedOnlyExhausted, SoundSession
<1>7. ReviewHasPullRequest'
  <2>1. ASSUME NEW t \in Work, NEW status \in {"open", "merged"},
               t = w.task => Carries(w, status),
               t # w.task => \E n \in Number : pr[n].task = t /\ pr[n].status = status
        PROVE  \E n \in Number : pr'[n].task = t /\ pr'[n].status = status
    <3>1. CASE t = w.task
      <4>1. w.number \in Number /\ pr'[w.number] = w.pr
            BY <1>0, <1>1, <2>1, <3>1 DEF Carries
      <4> QED
          BY <2>1, <3>1, <4>1 DEF Carries
    <3>2. CASE t # w.task
      <4>1. PICK n \in Number : pr[n].task = t /\ pr[n].status = status
            BY <2>1, <3>2
      <4>2. pr[n] # NoPr
            BY <4>1 DEF NoPr
      <4> QED
          BY <1>0, <4>1, <4>2
    <3> QED
        BY <3>1, <3>2
  <2>2. ASSUME NEW t \in Work, task'[t].status = "in_review"
        PROVE  \E n \in Number : pr'[n].task = t /\ pr'[n].status = "open"
    <3>1. t = w.task => Carries(w, "open")
          BY <1>0, <1>1, <2>2 DEF SoundSession
    <3>2. t # w.task => \E n \in Number : pr[n].task = t /\ pr[n].status = "open"
          BY <1>0, <1>1, <1>i, <2>2 DEF RunState, RunInv, ReviewHasPullRequest
    <3> QED
        BY <2>1, <3>1, <3>2
  <2>3. ASSUME NEW t \in Work, task'[t].status = "done"
        PROVE  \E n \in Number : pr'[n].task = t /\ pr'[n].status = "merged"
    <3>1. t = w.task => Carries(w, "merged")
          BY <1>0, <1>1, <2>3 DEF SoundSession
    <3>2. t # w.task => \E n \in Number : pr[n].task = t /\ pr[n].status = "merged"
          BY <1>0, <1>1, <1>i, <2>3 DEF RunState, RunInv, ReviewHasPullRequest
    <3> QED
        BY <2>1, <3>1, <3>2
  <2> QED
      BY <2>2, <2>3 DEF ReviewHasPullRequest
<1> QED
    BY <1>3, <1>4, <1>5, <1>6, <1>7 DEF RunInv

-----------------------------------------------------------------------------
(* Every step.                                                              *)

LEMMA RunStep == RunState /\ [SerialNext]_vars => RunState'
<1> SUFFICES ASSUME RunState, [SerialNext]_vars PROVE RunState'
    OBVIOUS
<1>1. OrderInv'
      BY OrderStep DEF RunState
<1>2. PullInv'
      BY PullStep DEF RunState, Next
<1>3. RunInv'
  <2>1. CASE WorkerLoop \/ UNCHANGED vars
        BY <2>1, RowsSound, EndSound DEF WorkerLoop
  <2>2. ASSUME NEW a \in Tick, TickStep(a) PROVE RunInv'
        BY <2>2, TickSound, ShipSound, PickSound, PlanSound DEF TickStep, Session
  <2>3. ASSUME NEW s \in Session, (\E new \in SUBSET Work : Planned(s, new)) \/ Commit(s)
        PROVE  RunInv'
        BY <2>3, PlannedSound, CommitSound
  <2>4. CASE Failure
        BY <2>4, EndSound, RowsSound, TickSound, PlannedSound DEF Failure, Session
  <2>5. CASE Human
        BY <2>5, RowsSound, PlanSound DEF Human, Session
  <2> QED
      BY <2>1, <2>2, <2>3, <2>4, <2>5, RowsSound DEF SerialNext
<1> QED
    BY <1>1, <1>2, <1>3 DEF RunState

LEMMA RunCorrect == SerialSpec => []RunState
<1>1. Init => RunState
      BY OrderInit, PullInit, RunInit DEF RunState
<1> QED
    BY <1>1, RunStep, PTL DEF SerialSpec

\* The rows a step of SerialNext may change.
LEMMA StepRows ==
  ASSUME RunState, [SerialNext]_vars
  PROVE  /\ \A t \in Task : task'[t].attempts >= task[t].attempts
         /\ ~MergeNeedsApproval =>
              \A t \in Task : task[t].status = "done" => task'[t].status = "done"
<1>0. task \in [Task -> Row] /\ \A t \in Task : task[t].attempts \in Nat
      BY DEF RunState, OrderInv, Typed, TypeOK, Row
<1>t. ASSUME task' = task
      PROVE  /\ \A t \in Task : task'[t].attempts >= task[t].attempts
             /\ \A t \in Task : task[t].status = "done" => task'[t].status = "done"
      BY <1>0, <1>t
<1>1. CASE ReclaimExpired
  <2>1. ASSUME NEW t \in Task
        PROVE  /\ task'[t].attempts = task[t].attempts
               /\ task[t].status = "done" => task'[t].status = "done"
        BY <1>0, <1>1 DEF ReclaimExpired, Row
  <2> QED
      BY <1>0, <2>1
<1>2. ASSUME NEW t \in Task, LeaseExpires(t)
      PROVE  /\ \A u \in Task : task'[u].attempts >= task[u].attempts
             /\ \A u \in Task : task[u].status = "done" => task'[u].status = "done"
      BY <1>0, <1>2 DEF LeaseExpires, Row
<1>3. ASSUME NEW t \in Work, CreateTask(t)
      PROVE  /\ \A u \in Task : task'[u].attempts >= task[u].attempts
             /\ \A u \in Task : task[u].status = "done" => task'[u].status = "done"
      BY <1>0, <1>3 DEF CreateTask, Fresh, Exists, NewTask, Task, RunState, RunInv, AbsentNeverRan
<1>4. ASSUME NEW n \in Number, ApproveMerge(n)
      PROVE  /\ \A u \in Task : task'[u].attempts >= task[u].attempts
             /\ \A u \in Task : task[u].status = "done" => task'[u].status = "done"
  <2>1. task' = [task EXCEPT ![pr[n].task].status = "done"] \/ task' = task
        BY <1>4, Zenon DEF ApproveMerge
  <2> QED
      BY <1>0, <2>1 DEF Row
<1>5. ASSUME NEW s \in Session, Commit(s)
      PROVE  /\ \A u \in Task : task'[u].attempts >= task[u].attempts
             /\ ~MergeNeedsApproval =>
                  \A u \in Task : task[u].status = "done" => task'[u].status = "done"
  <2>1. ASSUME NEW u \in Task
        PROVE  /\ task'[u].attempts >= task[u].attempts
               /\ ~MergeNeedsApproval /\ task[u].status = "done" => task'[u].status = "done"
        BY <1>0, <1>5, Committed DEF SoundSession, NewTask, Exists
  <2> QED
      BY <2>1
<1>6. ASSUME NEW a \in Tick, TickStep(a) \/ Raise(a) PROVE task' = task
      BY <1>6 DEF TickStep, OpenSession, BudgetHalt, PickNothing, PickTask, PlanFromTick, Claim,
                  WorkFails, WorkPasses, Learned, ShipToGitHub, ShipLocally, MaybeMerge, Raise
<1>7. ASSUME NEW s \in Session,
             \/ RollBack(s)
             \/ \E new \in SUBSET Work : Planned(s, new)
             \/ \E new \in SUBSET Work : \E linked \in SUBSET new : PlanRaises(s, new, linked)
             \/ \E p \in Planning : PlanFromRequest(s, p)
      PROVE  task' = task
      BY <1>7 DEF RollBack, Planned, PlanRaises, PlanFromRequest
<1>8. CASE \/ ListProject \/ GatherDone \/ CrashRestart \/ AnalysisLost
           \/ RepoAnalyzed \/ StartProject \/ PauseProject
           \/ \E n \in Number : RejectMerge(n)
           \/ \E status \in ProjectStatus : PatchProject(status)
           \/ UNCHANGED vars
  <2>1. task' = task
        BY <1>8 DEF ListProject, GatherDone, CrashRestart, AnalysisLost, RepoAnalyzed,
                    StartProject, PauseProject, RejectMerge, PatchProject, vars
  <2> QED
      BY <1>t, <2>1
<1> QED
    BY <1>t, <1>1, <1>2, <1>3, <1>4, <1>5, <1>6, <1>7, <1>8
    DEF SerialNext, WorkerLoop, Failure, Human, Session

(* A task is in review only with an open pull request of its own, and DONE   *)
(* only with a merged one, through every exception, rollback and re-run of   *)
(* _ship, _maybe_merge, merge_approved and _learn.                          *)
THEOREM ReviewHasPullRequestHolds == SerialSpec => []ReviewHasPullRequest
<1>1. RunState => ReviewHasPullRequest
      BY DEF RunState, RunInv
<1> QED
    BY RunCorrect, <1>1, PTL

(* A task is FAILED only after MaxAttempts runs that were committed          *)
(* (_fail_task): rollbacks, crashes and reclaimed leases cost no retry.     *)
THEOREM FailedOnlyExhaustedHolds == SerialSpec => []FailedOnlyExhausted
<1>1. RunState => FailedOnlyExhausted
      BY DEF RunState, RunInv
<1> QED
    BY RunCorrect, <1>1, PTL

(* No committed run of a task is ever forgotten: a tick that picked the row   *)
(* before somebody else wrote it commits no smaller retry counter.          *)
THEOREM AttemptsNeverDecreaseHolds == SerialSpec => AttemptsNeverDecrease
<1>1. RunState /\ [SerialNext]_vars => [\A t \in Task : task'[t].attempts >= task[t].attempts]_vars
      BY StepRows
<1> QED
    BY RunCorrect, <1>1, PTL DEF SerialSpec, AttemptsNeverDecrease

(* Where no merge asks for an approval, no tick, reclaim or request takes a   *)
(* DONE task out of DONE, so nothing is built twice.                        *)
THEOREM DoneIsFinalHolds ==
  ASSUME MergeNeedsApproval = FALSE
  PROVE  SerialSpec => DoneIsFinal
<1>1. RunState /\ [SerialNext]_vars =>
        [\A t \in Task : task[t].status = "done" => task'[t].status = "done"]_vars
      BY StepRows
<1> QED
    BY RunCorrect, <1>1, PTL DEF SerialSpec, DoneIsFinal
=============================================================================
