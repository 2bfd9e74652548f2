----------------------- MODULE TaskPipelineGateProofs -----------------------
(***************************************************************************)
(* Pull requests and the human gate, in the full specification: overlapping *)
(* cycles, lost answers, crashes and PATCHed tasks included.                *)
(***************************************************************************)
EXTENDS TaskPipelineProofs

-----------------------------------------------------------------------------
(* The inductive invariant.                                                 *)

\* A number in an open session is that session's only, and has no row yet.
OwnNumber ==
  /\ \A s \in Session : sess[s].number # None => pr[sess[s].number] = NoPr
  /\ \A s, u \in Session : sess[s].number # None /\ sess[s].number = sess[u].number => s = u

\* An approval is asked for exactly where one is needed.
AskedWhereNeeded ==
  /\ \A s \in Session :
       /\ sess[s].pr.approval \in {"none", "pending"}
       /\ sess[s].pr.approval = "pending" => MergeNeedsApproval
       /\ sess[s].pr.status = "merged" => ~MergeNeedsApproval
  /\ \A n \in Number : pr[n].approval = "pending" => MergeNeedsApproval

\* A row p, committed or not, describes the pull request n of GitHub.
Describes(p, n) ==
  /\ gh[n].state # "none" /\ gh[n].head = p.task
  /\ p.status = "merged" => gh[n].state = "merged"

KnownToGitHub ==
  GitHub => /\ \A s \in Session : sess[s].number # None => Describes(sess[s].pr, sess[s].number)
            /\ \A n \in Number : pr[n] # NoPr => Describes(pr[n], n)

PullInv ==
  Typed /\ OwnNumber /\ AskedWhereNeeded /\ KnownToGitHub /\ MergedOnlyWithApproval

LEMMA PullInit == Init => PullInv
<1> SUFFICES ASSUME Init PROVE PullInv
    OBVIOUS
<1>1. /\ \A s \in Session : sess[s] = Idle
      /\ \A n \in Number : pr[n] = NoPr /\ gh[n] = NoRemote
      BY DEF Init
<1>2. OwnNumber /\ AskedWhereNeeded
      BY <1>1 DEF OwnNumber, AskedWhereNeeded, Idle, NoPr
<1>3. KnownToGitHub /\ MergedOnlyWithApproval
      BY <1>1 DEF KnownToGitHub, MergedOnlyWithApproval, Idle, NoRemote
<1> QED
    BY <1>2, <1>3, TypedInit DEF PullInv

-----------------------------------------------------------------------------
(* Steps that touch no pull request.                                        *)

\* Nothing about pull requests changes at all.
LEMMA PullsUntouched ==
  ASSUME PullInv, Typed', UNCHANGED <<sess, pr, gh>>
  PROVE  PullInv'
  BY DEF PullInv, OwnNumber, AskedWhereNeeded, KnownToGitHub, Describes, MergedOnlyWithApproval

\* The new record of a session keeps its pull request or gives it up.
Holds(s, r) ==
  \/ r.number = sess[s].number /\ r.pr = sess[s].pr
  \/ r.number = None /\ r.pr = NoPr

LEMMA SessionsHold ==
  ASSUME PullInv, Typed', UNCHANGED <<pr, gh>>, \A s \in Session : Holds(s, sess'[s])
  PROVE  PullInv'
<1>1. OwnNumber'
      BY DEF PullInv, OwnNumber, Holds
<1>2. AskedWhereNeeded'
      BY DEF PullInv, AskedWhereNeeded, Holds, NoPr
<1>3. KnownToGitHub'
      BY DEF PullInv, KnownToGitHub, Describes, Holds
<1>4. MergedOnlyWithApproval'
      BY DEF PullInv, MergedOnlyWithApproval
<1> QED
    BY <1>1, <1>2, <1>3, <1>4 DEF PullInv

LEMMA OneHolds ==
  ASSUME Typed, NEW s \in Session, NEW r, sess' = [sess EXCEPT ![s] = r], Holds(s, r)
  PROVE  \A u \in Session : Holds(u, sess'[u])
  BY DEF Holds, Typed, TypeOK

LEMMA BlockedHolds ==
  ASSUME NEW s \in Session, NEW r \in SessionRow, Holds(s, r)
  PROVE  Holds(s, Blocked(r))
  BY DEF Holds, Blocked, SessionRow

LEMMA IdleHolds == \A s \in Session : Holds(s, Idle)
  BY DEF Holds, Idle

LEMMA TickHolds ==
  ASSUME Typed, NEW a \in Tick,
         \/ OpenSession(a) \/ BudgetHalt(a) \/ PickNothing(a)
         \/ \E t \in Task : PickTask(a, t)
         \/ \E p \in Planning : PlanFromTick(a, p)
         \/ Claim(a) \/ WorkFails(a) \/ WorkPasses(a) \/ Learned(a)
         \/ Raise(a)
  PROVE  UNCHANGED <<pr, gh>> /\ \A u \in Session : Holds(u, sess'[u])
<1>0. a \in Session /\ sess[a] \in SessionRow
      BY DEF Session, Typed, TypeOK
<1>1. CASE OpenSession(a)
  <2> DEFINE r == IF project.status = "active" THEN [sess[a] EXCEPT !.pc = "picking"] ELSE Idle
  <2>1. Holds(a, r)
        BY <1>0, IdleHolds DEF Holds, SessionRow
  <2>2. sess' = [sess EXCEPT ![a] = r] /\ UNCHANGED <<pr, gh>>
        BY <1>1 DEF OpenSession
  <2> HIDE DEF r
  <2> QED
      BY <1>0, <2>1, <2>2, OneHolds
<1>2. CASE BudgetHalt(a)
  <2> DEFINE r == [sess[a] EXCEPT !.pc = "settled", !.proj = "paused"]
  <2>1. Holds(a, r)
        BY <1>0 DEF Holds, SessionRow
  <2>2. sess' = [sess EXCEPT ![a] = r] /\ UNCHANGED <<pr, gh>>
        BY <1>2 DEF BudgetHalt
  <2> HIDE DEF r
  <2> QED
      BY <1>0, <2>1, <2>2, OneHolds
<1>3. CASE PickNothing(a)
  <2> DEFINE r == [sess[a] EXCEPT !.pc = "settled"]
  <2>1. Holds(a, r)
        BY <1>0 DEF Holds, SessionRow
  <2>2. sess' = [sess EXCEPT ![a] = r] /\ UNCHANGED <<pr, gh>>
        BY <1>3 DEF PickNothing
  <2> HIDE DEF r
  <2> QED
      BY <1>0, <2>1, <2>2, OneHolds
<1>4. ASSUME NEW t \in Task, PickTask(a, t)
      PROVE  UNCHANGED <<pr, gh>> /\ \A u \in Session : Holds(u, sess'[u])
  <2> DEFINE r == [sess[a] EXCEPT !.pc = "picked", !.task = t, !.row = task[t]]
  <2>1. Holds(a, r)
        BY <1>0 DEF Holds, SessionRow
  <2>2. sess' = [sess EXCEPT ![a] = r] /\ UNCHANGED <<pr, gh>>
        BY <1>4 DEF PickTask
  <2> HIDE DEF r
  <2> QED
      BY <1>0, <2>1, <2>2, OneHolds
<1>5. ASSUME NEW p \in Planning, PlanFromTick(a, p)
      PROVE  UNCHANGED <<pr, gh>> /\ \A u \in Session : Holds(u, sess'[u])
  <2> DEFINE r == Plan(sess[a], p)
  <2>1. Holds(a, r)
        BY <1>0 DEF Holds, SessionRow, Plan
  <2>2. sess' = [sess EXCEPT ![a] = r] /\ UNCHANGED <<pr, gh>>
        BY <1>5 DEF PlanFromTick
  <2> HIDE DEF r
  <2> QED
      BY <1>0, <2>1, <2>2, OneHolds
<1>6. CASE Claim(a)
  <2> DEFINE r == [sess[a] EXCEPT !.pc = "working",
        !.row = [status |-> "in_progress", lease |-> "live",
                 attempts |-> sess[a].row.attempts + 1]]
  <2>1. Holds(a, r)
        BY <1>0 DEF Holds, SessionRow
  <2>2. sess' = [sess EXCEPT ![a] = r] /\ UNCHANGED <<pr, gh>>
        BY <1>6 DEF Claim
  <2> HIDE DEF r
  <2> QED
      BY <1>0, <2>1, <2>2, OneHolds
<1>7. CASE WorkFails(a)
  <2> DEFINE r == [sess[a] EXCEPT !.pc = "settled", !.row.status = Retry(sess[a].row.attempts)]
  <2>1. Holds(a, r)
        BY <1>0 DEF Holds, SessionRow
  <2>2. sess' = [sess EXCEPT ![a] = r] /\ UNCHANGED <<pr, gh>>
        BY <1>7 DEF WorkFails
  <2> HIDE DEF r
  <2> QED
      BY <1>0, <2>1, <2>2, OneHolds
<1>8. CASE WorkPasses(a)
  <2> DEFINE r == [sess[a] EXCEPT !.pc = "shipping"]
  <2>1. Holds(a, r)
        BY <1>0 DEF Holds, SessionRow
  <2>2. sess' = [sess EXCEPT ![a] = r] /\ UNCHANGED <<pr, gh>>
        BY <1>8 DEF WorkPasses
  <2> HIDE DEF r
  <2> QED
      BY <1>0, <2>1, <2>2, OneHolds
<1>9. CASE Learned(a)
  <2> DEFINE r == [sess[a] EXCEPT !.pc = "settled",
        !.row.status = IF sess[a].pr.status = "merged" THEN "done" ELSE "in_review"]
  <2>1. Holds(a, r)
        BY <1>0 DEF Holds, SessionRow
  <2>2. sess' = [sess EXCEPT ![a] = r] /\ UNCHANGED <<pr, gh>>
        BY <1>9 DEF Learned
  <2> HIDE DEF r
  <2> QED
      BY <1>0, <2>1, <2>2, OneHolds
<1>10. CASE Raise(a)
  <2> DEFINE r == Blocked(IF sess[a].pc \in Writing THEN sess[a] ELSE Idle)
  <2>0. Holds(a, Blocked(sess[a])) /\ Holds(a, Blocked(Idle))
        BY <1>0, BlockedHolds, IdleHolds, IdleTyped DEF Holds, SessionTyped
  <2>1. Holds(a, r)
        BY <2>0
  <2>2. sess' = [sess EXCEPT ![a] = r] /\ UNCHANGED <<pr, gh>>
        BY <1>10 DEF Raise
  <2> HIDE DEF r
  <2> QED
      BY <1>0, <2>1, <2>2, OneHolds
<1> QED
    BY <1>1, <1>2, <1>3, <1>4, <1>5, <1>6, <1>7, <1>8, <1>9, <1>10

LEMMA SessionEndHolds ==
  ASSUME Typed, NEW s \in Session,
         \/ RollBack(s)
         \/ \E new \in SUBSET Work : Planned(s, new)
         \/ \E new \in SUBSET Work : \E linked \in SUBSET new : PlanRaises(s, new, linked)
         \/ \E p \in Planning : PlanFromRequest(s, p)
  PROVE  UNCHANGED <<pr, gh>> /\ \A u \in Session : Holds(u, sess'[u])
<1>0. sess[s] \in SessionRow
      BY DEF Typed, TypeOK
<1>1. CASE RollBack(s)
      BY <1>1, OneHolds, IdleHolds DEF RollBack, Discard
<1>2. ASSUME NEW new \in SUBSET Work, Planned(s, new)
      PROVE  UNCHANGED <<pr, gh>> /\ \A u \in Session : Holds(u, sess'[u])
  <2> DEFINE r == [sess[s] EXCEPT !.pc = "settled", !.row.status = "done",
                                  !.new = new, !.linked = new]
  <2>1. Holds(s, r)
        BY <1>0 DEF Holds, SessionRow
  <2>2. sess' = [sess EXCEPT ![s] = r] /\ UNCHANGED <<pr, gh>>
        BY <1>2 DEF Planned
  <2> HIDE DEF r
  <2> QED
      BY <1>0, <2>1, <2>2, OneHolds
<1>3. ASSUME NEW p \in Planning, PlanFromRequest(s, p)
      PROVE  UNCHANGED <<pr, gh>> /\ \A u \in Session : Holds(u, sess'[u])
  <2> DEFINE r == [Plan(sess[s], p) EXCEPT
        !.proj = IF project.status = "active" THEN "none" ELSE "active"]
  <2>1. Holds(s, r)
        BY <1>0 DEF Holds, SessionRow, Plan
  <2>2. sess' = [sess EXCEPT ![s] = r] /\ UNCHANGED <<pr, gh>>
        BY <1>3 DEF PlanFromRequest
  <2> HIDE DEF r
  <2> QED
      BY <1>0, <2>1, <2>2, OneHolds
<1>4. ASSUME NEW new \in SUBSET Work, NEW linked \in SUBSET new, PlanRaises(s, new, linked)
      PROVE  UNCHANGED <<pr, gh>> /\ \A u \in Session : Holds(u, sess'[u])
  <2> DEFINE r == [Blocked(sess[s]) EXCEPT !.new = new, !.linked = linked]
  <2>1. Holds(s, r)
        BY <1>0 DEF Holds, SessionRow, Blocked
  <2>2. sess' = [sess EXCEPT ![s] = r] /\ UNCHANGED <<pr, gh>>
        BY <1>4 DEF PlanRaises
  <2> HIDE DEF r
  <2> QED
      BY <1>0, <2>1, <2>2, OneHolds
<1> QED
    BY <1>1, <1>2, <1>3, <1>4

-----------------------------------------------------------------------------
(* Steps that open, merge or commit a pull request.                         *)

LEMMA ShipPulls ==
  ASSUME PullInv, Typed', NEW a \in Tick, ShipToGitHub(a) \/ ShipLocally(a)
  PROVE  PullInv' /\ pr' = pr
<1> DEFINE t == sess[a].task
<1>0. /\ a \in Session /\ sess[a] \in SessionRow /\ Typed /\ pr' = pr
      /\ sess \in [Session -> SessionRow] /\ gh \in [Number -> Remote]
      /\ None \notin Number
      BY ConstantsAssumption DEF Session, PullInv, Typed, TypeOK, ShipToGitHub, ShipLocally
<1>1. \A n : Shipped(sess[a], n).number = n /\ Shipped(sess[a], n).pr = OpenPr(t)
      BY <1>0 DEF Shipped, SessionRow
<1>2. Holds(a, Blocked(sess[a])) /\ Holds(a, Idle)
      BY <1>0, BlockedHolds, IdleHolds DEF Holds
\* The session holds the number n, which nobody else knows.
<1>3. ASSUME NEW n \in Number, sess' = [sess EXCEPT ![a] = Shipped(sess[a], n)],
             pr[n] = NoPr, \A s \in Session \ {a} : sess[s].number # n,
             \A m \in Number \ {n} : gh'[m] = gh[m],
             GitHub => gh'[n] = [head |-> t, state |-> "open"]
      PROVE  OwnNumber' /\ AskedWhereNeeded' /\ KnownToGitHub'
  <2>1. /\ sess'[a] = Shipped(sess[a], n)
        /\ \A s \in Session \ {a} : sess'[s] = sess[s]
        BY <1>0, <1>3
  <2>2. OwnNumber'
        BY <1>0, <1>1, <1>3, <2>1 DEF PullInv, OwnNumber
  <2>3. AskedWhereNeeded'
        BY <1>0, <1>1, <2>1 DEF PullInv, AskedWhereNeeded, OpenPr
  <2>4. KnownToGitHub'
    <3> SUFFICES ASSUME GitHub PROVE KnownToGitHub'
        BY DEF KnownToGitHub
    <3>1. Describes(sess[a].pr, n)' /\ sess'[a].number = n
          BY <1>1, <1>3, <2>1 DEF Describes, OpenPr
    <3>2. ASSUME NEW s \in Session \ {a}, sess'[s].number # None
          PROVE  Describes(sess[s].pr, sess[s].number)'
          BY <1>0, <1>3, <3>2, <2>1 DEF PullInv, KnownToGitHub, Describes, Typed, TypeOK, SessionRow
    <3>3. ASSUME NEW m \in Number, pr[m] # NoPr
          PROVE  Describes(pr[m], m)'
          BY <1>0, <1>3, <3>3 DEF PullInv, KnownToGitHub, Describes
    <3> QED
        BY <1>0, <1>1, <2>1, <3>1, <3>2, <3>3 DEF KnownToGitHub
  <2> QED
      BY <2>2, <2>3, <2>4
<1>4. CASE ShipLocally(a)
  <2> DEFINE n == LocalNumber[t]
  <2>1. /\ n \in Number /\ ~GitHub /\ gh' = gh
        /\ \A s \in Session : sess[s].number # n
        BY <1>0, <1>4, ConstantsAssumption DEF ShipLocally, PullInv, Typed, BusyHasTask, Busy
  <2>2. \/ sess' = [sess EXCEPT ![a] = Shipped(sess[a], n)] /\ pr[n] = NoPr
        \/ sess' = [sess EXCEPT ![a] = Idle]
        BY <1>4 DEF ShipLocally, Discard
  <2> HIDE DEF n
  <2>3. CASE sess' = [sess EXCEPT ![a] = Shipped(sess[a], n)] /\ pr[n] = NoPr
    <3>1. OwnNumber' /\ AskedWhereNeeded' /\ KnownToGitHub'
          BY <1>3, <2>1, <2>3
    <3> QED
        BY <1>0, <2>1, <3>1 DEF PullInv, MergedOnlyWithApproval
  <2>4. CASE sess' = [sess EXCEPT ![a] = Idle]
        BY <1>0, <1>2, <2>1, <2>4, OneHolds, SessionsHold
  <2> QED
      BY <2>2, <2>3, <2>4
<1>5. CASE ShipToGitHub(a)
  <2>1. CASE gh' = gh /\ sess' = [sess EXCEPT ![a] = Blocked(sess[a])]
        BY <1>0, <1>2, <2>1, OneHolds, SessionsHold
  <2>2. ASSUME NEW n \in Number, gh[n] = NoRemote, GitHub,
               gh' = [gh EXCEPT ![n] = [head |-> t, state |-> "open"]],
               \/ sess' = [sess EXCEPT ![a] = Shipped(sess[a], n)]
               \/ sess' = [sess EXCEPT ![a] = Blocked(sess[a])]
        PROVE  PullInv'
    <3>1. pr[n] = NoPr /\ \A s \in Session : sess[s].number # n
          BY <1>0, <2>2 DEF PullInv, KnownToGitHub, Describes, NoRemote
    <3>2. /\ gh'[n] = [head |-> t, state |-> "open"]
          /\ \A m \in Number \ {n} : gh'[m] = gh[m]
          BY <1>0, <2>2
    <3>3. MergedOnlyWithApproval'
          BY <1>0, <3>2 DEF PullInv, MergedOnlyWithApproval
    <3>4. CASE sess' = [sess EXCEPT ![a] = Shipped(sess[a], n)]
      <4>1. OwnNumber' /\ AskedWhereNeeded' /\ KnownToGitHub'
            BY <1>3, <3>1, <3>2, <3>4
      <4> QED
          BY <4>1, <3>3 DEF PullInv
    <3>5. CASE sess' = [sess EXCEPT ![a] = Blocked(sess[a])]
      <4>1. \A s \in Session : Holds(s, sess'[s])
            BY <1>0, <1>2, <3>5, OneHolds
      <4>2. OwnNumber' /\ AskedWhereNeeded'
            BY <1>0, <4>1 DEF PullInv, OwnNumber, AskedWhereNeeded, Holds, NoPr
      <4>3. \A s \in Session : sess[s].number # None => sess[s].number \in Number \ {n}
            BY <1>0, <3>1 DEF SessionRow
      <4>4. KnownToGitHub'
            BY <1>0, <2>2, <3>1, <3>2, <4>1, <4>3 DEF PullInv, KnownToGitHub, Describes, Holds
      <4> QED
          BY <4>2, <4>4, <3>3 DEF PullInv
    <3> QED
        BY <2>2, <3>4, <3>5
  <2> QED
      BY <1>5, <2>1, <2>2 DEF ShipToGitHub, NextNumber
<1> QED
    BY <1>0, <1>4, <1>5

\* GitHub may merge the request of the session a and nothing else.
LEMMA MergePulls ==
  ASSUME PullInv, Typed', NEW a \in Tick, MaybeMerge(a)
  PROVE  PullInv' /\ pr' = pr
<1> DEFINE n == sess[a].number
<1>0. /\ a \in Session /\ sess[a] \in SessionRow /\ pr' = pr
      /\ sess \in [Session -> SessionRow] /\ gh \in [Number -> Remote]
      BY DEF Session, PullInv, Typed, TypeOK, MaybeMerge
\* What the session writes, and what GitHub knows afterwards.
<1>1. /\ \A s \in Session \ {a} : sess'[s] = sess[s]
      /\ sess'[a].number = n
      /\ \/ sess'[a].pr = sess[a].pr
         \/ MergeNeedsApproval /\ sess'[a].pr = [sess[a].pr EXCEPT !.approval = "pending"]
         \/ ~MergeNeedsApproval /\ sess'[a].pr = [sess[a].pr EXCEPT !.status = "merged"]
  <2> DEFINE asked == [sess[a] EXCEPT !.pc = "learning", !.pr.approval = "pending"]
             merged == [sess[a] EXCEPT !.pc = "learning", !.pr.status = "merged"]
  <2>1. /\ asked.number = n /\ asked.pr = [sess[a].pr EXCEPT !.approval = "pending"]
        /\ merged.number = n /\ merged.pr = [sess[a].pr EXCEPT !.status = "merged"]
        /\ Blocked(sess[a]).number = n /\ Blocked(sess[a]).pr = sess[a].pr
        BY <1>0 DEF SessionRow, Blocked
  <2>2. \/ MergeNeedsApproval /\ sess' = [sess EXCEPT ![a] = asked]
        \/ ~MergeNeedsApproval /\ sess' = [sess EXCEPT ![a] = merged]
        \/ sess' = [sess EXCEPT ![a] = Blocked(sess[a])]
        BY Zenon DEF MaybeMerge
  <2> HIDE DEF asked, merged
  <2> QED
      BY <1>0, <2>1, <2>2
<1>2. \/ gh' = gh /\ (sess'[a].pr.status = "merged" /\ GitHub => sess[a].pr.status = "merged")
      \/ ~MergeNeedsApproval /\ gh' = [gh EXCEPT ![n].state = "merged"]
  <2>1. \/ MergeNeedsApproval /\ gh' = gh
        \/ ~MergeNeedsApproval /\ gh' = [gh EXCEPT ![n].state = "merged"]
        \/ ~MergeNeedsApproval /\ ~GitHub /\ gh' = gh
        BY Zenon DEF MaybeMerge
  <2>2. sess[a].pr \in PrRow
        BY <1>0 DEF SessionRow
  <2>3. MergeNeedsApproval /\ sess'[a].pr.status = "merged" => sess[a].pr.status = "merged"
        BY <1>1, <2>2 DEF PrRow
  <2> QED
      BY <2>1, <2>3
<1>3. sess[a].pr \in PrRow /\ n \in Number \cup {None} /\ None \notin Number
      BY <1>0, ConstantsAssumption DEF SessionRow
<1>4. OwnNumber'
      BY <1>0, <1>1 DEF PullInv, OwnNumber
<1>5. AskedWhereNeeded'
      BY <1>0, <1>1, <1>3 DEF PullInv, AskedWhereNeeded, PrRow
<1>6. KnownToGitHub'
  <2> SUFFICES ASSUME GitHub PROVE KnownToGitHub'
      BY DEF KnownToGitHub
  <2>1. \A m \in Number : /\ gh'[m].head = gh[m].head
                          /\ m # n => gh'[m] = gh[m]
                          /\ gh[m].state # "none" => gh'[m].state # "none"
                          /\ gh[m].state = "merged" => gh'[m].state = "merged"
        BY <1>0, <1>2 DEF Remote
  <2>2. ASSUME NEW s \in Session \ {a}, sess'[s].number # None
        PROVE  Describes(sess[s].pr, sess[s].number)'
        BY <1>0, <1>1, <2>1, <2>2 DEF PullInv, KnownToGitHub, Describes, SessionRow
  <2>3. ASSUME sess'[a].number # None
        PROVE  Describes(sess[a].pr, sess[a].number)'
    <3>1. n \in Number /\ sess'[a].number = n /\ Describes(sess[a].pr, n)
          BY <1>0, <1>1, <1>3, <2>3 DEF PullInv, KnownToGitHub
    <3>2. sess'[a].pr.task = sess[a].pr.task
          BY <1>1, <1>3 DEF PrRow
    <3>3. sess'[a].pr.status = "merged" => gh'[n].state = "merged"
          BY <1>0, <1>2, <3>1, <2>1 DEF Describes, Remote
    <3> QED
        BY <2>1, <3>1, <3>2, <3>3 DEF Describes
  <2>4. ASSUME NEW m \in Number, pr[m] # NoPr
        PROVE  Describes(pr[m], m)'
        BY <1>0, <2>1, <2>4 DEF PullInv, KnownToGitHub, Describes
  <2> QED
      BY <1>0, <2>2, <2>3, <2>4 DEF KnownToGitHub
<1>7. MergedOnlyWithApproval'
      BY <1>0, <1>2 DEF PullInv, MergedOnlyWithApproval
<1> QED
    BY <1>0, <1>4, <1>5, <1>6, <1>7 DEF PullInv

\* A commit publishes the request of its session under a number without a row.
LEMMA CommitPulls ==
  ASSUME PullInv, Typed', NEW s \in Session, Commit(s)
  PROVE  PullInv'
<1> DEFINE w == sess[s]
<1>0. /\ w \in SessionRow /\ sess \in [Session -> SessionRow] /\ gh' = gh
      /\ pr' = [n \in Number |-> IF n = w.number THEN w.pr ELSE pr[n]]
      /\ sess' = [sess EXCEPT ![s] = Idle]
      /\ None \notin Number
      BY ConstantsAssumption DEF PullInv, Typed, TypeOK, Commit
<1>1. /\ sess'[s].number = None /\ sess'[s].pr = NoPr
      /\ \A u \in Session \ {s} : sess'[u] = sess[u]
      BY <1>0 DEF Idle
<1>2. OwnNumber'
  <2>1. ASSUME NEW u \in Session, sess'[u].number # None
        PROVE  pr'[sess'[u].number] = NoPr
        BY <1>0, <1>1, <2>1 DEF PullInv, OwnNumber, SessionRow
  <2>2. ASSUME NEW u \in Session, NEW v \in Session,
               sess'[u].number # None, sess'[u].number = sess'[v].number
        PROVE  u = v
        BY <1>1, <2>2 DEF PullInv, OwnNumber
  <2> QED
      BY <2>1, <2>2 DEF OwnNumber
<1>3. AskedWhereNeeded'
      BY <1>0, <1>1 DEF PullInv, AskedWhereNeeded, NoPr
<1>4. KnownToGitHub'
  <2> SUFFICES ASSUME GitHub PROVE KnownToGitHub'
      BY DEF KnownToGitHub
  <2>1. ASSUME NEW u \in Session, sess'[u].number # None
        PROVE  Describes(sess[u].pr, sess[u].number)'
        BY <1>0, <1>1, <2>1 DEF PullInv, KnownToGitHub, Describes
  <2>2. ASSUME NEW m \in Number, pr'[m] # NoPr
        PROVE  Describes(pr[m], m)'
        BY <1>0, <2>2 DEF PullInv, KnownToGitHub, Describes
  <2> QED
      BY <2>1, <2>2 DEF KnownToGitHub
<1>5. MergedOnlyWithApproval'
      BY <1>0 DEF PullInv, MergedOnlyWithApproval, OwnNumber, NoPr
<1> QED
    BY <1>2, <1>3, <1>4, <1>5 DEF PullInv

\* A decision changes only the row of a number that no session holds.
LEMMA DecisionPulls ==
  ASSUME PullInv, Typed', NEW n \in Number, ApproveMerge(n) \/ RejectMerge(n)
  PROVE  PullInv'
<1> DEFINE merged == [pr[n] EXCEPT !.approval = "approved", !.status = "merged"]
           refused == [pr[n] EXCEPT !.approval = "rejected"]
<1>0. /\ sess \in [Session -> SessionRow] /\ sess' = sess /\ gh \in [Number -> Remote]
      /\ pr \in [Number -> PrRow] /\ pr[n].approval = "pending" /\ pr[n] # NoPr
      BY DEF PullInv, Typed, TypeOK, ApproveMerge, RejectMerge, NoPr
<1>1. \/ pr' = pr
      \/ pr' = [pr EXCEPT ![n] = merged]
      \/ pr' = [pr EXCEPT ![n] = refused]
      BY Zenon DEF ApproveMerge, RejectMerge
<1>2. \/ gh' = gh /\ ~GitHub
      \/ gh' = gh /\ pr' = [pr EXCEPT ![n] = refused]
      \/ gh' = [gh EXCEPT ![n].state = "merged"]
      BY Zenon DEF ApproveMerge, RejectMerge
<1>3. /\ merged.task = pr[n].task /\ merged.approval = "approved"
      /\ refused.task = pr[n].task /\ refused.approval = "rejected"
      /\ refused.status = pr[n].status /\ merged # NoPr /\ refused # NoPr
      BY <1>0 DEF PrRow, NoPr
<1> HIDE DEF merged, refused
<1>4. /\ \A m \in Number \ {n} : pr'[m] = pr[m]
      /\ pr'[n] \in {pr[n], merged, refused}
      /\ pr'[n] # NoPr /\ pr'[n].task = pr[n].task /\ pr'[n].approval # "none"
      BY <1>0, <1>1, <1>3
<1>5. OwnNumber'
      BY <1>0, <1>4 DEF PullInv, OwnNumber, SessionRow
<1>6. AskedWhereNeeded'
      BY <1>0, <1>3, <1>4 DEF PullInv, AskedWhereNeeded
<1>7. \A m \in Number : /\ gh'[m].head = gh[m].head
                        /\ m # n => gh'[m] = gh[m]
                        /\ gh[m].state # "none" => gh'[m].state # "none"
                        /\ gh[m].state = "merged" => gh'[m].state = "merged"
      BY <1>0, <1>2 DEF Remote
<1>8. KnownToGitHub'
  <2> SUFFICES ASSUME GitHub PROVE KnownToGitHub'
      BY DEF KnownToGitHub
  <2>1. ASSUME NEW s \in Session, sess'[s].number # None
        PROVE  Describes(sess[s].pr, sess[s].number)'
        BY <1>0, <1>7, <2>1 DEF PullInv, KnownToGitHub, Describes, SessionRow
  <2>2. ASSUME NEW m \in Number \ {n}, pr'[m] # NoPr
        PROVE  Describes(pr[m], m)'
        BY <1>4, <1>7, <2>2 DEF PullInv, KnownToGitHub, Describes
  <2>3. Describes(pr[n], n)
        BY <1>0 DEF PullInv, KnownToGitHub
  <2>4. pr'[n].status = "merged" => gh'[n].state = "merged"
    <3>1. CASE gh' = [gh EXCEPT ![n].state = "merged"]
          BY <1>0, <3>1 DEF Remote
    <3>2. CASE gh' = gh /\ pr'[n].status = pr[n].status
          BY <2>3, <3>2 DEF Describes
    <3>3. CASE gh' = gh /\ pr' = [pr EXCEPT ![n] = refused]
      <4>1. pr'[n].status = pr[n].status
            BY <1>0, <1>3, <3>3
      <4> QED
          BY <3>2, <3>3, <4>1
    <3> QED
        BY <1>2, <3>1, <3>3
  <2>5. Describes(pr[n], n)'
        BY <1>4, <1>7, <2>3, <2>4 DEF Describes
  <2> QED
      BY <1>0, <2>1, <2>2, <2>5 DEF KnownToGitHub
<1>9. MergedOnlyWithApproval'
      BY <1>0, <1>4, <1>7 DEF PullInv, MergedOnlyWithApproval
<1> QED
    BY <1>5, <1>6, <1>8, <1>9 DEF PullInv

-----------------------------------------------------------------------------
(* Every step.                                                              *)

LEMMA PullStep == PullInv /\ [Next]_vars => PullInv'
<1> SUFFICES ASSUME PullInv, [Next]_vars PROVE PullInv'
    OBVIOUS
<1>0. Typed /\ Typed' /\ sess \in [Session -> SessionRow] /\ Tick \subseteq Session
      BY TypedStep DEF PullInv, Typed, TypeOK, Session
<1>1. CASE UNCHANGED vars
      BY <1>0, <1>1, PullsUntouched DEF vars
<1>2. CASE ReclaimExpired \/ GatherDone \/ GatherAborted
      BY <1>0, <1>2, PullsUntouched DEF ReclaimExpired, GatherDone, GatherAborted
<1>3. CASE ListProject
  <2>1. \A s \in Session : Holds(s, sess'[s])
        BY <1>0, <1>3 DEF ListProject, Holds, SessionRow
  <2> QED
      BY <1>0, <1>3, <2>1, SessionsHold DEF ListProject
<1>4. CASE CrashRestart
  <2>1. \A s \in Session : Holds(s, sess'[s])
        BY <1>4, IdleHolds DEF CrashRestart, Holds
  <2> QED
      BY <1>0, <1>4, <2>1, SessionsHold DEF CrashRestart
<1>5. ASSUME NEW t \in Task, LeaseExpires(t) PROVE PullInv'
      BY <1>0, <1>5, PullsUntouched DEF LeaseExpires
<1>6. CASE AnalysisLost \/ RepoAnalyzed \/ StartProject \/ PauseProject
      BY <1>0, <1>6, PullsUntouched DEF AnalysisLost, RepoAnalyzed, StartProject, PauseProject
<1>7. ASSUME NEW t \in Work, CreateTask(t) PROVE PullInv'
      BY <1>0, <1>7, PullsUntouched DEF CreateTask
<1>8. ASSUME NEW status \in ProjectStatus, PatchProject(status) PROVE PullInv'
      BY <1>0, <1>8, PullsUntouched DEF PatchProject
<1>9. ASSUME NEW t \in Task, NEW status \in TaskStatus, PatchTask(t, status) PROVE PullInv'
      BY <1>0, <1>9, PullsUntouched DEF PatchTask
<1>10. ASSUME NEW a \in Tick, TickStep(a) \/ Raise(a) PROVE PullInv'
  <2>1. CASE ShipToGitHub(a) \/ ShipLocally(a)
        BY <1>0, <2>1, ShipPulls
  <2>2. CASE MaybeMerge(a)
        BY <1>0, <2>2, MergePulls
  <2>3. CASE \/ OpenSession(a) \/ BudgetHalt(a) \/ PickNothing(a)
             \/ \E t \in Task : PickTask(a, t)
             \/ \E p \in Planning : PlanFromTick(a, p)
             \/ Claim(a) \/ WorkFails(a) \/ WorkPasses(a) \/ Learned(a)
             \/ Raise(a)
        BY <1>0, <2>3, TickHolds, SessionsHold
  <2> QED
      BY <1>10, <2>1, <2>2, <2>3 DEF TickStep
<1>11. ASSUME NEW s \in Session,
              \/ RollBack(s)
              \/ \E new \in SUBSET Work : Planned(s, new)
              \/ \E new \in SUBSET Work : \E linked \in SUBSET new : PlanRaises(s, new, linked)
              \/ \E p \in Planning : PlanFromRequest(s, p)
       PROVE  PullInv'
       BY <1>0, <1>11, SessionEndHolds, SessionsHold
<1>12. ASSUME NEW s \in Session, Commit(s) PROVE PullInv'
       BY <1>0, <1>12, CommitPulls
<1>13. ASSUME NEW n \in Number, ApproveMerge(n) \/ RejectMerge(n) PROVE PullInv'
       BY <1>0, <1>13, DecisionPulls
<1> QED
    BY <1>1, <1>2, <1>3, <1>4, <1>5, <1>6, <1>7, <1>8, <1>9, <1>10, <1>11, <1>12, <1>13
    DEF Next, SerialNext, WorkerLoop, Failure, Human, Session

LEMMA PullCorrect == Spec => []PullInv
  BY PullInit, PullStep, PTL DEF Spec

(* For any number of tasks, ticks, requests and numbers: GitHub merges only  *)
(* pull requests whose approval row is committed, when the project's policy *)
(* asks for one (_maybe_merge, merge_approved).                             *)
THEOREM MergedOnlyWithApprovalHolds == Spec => []MergedOnlyWithApproval
<1>1. PullInv => MergedOnlyWithApproval
      BY DEF PullInv
<1> QED
    BY PullCorrect, <1>1, PTL

(* And a committed row says MERGED only of a pull request of the same task   *)
(* that GitHub has merged.                                                  *)
THEOREM MergedOnGitHubHolds == Spec => []MergedOnGitHub
<1>1. ASSUME PullInv PROVE MergedOnGitHub
  <2> SUFFICES ASSUME GitHub, NEW n \in Number, pr[n].status = "merged"
               PROVE  gh[n] = [head |-> pr[n].task, state |-> "merged"]
      BY DEF MergedOnGitHub
  <2>1. pr[n] # NoPr /\ gh[n] \in Remote
        BY <1>1 DEF NoPr, PullInv, Typed, TypeOK
  <2>2. gh[n].head = pr[n].task /\ gh[n].state = "merged"
        BY <1>1, <2>1 DEF PullInv, KnownToGitHub, Describes
  <2> QED
      BY <2>1, <2>2 DEF Remote
<1> QED
    BY PullCorrect, <1>1, PTL

-----------------------------------------------------------------------------
(* The pull requests implement the human gate.                              *)

LEMMA GateInit == Init => Gate!Init
  BY DEF Init, Gate!Init, PullGate, GateOf, NoPr

\* A row that moves through the gate takes one of its steps, all others stay.
LEMMA OneRowMoves ==
  ASSUME NEW n \in Number, \A m \in Number \ {n} : pr'[m] = pr[m],
         \/ GateOf(pr'[n]) = GateOf(pr[n])
         \/ MergeNeedsApproval /\ GateOf(pr[n]) = "absent" /\ GateOf(pr'[n]) = "pending"
         \/ GateOf(pr[n]) = "pending" /\ GateOf(pr'[n]) = "rejected"
         \/ /\ GateOf(pr[n]) = IF MergeNeedsApproval THEN "pending" ELSE "absent"
            /\ GateOf(pr'[n]) = "performed"
  PROVE  [Gate!Next]_PullGate
<1>0. /\ \A m \in Number \ {n} : PullGate'[m] = PullGate[m]
      /\ PullGate[n] = GateOf(pr[n]) /\ PullGate'[n] = GateOf(pr'[n])
      BY DEF PullGate
<1>1. PullGate' = [PullGate EXCEPT ![n] = GateOf(pr'[n])]
      BY <1>0 DEF PullGate
<1>2. CASE GateOf(pr'[n]) = GateOf(pr[n])
      BY <1>2, <1>0, <1>1 DEF PullGate
<1>3. CASE MergeNeedsApproval /\ GateOf(pr[n]) = "absent" /\ GateOf(pr'[n]) = "pending"
  <2>1. Gate!Ask(n)
        BY <1>0, <1>1, <1>3 DEF Gate!Ask
  <2> QED
      BY <2>1 DEF Gate!Next
<1>4. CASE GateOf(pr[n]) = "pending" /\ GateOf(pr'[n]) = "rejected"
  <2>1. Gate!Refuse(n)
        BY <1>0, <1>1, <1>4 DEF Gate!Refuse
  <2> QED
      BY <2>1 DEF Gate!Next
<1>5. CASE /\ GateOf(pr[n]) = IF MergeNeedsApproval THEN "pending" ELSE "absent"
           /\ GateOf(pr'[n]) = "performed"
  <2>1. Gate!Perform(n)
        BY <1>0, <1>1, <1>5 DEF Gate!Perform
  <2> QED
      BY <2>1 DEF Gate!Next
<1> QED
    BY <1>2, <1>3, <1>4, <1>5

LEMMA CommitInGate ==
  ASSUME PullInv, NEW s \in Session, Commit(s)
  PROVE  [Gate!Next]_PullGate
<1> DEFINE w == sess[s]
<1>0. /\ w \in SessionRow /\ w.pr \in PrRow /\ w.number \in Number \cup {None}
      /\ pr \in [Number -> PrRow]
      /\ pr' = [n \in Number |-> IF n = w.number THEN w.pr ELSE pr[n]]
      /\ None \notin Number
      BY ConstantsAssumption DEF PullInv, Typed, TypeOK, Commit, SessionRow
<1>1. CASE w.number = None
  <2>1. pr' = pr
        BY <1>0, <1>1
  <2> QED
      BY <2>1 DEF PullGate
<1>2. CASE w.number \in Number
  <2>1. \A m \in Number \ {w.number} : pr'[m] = pr[m]
        BY <1>0
  <2>2. pr'[w.number] = w.pr /\ pr[w.number] = NoPr
        BY <1>0, <1>2 DEF PullInv, OwnNumber
  <2>3. GateOf(NoPr) = "absent"
        BY DEF GateOf, NoPr
  <2>4. \/ GateOf(w.pr) = "absent"
        \/ MergeNeedsApproval /\ GateOf(w.pr) = "pending"
        \/ ~MergeNeedsApproval /\ GateOf(w.pr) = "performed"
        BY <1>0 DEF GateOf, PullInv, AskedWhereNeeded, PrRow
  <2> HIDE DEF w
  <2> QED
      BY <1>2, <2>1, <2>2, <2>3, <2>4, OneRowMoves
<1> QED
    BY <1>0, <1>1, <1>2

LEMMA DecisionInGate ==
  ASSUME PullInv, NEW n \in Number, ApproveMerge(n) \/ RejectMerge(n)
  PROVE  [Gate!Next]_PullGate
<1>0. pr \in [Number -> PrRow] /\ pr[n].approval = "pending" /\ MergeNeedsApproval
      BY DEF PullInv, Typed, TypeOK, AskedWhereNeeded, ApproveMerge, RejectMerge
<1>1. \/ pr' = pr
      \/ /\ pr[n].status = "open"
         /\ pr' = [pr EXCEPT ![n] = [pr[n] EXCEPT !.approval = "approved", !.status = "merged"]]
      \/ pr' = [pr EXCEPT ![n] = [pr[n] EXCEPT !.approval = "rejected"]]
      BY Zenon DEF ApproveMerge, RejectMerge
<1>2. \A m \in Number \ {n} : pr'[m] = pr[m]
      BY <1>0, <1>1
<1>3. \/ GateOf(pr'[n]) = GateOf(pr[n])
      \/ GateOf(pr[n]) = "pending" /\ GateOf(pr'[n]) \in {"performed", "rejected"}
      BY <1>0, <1>1 DEF GateOf, PrRow
<1> QED
    BY <1>0, <1>2, <1>3, OneRowMoves

\* Only a commit or a human decision writes a row of a pull request.
LEMMA PullRowsMove ==
  ASSUME [Next]_vars
  PROVE  \/ pr' = pr
         \/ \E s \in Session : Commit(s)
         \/ \E n \in Number : ApproveMerge(n) \/ RejectMerge(n)
<1>1. ASSUME NEW a \in Tick, TickStep(a) \/ Raise(a) PROVE pr' = pr
      BY <1>1 DEF TickStep, OpenSession, BudgetHalt, PickNothing, PickTask, PlanFromTick, Claim,
                  WorkFails, WorkPasses, Learned, ShipToGitHub, ShipLocally, MaybeMerge, Raise
<1>2. ASSUME NEW s \in Session,
             \/ RollBack(s)
             \/ \E new \in SUBSET Work : Planned(s, new)
             \/ \E new \in SUBSET Work : \E linked \in SUBSET new : PlanRaises(s, new, linked)
             \/ \E p \in Planning : PlanFromRequest(s, p)
      PROVE  pr' = pr
      BY <1>2 DEF RollBack, Planned, PlanRaises, PlanFromRequest
<1>3. CASE \/ WorkerLoop \/ GatherAborted \/ CrashRestart \/ AnalysisLost
           \/ RepoAnalyzed \/ StartProject \/ PauseProject
           \/ \E t \in Task : LeaseExpires(t)
           \/ \E t \in Work : CreateTask(t)
           \/ \E status \in ProjectStatus : PatchProject(status)
           \/ \E t \in Task, status \in TaskStatus : PatchTask(t, status)
           \/ UNCHANGED vars
      BY <1>3 DEF WorkerLoop, ReclaimExpired, ListProject, GatherDone, GatherAborted,
                  CrashRestart, AnalysisLost, RepoAnalyzed, StartProject, PauseProject,
                  LeaseExpires, CreateTask, PatchProject, PatchTask, vars
<1> QED
    BY <1>1, <1>2, <1>3 DEF Next, SerialNext, Failure, Human, Session

LEMMA GateStep == PullInv /\ [Next]_vars => [Gate!Next]_PullGate
<1> SUFFICES ASSUME PullInv, [Next]_vars PROVE [Gate!Next]_PullGate
    OBVIOUS
<1>1. CASE pr' = pr
      BY <1>1 DEF PullGate
<1>2. ASSUME NEW s \in Session, Commit(s) PROVE [Gate!Next]_PullGate
      BY <1>2, CommitInGate
<1>3. ASSUME NEW n \in Number, ApproveMerge(n) \/ RejectMerge(n)
      PROVE  [Gate!Next]_PullGate
      BY <1>3, DecisionInGate
<1> QED
    BY <1>1, <1>2, <1>3, PullRowsMove

LEMMA MergedStep ==
  ASSUME PullInv, [Next]_vars, NEW n \in Number, pr[n].status = "merged"
  PROVE  pr'[n].status = "merged"
<1>0. /\ \A s \in Session : n = sess[s].number => pr[n] = NoPr
      /\ pr \in [Number -> PrRow] /\ None \notin Number
      BY ConstantsAssumption DEF PullInv, OwnNumber, Typed, TypeOK
<1>1. ASSUME NEW s \in Session, Commit(s) PROVE pr'[n].status = "merged"
      BY <1>0, <1>1 DEF Commit, NoPr
<1>2. ASSUME NEW m \in Number, ApproveMerge(m) PROVE pr'[n].status = "merged"
  <2>1. \/ pr' = pr
        \/ pr' = [pr EXCEPT ![m] = [pr[m] EXCEPT !.approval = "approved", !.status = "merged"]]
        BY <1>2, Zenon DEF ApproveMerge
  <2> QED
      BY <1>0, <2>1 DEF PrRow
<1>3. ASSUME NEW m \in Number, RejectMerge(m) PROVE pr'[n].status = "merged"
      BY <1>0, <1>3 DEF RejectMerge, PrRow
<1> QED
    BY <1>1, <1>2, <1>3, PullRowsMove

(* A row that says merged keeps saying it: an INSERT of _ship that takes a    *)
(* number in use is refused, and merge_approved never writes another status, *)
(* in whatever order overlapping cycles, lost answers and humans come.      *)
THEOREM MergedIsFinalHolds == Spec => MergedIsFinal
<1>1. PullInv /\ [Next]_vars =>
        [\A n \in Number : pr[n].status = "merged" => pr'[n].status = "merged"]_vars
      BY MergedStep
<1> QED
    BY PullCorrect, <1>1, PTL DEF Spec, MergedIsFinal

(* The detailed specification implements HumanGate: whatever the pipeline,   *)
(* its failures and its humans do, a pull request is asked for, then refused *)
(* or merged, once; a rejected one is never merged in the database          *)
(* (decide_approval, merge_approved, _maybe_merge).                         *)
THEOREM GateImplemented == Spec => GateSpec
  BY GateInit, GateStep, PullCorrect, PTL DEF Spec, GateSpec, Gate!Spec
=============================================================================
