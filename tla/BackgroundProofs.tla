--------------------------- MODULE BackgroundProofs ---------------------------
(***************************************************************************)
(* What runs by itself stays within its bounds and tells the truth: the     *)
(* spend of the ticks, the recovery of an incident, the backlog of the      *)
(* maintenance, and the feed of events.  One part for each component; none  *)
(* uses another.                                                            *)
(***************************************************************************)
EXTENDS AgentRuns, Incidents, Upkeep, EventStream, FiniteSetTheorems, SequenceTheorems, TLAPS

-----------------------------------------------------------------------------
(* AgentRuns.  The ledger and what open ticks may still charge stay within   *)
(* the cap, one full tick of every coroutine and what humans requested: a   *)
(* tick opens below the cap only, and its last run is its seventh.          *)

\* What the runs before this one may have cost.
CostBefore(role) ==
  IF role \in {"ceo", "architect"} THEN 0
  ELSE IF role \in {"planner", "builder"} THEN RunCost
  ELSE IF role = "qa" THEN 2 * RunCost
  ELSE IF role = "reviewer" THEN 3 * RunCost
  ELSE IF role = "security" THEN 4 * RunCost
  ELSE IF role = "memory" THEN 5 * RunCost ELSE 6 * RunCost

TickCost == 7 * RunCost

RunsTyped ==
  /\ ledger \in Nat /\ requested \in Nat
  /\ model \in [Role -> Model \cup {None}]
  /\ tick \in [Tick -> TickRow]

Charged(t) ==
  /\ t.pending <= TickCost
  /\ t.pc \in {"next", "running"} => t.pending <= CostBefore(t.role)

Open == {a \in Tick : tick[a].pc # "idle"}

Covered ==
  Cap > 0 => ledger + Cardinality(Open) * TickCost
               <= Cap + Cardinality(Tick) * TickCost + requested * RunCost

RunsInv == RunsTyped /\ (\A a \in Tick : Charged(tick[a])) /\ Covered /\ PinnedModels

-----------------------------------------------------------------------------
(* Arithmetic of costs.                                                     *)

LEMMA ProductsGrow ==
  ASSUME NEW a \in Nat, NEW b \in Nat, NEW x \in Nat, NEW y \in Nat, a <= x, b <= y
  PROVE  a * b \in Nat /\ a * b <= x * y
<1>1. PICK i \in Nat : x = a + i
  <2>1. x - a \in Nat /\ x = a + (x - a)
        OBVIOUS
  <2> QED
      BY <2>1
<1>2. PICK j \in Nat : y = b + j
  <2>1. y - b \in Nat /\ y = b + (y - b)
        OBVIOUS
  <2> QED
      BY <2>1
<1>3. x * y = a * b + a * j + i * b + i * j
      BY <1>1, <1>2
<1>4. a * b \in Nat /\ a * j \in Nat /\ i * b \in Nat /\ i * j \in Nat
      OBVIOUS
<1> HIDE <1>1, <1>2
<1> QED
    BY <1>3, <1>4

LEMMA OneMoreTime ==
  ASSUME NEW k \in Nat, NEW m \in Nat
  PROVE  k * m \in Nat /\ (k + 1) * m = k * m + m
  OBVIOUS

LEMMA CostsAreNat == RunCost \in Nat /\ TickCost \in Nat
  BY RunsAssumption DEF RunCost, TickCost

LEMMA RunIsBounded ==
  ASSUME NEW role \in Role, NEW job, NEW result \in Reported
  PROVE  /\ Routed(role, job) \in Model
         /\ Cost(Routed(role, job), result.usage) \in Nat
         /\ Cost(Routed(role, job), result.usage) <= RunCost
<1> DEFINE m == Routed(role, job)
<1>1. Classify(role, job) \in Tier
      BY DEF Classify, Tier
<1>2. m \in Model
      BY <1>1, RunsAssumption DEF Routed, Route
<1>3. result.usage \in Nat /\ result.usage <= MaxIterations
      BY RunsAssumption DEF Reported, Succeeded, Exhausted, Failed
<1> HIDE DEF m
<1>4. Price[m] \in Nat /\ Price[m] <= MaxPrice
      BY <1>2, RunsAssumption
<1>5. Price[m] * result.usage \in Nat /\ Price[m] * result.usage <= MaxPrice * MaxIterations
      BY <1>3, <1>4, ProductsGrow, RunsAssumption
<1>6. MaxPrice * MaxIterations = MaxIterations * MaxPrice
      BY RunsAssumption
<1> QED
    BY <1>2, <1>5, <1>6 DEF Cost, RunCost, m

\* No chain of agents is longer than seven.
LEMMA ChainIsShort ==
  ASSUME NEW role \in Role, NEW job, NEW success, NEW next \in After(role, job, success)
  PROVE  /\ CostBefore(role) + RunCost <= TickCost
         /\ next # None => next \in Role /\ CostBefore(role) + RunCost <= CostBefore(next)
         /\ CostBefore(role) \in Nat
<1> DEFINE c == RunCost
<1>0. c \in Nat
      BY CostsAreNat
<1> HIDE DEF c
<1>1. CostBefore(role) + c <= 7 * c /\ CostBefore(role) \in Nat
      BY <1>0 DEF CostBefore, c
<1>2. ASSUME next # None
      PROVE  next \in Role /\ CostBefore(role) + c <= CostBefore(next)
  <2>1. CASE role = "ceo"
        BY <1>0, <1>2, <2>1 DEF After, CostBefore, Role, c
  <2>2. CASE role = "architect"
        BY <1>0, <1>2, <2>2 DEF After, CostBefore, Role, c
  <2>3. CASE role = "builder"
        BY <1>0, <1>2, <2>3 DEF After, CostBefore, Role, c
  <2>4. CASE role = "qa"
        BY <1>0, <1>2, <2>4 DEF After, CostBefore, Role, c
  <2>5. CASE role = "reviewer"
        BY <1>0, <1>2, <2>5 DEF After, CostBefore, Role, c
  <2>6. CASE role = "security"
        BY <1>0, <1>2, <2>6 DEF After, CostBefore, Role, c
  <2>7. CASE role = "memory"
        BY <1>0, <1>2, <2>7 DEF After, CostBefore, Role, c
  <2>8. CASE role \in {"planner", "devops"}
        BY <1>2, <2>8 DEF After
  <2> QED
      BY <2>1, <2>2, <2>3, <2>4, <2>5, <2>6, <2>7, <2>8 DEF Role
<1> QED
    BY <1>1, <1>2 DEF TickCost, c

-----------------------------------------------------------------------------
LEMMA RunsInit == Init => RunsInv
<1> SUFFICES ASSUME Init PROVE RunsInv
    OBVIOUS
<1>1. RunsTyped
      BY RunsAssumption DEF Init, RunsTyped, Idle, TickRow, Role
<1>2. \A a \in Tick : Charged(tick[a])
      BY CostsAreNat DEF Init, Charged, Idle
<1>3. Covered
  <2>1. Open = {}
        BY DEF Init, Open, Idle
  <2>2. Cardinality(Open) = 0 /\ Cardinality(Tick) \in Nat
        BY <2>1, FS_EmptySet, FS_CardinalityType, RunsAssumption
  <2> DEFINE whole == Cardinality(Tick) * TickCost
  <2>3. whole \in Nat /\ Cardinality(Open) * TickCost = 0 /\ requested * RunCost = 0
        BY <2>2, CostsAreNat DEF Init
  <2> HIDE DEF whole
  <2>4. 0 + 0 <= Cap + whole + 0
        BY <2>3, RunsAssumption
  <2> QED
      BY <2>3, <2>4 DEF Covered, whole, Init
<1>4. PinnedModels
      BY DEF Init, PinnedModels
<1> QED
    BY <1>1, <1>2, <1>3, <1>4 DEF RunsInv

-----------------------------------------------------------------------------
(* Steps of one tick.                                                       *)

\* Nobody opens a tick or spends anything.
LEMMA StaysCovered ==
  ASSUME RunsInv, UNCHANGED <<ledger, requested>>, Open' \subseteq Open
  PROVE  Covered'
<1>1. /\ Open \subseteq Tick /\ IsFiniteSet(Open) /\ IsFiniteSet(Open')
      /\ Cardinality(Open) \in Nat /\ Cardinality(Open') \in Nat
      /\ Cardinality(Open') <= Cardinality(Open)
      BY FS_Subset, FS_CardinalityType, RunsAssumption DEF Open
<1> DEFINE a == Cardinality(Open') * TickCost
           b == Cardinality(Open) * TickCost
           t == Cardinality(Tick) * TickCost
           r == requested * RunCost
<1>2. a \in Nat /\ b \in Nat /\ a <= b
      BY <1>1, ProductsGrow, CostsAreNat
<1>3. Cardinality(Tick) \in Nat
      BY FS_CardinalityType, RunsAssumption
<1>4. t \in Nat /\ r \in Nat /\ ledger \in Nat /\ Cap \in Nat
      BY <1>3, CostsAreNat, ProductsGrow, RunsAssumption DEF RunsInv, RunsTyped
<1>5. Cap > 0 => ledger + b <= Cap + t + r
      BY DEF RunsInv, Covered
<1> HIDE DEF a, b, t, r
<1>6. Cap > 0 => ledger + a <= Cap + t + r
      BY <1>2, <1>4, <1>5
<1> QED
    BY <1>6 DEF Covered, a, t, r

\* One tick that is open goes on, or ends without an entry.
LEMMA TickGoesOn ==
  ASSUME RunsInv, NEW a \in Tick, NEW t \in TickRow, Charged(t),
         tick' = [tick EXCEPT ![a] = t], tick[a].pc = "idle" => t.pc = "idle",
         UNCHANGED <<ledger, requested>>,
         model' \in [Role -> Model \cup {None}], PinnedModels'
  PROVE  RunsInv'
<1>1. RunsTyped'
      BY DEF RunsInv, RunsTyped
<1>2. \A b \in Tick : Charged(tick'[b])
      BY DEF RunsInv, RunsTyped
<1>3. Open' \subseteq Open
      BY DEF RunsInv, RunsTyped, Open
<1> QED
    BY <1>1, <1>2, <1>3, StaysCovered DEF RunsInv, Charged

LEMMA BeginRuns ==
  ASSUME RunsInv, NEW a \in Tick, NEW job \in Job \cup {PlanningJob}, Begin(a, job)
  PROVE  RunsInv'
<1> DEFINE t == [Idle EXCEPT !.pc = "next", !.job = job, !.role = FirstRole(job)]
<1>1. /\ tick' = [tick EXCEPT ![a] = t] /\ tick[a].pc = "idle" /\ ~OverCap
      /\ UNCHANGED <<ledger, model, requested>>
      BY DEF Begin
<1>2. FirstRole(job) \in {"ceo", "architect", "builder"}
      BY DEF FirstRole
<1>3. t \in TickRow /\ t.pc = "next"
      BY <1>2 DEF Idle, TickRow, Role
<1>4. Charged(t)
      BY <1>2, CostsAreNat DEF Idle, Charged, CostBefore, TickCost
<1>5. RunsTyped' /\ PinnedModels'
      BY <1>1, <1>3 DEF RunsInv, RunsTyped, PinnedModels
<1>6. \A b \in Tick : Charged(tick'[b])
      BY <1>1, <1>3, <1>4 DEF RunsInv, RunsTyped
<1>7. Covered'
  <2>1. /\ Cardinality(Open') \in Nat /\ Cardinality(Tick) \in Nat
        /\ Cardinality(Open') <= Cardinality(Tick)
        BY FS_Subset, FS_CardinalityType, RunsAssumption DEF Open
  <2> DEFINE o == Cardinality(Open') * TickCost
             w == Cardinality(Tick) * TickCost
             r == requested * RunCost
  <2>2. o \in Nat /\ w \in Nat /\ o <= w /\ r \in Nat /\ ledger \in Nat /\ Cap \in Nat
        BY <2>1, ProductsGrow, CostsAreNat, RunsAssumption DEF RunsInv, RunsTyped
  <2>3. Cap > 0 => ledger < Cap
        BY <1>1, <2>2 DEF OverCap
  <2> HIDE DEF o, w, r
  <2>4. Cap > 0 => ledger + o <= Cap + w + r
        BY <2>2, <2>3
  <2> QED
      BY <1>1, <2>4 DEF Covered, o, w, r
<1> QED
    BY <1>5, <1>6, <1>7 DEF RunsInv, Charged

LEMMA AgentRunsOn ==
  ASSUME RunsInv, NEW a \in Tick, StartAgent(a) \/ FinishAgent(a) \/ Raise(a)
  PROVE  RunsInv'
<1>0. /\ tick[a] \in TickRow /\ tick \in [Tick -> TickRow] /\ Charged(tick[a])
      /\ model \in [Role -> Model \cup {None}] /\ PinnedModels
      BY DEF RunsInv, RunsTyped
<1>1. CASE StartAgent(a)
  <2> DEFINE role == tick[a].role
             t == [tick[a] EXCEPT !.pc = "running", !.using = model'[role]]
  <2>1. /\ tick' = [tick EXCEPT ![a] = t] /\ tick[a].pc = "next" /\ UNCHANGED <<ledger, requested>>
        /\ model' = IF model[role] = None
                    THEN [model EXCEPT ![role] = Routed(role, tick[a].job)] ELSE model
        /\ role \in Role
        BY <1>0, <1>1 DEF StartAgent, TickRow
  <2>2. Routed(role, tick[a].job) \in Model
    <3>1. \E result : result \in Reported
          BY RunsAssumption DEF Reported, Exhausted
    <3> QED
        BY <2>1, <3>1, RunIsBounded
  <2>3. model' \in [Role -> Model \cup {None}]
        BY <1>0, <2>1, <2>2
  <2>4. PinnedModels'
        BY <1>0, <2>1 DEF PinnedModels
  <2>5. t \in TickRow
        BY <1>0, <2>1, <2>3 DEF TickRow
  <2>6. Charged(t)
        BY <1>0, <2>1 DEF Charged, TickRow
  <2> HIDE DEF t
  <2> QED
      BY <2>1, <2>3, <2>4, <2>5, <2>6, TickGoesOn
<1>2. CASE FinishAgent(a)
  <2> DEFINE role == tick[a].role
             job == tick[a].job
  <2>a. PICK result \in Reported : \E next \in After(role, job, result.status = "succeeded") :
          tick' = [tick EXCEPT ![a] =
             [tick[a] EXCEPT !.pending = @ + Cost(Routed(role, job), result.usage),
                             !.using = None,
                             !.pc = IF next = None THEN "settled" ELSE "next",
                             !.role = IF next = None THEN @ ELSE next]]
        BY <1>2 DEF FinishAgent
  <2>1. PICK next \in After(role, job, result.status = "succeeded") :
          tick' = [tick EXCEPT ![a] =
             [tick[a] EXCEPT !.pending = @ + Cost(Routed(role, job), result.usage),
                             !.using = None,
                             !.pc = IF next = None THEN "settled" ELSE "next",
                             !.role = IF next = None THEN @ ELSE next]]
        BY <2>a
  <2>2. tick[a].pc = "running" /\ UNCHANGED <<ledger, requested, model>> /\ role \in Role
        BY <1>0, <1>2 DEF FinishAgent, TickRow
  <2> DEFINE cost == Cost(Routed(role, job), result.usage)
             t == [tick[a] EXCEPT !.pending = @ + cost, !.using = None,
                                  !.pc = IF next = None THEN "settled" ELSE "next",
                                  !.role = IF next = None THEN @ ELSE next]
  <2>3. cost \in Nat /\ cost <= RunCost
        BY <2>2, RunIsBounded
  <2>4. /\ CostBefore(role) + RunCost <= TickCost /\ CostBefore(role) \in Nat
        /\ next # None => next \in Role /\ CostBefore(role) + RunCost <= CostBefore(next)
        BY <2>2, ChainIsShort
  <2>5. tick' = [tick EXCEPT ![a] = t]
        BY <2>1
  <2> HIDE DEF cost
  <2>6. t \in TickRow
    <3>1. tick[a].pending + cost \in Nat
          BY <1>0, <2>3 DEF TickRow
    <3>2. CASE next = None
          BY <1>0, <3>1, <3>2 DEF TickRow
    <3>3. CASE next # None
          BY <1>0, <2>4, <3>1, <3>3 DEF TickRow
    <3> QED
        BY <3>2, <3>3
  <2>7. /\ t.pending = tick[a].pending + cost
        /\ next = None => t.pc = "settled"
        /\ next # None => t.pc = "next" /\ t.role = next
    <3>1. t.pending = tick[a].pending + cost
          BY <1>0 DEF TickRow
    <3>2. CASE next = None
          BY <1>0, <3>1, <3>2 DEF TickRow
    <3>3. CASE next # None
          BY <1>0, <3>1, <3>3 DEF TickRow
    <3> QED
        BY <3>2, <3>3
  <2>8. Charged(t)
    <3>1. tick[a].pending \in Nat /\ tick[a].pending <= CostBefore(role)
          BY <1>0, <2>2 DEF Charged, TickRow
    <3>2. t.pending <= CostBefore(role) + RunCost
          BY <2>3, <2>4, <2>7, <3>1, CostsAreNat
    <3>3. t.pending <= TickCost
          BY <2>3, <2>4, <2>7, <3>1, <3>2, CostsAreNat
    <3>4. CASE next = None
          BY <2>7, <3>3, <3>4 DEF Charged
    <3>5. CASE next # None
      <4>1. CostBefore(next) \in Nat
            BY CostsAreNat DEF CostBefore
      <4>2. t.pending <= CostBefore(next)
            BY <2>3, <2>4, <2>7, <3>1, <3>2, <3>5, <4>1, CostsAreNat
      <4> QED
          BY <2>7, <3>3, <3>5, <4>2 DEF Charged
    <3> QED
        BY <3>4, <3>5
  <2> HIDE DEF t
  <2>9. PinnedModels'
        BY <1>0, <2>2 DEF PinnedModels
  <2> QED
      BY <1>0, <2>2, <2>5, <2>6, <2>8, <2>9, TickGoesOn
<1>3. CASE Raise(a)
  <2> DEFINE t == [tick[a] EXCEPT !.pc = "settled", !.using = None, !.raised = TRUE]
  <2>1. /\ tick' = [tick EXCEPT ![a] = t] /\ tick[a].pc # "idle"
        /\ UNCHANGED <<ledger, requested, model>>
        BY <1>3 DEF Raise
  <2>2. t \in TickRow /\ Charged(t)
        BY <1>0 DEF TickRow, Charged
  <2>3. PinnedModels'
        BY <1>0, <2>1 DEF PinnedModels
  <2> QED
      BY <1>0, <2>1, <2>2, <2>3, TickGoesOn
<1> QED
    BY <1>1, <1>2, <1>3

LEMMA IdleRow == Idle \in TickRow /\ Charged(Idle)
  BY CostsAreNat DEF Idle, TickRow, Charged, Role

LEMMA CommitRuns ==
  ASSUME RunsInv, NEW a \in Tick, Commit(a)
  PROVE  RunsInv'
<1>0. /\ tick' = [tick EXCEPT ![a] = Idle] /\ tick \in [Tick -> TickRow]
      /\ tick[a] \in TickRow /\ tick[a].pc # "idle" /\ Charged(tick[a])
      /\ ledger' = ledger + tick[a].pending /\ UNCHANGED <<model, requested>>
      /\ ledger \in Nat /\ requested \in Nat
      BY DEF Commit, RunsInv, RunsTyped
<1>1. tick[a].pending \in Nat /\ tick[a].pending <= TickCost
      BY <1>0 DEF TickRow, Charged
<1>2. RunsTyped' /\ PinnedModels'
      BY <1>0, <1>1, IdleRow DEF RunsInv, RunsTyped, PinnedModels
<1>3. \A b \in Tick : Charged(tick'[b])
      BY <1>0, IdleRow DEF RunsInv
<1>4. Covered'
  <2>1. Open' = Open \ {a} /\ a \in Open /\ Open \subseteq Tick
        BY <1>0 DEF Open, Idle
  <2>2. IsFiniteSet(Open) /\ Cardinality(Open) \in Nat /\ Cardinality(Tick) \in Nat
        BY <2>1, FS_Subset, FS_CardinalityType, RunsAssumption
  <2>3. Cardinality(Open') = Cardinality(Open) - 1
        BY <2>1, <2>2, FS_RemoveElement
  <2>4. Cardinality(Open') \in Nat
        BY <2>1, <2>2, FS_RemoveElement, FS_CardinalityType
  <2> DEFINE n == Cardinality(Open')
             o == n * TickCost
             w == Cardinality(Tick) * TickCost
             r == requested * RunCost
  <2>5. Cardinality(Open) = n + 1 /\ n \in Nat
        BY <2>2, <2>3, <2>4
  <2>6. Cardinality(Open) * TickCost = o + TickCost /\ o \in Nat
        BY <2>5, OneMoreTime, CostsAreNat
  <2>7. w \in Nat /\ r \in Nat /\ Cap \in Nat
        BY <1>0, <2>2, ProductsGrow, CostsAreNat, RunsAssumption
  <2>8. Cap > 0 => ledger + Cardinality(Open) * TickCost <= Cap + w + r
        BY DEF RunsInv, Covered
  <2>9. Cap > 0 => ledger + (o + TickCost) <= Cap + w + r
        BY <2>6, <2>8
  <2> HIDE DEF o, w, r
  <2>10. Cap > 0 => ledger' + o <= Cap + w + r
        BY <1>0, <1>1, <2>6, <2>7, <2>9, CostsAreNat
  <2> QED
      BY <1>0, <2>10 DEF Covered, o, w, r
<1> QED
    BY <1>2, <1>3, <1>4 DEF RunsInv, Charged

LEMMA RequestRuns ==
  ASSUME RunsInv, NEW n \in 1 .. 2, NEW spent \in Nat, spent <= n * RunCost,
         ledger' = ledger + spent, requested' = requested + n, UNCHANGED <<model, tick>>
  PROVE  RunsInv'
<1>0. ledger \in Nat /\ requested \in Nat
      BY DEF RunsInv, RunsTyped
<1>1. RunsTyped' /\ PinnedModels' /\ \A b \in Tick : Charged(tick'[b])
      BY <1>0 DEF RunsInv, RunsTyped, PinnedModels
<1>2. Open' = Open /\ Cardinality(Open) \in Nat /\ Cardinality(Tick) \in Nat
      BY FS_Subset, FS_CardinalityType, RunsAssumption DEF Open
<1> DEFINE o == Cardinality(Open) * TickCost
           w == Cardinality(Tick) * TickCost
           r == requested * RunCost
           c == RunCost
<1>3. o \in Nat /\ w \in Nat /\ r \in Nat /\ c \in Nat /\ Cap \in Nat
      BY <1>0, <1>2, ProductsGrow, CostsAreNat, RunsAssumption
<1>4. requested' * RunCost = r + n * c
  <2>1. CASE n = 1
        BY <1>0, <2>1, OneMoreTime, CostsAreNat
  <2>2. CASE n = 2
    <3>1. (requested + 1) * RunCost = r + c
          BY <1>0, OneMoreTime, CostsAreNat
    <3>2. ((requested + 1) + 1) * RunCost = (requested + 1) * RunCost + c
          BY <1>0, OneMoreTime, CostsAreNat
    <3>3. (requested + 1) + 1 = requested'
          BY <1>0, <2>2
    <3>4. n * c = c + c
          BY <1>3, <2>2
    <3> HIDE DEF r, c
    <3> QED
        BY <1>3, <3>1, <3>2, <3>3, <3>4
  <2> QED
      BY <2>1, <2>2
<1>5. Cap > 0 => ledger + o <= Cap + w + r
      BY DEF RunsInv, Covered
<1>6. spent <= n * c /\ n * c \in Nat
      BY <1>3, ProductsGrow
<1> DEFINE x == n * c
<1>7. x \in Nat /\ spent <= x /\ requested' * RunCost = r + x
      BY <1>4, <1>6
<1> HIDE DEF o, w, r, c, x
<1>8. Cap > 0 => ledger' + o <= Cap + w + (r + x)
      BY <1>0, <1>3, <1>5, <1>7
<1>9. Covered'
      BY <1>2, <1>7, <1>8 DEF Covered, o, w
<1> QED
    BY <1>1, <1>9 DEF RunsInv, Charged

LEMMA HumanRuns ==
  ASSUME RunsInv, PlanRequest \/ \E job \in Job : ApproveMerge(job)
  PROVE  RunsInv'
<1>0. ledger \in Nat /\ RunCost \in Nat /\ {"ceo", "planner", "devops"} \subseteq Role
      BY CostsAreNat DEF RunsInv, RunsTyped, Role
<1>1. ASSUME NEW job \in Job, ApproveMerge(job) PROVE RunsInv'
  <2>1. PICK result \in Reported : ledger' = ledger + Cost(Routed("devops", job), result.usage)
        BY <1>1 DEF ApproveMerge
  <2> DEFINE spent == Cost(Routed("devops", job), result.usage)
  <2>2. spent \in Nat /\ spent <= RunCost
        BY <1>0, RunIsBounded
  <2>3. requested' = requested + 1 /\ UNCHANGED <<model, tick>> /\ ledger' = ledger + spent
        BY <1>1, <2>1 DEF ApproveMerge
  <2> HIDE DEF spent
  <2>4. spent <= 1 * RunCost
        BY <1>0, <2>2
  <2> QED
      BY <2>2, <2>3, <2>4, RequestRuns
<1>2. CASE PlanRequest
  <2>1. PICK ceo \in Reported, planner \in Reported :
          ledger' = ledger + Cost(Routed("ceo", PlanningJob), ceo.usage)
                           + Cost(Routed("planner", PlanningJob), planner.usage)
        BY <1>2 DEF PlanRequest
  <2> DEFINE x == Cost(Routed("ceo", PlanningJob), ceo.usage)
             y == Cost(Routed("planner", PlanningJob), planner.usage)
  <2>2. x \in Nat /\ x <= RunCost /\ y \in Nat /\ y <= RunCost
        BY <1>0, RunIsBounded
  <2>3. requested' = requested + 2 /\ UNCHANGED <<model, tick>> /\ ledger' = ledger + x + y
        BY <1>2, <2>1 DEF PlanRequest
  <2> HIDE DEF x, y
  <2>4. x + y \in Nat /\ x + y <= 2 * RunCost /\ ledger' = ledger + (x + y)
        BY <1>0, <2>2, <2>3
  <2> QED
      BY <2>3, <2>4, RequestRuns
<1> QED
    BY <1>1, <1>2

LEMMA RunsStep == RunsInv /\ [Next]_vars => RunsInv'
<1> SUFFICES ASSUME RunsInv, [Next]_vars PROVE RunsInv'
    OBVIOUS
<1>0. tick \in [Tick -> TickRow] /\ model \in [Role -> Model \cup {None}] /\ PinnedModels
      BY DEF RunsInv, RunsTyped
<1>s. ASSUME UNCHANGED <<ledger, model, tick, requested>> PROVE RunsInv'
  <2>1. Covered'
        BY <1>s, StaysCovered DEF Open
  <2> QED
      BY <1>s, <2>1 DEF RunsInv, RunsTyped, Charged, PinnedModels
<1>1. ASSUME NEW a \in Tick, TickStep(a) \/ Raise(a) PROVE RunsInv'
  <2>1. CASE BudgetHalt(a)
        BY <1>s, <2>1 DEF BudgetHalt
  <2> QED
      BY <1>1, <2>1, BeginRuns, AgentRunsOn, CommitRuns DEF TickStep
<1>2. ASSUME NEW a \in Tick, RollBack(a) PROVE RunsInv'
  <2>1. tick' = [tick EXCEPT ![a] = Idle] /\ UNCHANGED <<ledger, model, requested>>
        BY <1>2 DEF RollBack
  <2>2. Idle.pc = "idle" /\ PinnedModels'
        BY <1>0, <2>1 DEF Idle, PinnedModels
  <2> QED
      BY <1>0, <2>1, <2>2, IdleRow, TickGoesOn
<1>3. CASE CrashRestart
  <2>1. tick' = [a \in Tick |-> Idle] /\ model' = Pin /\ UNCHANGED <<ledger, requested>>
        BY <1>3 DEF CrashRestart
  <2>2. RunsTyped' /\ PinnedModels' /\ \A b \in Tick : Charged(tick'[b])
        BY <2>1, IdleRow, RunsAssumption DEF RunsInv, RunsTyped, PinnedModels
  <2>3. Open' = {}
        BY <2>1 DEF Open, Idle
  <2>4. Covered'
        BY <2>1, <2>3, StaysCovered
  <2> QED
      BY <2>2, <2>4 DEF RunsInv, Charged
<1>4. ASSUME NEW new \in {"active", "paused"}, SetStatus(new) PROVE RunsInv'
      BY <1>4, <1>s DEF SetStatus
<1>5. CASE UNCHANGED vars
      BY <1>5, <1>s DEF vars
<1> QED
    BY <1>1, <1>2, <1>3, <1>4, <1>5, HumanRuns DEF Next

LEMMA RunsCorrect == Spec => []RunsInv
  BY RunsInit, RunsStep, PTL DEF Spec

(* The cap is exceeded by one tick of every coroutine at the most, and by what *)
(* humans requested: however ticks overlap, fail, crash and commit late,     *)
(* _budget_exceeded reads enough of the ledger (execute_task, _run_agent).   *)
THEOREM SpendBoundedHolds == Spec => []SpendBounded
<1>1. RunsInv => SpendBounded
  <2> SUFFICES ASSUME RunsInv, Cap > 0
               PROVE  ledger <= Cap + Cardinality(Tick) * MaxRuns * RunCost + requested * RunCost
      BY DEF SpendBounded
  <2>1. Cardinality(Open) \in Nat /\ Cardinality(Tick) \in Nat
        BY FS_Subset, FS_CardinalityType, RunsAssumption DEF Open
  <2> DEFINE o == Cardinality(Open) * TickCost
             w == Cardinality(Tick) * TickCost
             r == requested * RunCost
  <2>2. o \in Nat /\ w \in Nat /\ r \in Nat /\ Cap \in Nat /\ ledger \in Nat
        BY <2>1, ProductsGrow, CostsAreNat, RunsAssumption DEF RunsInv, RunsTyped
  <2>3. ledger + o <= Cap + w + r
        BY DEF RunsInv, Covered
  <2>4. Cardinality(Tick) * MaxRuns * RunCost = w
        BY <2>1, CostsAreNat DEF MaxRuns, TickCost
  <2> HIDE DEF o, w, r
  <2>5. ledger <= Cap + w + r
        BY <2>2, <2>3
  <2> QED
      BY <2>4, <2>5 DEF r
<1> QED
    BY RunsCorrect, <1>1, PTL

(* The shared agent of a role that declares its model is never left with        *)
(* another one by the routing of some task (_with_model, _run_agent).         *)
THEOREM PinnedModelsHolds == Spec => []PinnedModels
<1>1. RunsInv => PinnedModels
      BY DEF RunsInv
<1> QED
    BY RunsCorrect, <1>1, PTL

-----------------------------------------------------------------------------
(* Incidents.  What an incident's row says of its recovery is true for      *)
(* every number of retries.  The invariant follows the session: as long as  *)
(* it can flush, the status in memory is what really happened; nothing is   *)
(* in the database before the caller closes the transaction.                *)

\* The outcome `outcome` is what the actions did.
Truthful(outcome) ==
  /\ outcome = "recovered" => fault = "fixed"
  /\ outcome = "rolled_back" => fault = "reverted" /\ attempts = MaxRetries
  /\ outcome = "escalated" => fault = "present" /\ attempts = MaxRetries
  /\ outcome = "diagnosing" => fault = "present" /\ attempts = 0

\* Nothing but the opening is saved before the end.
SavedAtEnd == at # "closed" => saved = "open"

\* A session that can flush has seen no success yet ...
NothingFixedYet ==
  at \in {"none", "open", "retrying", "rolling_back", "escalating"} /\ usable => fault = "present"

\* ... and nothing was attempted before the diagnosis.
FreshAtFirst == at \in {"none", "open"} => attempts = 0 /\ usable /\ status = "open"

\* Without success the retries were all used up.
RetriesUsed == at \in {"rolling_back", "escalating"} => attempts = MaxRetries

\* The status that a usable session hands to its caller is true.
OutcomeTruthful == at \in {"returned", "raised"} /\ usable => Truthful(status)

IncidentsInv ==
  /\ IncidentsTypeOK /\ SavedAtEnd /\ NothingFixedYet /\ FreshAtFirst /\ RetriesUsed
  /\ OutcomeTruthful /\ SavedOutcomeIsTrue

LEMMA IncidentsInvInit == IncidentsInit => IncidentsInv
<1> SUFFICES ASSUME IncidentsInit PROVE IncidentsInv
  OBVIOUS
<1>0. revertible \in BOOLEAN /\ usable \in BOOLEAN
  BY Zenon DEF IncidentsInit
<1>1. IncidentsTypeOK
  BY <1>0, IncidentsAssumption DEF IncidentsInit, IncidentsTypeOK, Status
<1>2. SavedAtEnd /\ NothingFixedYet /\ FreshAtFirst
  BY DEF IncidentsInit, SavedAtEnd, NothingFixedYet, FreshAtFirst
<1>3. RetriesUsed /\ OutcomeTruthful /\ SavedOutcomeIsTrue
  BY DEF IncidentsInit, RetriesUsed, OutcomeTruthful, SavedOutcomeIsTrue
<1> QED
  BY <1>1, <1>2, <1>3 DEF IncidentsInv

LEMMA IncidentsInvNext == IncidentsInv /\ [IncidentsNext]_incidentVars => IncidentsInv'
<1> SUFFICES ASSUME IncidentsInv, [IncidentsNext]_incidentVars PROVE IncidentsInv'
  OBVIOUS
<1> USE IncidentsAssumption
    DEF IncidentsInv, IncidentsTypeOK, Status, SavedAtEnd, NothingFixedYet, FreshAtFirst,
        RetriesUsed, OutcomeTruthful, SavedOutcomeIsTrue, Truthful
<1>1. CASE OpenIncident
  BY <1>1 DEF OpenIncident
<1>2. CASE Diagnose
  <2>1. \/ usable = TRUE /\ at' = "retrying" /\ usable' = TRUE
        \/ usable' = FALSE /\ at' = "raised"
        \/ usable' = usable /\ at' = "raised"
    BY <1>2 DEF Diagnose, Flush
  <2> QED
    BY <1>2, <2>1 DEF Diagnose
<1>3. CASE RetryFails
  BY <1>3 DEF RetryFails
<1>4. CASE RetrySucceeds
  <2>1. (usable = TRUE /\ at' = "returned" /\ usable' = TRUE) \/ (usable' = FALSE /\ at' = "raised")
    BY <1>4 DEF RetrySucceeds, Flush
  <2>2. /\ at = "retrying" /\ attempts < MaxRetries /\ attempts' = attempts + 1
        /\ fault' = "fixed" /\ status' = "recovered" /\ saved' = saved
        /\ revertible' = revertible
    BY <1>4 DEF RetrySucceeds
  <2>3. usable' \in BOOLEAN /\ at' \in {"returned", "raised"}
    BY <2>1
  <2>4. attempts' \in 0 .. MaxRetries
    BY <2>2
  <2>5. saved = "open"
    BY <2>2
  <2>6. IncidentsTypeOK'
    BY <2>2, <2>3, <2>4
  <2>7. SavedAtEnd' /\ SavedOutcomeIsTrue'
    BY <2>2, <2>3, <2>5
  <2>8. NothingFixedYet' /\ FreshAtFirst' /\ RetriesUsed' /\ OutcomeTruthful'
    BY <2>1, <2>2
  <2> QED
    BY <2>6, <2>7, <2>8
<1>5. CASE RetriesExhausted
  BY <1>5 DEF RetriesExhausted
<1>6. CASE RollbackFails
  BY <1>6 DEF RollbackFails
<1>7. CASE RollbackSucceeds
  <2>1. (usable = TRUE /\ at' = "returned" /\ usable' = TRUE) \/ (usable' = FALSE /\ at' = "raised")
    BY <1>7 DEF RollbackSucceeds, Flush
  <2> QED
    BY <1>7, <2>1 DEF RollbackSucceeds
<1>8. CASE Escalate
  <2>1. (usable = TRUE /\ at' = "returned" /\ usable' = TRUE) \/ (usable' = FALSE /\ at' = "raised")
    BY <1>8 DEF Escalate, Flush
  <2> QED
    BY <1>8, <2>1 DEF Escalate
<1>9. CASE Close
  BY <1>9 DEF Close
<1>10. CASE UNCHANGED incidentVars
  BY <1>10 DEF incidentVars
<1> QED
  BY <1>1, <1>2, <1>3, <1>4, <1>5, <1>6, <1>7, <1>8, <1>9, <1>10 DEF IncidentsNext

LEMMA IncidentsInvHolds == IncidentsSpec => []IncidentsInv
  BY IncidentsInvInit, IncidentsInvNext, PTL DEF IncidentsSpec

\* The incident's fields stay in range: never more attempts than retries
\* (FailureRecovery.recover).
THEOREM IncidentsTypeCorrect == IncidentsSpec => []IncidentsTypeOK
<1>1. IncidentsInv => IncidentsTypeOK
  BY DEF IncidentsInv
<1> QED
  BY <1>1, IncidentsInvHolds, PTL

\* The outcome in the database is what recover's actions really did, whichever
\* of them raised, returned False or failed to flush, and however the caller
\* ended the transaction.
THEOREM SavedOutcomeHolds == IncidentsSpec => []SavedOutcomeIsTrue
<1>1. IncidentsInv => SavedOutcomeIsTrue
  BY DEF IncidentsInv
<1> QED
  BY <1>1, IncidentsInvHolds, PTL

-----------------------------------------------------------------------------
(* Upkeep.  A flag that is up is paid for and not yet served: by the request *)
(* that raised it, or by the exception that left it up.  Without it a survey  *)
(* does not run.                                                             *)

Queued == {q \in Asker : asker[q] = "queued"}
Paid == Cardinality(Queued) + upkeepFaults

UpkeepTyped ==
  /\ linked \in BOOLEAN /\ flag \in BOOLEAN /\ backlog \in Nat /\ upkeepFaults \in Nat
  /\ asker \in [Asker -> {"idle", "saw_true", "saw_false", "queued"}]
  /\ upkeep \in {"idle", "saw_true", "saw_false", "surveying"}

\* Only a project without a repository is surveyed, and nothing but a survey
\* takes its flag down.
SurveysServeFlag ==
  /\ linked \/ analysis = "done"
  /\ upkeep = "saw_true" => linked \/ flag
  /\ upkeep = "surveying" => flag

\* b tasks are paid for by k requests and faults; if the flag is up, so is one
\* more survey.
Covers(k, b, up) == b <= MaxTasks * k /\ (up => b + MaxTasks <= MaxTasks * k)

BacklogPaid == IF linked THEN backlog = 0 ELSE Covers(Paid, backlog, flag)

NoSurveyIfLinked == linked => upkeep # "surveying"

UpkeepInv == UpkeepTyped /\ SurveysServeFlag /\ NoSurveyIfLinked /\ BacklogPaid

\* What a request or a fault pays, and what a survey costs.
LEMMA OneMorePays ==
  ASSUME NEW k \in Nat, NEW b \in Nat, NEW up \in BOOLEAN, Covers(k, b, up)
  PROVE  /\ Covers(k, b, FALSE) /\ Covers(k + 1, b, TRUE)
         /\ up => \A n \in 0 .. MaxTasks : Covers(k, b + n, FALSE) /\ Covers(k + 1, b + n, TRUE)
<1> DEFINE a == MaxTasks * k
<1>1. a \in Nat /\ MaxTasks * (k + 1) = a + MaxTasks /\ MaxTasks \in Nat
  BY UpkeepAssumption
<1>2. b <= a /\ (up => b + MaxTasks <= a)
  BY DEF Covers
<1>3. Covers(k, b, FALSE)
  BY <1>2 DEF Covers
<1> HIDE DEF a
<1>4. b <= a + MaxTasks /\ b + MaxTasks <= a + MaxTasks
  BY <1>1, <1>2
<1>5. Covers(k + 1, b, TRUE)
  BY <1>1, <1>4 DEF Covers
<1>6. ASSUME up, NEW n \in 0 .. MaxTasks
      PROVE  Covers(k, b + n, FALSE) /\ Covers(k + 1, b + n, TRUE)
  <2>1. b + n <= a /\ b + n <= a + MaxTasks /\ (b + n) + MaxTasks <= a + MaxTasks
    BY <1>1, <1>2, <1>6
  <2>2. Covers(k, b + n, FALSE)
    BY <2>1 DEF Covers, a
  <2>3. Covers(k + 1, b + n, TRUE)
    BY <1>1, <2>1 DEF Covers
  <2> QED
    BY <2>2, <2>3
<1> QED
  BY <1>3, <1>5, <1>6

LEMMA PaidIsNat ==
  ASSUME UpkeepInv
  PROVE  IsFiniteSet(Queued) /\ Cardinality(Queued) \in Nat /\ Paid \in Nat
<1>1. IsFiniteSet(Queued)
  BY UpkeepAssumption, FS_Subset DEF Queued
<1>2. Cardinality(Queued) \in Nat
  BY <1>1, FS_CardinalityType
<1> QED
  BY <1>1, <1>2 DEF Paid, UpkeepInv, UpkeepTyped

LEMMA UpkeepInvInit == UpkeepInit => UpkeepInv
<1> SUFFICES ASSUME UpkeepInit PROVE UpkeepInv
  OBVIOUS
<1>0. linked \in BOOLEAN
  BY Zenon DEF UpkeepInit
<1>1. UpkeepTyped
  BY <1>0 DEF UpkeepInit, UpkeepTyped
<1>2. SurveysServeFlag /\ NoSurveyIfLinked
  BY DEF UpkeepInit, SurveysServeFlag, NoSurveyIfLinked
<1>3. Queued = {} /\ backlog = 0 /\ flag = FALSE /\ upkeepFaults = 0
  BY DEF UpkeepInit, Queued
<1>4. Paid = 0
  BY <1>3, FS_EmptySet DEF Paid
<1>5. Covers(0, 0, FALSE)
  BY UpkeepAssumption DEF Covers
<1>7. BacklogPaid
  BY <1>3, <1>4, <1>5 DEF BacklogPaid
<1> QED
  BY <1>1, <1>2, <1>7 DEF UpkeepInv

\* Steps that leave the backlog, the answered requests and the flag as they are,
\* with or without a fault.
LEMMA QuietKeeps ==
  ASSUME UpkeepInv, UNCHANGED <<linked, flag, backlog>>, Queued' = Queued,
         UpkeepTyped', SurveysServeFlag', NoSurveyIfLinked',
         upkeepFaults' = upkeepFaults \/ upkeepFaults' = upkeepFaults + 1
  PROVE  UpkeepInv'
<1>1. Paid \in Nat /\ (Paid' = Paid \/ Paid' = Paid + 1)
  <2>1. Cardinality(Queued) \in Nat /\ upkeepFaults \in Nat /\ Cardinality(Queued') = Cardinality(Queued)
    BY PaidIsNat DEF UpkeepInv, UpkeepTyped
  <2> QED
    BY <2>1 DEF Paid
<1>2. CASE linked
  <2>1. BacklogPaid'
    BY <1>2, Zenon DEF UpkeepInv, BacklogPaid
  <2> QED
    BY <2>1 DEF UpkeepInv
<1>3. CASE ~linked
  <2>1. Covers(Paid, backlog, flag) /\ flag \in BOOLEAN /\ backlog \in Nat
    BY <1>3 DEF UpkeepInv, BacklogPaid, UpkeepTyped
  <2>2. Covers(Paid + 1, backlog, TRUE)
    BY <1>1, <2>1, OneMorePays
  <2>3. Covers(Paid + 1, backlog, flag)
    BY <2>1, <2>2 DEF Covers
  <2>4. Covers(Paid', backlog, flag)
    BY <1>1, <2>1, <2>3
  <2>5. BacklogPaid'
    BY <1>3, <2>4 DEF BacklogPaid
  <2> QED
    BY <2>5 DEF UpkeepInv
<1> QED
  BY <1>2, <1>3

\* A request is answered: it pays for the survey its flag asks for.
LEMMA AskCommitKeeps ==
  ASSUME UpkeepInv, NEW q \in Asker, AskCommit(q)
  PROVE  UpkeepInv'
<1>1. /\ asker' = [asker EXCEPT ![q] = "queued"] /\ asker[q] # "queued"
      /\ flag' = (flag \/ asker[q] = "saw_false")
      /\ UNCHANGED <<linked, analysis, upkeep, backlog, upkeepFaults>>
  BY DEF AskCommit
<1>2. UpkeepTyped' /\ (flag => flag')
  BY <1>1 DEF UpkeepInv, UpkeepTyped
<1>3. SurveysServeFlag' /\ NoSurveyIfLinked'
  BY <1>1, <1>2 DEF UpkeepInv, SurveysServeFlag, NoSurveyIfLinked
<1>4. Queued' = Queued \cup {q} /\ q \notin Queued
  BY <1>1 DEF Queued, UpkeepInv, UpkeepTyped
<1>5. Cardinality(Queued') = Cardinality(Queued) + 1
  BY <1>4, PaidIsNat, FS_AddElement
<1>6. Paid \in Nat /\ Paid' = Paid + 1
  BY <1>1, <1>5, PaidIsNat DEF Paid, UpkeepInv, UpkeepTyped
<1>7. BacklogPaid'
  <2>1. CASE linked
    BY <1>1, <2>1, Zenon DEF UpkeepInv, BacklogPaid
  <2>2. CASE ~linked
    <3>1. Covers(Paid, backlog, flag) /\ flag \in BOOLEAN /\ backlog \in Nat
      BY <2>2 DEF UpkeepInv, BacklogPaid, UpkeepTyped
    <3>2. Covers(Paid + 1, backlog, TRUE)
      BY <1>6, <3>1, OneMorePays
    <3>3. Covers(Paid', backlog, flag')
      BY <1>6, <3>2 DEF Covers
    <3> QED
      BY <1>1, <2>2, <3>3 DEF BacklogPaid
  <2> QED
    BY <2>1, <2>2
<1> QED
  BY <1>2, <1>3, <1>7 DEF UpkeepInv

\* A survey ends: it has served the flag, or a fault pays for the next one.
LEMMA SurveyEnds ==
  ASSUME UpkeepInv, NEW n \in 0 .. MaxTasks, Propose(n) \/ ProposeFails(n)
  PROVE  UpkeepInv'
<1>1. /\ upkeep = "surveying" /\ upkeep' = "idle" /\ backlog' = backlog + n
      /\ UNCHANGED <<linked, asker, analysis>>
  BY DEF Propose, ProposeFails
<1>2. \/ flag' = FALSE /\ upkeepFaults' = upkeepFaults
      \/ flag' = flag /\ upkeepFaults' = upkeepFaults + 1
  BY DEF Propose, ProposeFails, Trouble
<1>3. ~linked /\ flag = TRUE /\ backlog \in Nat /\ backlog + n \in Nat /\ upkeepFaults \in Nat
  BY <1>1, UpkeepAssumption DEF UpkeepInv, SurveysServeFlag, NoSurveyIfLinked, UpkeepTyped
<1>4. UpkeepTyped'
  <2>1. flag' \in BOOLEAN
    BY <1>2, <1>3, Zenon
  <2>2. linked' \in BOOLEAN
    BY <1>1, Zenon DEF UpkeepInv, UpkeepTyped
  <2>3. upkeepFaults' = upkeepFaults \/ upkeepFaults' = upkeepFaults + 1
    BY DEF Propose, ProposeFails, Trouble
  <2>4. backlog' \in Nat /\ upkeepFaults' \in Nat
    BY <1>1, <1>3, <2>3
  <2> QED
    BY <1>1, <2>1, <2>2, <2>4 DEF UpkeepInv, UpkeepTyped
<1>5. SurveysServeFlag' /\ NoSurveyIfLinked'
  BY <1>1 DEF UpkeepInv, SurveysServeFlag, NoSurveyIfLinked
<1>6. Queued' = Queued
  BY <1>1 DEF Queued
<1>7. Paid \in Nat /\ Covers(Paid, backlog, TRUE)
  BY <1>3, PaidIsNat DEF UpkeepInv, BacklogPaid
<1>8. Covers(Paid, backlog + n, FALSE) /\ Covers(Paid + 1, backlog + n, TRUE)
  BY <1>3, <1>7, OneMorePays
<1>9. \/ flag' = FALSE /\ Paid' = Paid
      \/ flag' = TRUE /\ Paid' = Paid + 1
  <2>1. Cardinality(Queued) \in Nat /\ Cardinality(Queued') = Cardinality(Queued)
    BY <1>6, PaidIsNat
  <2>2. CASE flag' = FALSE /\ upkeepFaults' = upkeepFaults
    BY <2>1, <2>2 DEF Paid
  <2>3. CASE flag' = flag /\ upkeepFaults' = upkeepFaults + 1
    <3>1. flag' = TRUE
      BY <1>3, <2>3, Zenon
    <3>2. Paid' = Paid + 1
      BY <1>3, <2>1, <2>3 DEF Paid
    <3> QED
      BY <3>1, <3>2
  <2> QED
    BY <1>2, <2>2, <2>3
<1>10. Covers(Paid', backlog', flag')
  BY <1>1, <1>8, <1>9
<1>11. BacklogPaid'
  BY <1>1, <1>3, <1>10 DEF BacklogPaid
<1> QED
  BY <1>4, <1>5, <1>11 DEF UpkeepInv

\* _analyze_repo writes the flag of a project with a repository only, which
\* has no backlog of surveys.
LEMMA AnalyzeKeeps ==
  ASSUME UpkeepInv, AnalyzeLoad \/ AnalyzeCommit
  PROVE  UpkeepInv'
<1>1. /\ UNCHANGED <<linked, asker, upkeep, backlog, upkeepFaults>>
      /\ analysis # "done"
  BY DEF AnalyzeLoad, AnalyzeCommit
<1>2. linked /\ backlog = 0 /\ upkeep # "surveying"
  BY <1>1 DEF UpkeepInv, SurveysServeFlag, BacklogPaid, NoSurveyIfLinked
<1>3. flag' \in BOOLEAN
  <2>1. flag \in BOOLEAN
    BY DEF UpkeepInv, UpkeepTyped
  <2>2. flag' = flag \/ flag' = (analysis = "saw_true")
    BY Zenon DEF AnalyzeLoad, AnalyzeCommit
  <2> QED
    BY <2>1, <2>2, Zenon
<1>4. UpkeepTyped'
  BY <1>1, <1>3 DEF UpkeepInv, UpkeepTyped
<1>l. linked'
  BY <1>1, <1>2, Zenon
<1>5. SurveysServeFlag' /\ NoSurveyIfLinked'
  BY <1>1, <1>2, <1>l DEF SurveysServeFlag, NoSurveyIfLinked
<1>6. BacklogPaid'
  BY <1>1, <1>2, <1>l, Zenon DEF BacklogPaid
<1> QED
  BY <1>4, <1>5, <1>6 DEF UpkeepInv

LEMMA UpkeepInvStep == UpkeepInv /\ [UpkeepNext]_upkeepVars => UpkeepInv'
<1> SUFFICES ASSUME UpkeepInv, [UpkeepNext]_upkeepVars PROVE UpkeepInv'
  OBVIOUS
<1>1. ASSUME NEW q \in Asker, AskLoad(q) PROVE UpkeepInv'
  <2>1. /\ asker' = [asker EXCEPT ![q] = IF flag THEN "saw_true" ELSE "saw_false"]
        /\ asker[q] = "idle"
        /\ UNCHANGED <<linked, flag, analysis, upkeep, backlog, upkeepFaults>>
    BY <1>1 DEF AskLoad
  <2>2. UpkeepTyped' /\ SurveysServeFlag' /\ NoSurveyIfLinked'
    BY <2>1 DEF UpkeepInv, UpkeepTyped, SurveysServeFlag, NoSurveyIfLinked
  <2>3. Queued' = Queued
    BY <2>1 DEF Queued, UpkeepInv, UpkeepTyped
  <2> QED
    BY <2>1, <2>2, <2>3, QuietKeeps
<1>2. CASE Pause \/ Resume \/ Advance \/ UNCHANGED upkeepVars
  <2>1. /\ UNCHANGED <<linked, flag, asker, analysis, upkeep, backlog>>
        /\ upkeepFaults' = upkeepFaults \/ upkeepFaults' = upkeepFaults + 1
    BY <1>2 DEF Pause, Resume, Advance, Trouble, upkeepVars
  <2>2. UpkeepTyped' /\ SurveysServeFlag' /\ NoSurveyIfLinked' /\ Queued' = Queued
    BY <2>1 DEF UpkeepInv, UpkeepTyped, SurveysServeFlag, NoSurveyIfLinked, Queued
  <2> QED
    BY <2>1, <2>2, QuietKeeps
<1>3. CASE MaintainLoad \/ LoseCycle \/ MaintainRaises \/ NothingAsked \/ Survey
  <2>1. /\ UNCHANGED <<linked, flag, asker, analysis, backlog>>
        /\ upkeepFaults' = upkeepFaults \/ upkeepFaults' = upkeepFaults + 1
    BY <1>3 DEF MaintainLoad, LoseCycle, MaintainRaises, NothingAsked, Survey, Trouble
  <2>2. \/ upkeep' \in {"idle", "saw_false"}
        \/ upkeep' = "saw_true" /\ flag
        \/ upkeep' = "surveying" /\ upkeep = "saw_true" /\ ~linked
    BY <1>3 DEF MaintainLoad, LoseCycle, MaintainRaises, NothingAsked, Survey
  <2>3. UpkeepTyped'
    BY <2>1, <2>2 DEF UpkeepInv, UpkeepTyped
  <2>4. SurveysServeFlag' /\ NoSurveyIfLinked' /\ Queued' = Queued
    BY <2>1, <2>2 DEF UpkeepInv, SurveysServeFlag, NoSurveyIfLinked, Queued
  <2> QED
    BY <2>1, <2>3, <2>4, QuietKeeps
<1> QED
  BY <1>1, <1>2, <1>3, AskCommitKeeps, AnalyzeKeeps, SurveyEnds DEF UpkeepNext

\* However often surveys are repeated after exceptions and restarts, the tasks
\* they propose are paid for by answered requests and by those faults, MaxTasks
\* each: run_maintenance takes a served flag down.
THEOREM SurveysBoundBacklogHolds == UpkeepSpec => []SurveysBoundBacklog
<1>1. UpkeepInv => SurveysBoundBacklog
  <2> SUFFICES ASSUME UpkeepInv PROVE SurveysBoundBacklog
    OBVIOUS
  <2>1. Paid \in Nat /\ 0 <= MaxTasks * Paid
    <3>1. Paid \in Nat
      BY PaidIsNat
    <3> QED
      BY <3>1, UpkeepAssumption
  <2>2. backlog <= MaxTasks * Paid
    BY <2>1 DEF UpkeepInv, BacklogPaid, Covers
  <2> QED
    BY <2>2 DEF SurveysBoundBacklog, Paid, Queued
<1>2. UpkeepSpec => []UpkeepInv
  BY UpkeepInvInit, UpkeepInvStep, PTL DEF UpkeepSpec
<1> QED
  BY <1>1, <1>2, PTL

-----------------------------------------------------------------------------
(* EventStream.  While the subscription stands, what was shown, what the     *)
(* response still has and what Redis still has are what was published; a    *)
(* stream without a subscription has nothing left over.                     *)

StreamTyped ==
  /\ emitted \in Nat
  /\ stream \in {"none", "primed", "live", "deaf", "refused"}
  /\ wire \in Seq(Nat) /\ queue \in Seq(Nat) /\ heard \in Seq(Nat) /\ ingested \in Seq(Nat)

StreamInv ==
  /\ StreamTyped
  /\ stream = "live" => ingested \o queue \o wire = heard
  /\ stream = "deaf" => IsPrefix(ingested \o queue, heard)
  /\ stream \notin {"live", "deaf"} => queue = <<>> /\ wire = <<>>

LEMMA PrefixOfConcat ==
  ASSUME NEW S, NEW s \in Seq(S), NEW t \in Seq(S)
  PROVE  IsPrefix(s, s \o t)
<1>0. Len(s) \in Nat /\ Len(t) \in Nat /\ Len(s \o t) = Len(s) + Len(t) /\ s \o t \in Seq(S)
      BY LenProperties, ConcatProperties
<1>1. SubSeq(s, 1, Len(s)) = SubSeq(s \o t, 1, Len(s))
  <2>1. CASE Len(s) = 0
        BY <2>1, SubSeqEmpty
  <2>2. CASE Len(s) # 0
        BY <1>0, <2>2, SubSeqOfConcat1
  <2> QED
      BY <2>1, <2>2
<1> QED
    BY <1>0, <1>1 DEF IsPrefix

\* The head of the second of two sequences becomes the end of the first.
LEMMA HeadMoves ==
  ASSUME NEW S, NEW s \in Seq(S), NEW t \in Seq(S), t # <<>>
  PROVE  Append(s, Head(t)) \o Tail(t) = s \o t
<1> DEFINE h == Head(t)
           u == Tail(t)
<1>1. h \in S /\ u \in Seq(S) /\ <<h>> \in Seq(S)
      BY HeadTailProperties
<1>2. <<h>> \o u = t
      BY <1>1
<1>3. Append(s, h) = s \o <<h>>
      BY <1>1, AppendIsConcat
<1> HIDE DEF h, u
<1>4. (s \o <<h>>) \o u = s \o (<<h>> \o u)
      BY <1>1, ConcatAssociative
<1> QED
    BY <1>2, <1>3, <1>4 DEF h, u

\* An event appended to the last of several sequences is appended to the whole.
LEMMA AppendToConcat ==
  ASSUME NEW s \in Seq(Nat), NEW t \in Seq(Nat), NEW e \in Nat
  PROVE  s \o Append(t, e) = Append(s \o t, e)
<1> DEFINE S == Nat
<1>0. s \in Seq(S) /\ t \in Seq(S) /\ e \in S
      OBVIOUS
<1> HIDE DEF S
<1>1. /\ Append(t, e) = t \o <<e>> /\ <<e>> \in Seq(S) /\ s \o t \in Seq(S)
      /\ Append(s \o t, e) = (s \o t) \o <<e>>
      BY <1>0, AppendIsConcat, ConcatProperties
<1>2. (s \o t) \o <<e>> = s \o (t \o <<e>>)
      BY <1>0, <1>1, ConcatAssociative
<1> QED
    BY <1>1, <1>2

LEMMA StreamInvInit == StreamInit => StreamInv
  BY EmptySeq DEF StreamInit, StreamInv, StreamTyped

LEMMA EmitStream ==
  ASSUME StreamInv, NEW w \in Writer, Emit(w)
  PROVE  StreamInv'
<1> DEFINE e == emitted + 1
<1>1. e \in Nat /\ emitted' = e /\ UNCHANGED <<stream, queue, ingested>>
      BY DEF StreamInv, StreamTyped, Emit
<1>2. CASE stream = "live"
  <2>1. wire' = Append(wire, e) /\ heard' = Append(heard, e)
        BY <1>2 DEF Emit, Publish
  <2>2. /\ wire \in Seq(Nat) /\ queue \in Seq(Nat) /\ heard \in Seq(Nat) /\ ingested \in Seq(Nat)
        /\ ingested \o queue \in Seq(Nat)
        /\ ingested \o queue \o wire = heard
        BY <1>2, ConcatProperties DEF StreamInv, StreamTyped
  <2> HIDE DEF e
  <2>3. ingested \o queue \o wire' = heard'
    <3> DEFINE shown == ingested \o queue
    <3>0. wire \in Seq(Nat) /\ e \in Nat
          BY <1>1, <2>2
    <3>1. shown \in Seq(Nat) /\ shown \o wire = heard
          BY <2>2
    <3> HIDE DEF shown
    <3>2. shown \o Append(wire, e) = Append(shown \o wire, e)
          BY <3>0, <3>1, AppendToConcat
    <3>3. shown \o Append(wire, e) = heard'
          BY <2>1, <3>1, <3>2
    <3> QED
        BY <1>1, <2>1, <3>3 DEF shown
  <2>4. wire' \in Seq(Nat) /\ heard' \in Seq(Nat)
        BY <1>1, <2>1, <2>2, AppendProperties
  <2> QED
      BY <1>1, <1>2, <2>3, <2>4 DEF StreamInv, StreamTyped
<1>3. CASE stream # "live"
  <2>1. UNCHANGED <<wire, heard>>
        BY <1>3 DEF Emit
  <2> QED
      BY <1>1, <1>3, <2>1 DEF StreamInv, StreamTyped
<1> QED
    BY <1>2, <1>3

LEMMA StreamInvStep == StreamInv /\ [StreamNext]_streamVars => StreamInv'
<1> SUFFICES ASSUME StreamInv, [StreamNext]_streamVars PROVE StreamInv'
    OBVIOUS
<1>0. /\ wire \in Seq(Nat) /\ queue \in Seq(Nat) /\ heard \in Seq(Nat) /\ ingested \in Seq(Nat)
      /\ ingested \o queue \in Seq(Nat)
      BY ConcatProperties DEF StreamInv, StreamTyped
<1>1. ASSUME NEW w \in Writer, EmitUnpublished(w) \/ CommitEvents(w) \/ RollBackEvents(w)
      PROVE  StreamInv'
  <2>1. UNCHANGED <<stream, wire, queue, heard, ingested>> /\ emitted' \in Nat
        BY <1>1 DEF EmitUnpublished, CommitEvents, RollBackEvents, sinkVars, StreamInv, StreamTyped
  <2> QED
      BY <2>1 DEF StreamInv, StreamTyped
<1>2. CASE \/ TokenExpires \/ PollShow \/ PollFails \/ UNCHANGED streamVars
           \/ \E rows \in SUBSET Event : PollRead(rows)
  <2>1. UNCHANGED <<emitted, stream, wire, queue, heard, ingested>>
        BY <1>2 DEF TokenExpires, PollShow, PollFails, PollRead, streamVars, sinkVars
  <2> QED
      BY <2>1 DEF StreamInv, StreamTyped
<1>3. CASE Connect \/ Disconnect
      BY <1>3, EmptySeq DEF Connect, Disconnect, StreamInv, StreamTyped
<1>4. CASE Subscribe
      BY <1>4, EmptySeq, ConcatEmptySeq DEF Subscribe, StreamInv, StreamTyped
<1>5. CASE Pump
  <2>1. /\ queue' = Append(queue, Head(wire)) /\ wire' = Tail(wire) /\ wire # <<>>
        /\ UNCHANGED <<emitted, stream, heard, ingested>> /\ stream = "live"
        BY <1>5 DEF Pump
  <2>2. queue' \in Seq(Nat) /\ wire' \in Seq(Nat)
        BY <1>0, <2>1, HeadTailProperties, AppendProperties
  <2>3. ingested \o queue' = Append(ingested \o queue, Head(wire))
    <3> DEFINE h == Head(wire)
    <3>1. h \in Nat
          BY <1>0, <2>1, HeadTailProperties
    <3> HIDE DEF h
    <3>2. ingested \o Append(queue, h) = Append(ingested \o queue, h)
          BY <1>0, <3>1, AppendToConcat
    <3> QED
        BY <2>1, <3>2 DEF h
  <2>4. Append(ingested \o queue, Head(wire)) \o Tail(wire) = ingested \o queue \o wire
        BY <1>0, <2>1, HeadMoves
  <2> QED
      BY <2>1, <2>2, <2>3, <2>4 DEF StreamInv, StreamTyped
<1>6. CASE PumpDies
  <2>1. /\ stream = "live" /\ stream' = "deaf" /\ wire' = <<>>
        /\ UNCHANGED <<emitted, queue, heard, ingested>>
        BY <1>6 DEF PumpDies
  <2>2. IsPrefix(ingested \o queue, ingested \o queue \o wire)
        BY <1>0, PrefixOfConcat
  <2> QED
      BY <2>1, <2>2, EmptySeq DEF StreamInv, StreamTyped
<1>7. CASE Ingest
  <2>1. /\ queue # <<>> /\ queue' = Tail(queue) /\ ingested' = Append(ingested, Head(queue))
        /\ UNCHANGED <<emitted, stream, wire, heard>>
        BY <1>7 DEF Ingest
  <2>2. queue' \in Seq(Nat) /\ ingested' \in Seq(Nat)
        BY <1>0, <2>1, HeadTailProperties, AppendProperties
  <2>3. ingested' \o queue' = ingested \o queue
        BY <1>0, <2>1, HeadMoves
  <2> QED
      BY <2>1, <2>2, <2>3 DEF StreamInv, StreamTyped
<1> QED
    BY <1>1, <1>2, <1>3, <1>4, <1>5, <1>6, <1>7, EmitStream DEF StreamNext

(* From its subscription on, the list of useActivityStream is shown exactly    *)
(* what emit published, in order and without a gap or a repetition, however   *)
(* slow the pump and the page are; a pump that ended loses only the rest.     *)
THEOREM StreamIsExactHolds == StreamSpec => []StreamIsExact
<1>1. StreamInv => StreamIsExact
  <2> SUFFICES ASSUME StreamInv, stream = "live" PROVE IsPrefix(ingested \o queue, heard)
      BY DEF StreamInv, StreamTyped, StreamIsExact
  <2>1. /\ wire \in Seq(Nat) /\ ingested \o queue \in Seq(Nat)
        /\ ingested \o queue \o wire = heard
        BY ConcatProperties DEF StreamInv, StreamTyped
  <2> QED
      BY <2>1, PrefixOfConcat
<1>2. StreamSpec => []StreamInv
      BY StreamInvInit, StreamInvStep, PTL DEF StreamSpec
<1> QED
    BY <1>1, <1>2, PTL
=============================================================================
