---------------------------- MODULE RecordsProofs ----------------------------
(***************************************************************************)
(* What is read, worked out and written back by the prompt experiment, the  *)
(* build order of a swarm, the knowledge graph with its impact analysis,    *)
(* and the search for smells in that graph.  One part for each component;   *)
(* the last two share LeastNatural.                                         *)
(***************************************************************************)
EXTENDS Prompts, RepoSwarm, KnowledgeGraph, Smells, WellFoundedInduction, FiniteSetTheorems,
        SequenceTheorems, TLAPS

-----------------------------------------------------------------------------
(* Prompts.  What the prompt experiment keeps of its tallies, its lineage   *)
(* and its pool, for every number of sessions, variants and outcomes.  A    *)
(* tally is right as long as no session wrote over another one's: what an   *)
(* open session has loaded must therefore be bounded by the log, too.       *)

VariantRow == [trials : Nat, successes : Nat, reward : Nat, active : BOOLEAN,
               parent : 0 .. MaxVariants]
Loaded == [of : 0 .. MaxVariants, trials : Nat, successes : Nat, reward : Nat]
Evolution == [champion : 0 .. MaxVariants, retire : SUBSET Number]

PromptsTypeOK ==
  /\ Known \subseteq Number /\ variant \in [Known -> VariantRow]
  /\ log \in [Number -> Nat] /\ recorder \in [Recorder -> Loaded]
  /\ evolver \in Evolution /\ stale \subseteq Number /\ outcomes \in Nat

\* Nothing is logged of a variant that does not exist.
LogOfKnown == \A v \in Number \ Known : log[v] = 0

\* What a session has loaded was true once.
LoadedWasTrue ==
  \A s \in Recorder : recorder[s] # NoRecord =>
    /\ recorder[s].of \in Known
    /\ recorder[s].trials <= log[recorder[s].of]
    /\ recorder[s].of \notin stale => recorder[s].successes <= recorder[s].trials

\* An evolution breeds from a proven variant and spares it.
ChampionIsProven ==
  evolver # NoEvolution =>
    /\ evolver.champion \in Known /\ evolver.champion \notin evolver.retire
    /\ log[evolver.champion] >= MinTrials

PromptsInv ==
  PromptsTypeOK /\ LogOfKnown /\ LoadedWasTrue /\ ChampionIsProven
  /\ TalliesMatchLog /\ ParentsAreProven

----------------------------------------------------------------------------
LEMMA FreshIsRow == ASSUME NEW p \in 0 .. MaxVariants PROVE Fresh(p) \in VariantRow
  BY DEF Fresh, VariantRow

\* Retirement touches the activity alone.
LEMMA RetiredKeeps ==
  ASSUME PromptsTypeOK
  PROVE  /\ Retired \in [Known -> VariantRow]
         /\ \A v \in Known : /\ Retired[v].trials = variant[v].trials
                             /\ Retired[v].successes = variant[v].successes
                             /\ Retired[v].parent = variant[v].parent
                             /\ v \notin evolver.retire => Retired[v] = variant[v]
  BY DEF PromptsTypeOK, Retired, VariantRow

\* The row a recording session writes.
LEMMA TalliedRow ==
  ASSUME NEW row \in VariantRow, NEW old \in Loaded, NEW success \in BOOLEAN, NEW reward \in 0 .. 1
  PROVE  LET new == Tallied(row, old, success, reward)  IN
         /\ new \in VariantRow
         /\ new.trials = old.trials + 1 /\ new.parent = row.parent /\ new.active = row.active
         /\ new.successes = (IF success THEN old.successes + 1 ELSE row.successes)
<1> DEFINE trials == old.trials + 1
           successes == IF success THEN old.successes + 1 ELSE row.successes
           rewards == IF reward > 0 THEN old.reward + reward ELSE row.reward
<1>1. trials \in Nat /\ successes \in Nat /\ rewards \in Nat
  BY DEF VariantRow, Loaded
<1>2. Tallied(row, old, success, reward) =
        [row EXCEPT !.trials = trials, !.successes = successes, !.reward = rewards]
  BY DEF Tallied
<1> HIDE DEF trials, successes, rewards
<1>3. LET new == [row EXCEPT !.trials = trials, !.successes = successes, !.reward = rewards]  IN
      /\ new \in VariantRow
      /\ new.trials = trials /\ new.parent = row.parent /\ new.active = row.active
      /\ new.successes = successes
  BY <1>1 DEF VariantRow
<1> QED
  BY <1>2, <1>3 DEF trials, successes

LEMMA InitHolds == PromptsInit => PromptsInv
<1> SUFFICES ASSUME PromptsInit PROVE PromptsInv
  OBVIOUS
<1> USE PromptsAssumption DEF PromptsInit
<1>1. Known = {}
  BY DEF Known
<1>2. PromptsTypeOK
  BY <1>1 DEF PromptsTypeOK, Number, NoRecord, NoEvolution, Loaded, Evolution
<1>3. LogOfKnown /\ LoadedWasTrue /\ ChampionIsProven /\ TalliesMatchLog /\ ParentsAreProven
  BY <1>1 DEF LogOfKnown, LoadedWasTrue, ChampionIsProven, TalliesMatchLog, ParentsAreProven
<1> QED
  BY <1>2, <1>3 DEF PromptsInv

LEMMA SeedKeeps == ASSUME PromptsInv, EnsureSeed PROVE PromptsInv'
<1> USE PromptsAssumption DEF PromptsInv, EnsureSeed
<1>1. Known' = {1} /\ 1 \in Number /\ variant'[1] = Fresh(0)
  BY DEF Known, Number
<1>2. Fresh(0) \in VariantRow
  BY FreshIsRow
<1>3. PromptsTypeOK'
  BY <1>1, <1>2 DEF PromptsTypeOK, Known, Number
<1>4. log[1] = 0
  BY <1>1 DEF LogOfKnown
<1>5. TalliesMatchLog' /\ ParentsAreProven' /\ LogOfKnown'
  BY <1>1, <1>4 DEF TalliesMatchLog, ParentsAreProven, LogOfKnown, Fresh
<1>6. LoadedWasTrue' /\ ChampionIsProven'
  BY <1>1 DEF LoadedWasTrue, ChampionIsProven
<1> QED
  BY <1>3, <1>5, <1>6

LEMMA LoadKeeps ==
  ASSUME PromptsInv, NEW s \in Recorder, NEW v \in Known, Load(s, v)
  PROVE  PromptsInv'
<1> USE PromptsAssumption DEF PromptsInv, Load
<1>1. v \in Number /\ variant[v] \in VariantRow
  BY DEF PromptsTypeOK
<1>2. /\ recorder'[s].of = v /\ recorder'[s].trials = variant[v].trials
      /\ recorder'[s].successes = variant[v].successes
      /\ \A u \in Recorder : u # s => recorder'[u] = recorder[u]
  BY DEF PromptsTypeOK
<1>3. Known' = Known
  BY DEF Known
<1>4. PromptsTypeOK'
  <2>1. [of |-> v, trials |-> variant[v].trials, successes |-> variant[v].successes,
         reward |-> variant[v].reward] \in Loaded
    BY <1>1 DEF Number, Loaded, VariantRow
  <2>2. recorder' \in [Recorder -> Loaded]
    BY <2>1 DEF PromptsTypeOK
  <2> QED
    BY <1>3, <2>2 DEF PromptsTypeOK
<1>5. LoadedWasTrue'
  BY <1>1, <1>2, <1>3 DEF LoadedWasTrue, TalliesMatchLog, VariantRow
<1>6. LogOfKnown' /\ ChampionIsProven' /\ TalliesMatchLog' /\ ParentsAreProven'
  BY <1>3 DEF LogOfKnown, ChampionIsProven, TalliesMatchLog, ParentsAreProven
<1> QED
  BY <1>4, <1>5, <1>6

LEMMA RecordKeeps ==
  ASSUME PromptsInv, NEW s \in Recorder, NEW success \in BOOLEAN, NEW reward \in 0 .. 1,
         Record(s, success, reward)
  PROVE  PromptsInv'
<1> DEFINE old == recorder[s]
           v == old.of
<1> USE PromptsAssumption DEF PromptsInv
<1>1. /\ old # NoRecord /\ old \in Loaded /\ v \in Known /\ v \in Number
      /\ variant[v] \in VariantRow /\ old.trials <= log[v]
      /\ v \notin stale => old.successes <= old.trials
  BY DEF Record, PromptsTypeOK, LoadedWasTrue
<1>2. /\ variant' = [variant EXCEPT ![v] = Tallied(variant[v], old, success, reward)]
      /\ stale' = (IF variant[v].trials = old.trials THEN stale ELSE stale \cup {v})
      /\ log' = [log EXCEPT ![v] = @ + 1] /\ outcomes' = outcomes + 1
      /\ recorder' = [recorder EXCEPT ![s] = NoRecord] /\ UNCHANGED evolver
  BY DEF Record
<1>3. Known' = Known
  BY <1>2 DEF Known, PromptsTypeOK
<1>4. /\ variant'[v] = Tallied(variant[v], old, success, reward)
      /\ \A w \in Known : w # v => variant'[w] = variant[w]
  BY <1>1, <1>2 DEF PromptsTypeOK
<1>5. log'[v] = log[v] + 1 /\ \A w \in Number : w # v => log'[w] = log[w]
  BY <1>1, <1>2 DEF PromptsTypeOK
<1>6. /\ variant'[v] \in VariantRow
      /\ variant'[v].trials = old.trials + 1 /\ variant'[v].parent = variant[v].parent
      /\ variant'[v].successes = (IF success THEN old.successes + 1 ELSE variant[v].successes)
  BY <1>1, <1>4, TalliedRow
<1>7. PromptsTypeOK'
  <2>1. variant' \in [Known' -> VariantRow]
    BY <1>2, <1>3, <1>4, <1>6 DEF PromptsTypeOK
  <2>2. recorder' \in [Recorder -> Loaded]
    BY <1>2 DEF PromptsTypeOK, NoRecord, Loaded
  <2>3. log' \in [Number -> Nat]
    BY <1>1, <1>2 DEF PromptsTypeOK
  <2> QED
    BY <2>1, <2>2, <2>3, <1>1, <1>2, <1>3 DEF PromptsTypeOK
<1>8. \A w \in Number : log'[w] \in Nat /\ log[w] \in Nat /\ log[w] <= log'[w]
  BY <1>1, <1>5 DEF PromptsTypeOK
<1>9. TalliesMatchLog'
  <2> SUFFICES ASSUME NEW w \in Known
               PROVE  /\ variant'[w].trials <= log'[w]
                      /\ w \notin stale' => /\ variant'[w].trials = log'[w]
                                            /\ variant'[w].successes <= variant'[w].trials
    BY <1>3 DEF TalliesMatchLog
  <2>1. CASE w # v
    BY <2>1, <1>2, <1>4, <1>5 DEF TalliesMatchLog, PromptsTypeOK
  <2>2. CASE w = v
    <3>1. w \notin stale' => /\ v \notin stale /\ variant[v].trials = old.trials
      BY <2>2, <1>2
    <3>2. v \notin stale => /\ variant[v].trials = log[v]
                            /\ variant[v].successes <= variant[v].trials
      BY <1>1 DEF TalliesMatchLog
    <3>3. /\ old.trials \in Nat /\ old.successes \in Nat /\ variant[v].successes \in Nat
          /\ variant[v].trials \in Nat /\ log[v] \in Nat
      BY <1>1, <1>8 DEF Loaded, VariantRow
    <3> QED
      BY <2>2, <3>1, <3>2, <3>3, <1>1, <1>5, <1>6
  <2> QED
    BY <2>1, <2>2
<1>10. ParentsAreProven'
  <2> SUFFICES ASSUME NEW w \in Known, variant'[w].parent # 0
               PROVE  log'[variant'[w].parent] >= MinTrials
    BY <1>3 DEF ParentsAreProven
  <2>1. variant'[w].parent = variant[w].parent
    BY <1>4, <1>6
  <2>2. variant[w].parent \in Number /\ log[variant[w].parent] >= MinTrials
    BY <2>1 DEF ParentsAreProven, PromptsTypeOK, VariantRow, Number
  <2> QED
    BY <2>1, <2>2, <1>8
<1>11. LoadedWasTrue'
  <2> SUFFICES ASSUME NEW u \in Recorder, recorder'[u] # NoRecord
               PROVE  /\ recorder'[u].of \in Known
                      /\ recorder'[u].trials <= log'[recorder'[u].of]
                      /\ recorder'[u].of \notin stale' => recorder'[u].successes <= recorder'[u].trials
    BY <1>3 DEF LoadedWasTrue
  <2>1. u # s /\ recorder'[u] = recorder[u]
    BY <1>2 DEF PromptsTypeOK
  <2>2. recorder[u] \in Loaded /\ recorder[u].of \in Number
    BY <2>1 DEF PromptsTypeOK, LoadedWasTrue
  <2> QED
    BY <2>1, <2>2, <1>2, <1>8 DEF LoadedWasTrue, Loaded
<1>12. LogOfKnown'
  BY <1>1, <1>3, <1>5 DEF LogOfKnown
<1>13. ChampionIsProven'
  BY <1>2, <1>3, <1>8 DEF ChampionIsProven, PromptsTypeOK
<1> QED
  BY <1>7, <1>9, <1>10, <1>11, <1>12, <1>13

LEMMA EvolveKeeps ==
  ASSUME PromptsInv, NEW c \in Known, Evolve(c)
  PROVE  PromptsInv'
<1> USE PromptsAssumption DEF PromptsInv, Evolve
<1>1. c \in Number /\ variant[c] \in VariantRow /\ log[c] \in Nat /\ Known' = Known
  BY DEF PromptsTypeOK, Known
<1>2. Laggards(c) \subseteq Number /\ c \notin Laggards(c)
  BY DEF Laggards, Active, PromptsTypeOK
<1>3. evolver'.champion = c /\ evolver'.retire = Laggards(c)
  OBVIOUS
<1>4. PromptsTypeOK'
  BY <1>1, <1>2 DEF PromptsTypeOK, Evolution, Number
<1>5. ChampionIsProven'
  BY <1>1, <1>2, <1>3 DEF ChampionIsProven, TalliesMatchLog, VariantRow
<1>6. LogOfKnown' /\ LoadedWasTrue' /\ TalliesMatchLog' /\ ParentsAreProven'
  BY <1>1 DEF LogOfKnown, LoadedWasTrue, TalliesMatchLog, ParentsAreProven
<1> QED
  BY <1>4, <1>5, <1>6

LEMMA KeepPoolKeeps == ASSUME PromptsInv, KeepPool PROVE PromptsInv'
<1> USE PromptsAssumption DEF PromptsInv, KeepPool
<1>1. Known' = Known /\ variant' \in [Known -> VariantRow]
  BY RetiredKeeps DEF Known, Retired
<1>2. PromptsTypeOK'
  BY <1>1 DEF PromptsTypeOK, NoEvolution, Evolution
<1>3. TalliesMatchLog' /\ ParentsAreProven'
  BY <1>1, RetiredKeeps DEF TalliesMatchLog, ParentsAreProven
<1>4. LogOfKnown' /\ LoadedWasTrue' /\ ChampionIsProven'
  BY <1>1 DEF LogOfKnown, LoadedWasTrue, ChampionIsProven
<1> QED
  BY <1>2, <1>3, <1>4

LEMMA BreedKeeps ==
  ASSUME PromptsInv, NEW n \in Number, Breed(n)
  PROVE  PromptsInv'
<1> USE PromptsAssumption DEF PromptsInv, Breed
<1>1. evolver.champion \in Known /\ evolver.champion \in Number /\ log[evolver.champion] >= MinTrials
  BY DEF ChampionIsProven, PromptsTypeOK
<1>2. /\ Known' = Known \cup {n} /\ n \notin Known
      /\ variant'[n] = Fresh(evolver.champion)
      /\ \A v \in Known : variant'[v] = Retired[v]
  BY DEF Known
<1>3. Fresh(evolver.champion) \in VariantRow
  BY <1>1, FreshIsRow DEF Number
<1>4. variant' \in [Known' -> VariantRow]
  BY <1>2, <1>3, RetiredKeeps
<1>5. PromptsTypeOK'
  BY <1>2, <1>4 DEF PromptsTypeOK, NoEvolution, Evolution
<1>6. log[n] = 0
  BY <1>2 DEF LogOfKnown
<1>7. TalliesMatchLog'
  BY <1>2, <1>6, RetiredKeeps DEF TalliesMatchLog, Fresh
<1>8. ParentsAreProven'
  BY <1>1, <1>2, RetiredKeeps DEF ParentsAreProven, Fresh
<1>9. LogOfKnown' /\ LoadedWasTrue' /\ ChampionIsProven'
  BY <1>2 DEF LogOfKnown, LoadedWasTrue, ChampionIsProven
<1> QED
  BY <1>5, <1>7, <1>8, <1>9

LEMMA FailsKeeps == ASSUME PromptsInv, EvolveFails PROVE PromptsInv'
<1> USE DEF PromptsInv, EvolveFails
<1>1. Known' = Known
  BY DEF Known
<1>2. NoEvolution \in Evolution
  BY PromptsAssumption DEF NoEvolution, Evolution
<1>3. PromptsTypeOK'
  BY <1>1, <1>2 DEF PromptsTypeOK
<1>4. LogOfKnown' /\ LoadedWasTrue' /\ ChampionIsProven'
  BY <1>1 DEF LogOfKnown, LoadedWasTrue, ChampionIsProven
<1>5. TalliesMatchLog' /\ ParentsAreProven'
  BY <1>1 DEF TalliesMatchLog, ParentsAreProven
<1> QED
  BY <1>3, <1>4, <1>5

LEMMA StutterKeeps == ASSUME PromptsInv, UNCHANGED promptVars PROVE PromptsInv'
  BY DEF promptVars, PromptsInv, PromptsTypeOK, LogOfKnown, LoadedWasTrue, ChampionIsProven,
         TalliesMatchLog, ParentsAreProven, Known

----------------------------------------------------------------------------
\* In every reachable state the invariant holds.
LEMMA InvHolds == PromptsSpec => []PromptsInv
<1>1. PromptsInv /\ [PromptsNext]_promptVars => PromptsInv'
  BY SeedKeeps, LoadKeeps, RecordKeeps, EvolveKeeps, KeepPoolKeeps, BreedKeeps, FailsKeeps,
     StutterKeeps
     DEF PromptsNext
<1> QED
  BY InitHolds, <1>1, PTL DEF PromptsSpec

\* The tallies of a variant never exceed the log of its executions, and match it
\* until a stale session commits, whatever sessions record at once.
THEOREM TalliesMatch == PromptsSpec => []TalliesMatchLog
<1>1. PromptsInv => TalliesMatchLog
  BY DEF PromptsInv
<1> QED
  BY InvHolds, <1>1, PTL

\* A bred variant descends from one that was run min_trials times.
THEOREM ParentsProven == PromptsSpec => []ParentsAreProven
<1>1. PromptsInv => ParentsAreProven
  BY DEF PromptsInv
<1> QED
  BY InvHolds, <1>1, PTL

\* No evolution empties the pool of a role unless its champion had been retired.
THEOREM PoolSurvivesHolds == PromptsSpec => PoolSurvives
<1>1. ASSUME PromptsInv, [PromptsNext]_promptVars, Active # {}, evolver.champion \in Active
      PROVE  Active' # {}
  <2>1. CASE EnsureSeed
    BY <1>1, <2>1 DEF EnsureSeed, Active
  <2>2. ASSUME NEW s \in Recorder, NEW success \in BOOLEAN, NEW reward \in 0 .. 1,
               Record(s, success, reward)
        PROVE  Active' # {}
    <3> DEFINE v == recorder[s].of
    <3>1. /\ v \in Known /\ variant[v] \in VariantRow /\ recorder[s] \in Loaded
          /\ variant' = [variant EXCEPT ![v] = Tallied(variant[v], recorder[s], success, reward)]
      BY <1>1, <2>2 DEF PromptsInv, PromptsTypeOK, LoadedWasTrue, Record
    <3>2. \A w \in Known : variant'[w].active = variant[w].active
      BY <1>1, <3>1, TalliedRow DEF PromptsInv, PromptsTypeOK
    <3>3. Known' = Known
      BY <1>1, <3>1 DEF Known, PromptsInv, PromptsTypeOK
    <3> QED
      BY <1>1, <3>2, <3>3 DEF Active
  <2>3. CASE KeepPool
    <3>1. evolver.champion \in Known /\ Retired[evolver.champion] = variant[evolver.champion]
      BY <1>1, <2>3, RetiredKeeps DEF PromptsInv, ChampionIsProven, KeepPool
    <3>2. Known' = Known /\ variant' = Retired
      BY <2>3 DEF KeepPool, Known, Retired
    <3> QED
      BY <1>1, <3>1, <3>2 DEF Active
  <2>4. ASSUME NEW n \in Number, Breed(n)
        PROVE  Active' # {}
    <3>1. n \in Known' /\ variant'[n] = Fresh(evolver.champion)
      BY <2>4 DEF Breed, Known
    <3> QED
      BY <3>1 DEF Active, Fresh
  <2>5. CASE UNCHANGED variant
    BY <1>1, <2>5 DEF Active, Known
  <2> QED
    BY <1>1, <2>1, <2>2, <2>3, <2>4, <2>5 DEF PromptsNext, Load, Evolve, EvolveFails, promptVars
<1>2. PromptsInv /\ [PromptsNext]_promptVars
        => [Active # {} /\ Active' = {} => evolver.champion \notin Active]_promptVars
  BY <1>1
<1> QED
  BY InvHolds, <1>2, PTL DEF PromptsSpec, PoolSurvives

-----------------------------------------------------------------------------
(* RepoSwarm.  The build order of RepoSwarm is right for every set of       *)
(* repositories, every declaration of dependencies and every order of       *)
(* names.  The inductive invariant says of a sort under way that what is    *)
(* placed or ready has all its dependencies placed before it, and that a    *)
(* set whose members all wait for one another is never touched.             *)

Planning == phase \in {"sorting", "rest", "planned"}

\* The dependency sets are those of the rows.
DepsAreNeeds == Planning => \A n \in Targets : deps[n] = {d \in Targets : Needs(n, d)}

\* Places are given once each, in order.
PlacesDistinct ==
  Planning =>
    /\ \A n \in Targets : place[n] <= last
    /\ \A n, m \in Targets : place[n] = place[m] /\ place[n] # 0 => n = m

\* What is placed, or ready to be, has its dependencies placed before it.
DepsPlaced ==
  phase = "sorting" =>
    \A n \in Targets : (place[n] # 0 \/ n \in ready) =>
      \A d \in deps[n] : place[d] # 0 /\ (place[n] # 0 => place[d] < place[n])

\* A knot keeps the sort away from all its members.
KnotsUntouched ==
  phase = "sorting" =>
    \A S \in SUBSET Targets : Knot(S) => \A n \in S : place[n] = 0 /\ n \notin ready

\* What the flag says once the sort has ended.
FlagIsRight ==
  phase \in {"rest", "planned"} =>
    /\ cyclic => \E S \in SUBSET Targets : Knot(S)
    /\ ~cyclic => /\ Remaining = {}
                  /\ ~ \E S \in SUBSET Targets : Knot(S)
                  /\ \A n \in Targets : \A d \in deps[n] : place[d] < place[n]

AllPlaced ==
  /\ phase = "planned" => Remaining = {}
  /\ phase \in {"rest", "planned"} => ready = {}

SwarmInv ==
  /\ SwarmTypeOK /\ DepsAreNeeds /\ PlacesDistinct /\ DepsPlaced
  /\ KnotsUntouched /\ FlagIsRight /\ AllPlaced

LEMMA SwarmInvInit == SwarmInit => SwarmInv
<1> SUFFICES ASSUME SwarmInit PROVE SwarmInv
  OBVIOUS
<1>1. rows \in [{} -> Row]
  BY DEF SwarmInit
<1>2. SwarmTypeOK
  BY <1>1 DEF SwarmInit, SwarmTypeOK, Remaining, Targets
<1> QED
  BY <1>2 DEF SwarmInit, SwarmInv, DepsAreNeeds, PlacesDistinct, DepsPlaced, KnotsUntouched,
              FlagIsRight, AllPlaced, Planning

LEMMA RegisterKeeps ==
  ASSUME SwarmInv, NEW n \in Repo, NEW row \in Row, Register(n, row)
  PROVE  SwarmInv'
<1> USE DEF SwarmInv
<1>1. phase = "idle" /\ phase' = "idle"
  BY DEF Register
<1>2. PICK S \in SUBSET Repo : rows \in [S -> Row]
  BY DEF SwarmTypeOK
<1>3. rows' \in [S \cup {n} -> Row] /\ DOMAIN rows' = DOMAIN rows \cup {n}
  BY <1>2 DEF Register
<1>4. S \cup {n} \in SUBSET Repo
  BY <1>2
<1>5. rows' \in UNION {[T -> Row] : T \in SUBSET Repo}
  BY <1>3, <1>4
<1>6. SwarmTypeOK'
  BY <1>5, <1>3 DEF Register, SwarmTypeOK, Targets, Remaining
<1> QED
  BY <1>1, <1>6 DEF DepsAreNeeds, PlacesDistinct, DepsPlaced, KnotsUntouched, FlagIsRight,
                    AllPlaced, Planning

LEMMA PlanKeeps ==
  ASSUME SwarmInv, NEW names \in SUBSET Repo, Plan(names)
  PROVE  SwarmInv'
<1> DEFINE targets == IF names = {} THEN DOMAIN rows ELSE names \cap DOMAIN rows
<1> USE DEF SwarmInv
<1>1. phase' = "sorting" /\ ready' = {} /\ last' = 0 /\ cyclic' = FALSE
      /\ rows' = rows /\ place' = [n \in Repo |-> 0]
  BY DEF Plan
<1>2. deps' = [n \in targets |-> {d \in targets : Needs(n, d)}]
  BY DEF Plan
<1>3. Targets' = targets /\ targets \subseteq DOMAIN rows /\ DOMAIN rows \subseteq Repo
  BY <1>2 DEF Targets, SwarmTypeOK
<1>4. SwarmTypeOK'
  BY <1>1, <1>2, <1>3 DEF SwarmTypeOK, Remaining
<1>5. DepsAreNeeds'
  BY <1>1, <1>2, <1>3 DEF DepsAreNeeds, Needs
<1>6. \A n \in Targets' : place'[n] = 0
  BY <1>1, <1>3
<1> QED
  BY <1>1, <1>4, <1>5, <1>6 DEF PlacesDistinct, DepsPlaced, KnotsUntouched, FlagIsRight,
                                AllPlaced, Planning

LEMMA RoundKeeps ==
  ASSUME SwarmInv, Round
  PROVE  SwarmInv'
<1> USE DEF SwarmInv
<1>1. /\ phase = "sorting" /\ ready = {}
      /\ rows' = rows /\ deps' = deps /\ place' = place /\ last' = last
  BY DEF Round
<1>2. Targets' = Targets /\ Remaining' = Remaining /\ \A S : Knot(S)' <=> Knot(S)
  BY <1>1 DEF Targets, Remaining, Knot, Needs
<1>3. \A n \in Targets : deps[n] \subseteq Targets /\ place[n] \in Nat
  BY DEF SwarmTypeOK, Targets
<1>4. DepsAreNeeds' /\ PlacesDistinct'
  <2>1. phase' \in {"sorting", "rest"} /\ Planning /\ Planning'
    BY <1>1 DEF Round, Planning
  <2> QED
    BY <2>1, <1>1, <1>2 DEF DepsAreNeeds, PlacesDistinct, Needs
<1>5. CASE FreeNow # {}
  <2>1. phase' = "sorting" /\ ready' = FreeNow /\ cyclic' = cyclic
    BY <1>1, <1>5 DEF Round
  <2>2. SwarmTypeOK'
    BY <2>1, <1>1, <1>2 DEF SwarmTypeOK, FreeNow, Targets
  <2>3. DepsPlaced'
    BY <2>1, <1>1, <1>2, <1>3 DEF DepsPlaced, FreeNow, Remaining
  <2>4. KnotsUntouched'
    <3> SUFFICES ASSUME NEW S \in SUBSET Targets, Knot(S), NEW n \in S
                 PROVE  place[n] = 0 /\ n \notin FreeNow
      BY <2>1, <1>1, <1>2 DEF KnotsUntouched
    <3>1. \A m \in S : place[m] = 0
      BY <1>1 DEF KnotsUntouched
    <3>2. PICK d \in S : Needs(n, d)
      BY DEF Knot
    <3>3. d \in deps[n] /\ d \in Remaining
      BY <3>1, <3>2, <1>1 DEF DepsAreNeeds, Planning, Remaining
    <3> QED
      BY <3>1, <3>3 DEF FreeNow
  <2> QED
    BY <2>1, <2>2, <2>3, <2>4, <1>4 DEF FlagIsRight, AllPlaced
<1>6. CASE FreeNow = {}
  <2>1. phase' = "rest" /\ cyclic' = (Remaining # {}) /\ ready' = ready
    BY <1>1, <1>6 DEF Round
  <2>2. SwarmTypeOK'
    BY <2>1, <1>1, <1>2 DEF SwarmTypeOK, Targets
  <2>3. FlagIsRight'
    <3>1. CASE Remaining # {}
      <4>1. Knot(Remaining)
        <5> SUFFICES ASSUME NEW n \in Remaining PROVE \E d \in Remaining : Needs(n, d)
          BY <3>1 DEF Knot
        <5>1. PICK d : d \in deps[n] \cap Remaining
          BY <1>6 DEF FreeNow
        <5> QED
          BY <5>1, <1>1 DEF DepsAreNeeds, Planning, Remaining
      <4>2. Remaining \in SUBSET Targets
        BY DEF Remaining
      <4> QED
        BY <4>1, <4>2, <2>1, <1>2, <3>1 DEF FlagIsRight
    <3>2. CASE Remaining = {}
      <4>1. \A n \in Targets : place[n] # 0
        BY <3>2 DEF Remaining
      <4>2. ~ \E S \in SUBSET Targets : Knot(S)
        <5> SUFFICES ASSUME NEW S \in SUBSET Targets, Knot(S) PROVE FALSE
          OBVIOUS
        <5>1. PICK n \in S : TRUE
          BY DEF Knot
        <5> QED
          BY <5>1, <4>1, <1>1 DEF KnotsUntouched
      <4>3. \A n \in Targets : \A d \in deps[n] : place[d] < place[n]
        BY <4>1, <1>1 DEF DepsPlaced
      <4> QED
        BY <4>2, <4>3, <2>1, <1>1, <1>2, <3>2 DEF FlagIsRight
    <3> QED
      BY <3>1, <3>2
  <2> QED
    BY <2>1, <2>2, <2>3, <1>1, <1>4 DEF DepsPlaced, KnotsUntouched, AllPlaced
<1> QED
  BY <1>5, <1>6

LEMMA TakeKeeps ==
  ASSUME SwarmInv, NEW n \in Repo, Take(n)
  PROVE  SwarmInv'
<1> USE DEF SwarmInv
<1>1. /\ phase = "sorting" /\ phase' = "sorting"
      /\ n \in ready /\ ready' = ready \ {n}
      /\ place' = [place EXCEPT ![n] = last + 1] /\ last' = last + 1
      /\ rows' = rows /\ deps' = deps /\ cyclic' = cyclic
  BY DEF Take, First, Place
<1>2. /\ n \in Targets /\ place[n] = 0
      /\ place \in [Repo -> Nat] /\ last \in Nat /\ Targets \subseteq Repo
  BY <1>1 DEF SwarmTypeOK, Remaining
<1>3. place' \in [Repo -> Nat] /\ place'[n] = last + 1 /\ \A m \in Repo : m # n => place'[m] = place[m]
  BY <1>1, <1>2
<1>4. Targets' = Targets /\ \A S : Knot(S)' <=> Knot(S)
  BY <1>1 DEF Targets, Knot, Needs
<1>5. Planning /\ Planning'
  BY <1>1 DEF Planning
<1>6. SwarmTypeOK'
  BY <1>1, <1>2, <1>3, <1>4 DEF SwarmTypeOK, Remaining
<1>7. DepsAreNeeds'
  BY <1>1, <1>4, <1>5 DEF DepsAreNeeds, Needs
<1>8. PlacesDistinct'
  BY <1>1, <1>2, <1>3, <1>4, <1>5 DEF PlacesDistinct
<1>9. DepsPlaced'
  <2> SUFFICES ASSUME NEW m \in Targets, place'[m] # 0 \/ m \in ready', NEW d \in deps[m]
               PROVE  place'[d] # 0 /\ (place'[m] # 0 => place'[d] < place'[m])
    BY <1>1, <1>4 DEF DepsPlaced
  <2>1. place[m] # 0 \/ m \in ready
    BY <1>1, <1>2, <1>3
  <2>2. d \in Targets /\ place[d] # 0 /\ (place[m] # 0 => place[d] < place[m])
    BY <2>1, <1>1 DEF DepsPlaced, SwarmTypeOK
  <2>3. d # n /\ place'[d] = place[d] /\ place[d] <= last
    BY <2>2, <1>2, <1>3, <1>5 DEF PlacesDistinct
  <2> QED
    BY <2>2, <2>3, <1>2, <1>3
<1>10. KnotsUntouched'
  BY <1>1, <1>2, <1>3, <1>4 DEF KnotsUntouched
<1> QED
  BY <1>1, <1>6, <1>7, <1>8, <1>9, <1>10 DEF FlagIsRight, AllPlaced

LEMMA AppendRestKeeps ==
  ASSUME SwarmInv, NEW n \in Repo, AppendRest(n)
  PROVE  SwarmInv'
<1> USE DEF SwarmInv
<1>1. /\ phase = "rest" /\ phase' = "rest" /\ n \in Remaining
      /\ place' = [place EXCEPT ![n] = last + 1] /\ last' = last + 1
      /\ rows' = rows /\ deps' = deps /\ cyclic' = cyclic /\ ready' = ready
  BY DEF AppendRest, First, Place
<1>2. /\ n \in Targets /\ place[n] = 0
      /\ place \in [Repo -> Nat] /\ last \in Nat /\ Targets \subseteq Repo
  BY <1>1 DEF SwarmTypeOK, Remaining
<1>3. place' \in [Repo -> Nat] /\ place'[n] = last + 1 /\ \A m \in Repo : m # n => place'[m] = place[m]
  BY <1>1, <1>2
<1>4. Targets' = Targets /\ \A S : Knot(S)' <=> Knot(S)
  BY <1>1 DEF Targets, Knot, Needs
<1>5. Planning /\ Planning'
  BY <1>1 DEF Planning
<1>6. cyclic
  BY <1>1 DEF FlagIsRight, SwarmTypeOK
<1>7. DepsAreNeeds'
  BY <1>1, <1>4, <1>5 DEF DepsAreNeeds, Needs
<1>8. PlacesDistinct'
  BY <1>1, <1>2, <1>3, <1>4, <1>5 DEF PlacesDistinct
<1>9. FlagIsRight'
  BY <1>1, <1>4, <1>6 DEF FlagIsRight
<1>10. SwarmTypeOK'
  BY <1>1, <1>2, <1>3, <1>4 DEF SwarmTypeOK, AllPlaced
<1> QED
  BY <1>1, <1>7, <1>8, <1>9, <1>10 DEF DepsPlaced, KnotsUntouched, AllPlaced

LEMMA AnswerKeeps ==
  ASSUME SwarmInv, AnswerPlan
  PROVE  SwarmInv'
<1>1. /\ phase = "rest" /\ phase' = "planned" /\ Remaining = {}
      /\ rows' = rows /\ deps' = deps /\ ready' = ready /\ place' = place /\ last' = last
      /\ cyclic' = cyclic
  BY DEF AnswerPlan
<1>2. Targets' = Targets /\ Remaining' = Remaining /\ \A S : Knot(S)' <=> Knot(S)
  BY <1>1 DEF Targets, Remaining, Knot, Needs
<1>3. SwarmTypeOK' /\ DepsAreNeeds'
  BY <1>1, <1>2 DEF SwarmInv, SwarmTypeOK, DepsAreNeeds, Planning, Needs
<1> QED
  BY <1>1, <1>2, <1>3 DEF SwarmInv, PlacesDistinct, DepsPlaced, KnotsUntouched, FlagIsRight,
                          AllPlaced, Planning

LEMMA ForgetKeeps ==
  ASSUME SwarmInv, Forget
  PROVE  SwarmInv'
<1>1. /\ phase' = "idle" /\ rows' = rows
      /\ DOMAIN deps' = {} /\ ready' = {} /\ place' = [n \in Repo |-> 0]
      /\ last' = 0 /\ cyclic' = FALSE
  BY DEF Forget
<1>2. SwarmTypeOK'
  BY <1>1 DEF SwarmInv, SwarmTypeOK, Targets, Remaining
<1> QED
  BY <1>1, <1>2 DEF SwarmInv, DepsAreNeeds, PlacesDistinct, DepsPlaced, KnotsUntouched,
                    FlagIsRight, AllPlaced, Planning

LEMMA SwarmInvNext == SwarmInv /\ [SwarmNext]_swarmVars => SwarmInv'
<1> SUFFICES ASSUME SwarmInv, [SwarmNext]_swarmVars PROVE SwarmInv'
  OBVIOUS
<1>1. CASE UNCHANGED swarmVars
  BY <1>1 DEF swarmVars, SwarmInv, SwarmTypeOK, DepsAreNeeds, PlacesDistinct, DepsPlaced,
              KnotsUntouched, FlagIsRight, AllPlaced, Planning, Targets, Remaining, Knot, Needs
<1>2. CASE SwarmNext
  BY <1>2, RegisterKeeps, PlanKeeps, RoundKeeps, TakeKeeps, AppendRestKeeps, AnswerKeeps, ForgetKeeps
     DEF SwarmNext
<1> QED
  BY <1>1, <1>2

LEMMA SwarmInvHolds == SwarmSpec => []SwarmInv
  BY SwarmInvInit, SwarmInvNext, PTL DEF SwarmSpec

\* The variables of the registry and of the sort stay well typed; what a round
\* still has to take is not placed yet (register, plan_cross_repo_change).
THEOREM SwarmTypeCorrect == SwarmSpec => []SwarmTypeOK
<1>1. SwarmInv => SwarmTypeOK
  BY DEF SwarmInv
<1> QED
  BY <1>1, SwarmInvHolds, PTL

\* A plan names every target once and puts dependencies first unless it reports
\* a cycle, whatever the repositories declare (_toposort).
THEOREM DependenciesFirstHolds == SwarmSpec => []DependenciesFirst
<1>1. SwarmInv => DependenciesFirst
  <2> SUFFICES ASSUME SwarmInv, phase = "planned" PROVE DependenciesFirst
    BY DEF DependenciesFirst
  <2>1. \A n \in Targets : place[n] \in Nat /\ place[n] # 0
    BY DEF SwarmInv, SwarmTypeOK, AllPlaced, Remaining
  <2>2. last \in Nat /\ \A n \in Targets : place[n] <= last
    BY DEF SwarmInv, SwarmTypeOK, PlacesDistinct, Planning
  <2>3. \A n, m \in Targets : place[n] = place[m] => n = m
    BY <2>1 DEF SwarmInv, PlacesDistinct, Planning
  <2>4. ~cyclic => \A n, d \in Targets : Needs(n, d) => place[d] < place[n]
    BY DEF SwarmInv, FlagIsRight, DepsAreNeeds, Planning
  <2> QED
    BY <2>1, <2>2, <2>3, <2>4 DEF DependenciesFirst
<1> QED
  BY <1>1, SwarmInvHolds, PTL

\* has_cycle is the truth about the declared dependencies of the targets.
THEOREM CycleReportedHolds == SwarmSpec => []CycleReported
<1>1. SwarmInv => CycleReported
  BY DEF SwarmInv, SwarmTypeOK, FlagIsRight, CycleReported
<1> QED
  BY <1>1, SwarmInvHolds, PTL

-----------------------------------------------------------------------------
(* KnowledgeGraph.  The walk of impact_analysis: what it has hit lies in      *)
(* layers, the frontier is the last of them, and a walk over the stored      *)
(* graph reads all of its edges.                                            *)

\* A pair of nodes that both are in S.
Between(e, S) == e = <<e[1], e[2]>> /\ e[1] \in S /\ e[2] \in S

GraphStored ==
  /\ build \in Nat /\ nodes \subseteq AllNodes
  /\ build = 0 => nodes = {}
  /\ \A e \in edges : Between(e, nodes)
  /\ \A r \in rebuilds : r.files \in Codebase

\* Hops from the target; layers are counted from it.
Hops(n) == IF n = target.node THEN 0 ELSE depth_of[n]
Placed == Hit \cup {target.node}

QueryTyped ==
  /\ impact \in {"idle", "found", "walking", "answered"}
  /\ depth \in Nat /\ depth_of \in [AllNodes -> Nat] /\ frontier \subseteq AllNodes
  /\ \A e \in reverse : Between(e, AllNodes)
  /\ target.build \in Nat /\ target.build <= build
  /\ target.build > 0 => target.node \in AllNodes
  /\ target.build = 0 => target = NoTarget
  /\ impact \in {"found", "walking"} => target.build > 0

Beginning == depth = 0 /\ frontier = {target.node} /\ depth_of = Unhit

Layers ==
  /\ depth_of[target.node] = 0
  /\ \A n \in Hit : /\ depth_of[n] <= depth
                    /\ \E m \in Placed : <<n, m>> \in reverse /\ depth_of[n] = Hops(m) + 1
  /\ \A e \in reverse : e[2] \in Placed /\ Hops(e[2]) < depth =>
       e[1] \in Placed /\ Hops(e[1]) <= Hops(e[2]) + 1
  /\ \A n \in AllNodes : n \in frontier <=> n \in Placed /\ Hops(n) = depth

GraphInv ==
  /\ GraphStored /\ QueryTyped
  /\ impact = "found" => Beginning
  /\ impact \in {"walking", "answered"} /\ target.build > 0 =>
       /\ Layers
       /\ target.build = build => reverse = edges
  /\ RiskIsRight

-----------------------------------------------------------------------------
(* What the extractor makes of a codebase.                                  *)

LEMMA EdgesConnectNodes ==
  ASSUME NEW files, NEW e \in Edges(files)
  PROVE  Between(e, Nodes(files))
<1>1. PICK f \in Seen(files) : e \in EdgesOf(f)
      BY DEF Edges
<1>2. e[1] \in Nodes(files) /\ e[2] \in Nodes(files)
      BY DEF Edges
<1>3. e = <<e[1], e[2]>>
  <2>1. CASE e \in ChainOf(f)
    <3>1. \/ \E i \in 1 .. Len(f.dirs) - 1 : e = <<ModuleNode(f, i), ModuleNode(f, i + 1)>>
          \/ e = <<ModuleNode(f, Len(f.dirs)), FileNode(f)>>
          BY <2>1 DEF ChainOf
    <3> HIDE DEF ModuleNode, FileNode
    <3> QED
        BY <3>1
  <2>2. CASE e \notin ChainOf(f)
    <3>1. \/ \E n \in f.funcs : e = <<FileNode(f), Func(f, n)>>
          \/ \E n \in f.classes : e = <<FileNode(f), Class(f, n)>>
          \/ \E n \in f.imports : e = <<FileNode(f), External(n)>>
          \/ \E p \in f.calls : e = <<Func(f, p[1]), Func(f, p[2])>>
          \/ \E p \in f.routes : e = <<Func(f, p[1]), Node("api_route", "", p[2])>>
          \/ \E p \in f.tables : e = <<Class(f, p[1]), Node("db_table", "", p[2])>>
          \/ \E p \in f.bases : e = <<Class(f, p[1]), Node("class", "", p[2])>>
      <4>1. Read(f)
            BY <1>1, <2>2 DEF EdgesOf
      <4> HIDE DEF Read, FileNode, Func, Class, External, Node
      <4>2. CASE IsPython(f)
            BY <1>1, <2>2, <4>1, <4>2 DEF EdgesOf
      <4>3. CASE ~IsPython(f)
            BY <1>1, <2>2, <4>1, <4>3 DEF EdgesOf
      <4> QED
          BY <4>2, <4>3
    <3>2. \E x, y : e = <<x, y>>
          BY <3>1, Zenon
    <3> QED
        BY <3>2
  <2> QED
      BY <2>1, <2>2
<1> QED
    BY <1>2, <1>3 DEF Between

LEMMA NodesAreAll ==
  ASSUME NEW files \in Codebase
  PROVE  Nodes(files) \subseteq AllNodes
  BY DEF AllNodes

LEMMA GraphInvInit == GraphInit => GraphInv
<1> SUFFICES ASSUME GraphInit PROVE GraphInv
    OBVIOUS
<1>1. GraphStored
      BY DEF GraphInit, GraphStored
<1>2. QueryTyped
  <2>1. depth_of \in [AllNodes -> Nat] /\ target.build = 0 /\ target = NoTarget
        BY DEF GraphInit, NoTarget, Unhit
  <2> QED
      BY <2>1 DEF GraphInit, QueryTyped
<1> QED
    BY <1>1, <1>2 DEF GraphInit, GraphInv, RiskIsRight

-----------------------------------------------------------------------------
(* Rebuilds.                                                                *)

LEMMA QueryStays ==
  ASSUME GraphInv, UNCHANGED queryVars, GraphStored',
         \/ build' = build /\ edges' = edges
         \/ build' = build + 1
  PROVE  GraphInv'
<1>0. build \in Nat /\ target.build \in Nat /\ target.build <= build
      BY DEF GraphInv, GraphStored, QueryTyped
<1>1. /\ target' = target /\ build' \in Nat /\ target.build <= build'
      /\ target.build = build' => target.build = build /\ edges' = edges
      BY <1>0 DEF queryVars
<1>2. QueryTyped'
      BY <1>1 DEF GraphInv, QueryTyped, queryVars
<1>3. /\ (impact = "found" => Beginning)'
      /\ Layers => Layers'
      BY DEF GraphInv, queryVars, Beginning, Layers, Placed, Hops, Hit
<1>4. (impact \in {"walking", "answered"} /\ target.build > 0 =>
         /\ Layers
         /\ target.build = build => reverse = edges)'
      BY <1>1, <1>3 DEF GraphInv, queryVars
<1>5. RiskIsRight'
      BY <1>0, <1>1 DEF GraphInv, RiskIsRight, queryVars
<1> QED
    BY <1>2, <1>3, <1>4, <1>5 DEF GraphInv

LEMMA RebuildKeeps ==
  ASSUME GraphInv,
         \/ \E files \in Codebase : RebuildBegin(files)
         \/ \E r \in rebuilds : RebuildCommit(r) \/ RebuildFails(r)
  PROVE  GraphInv'
<1>0. GraphStored
      BY DEF GraphInv
<1>1. ASSUME NEW files \in Codebase, RebuildBegin(files) PROVE GraphInv'
  <2>1. GraphStored' /\ build' = build /\ edges' = edges
        BY <1>0, <1>1 DEF RebuildBegin, GraphStored
  <2> QED
      BY <1>1, <2>1, QueryStays DEF RebuildBegin
<1>2. ASSUME NEW r \in rebuilds, RebuildCommit(r) PROVE GraphInv'
  <2>1. r.files \in Codebase /\ build' = build + 1 /\ build \in Nat
        BY <1>0, <1>2 DEF RebuildCommit, GraphStored
  <2>2. nodes' = Nodes(r.files) /\ edges' = Edges(r.files) /\ rebuilds' \subseteq rebuilds
        BY <1>2 DEF RebuildCommit
  <2>3. nodes' \subseteq AllNodes /\ \A e \in edges' : Between(e, nodes')
        BY <2>1, <2>2, NodesAreAll, EdgesConnectNodes
  <2>4. GraphStored'
        BY <1>0, <2>1, <2>2, <2>3 DEF GraphStored
  <2> QED
      BY <1>2, <2>1, <2>4, QueryStays DEF RebuildCommit
<1>3. ASSUME NEW r \in rebuilds, RebuildFails(r) PROVE GraphInv'
  <2>1. GraphStored' /\ build' = build /\ edges' = edges
        BY <1>0, <1>3 DEF RebuildFails, GraphStored
  <2> QED
      BY <1>3, <2>1, QueryStays DEF RebuildFails
<1> QED
    BY <1>1, <1>2, <1>3

-----------------------------------------------------------------------------
(* The three queries.                                                       *)

LEMMA AskKeeps ==
  ASSUME GraphInv, NEW n \in AllNodes, ImpactAsk(n)
  PROVE  GraphInv'
<1>1. /\ GraphStored' /\ depth' = 0 /\ frontier' = {n} /\ depth_of' = Unhit /\ reverse' = {}
      /\ build' = build /\ build \in Nat /\ (build = 0 => nodes = {})
      BY DEF GraphInv, GraphStored, ImpactAsk, storedVars
<1>2. depth_of' \in [AllNodes -> Nat]
  <2>1. Unhit \in [AllNodes -> Nat]
        BY DEF Unhit
  <2> QED
      BY <1>1, <2>1
<1>3. /\ depth' \in Nat /\ frontier' \subseteq AllNodes
      /\ \A e \in reverse' : Between(e, AllNodes)
      BY <1>1
<1>4. CASE n \in nodes
  <2>1. impact' = "found" /\ target' = [node |-> n, build |-> build] /\ build > 0
        BY <1>1, <1>4 DEF ImpactAsk
  <2>2. target'.node = n /\ target'.build = build
        BY <2>1
  <2> HIDE DEF Unhit, AllNodes
  <2>3. QueryTyped'
        BY <1>1, <1>2, <1>3, <2>1, <2>2 DEF QueryTyped
  <2>4. Unhit' = Unhit
        BY DEF Unhit, AllNodes
  <2>5. Beginning'
        BY <1>1, <2>2, <2>4 DEF Beginning
  <2> QED
      BY <1>1, <2>1, <2>3, <2>5 DEF GraphInv, RiskIsRight
<1>5. CASE n \notin nodes
  <2>1. impact' = "answered" /\ target' = NoTarget
        BY <1>5 DEF ImpactAsk
  <2>2. target'.build = 0
        BY <2>1 DEF NoTarget
  <2>3. NoTarget' = NoTarget
        BY DEF NoTarget, Node
  <2>4. QueryTyped'
        BY <1>1, <1>2, <1>3, <2>1, <2>2, <2>3 DEF QueryTyped
  <2> QED
      BY <1>1, <2>1, <2>2, <2>4 DEF GraphInv, RiskIsRight
<1> QED
    BY <1>4, <1>5

LEMMA EdgesKeeps ==
  ASSUME GraphInv, ImpactEdges
  PROVE  GraphInv'
<1>1. /\ impact = "found" /\ impact' = "walking"
      /\ reverse' = IF target.build = build THEN edges ELSE {}
      /\ UNCHANGED <<build, nodes, edges, rebuilds, target, depth, frontier, depth_of, risk>>
      BY DEF ImpactEdges, storedVars
<1>2. GraphStored' /\ Beginning /\ QueryTyped /\ target.build > 0 /\ target.node \in AllNodes
      BY <1>1 DEF GraphInv, GraphStored, QueryTyped
<1>3. QueryTyped'
      BY <1>1, <1>2 DEF QueryTyped, GraphInv, GraphStored, Between
<1>4. Layers'
  <2>1. Hit' = {} /\ depth_of[target.node] = 0
        BY <1>1, <1>2 DEF Hit, Beginning, Unhit
  <2> QED
      BY <1>1, <1>2, <2>1 DEF Layers, Placed, Hops, Beginning
<1>5. target'.build = build' => reverse' = edges'
      BY <1>1
<1> QED
    BY <1>1, <1>2, <1>3, <1>4, <1>5 DEF GraphInv, RiskIsRight

\* One more layer.
LEMMA HopKeeps ==
  ASSUME GraphInv, ImpactHop
  PROVE  GraphInv'
<1> DEFINE next == Dependents(frontier) \ (Hit \cup {target.node})
           t == target.node
<1>1. /\ impact = "walking" /\ depth' = depth + 1 /\ frontier' = next
      /\ depth_of' = [n \in AllNodes |-> IF n \in next THEN depth + 1 ELSE depth_of[n]]
      /\ UNCHANGED <<build, nodes, edges, rebuilds, impact, target, reverse, risk>>
      BY DEF ImpactHop, storedVars
<1>2. /\ QueryTyped /\ target.build > 0 /\ t \in AllNodes /\ Layers
      /\ target.build = build => reverse = edges
      BY <1>1 DEF GraphInv, QueryTyped
<1>3. \A n \in next : /\ n \in AllNodes /\ n \notin Placed
                      /\ \E m \in frontier : <<n, m>> \in reverse
      BY <1>2 DEF Dependents, QueryTyped, Between, Placed
<1>4. \A e \in reverse : e[2] \in frontier => e[1] \in next \/ e[1] \in Placed
      BY DEF Dependents, Placed
<1> HIDE DEF next
<1>5. /\ \A n \in next : depth_of'[n] = depth + 1
      /\ \A n \in AllNodes \ next : depth_of'[n] = depth_of[n]
      /\ depth \in Nat /\ depth_of' \in [AllNodes -> Nat]
      /\ \A n \in AllNodes : depth_of[n] \in Nat
      BY <1>1, <1>2, <1>3 DEF QueryTyped
<1>6. Hit' = Hit \cup next /\ Placed' = Placed \cup next
      BY <1>1, <1>3, <1>5 DEF Hit, Placed
<1>7. /\ \A n \in Placed : n \in AllNodes /\ Hops(n)' = Hops(n) /\ Hops(n) <= depth /\ Hops(n) \in Nat
      /\ \A n \in next : Hops(n)' = depth + 1
  <2>1. \A n \in Placed : n \in AllNodes /\ n \notin next /\ (n = t \/ n \in Hit)
        BY <1>2, <1>3 DEF Placed, Hit
  <2>2. \A n \in Placed : Hops(n)' = Hops(n) /\ Hops(n) <= depth /\ Hops(n) \in Nat
        BY <1>1, <1>2, <1>5, <2>1 DEF Hops, Layers
  <2>3. \A n \in next : Hops(n)' = depth + 1
        BY <1>1, <1>3, <1>5 DEF Hops, Placed
  <2> QED
      BY <2>1, <2>2, <2>3
<1>8. QueryTyped'
      BY <1>1, <1>2, <1>3, <1>5 DEF QueryTyped
<1>9. Layers'
  <2>1. depth_of'[t] = 0
        BY <1>2, <1>3, <1>5 DEF Layers, Placed
  <2>2. ASSUME NEW n \in Hit'
        PROVE  /\ depth_of'[n] <= depth'
               /\ \E m \in Placed' : <<n, m>> \in reverse /\ depth_of'[n] = Hops(m)' + 1
    <3>1. CASE n \in next
      <4>1. PICK m \in frontier : <<n, m>> \in reverse
            BY <1>3, <3>1
      <4>2. m \in Placed /\ Hops(m) = depth
            BY <1>2 DEF Layers, QueryTyped
      <4>3. /\ depth_of'[n] = depth + 1 /\ depth' = depth + 1
            /\ m \in Placed' /\ Hops(m)' = depth
            BY <1>1, <1>5, <1>6, <1>7, <3>1, <4>2
      <4> QED
          BY <1>5, <4>1, <4>3
    <3>2. CASE n \in Hit /\ n \notin next
      <4>1. PICK m \in Placed : <<n, m>> \in reverse /\ depth_of[n] = Hops(m) + 1
            BY <1>2, <3>2 DEF Layers
      <4>2. n \in AllNodes /\ depth_of'[n] = depth_of[n] /\ depth_of[n] <= depth
            BY <1>2, <1>5, <3>2 DEF Hit, Layers
      <4> QED
          BY <1>1, <1>5, <1>6, <1>7, <4>1, <4>2
    <3> QED
        BY <1>6, <2>2, <3>1, <3>2
  <2>3. ASSUME NEW e \in reverse, e[2] \in Placed', (Hops(e[2]))' < depth'
        PROVE  e[1] \in Placed' /\ (Hops(e[1]))' <= (Hops(e[2]))' + 1
    <3>1. e[2] \in Placed
          BY <1>1, <1>5, <1>6, <1>7, <2>3
    <3>2. CASE Hops(e[2]) < depth
      <4>1. e[1] \in Placed /\ Hops(e[1]) <= Hops(e[2]) + 1
            BY <1>2, <3>1, <3>2 DEF Layers
      <4> QED
          BY <1>6, <1>7, <3>1, <4>1
    <3>3. CASE Hops(e[2]) = depth
      <4>1. e[2] \in frontier
            BY <1>2, <1>7, <3>1, <3>3 DEF Layers
      <4>2. e[1] \in next \/ e[1] \in Placed
            BY <1>4, <4>1
      <4> QED
          BY <1>5, <1>6, <1>7, <3>1, <3>3, <4>2
    <3> QED
        BY <1>5, <1>7, <3>1, <3>2, <3>3
  <2>4. ASSUME NEW n \in AllNodes
        PROVE  n \in next <=> n \in Placed' /\ Hops(n)' = depth'
        BY <1>1, <1>5, <1>6, <1>7
  <2> QED
      BY <1>1, <2>1, <2>2, <2>3, <2>4 DEF Layers
<1> QED
    BY <1>1, <1>2, <1>8, <1>9 DEF GraphInv, GraphStored, RiskIsRight

-----------------------------------------------------------------------------
(* The answer.                                                              *)

LEMMA LeastNatural ==
  ASSUME NEW T \in SUBSET Nat, T # {}
  PROVE  \E m \in T : \A y \in T : m <= y
<1> DEFINE Smaller == OpToRel(<, Nat)
<1>1. IsWellFoundedOn(Smaller, Nat)
      BY NatLessThanWellFounded, Zenon
<1>2. \A x, y : x \in Nat /\ y \in Nat /\ x < y => <<x, y>> \in Smaller
      BY Zenon DEF OpToRel
<1> HIDE DEF Smaller
<1>3. PICK m \in T : \A y \in T : ~ (<<y, m>> \in Smaller)
      BY <1>1, WFMin, Zenon
<1>4. \A y \in T : y \in Nat /\ m \in Nat /\ ~ (y < m)
  <2> SUFFICES ASSUME NEW y \in T PROVE y \in Nat /\ m \in Nat /\ ~ (y < m)
      OBVIOUS
  <2>1. y \in Nat /\ m \in Nat
        OBVIOUS
  <2> QED
      BY <1>2, <1>3, <2>1, Zenon
<1>5. \A y \in T : m <= y
      BY <1>4
<1> QED
    BY <1>5

\* A finished walk hit a node iff some other node depends on the target.
LEMMA HitIffDependent ==
  ASSUME QueryTyped, Layers, target.node \in AllNodes, MaxDepth > 0,
         frontier = {} \/ depth = MaxDepth
  PROVE  Hit = {} <=> \A e \in reverse : e[2] = target.node => e[1] = target.node
<1> DEFINE t == target.node
<1>1. /\ t \in Placed /\ Hops(t) = 0 /\ depth \in Nat /\ depth > 0
  <2>1. t \in Placed /\ Hops(t) = 0 /\ depth \in Nat
        BY DEF Placed, Hops, QueryTyped
  <2>2. CASE frontier = {}
        BY <2>1, <2>2 DEF Layers
  <2>3. CASE depth = MaxDepth
        BY <2>1, <2>3
  <2> QED
      BY <2>1, <2>2, <2>3
<1>2. ASSUME Hit = {}, NEW e \in reverse, e[2] = t
      PROVE  e[1] = t
  <2>1. e[1] \in Placed
        BY <1>1, <1>2 DEF Layers
  <2> QED
      BY <1>2, <2>1 DEF Placed
<1>3. ASSUME Hit # {}
      PROVE  \E e \in reverse : e[2] = t /\ e[1] # t
  <2> DEFINE T == {depth_of[n] : n \in Hit}
  <2>1. T \in SUBSET Nat /\ T # {}
        BY <1>3 DEF Hit, QueryTyped
  <2>2. PICK d \in T : \A y \in T : d <= y
    <3> HIDE DEF T
    <3> QED
        BY <2>1, LeastNatural
  <2>3. PICK n \in Hit : depth_of[n] = d
        BY <2>2
  <2>4. \A k \in Hit : depth_of[n] <= depth_of[k]
        BY <2>2, <2>3
  <2>5. PICK m \in Placed : <<n, m>> \in reverse /\ depth_of[n] = Hops(m) + 1
        BY <2>3 DEF Layers
  <2>6. m = t
    <3> SUFFICES ASSUME m # t PROVE FALSE
        OBVIOUS
    <3>1. m \in Hit /\ Hops(m) = depth_of[m]
          BY <2>5 DEF Placed, Hops
    <3>2. depth_of[m] \in Nat
          BY <3>1 DEF Hit, QueryTyped
    <3> QED
        BY <2>4, <2>5, <3>1, <3>2
  <2>7. n # t
        BY <2>3 DEF Hit, Layers
  <2>8. <<n, m>> \in reverse /\ <<n, m>>[2] = t /\ <<n, m>>[1] # t
        BY <2>5, <2>6, <2>7
  <2> QED
      BY <2>8
<1> QED
    BY <1>2, <1>3

LEMMA ImpactAnswerKeeps ==
  ASSUME GraphInv, ImpactAnswer
  PROVE  GraphInv'
<1>1. /\ impact = "walking" /\ impact' = "answered" /\ (frontier = {} \/ depth = MaxDepth)
      /\ risk' = IF Hit = {} THEN "isolated" ELSE Risk(IF target.build = build THEN Hit ELSE {})
      /\ UNCHANGED <<build, nodes, edges, rebuilds, target, reverse, depth, frontier, depth_of>>
      BY DEF ImpactAnswer, storedVars
<1>2. /\ QueryTyped /\ Layers /\ target.build > 0 /\ target.node \in AllNodes
      /\ target.build = build => reverse = edges
      BY <1>1 DEF GraphInv, QueryTyped
<1>3. GraphStored' /\ QueryTyped'
      BY <1>1 DEF GraphInv, GraphStored, QueryTyped
<1>4. Layers'
      BY <1>1, <1>2 DEF Layers, Placed, Hops, Hit
<1>5. risk' = "isolated" <=> Hit = {}
      BY <1>1 DEF Risk
<1>6. RiskIsRight'
      BY <1>1, <1>2, <1>5, HitIffDependent DEF RiskIsRight
<1> QED
    BY <1>1, <1>2, <1>3, <1>4, <1>6 DEF GraphInv

LEMMA DoneKeeps ==
  ASSUME GraphInv, ImpactDone
  PROVE  GraphInv'
  BY DEF GraphInv, GraphStored, QueryTyped, ImpactDone, storedVars, RiskIsRight

LEMMA GraphInvStep ==
  ASSUME GraphInv, [GraphNext]_graphVars
  PROVE  GraphInv'
<1>1. CASE UNCHANGED graphVars
  <2>1. GraphStored' /\ UNCHANGED queryVars /\ build' = build /\ edges' = edges
        BY <1>1 DEF graphVars, storedVars, GraphInv, GraphStored
  <2> QED
      BY <2>1, QueryStays
<1>2. CASE GraphNext
      BY <1>2, RebuildKeeps, AskKeeps, EdgesKeeps, HopKeeps, ImpactAnswerKeeps, DoneKeeps
         DEF GraphNext
<1> QED
    BY <1>1, <1>2

LEMMA GraphInvHolds == GraphSpec => []GraphInv
<1>1. GraphInit => GraphInv
      BY GraphInvInit
<1>2. GraphInv /\ [GraphNext]_graphVars => GraphInv'
      BY GraphInvStep
<1> QED
    BY <1>1, <1>2, PTL DEF GraphSpec

\* The walk of impact_analysis is breadth first whatever the graph and however
\* rebuilds interleave with its queries: its depths are the distances in the
\* edges it read.
THEOREM DepthsAreDistancesHolds == GraphSpec => []DepthsAreDistances
<1>1. GraphInv => DepthsAreDistances
  <2> SUFFICES ASSUME GraphInv, impact \in {"walking", "answered"}, target # NoTarget
               PROVE  DepthsAreDistances
      BY DEF DepthsAreDistances
  <2>1. Layers
        BY DEF GraphInv, QueryTyped
  <2>2. \A n \in Hit : n # target.node /\ Hops(n) = depth_of[n]
        BY <2>1 DEF Layers, Hops, Hit
  <2>3. depth_of[target.node] = 0
        BY <2>1 DEF Layers
  <2>4. \A n \in Hit : /\ Hops(n) <= depth
                       /\ \E m \in Placed : <<n, m>> \in reverse /\ Hops(n) = Hops(m) + 1
        BY <2>1, <2>2 DEF Layers
  <2>5. \A e \in reverse : e[2] \in Placed /\ Hops(e[2]) < depth =>
          e[1] \in Placed /\ Hops(e[1]) <= Hops(e[2]) + 1
        BY <2>1 DEF Layers
  <2> QED
      BY <2>3, <2>4, <2>5 DEF DepthsAreDistances, Hops, Placed
<1> QED
    BY <1>1, GraphInvHolds, PTL

\* An answer of impact_analysis about the graph that is still stored says
\* "isolated" exactly when no other node depends on the one asked about.
THEOREM RiskIsRightHolds == GraphSpec => []RiskIsRight
<1>1. GraphInv => RiskIsRight
      BY DEF GraphInv
<1> QED
    BY <1>1, GraphInvHolds, PTL

-----------------------------------------------------------------------------
(* Smells.  What the search for smells says of a graph.                     *)

\* A simple path of length m.
IsPath(p, m, E) ==
  /\ m \in Nat /\ m > 0 /\ p \in [1 .. m -> Symbol]
  /\ \A i, j \in 1 .. m : p[i] = p[j] => i = j
  /\ \A i \in 1 .. m - 1 : <<p[i], p[i + 1]>> \in E

LEMMA ChainIsPath ==
  ASSUME NEW E, NEW p \in Chains(E)
  PROVE  IsPath(p, Len(p), E)
<1>1. /\ p \in SeqOf(Symbol, Cardinality(Symbol)) /\ p # <<>> /\ IsInjective(p)
      /\ \A i \in 1 .. Len(p) - 1 : <<p[i], p[i + 1]>> \in E
      BY DEF Chains, Orders
<1>2. PICK m \in 0 .. Cardinality(Symbol) : p \in [1 .. m -> Symbol]
      BY <1>1 DEF SeqOf
<1>3. m \in Nat
  <2>1. Cardinality(Symbol) \in Nat
        BY SmellsAssumption, FS_AddElement, FS_CardinalityType DEF Symbol
  <2> QED
      BY <1>2, <2>1
<1>4. p \in Seq(Symbol) /\ Len(p) = m /\ DOMAIN p = 1 .. m
      BY <1>2, <1>3
<1>5. m > 0
      BY <1>1, <1>3, <1>4
<1> QED
    BY <1>1, <1>2, <1>3, <1>4, <1>5 DEF IsPath, IsInjective

LEMMA PathIsChain ==
  ASSUME NEW E, NEW p, NEW m, IsPath(p, m, E)
  PROVE  p \in Chains(E) /\ Len(p) = m /\ Last(p) = p[m]
<1>1. IsFiniteSet(Symbol) /\ Cardinality(Symbol) \in Nat
      BY SmellsAssumption, FS_AddElement, FS_CardinalityType DEF Symbol
<1>2. m \in Nat /\ m > 0 /\ p \in [1 .. m -> Symbol] /\ \A i, j \in 1 .. m : p[i] = p[j] => i = j
      BY DEF IsPath
<1>3. p \in Seq(Symbol) /\ Len(p) = m /\ DOMAIN p = 1 .. m
      BY <1>2
<1>4. m <= Cardinality(Symbol)
  <2>1. p \in Injection(1 .. m, Symbol)
        BY <1>2, <1>3 DEF Injection, IsInjective
  <2>2. Cardinality(1 .. m) = m
        BY <1>2, FS_Interval
  <2> QED
      BY <1>1, <2>1, <2>2, FS_Injection
<1>5. p \in SeqOf(Symbol, Cardinality(Symbol))
  <2>1. m \in 0 .. Cardinality(Symbol)
        BY <1>1, <1>2, <1>4
  <2> QED
      BY <1>2, <2>1 DEF SeqOf
<1>6. IsInjective(p) /\ p # <<>>
      BY <1>2, <1>3 DEF IsInjective
<1> QED
    BY <1>3, <1>5, <1>6 DEF IsPath, Chains, Orders, Last

\* Two paths, there and back, give a path from the first node to the one before
\* it on the way back: along the first path up to where it first meets the
\* second, and along that one from there.
LEMMA PathAround ==
  ASSUME NEW E, NEW p, NEW m, NEW q, NEW n, IsPath(p, m, E), IsPath(q, n, E),
         p[1] = q[n], p[m] = q[1], p[1] # p[m]
  PROVE  \E r, l : IsPath(r, l, E) /\ r[1] = q[n] /\ r[l] = q[n - 1]
<1>1. /\ m \in Nat /\ m > 1 /\ n \in Nat /\ n > 1
      /\ p \in [1 .. m -> Symbol] /\ q \in [1 .. n -> Symbol]
      BY DEF IsPath
<1>2. /\ \A i, j \in 1 .. m : p[i] = p[j] => i = j
      /\ \A i, j \in 1 .. n : q[i] = q[j] => i = j
      /\ \A i \in 1 .. m - 1 : <<p[i], p[i + 1]>> \in E
      /\ \A i \in 1 .. n - 1 : <<q[i], q[i + 1]>> \in E
      BY DEF IsPath
<1> DEFINE T == {j \in 2 .. m : \E i \in 1 .. n : p[j] = q[i]}
<1>3. T \in SUBSET Nat /\ T # {}
  <2>1. m \in T
        BY <1>1
  <2> QED
      BY <1>1, <2>1
<1>4. PICK j \in T : \A y \in T : j <= y
  <2> HIDE DEF T
  <2> QED
      BY <1>3, LeastNatural
<1>5. PICK i \in 1 .. n : p[j] = q[i]
      BY <1>4
<1>6. j \in 2 .. m /\ i \in 1 .. n - 1
  <2>1. j \in 2 .. m
        BY <1>4
  <2>2. i # n
        BY <1>1, <1>2, <1>5, <2>1
  <2> QED
      BY <1>1, <1>5, <2>1, <2>2
<1>7. \A k \in 2 .. j - 1, i2 \in 1 .. n : p[k] # q[i2]
  <2> SUFFICES ASSUME NEW k \in 2 .. j - 1, NEW i2 \in 1 .. n, p[k] = q[i2] PROVE FALSE
      OBVIOUS
  <2>1. k \in T /\ k < j
        BY <1>1, <1>6
  <2> HIDE DEF T
  <2> QED
      BY <1>4, <2>1, <1>6
<1> HIDE DEF T
<1> DEFINE l == j + n - 1 - i
           r == [k \in 1 .. l |-> IF k <= j THEN p[k] ELSE q[i + k - j]]
<1>8. l \in Nat /\ l > 1 /\ j <= l
      BY <1>1, <1>6
<1>9. /\ \A k \in 1 .. j : k \in 1 .. l /\ k \in 1 .. m /\ r[k] = p[k]
      /\ \A k \in j + 1 .. l : k \in 1 .. l /\ i + k - j \in i + 1 .. n - 1 /\ r[k] = q[i + k - j]
      BY <1>1, <1>6, <1>8
<1>10. r \in [1 .. l -> Symbol]
  <2>1. ASSUME NEW k \in 1 .. l PROVE r[k] \in Symbol
    <3>1. CASE k <= j
          BY <1>1, <1>6, <1>9, <3>1
    <3>2. CASE k > j
          BY <1>1, <1>6, <1>9, <3>2
    <3> QED
        BY <1>6, <3>1, <3>2
  <2> QED
      BY <2>1
<1>11. r[1] = q[n] /\ r[l] = q[n - 1]
  <2>1. r[1] = q[n]
        BY <1>1, <1>6, <1>9
  <2>2. CASE l = j
        BY <1>1, <1>5, <1>6, <1>9, <2>2
  <2>3. CASE l > j
    <3>1. l \in j + 1 .. l /\ i + l - j = n - 1
          BY <1>1, <1>6, <1>8, <2>3
    <3> HIDE DEF l, r
    <3> QED
        BY <1>9, <2>1, <3>1
  <2> QED
      BY <1>8, <1>6, <2>1, <2>2, <2>3
<1> HIDE DEF r
<1>12. \A k \in 1 .. j, k2 \in j + 1 .. l : r[k] # r[k2]
  <2> SUFFICES ASSUME NEW k \in 1 .. j, NEW k2 \in j + 1 .. l, r[k] = r[k2] PROVE FALSE
      OBVIOUS
  <2>1. i + k2 - j \in i + 1 .. n - 1 /\ p[k] = q[i + k2 - j]
        BY <1>9
  <2>2. CASE k = 1
        BY <1>1, <1>2, <1>6, <2>1, <2>2
  <2>3. CASE k = j
        BY <1>1, <1>2, <1>5, <1>6, <2>1, <2>3
  <2>4. CASE k \in 2 .. j - 1
        BY <1>1, <1>6, <1>7, <2>1, <2>4
  <2> QED
      BY <1>6, <2>2, <2>3, <2>4
<1>13. \A k, k2 \in 1 .. l : r[k] = r[k2] => k = k2
  <2> SUFFICES ASSUME NEW k \in 1 .. l, NEW k2 \in 1 .. l, r[k] = r[k2] PROVE k = k2
      OBVIOUS
  <2>1. CASE k \in 1 .. j /\ k2 \in 1 .. j
        BY <1>2, <1>9, <2>1
  <2>2. CASE k \in j + 1 .. l /\ k2 \in j + 1 .. l
    <3>1. /\ i + k - j \in 1 .. n /\ i + k2 - j \in 1 .. n
          /\ q[i + k - j] = q[i + k2 - j]
          BY <1>1, <1>6, <1>9, <2>2
    <3>2. i + k - j = i + k2 - j
          BY <1>2, <3>1
    <3> QED
        BY <1>6, <1>8, <2>2, <3>2
  <2>3. CASE (k \in 1 .. j /\ k2 \in j + 1 .. l) \/ (k2 \in 1 .. j /\ k \in j + 1 .. l)
        BY <1>12, <2>3
  <2>4. k \in 1 .. j \/ k \in j + 1 .. l
        BY <1>6, <1>8
  <2>5. k2 \in 1 .. j \/ k2 \in j + 1 .. l
        BY <1>6, <1>8
  <2> QED
      BY <2>1, <2>2, <2>3, <2>4, <2>5
<1>14. \A k \in 1 .. l - 1 : <<r[k], r[k + 1]>> \in E
  <2> SUFFICES ASSUME NEW k \in 1 .. l - 1 PROVE <<r[k], r[k + 1]>> \in E
      OBVIOUS
  <2>1. CASE k < j
    <3>1. k \in 1 .. j /\ k + 1 \in 1 .. j /\ k \in 1 .. m - 1
          BY <1>1, <1>6, <2>1
    <3> QED
        BY <1>2, <1>9, <3>1
  <2>2. CASE k = j
    <3>1. k \in 1 .. j /\ k + 1 \in j + 1 .. l /\ i + (k + 1) - j = i + 1
          BY <1>1, <1>6, <1>8, <2>2
    <3>2. r[k] = q[i] /\ r[k + 1] = q[i + 1]
          BY <1>5, <1>9, <2>2, <3>1
    <3> QED
        BY <1>2, <1>6, <3>2
  <2>3. CASE k > j
    <3>1. /\ k \in j + 1 .. l /\ k + 1 \in j + 1 .. l
          /\ i + (k + 1) - j = (i + k - j) + 1 /\ i + k - j \in 1 .. n - 1
          BY <1>1, <1>6, <1>8, <2>3
    <3>2. r[k] = q[i + k - j] /\ r[k + 1] = q[(i + k - j) + 1]
          BY <1>9, <3>1
    <3> QED
        BY <1>2, <3>1, <3>2
  <2> QED
      BY <1>6, <1>8, <2>1, <2>2, <2>3
<1>15. IsPath(r, l, E)
      BY <1>8, <1>10, <1>13, <1>14 DEF IsPath
<1> QED
    BY <1>11, <1>15

\* Edges of the graph of one file: the file defines functions, which call each other.
OfOneFile(E) == \A e \in E : e = <<e[1], e[2]>> /\ e[1] \in Symbol /\ e[2] \in Function

Mutual(E) ==
  \E f, g \in Function :
    f # g /\ \E p, q \in Chains(E) : p[1] = f /\ Last(p) = g /\ q[1] = g /\ Last(q) = f

\* The cycles through more than one node are those of two functions that reach
\* each other.
LEMMA CycleIsMutual ==
  ASSUME NEW E, OfOneFile(E)
  PROVE  OnCycle(E) # {} <=> Mutual(E)
<1>1. ASSUME OnCycle(E) # {} PROVE Mutual(E)
  <2>1. PICK e \in E : e[1] # e[2] /\ \E p \in Chains(E) : p[1] = e[2] /\ Last(p) = e[1]
        BY <1>1 DEF OnCycle
  <2>2. PICK p \in Chains(E) : p[1] = e[2] /\ Last(p) = e[1]
        BY <2>1
  <2> DEFINE m == Len(p)
             edge == <<e[1], e[2]>>
  <2>3. IsPath(p, m, E) /\ p[m] = e[1]
        BY <2>2, ChainIsPath DEF Last
  <2>4. m > 1 /\ m \in Nat
        BY <2>1, <2>2, <2>3 DEF IsPath
  <2>5. e[1] \in Function /\ e[2] \in Function
    <3>1. <<p[m - 1], p[m]>> \in E
      <4>1. m - 1 \in 1 .. m - 1 /\ (m - 1) + 1 = m
            BY <2>4
      <4> QED
          BY <2>3, <4>1 DEF IsPath
    <3> QED
        BY <2>3, <3>1 DEF OfOneFile
  <2>6. IsPath(edge, 2, E)
    <3>1. edge \in [1 .. 2 -> Symbol] /\ edge \in E
          BY <2>5 DEF Symbol, OfOneFile
    <3>2. edge[1] = e[1] /\ edge[2] = e[2] /\ edge = <<edge[1], edge[2]>>
          OBVIOUS
    <3> HIDE DEF edge
    <3> QED
        BY <2>1, <3>1, <3>2 DEF IsPath
  <2>7. edge \in Chains(E) /\ edge[1] = e[1] /\ Last(edge) = e[2]
    <3>1. edge[1] = e[1] /\ edge[2] = e[2]
          OBVIOUS
    <3> HIDE DEF edge
    <3> QED
        BY <2>6, <3>1, PathIsChain
  <2> QED
      BY <2>1, <2>2, <2>5, <2>7 DEF Mutual
<1>2. ASSUME Mutual(E) PROVE OnCycle(E) # {}
  <2>1. PICK f \in Function, g \in Function, p \in Chains(E), q \in Chains(E) :
          f # g /\ p[1] = f /\ Last(p) = g /\ q[1] = g /\ Last(q) = f
        BY <1>2 DEF Mutual
  <2> DEFINE m == Len(p)
             n == Len(q)
  <2>2. IsPath(p, m, E) /\ IsPath(q, n, E) /\ p[m] = g /\ q[n] = f
        BY <2>1, ChainIsPath DEF Last
  <2>3. PICK r, l : IsPath(r, l, E) /\ r[1] = q[n] /\ r[l] = q[n - 1]
    <3> HIDE DEF m, n
    <3> QED
        BY <2>1, <2>2, PathAround
  <2>4. n \in Nat /\ n > 1
        BY <2>1, <2>2 DEF IsPath
  <2>5. <<q[n - 1], q[n]>> \in E /\ q[n - 1] # q[n]
    <3>1. n - 1 \in 1 .. n - 1 /\ (n - 1) + 1 = n /\ n \in 1 .. n /\ n - 1 \in 1 .. n /\ n - 1 # n
          BY <2>4
    <3> HIDE DEF n
    <3> QED
        BY <2>2, <3>1 DEF IsPath
  <2>6. r \in Chains(E) /\ Last(r) = q[n - 1]
        BY <2>3, PathIsChain
  <2>7. <<q[n - 1], q[n]>> \in OnCycle(E)
    <3> DEFINE e == <<q[n - 1], q[n]>>
    <3>1. e[1] = q[n - 1] /\ e[2] = q[n] /\ e \in E
          BY <2>5
    <3> HIDE DEF e
    <3>2. e \in OnCycle(E)
          BY <2>3, <2>5, <2>6, <3>1 DEF OnCycle
    <3> QED
        BY <3>2 DEF e
  <2> QED
      BY <2>7
<1> QED
    BY <1>1, <1>2

-----------------------------------------------------------------------------
(* The search.  Unless a rebuild tore it, it works on the stored graph: what  *)
(* is left of it is part of the graph, all of it when there is no cycle.    *)

Answering ==
  /\ "deep_chain" \in smells => \E p \in Chains(architecture) : Len(p) >= ChainLength
  /\ smells \cap {"cycle", "deep_chain"} = {}
     /\ (\E p \in Chains(architecture) : Len(p) >= ChainLength) => SelfCalls(architecture) # {}

SmellsInv ==
  /\ OfOneFile(architecture)
  /\ scan = "nodes" => seen > 0
  /\ scan \in {"cutting", "answered"} /\ seen > 0 /\ ~torn =>
       /\ dag \subseteq architecture
       /\ "cycle" \in smells <=> OnCycle(architecture) # {}
       /\ OnCycle(architecture) = {} => dag = architecture
  /\ scan = "cutting" => "deep_chain" \notin smells
  /\ scan = "answered" /\ seen > 0 /\ ~torn => Answering

LEMMA SmellsInvInit == SmellsInit => SmellsInv
<1> SUFFICES ASSUME SmellsInit PROVE SmellsInv
    OBVIOUS
<1>1. OfOneFile(architecture)
      BY DEF SmellsInit, OfOneFile, Defines, Calls, Symbol
<1> QED
    BY <1>1 DEF SmellsInit, SmellsInv

LEMMA ChainsGrow ==
  ASSUME NEW E, NEW D, D \subseteq E
  PROVE  Chains(D) \subseteq Chains(E)
  BY DEF Chains

\* A step that leaves the answer and the graph alone.
LEMMA SmellsStays ==
  ASSUME SmellsInv, UNCHANGED <<architecture, scan, seen, torn, dag, smells>>
  PROVE  SmellsInv'
  BY DEF SmellsInv, OfOneFile, Answering

LEMMA ReadEdgesKeeps ==
  ASSUME SmellsInv, ReadEdges
  PROVE  SmellsInv'
<1> DEFINE E == IF seen = generation THEN architecture ELSE {}
<1>1. /\ scan = "nodes" /\ scan' = "cutting" /\ dag' = E /\ torn' = (seen # generation)
      /\ architecture' = architecture /\ seen' = seen
      BY DEF ReadEdges, storedGraphVars
<1>2. smells' \subseteq {"god_object", "hub_file", "cycle"}
      BY DEF ReadEdges
<1>3. "cycle" \in smells' <=> OnCycle(E) # {}
      BY DEF ReadEdges
<1>4. "deep_chain" \notin smells'
      BY <1>2
<1>5. ~torn' => E = architecture
      BY <1>1
<1> HIDE DEF E
<1>6. OfOneFile(architecture)'
      BY <1>1 DEF SmellsInv, OfOneFile
<1> QED
    BY <1>1, <1>3, <1>4, <1>5, <1>6 DEF SmellsInv

LEMMA LongestPathKeeps ==
  ASSUME SmellsInv, LongestPath
  PROVE  SmellsInv'
<1> DEFINE Long(E) == \E p \in Chains(E) : Len(p) >= ChainLength
<1>1. /\ scan = "cutting" /\ scan' = "answered"
      /\ smells' = smells \cup IF Long(dag) THEN {"deep_chain"} ELSE {}
      /\ UNCHANGED <<architecture, generation, seen, torn, dag>>
      BY DEF LongestPath, storedGraphVars
<1>2. ASSUME seen > 0, ~torn
      PROVE  /\ dag \subseteq architecture
             /\ "cycle" \in smells <=> OnCycle(architecture) # {}
             /\ OnCycle(architecture) = {} => dag = architecture
             /\ "deep_chain" \notin smells
      BY <1>1, <1>2 DEF SmellsInv
<1>3. ASSUME seen > 0, ~torn PROVE Answering'
  <2>1. "deep_chain" \in smells' <=> Long(dag)
        BY <1>1, <1>2, <1>3
  <2>2. Long(dag) => Long(architecture)
        BY <1>2, <1>3, ChainsGrow
  <2>3. "cycle" \notin smells' => dag = architecture
        BY <1>1, <1>2, <1>3
  <2> QED
      BY <1>1, <2>1, <2>2, <2>3 DEF Answering
<1>4. "cycle" \in smells' <=> "cycle" \in smells
      BY <1>1
<1>5. OfOneFile(architecture)'
      BY <1>1 DEF SmellsInv, OfOneFile
<1> QED
    BY <1>1, <1>2, <1>3, <1>4, <1>5 DEF SmellsInv

LEMMA NoLongestPathKeeps ==
  ASSUME SmellsInv, NoLongestPath
  PROVE  SmellsInv'
<1>1. /\ scan = "cutting" /\ scan' = "answered" /\ SelfCalls(dag) # {}
      /\ UNCHANGED <<architecture, generation, seen, torn, dag, smells>>
      BY DEF NoLongestPath, storedGraphVars
<1>2. ASSUME seen > 0, ~torn PROVE Answering'
  <2>1. SelfCalls(architecture) # {} /\ "deep_chain" \notin smells
        BY <1>1, <1>2 DEF SmellsInv, SelfCalls
  <2> QED
      BY <1>1, <2>1 DEF Answering
<1>3. OfOneFile(architecture)'
      BY <1>1 DEF SmellsInv, OfOneFile
<1> QED
    BY <1>1, <1>2, <1>3 DEF SmellsInv

\* A cut is made on a cycle that is still there, so there was one.
LEMMA CutKeeps ==
  ASSUME SmellsInv, NEW e, Cut(e)
  PROVE  SmellsInv'
<1>1. /\ scan = "cutting" /\ e \in OnCycle(dag) /\ dag' = dag \ {e}
      /\ UNCHANGED <<architecture, generation, scan, seen, torn, smells>>
      BY DEF Cut, storedGraphVars
<1>2. ASSUME seen > 0, ~torn
      PROVE  dag' \subseteq architecture /\ OnCycle(architecture) # {}
  <2>1. /\ dag \subseteq architecture
        /\ OnCycle(architecture) = {} => dag = architecture
        BY <1>1, <1>2 DEF SmellsInv
  <2> QED
      BY <1>1, <2>1
<1>3. OfOneFile(architecture)'
      BY <1>1 DEF SmellsInv, OfOneFile
<1> QED
    BY <1>1, <1>2, <1>3 DEF SmellsInv

LEMMA SmellsInvStep ==
  ASSUME SmellsInv, generation \in Nat, [SmellsNext]_smellVars
  PROVE  SmellsInv'
<1>1. CASE UNCHANGED smellVars
      BY <1>1, SmellsStays DEF smellVars, storedGraphVars
<1>2. CASE Rebuild
      BY <1>2, SmellsStays DEF Rebuild
<1>3. CASE ReadNodes
      BY <1>3 DEF ReadNodes, storedGraphVars, SmellsInv, OfOneFile
<1>4. CASE SmellsReported
      BY <1>4 DEF SmellsReported, storedGraphVars, SmellsInv, OfOneFile
<1> QED
    BY <1>1, <1>2, <1>3, <1>4, ReadEdgesKeeps, NoLongestPathKeeps, LongestPathKeeps, CutKeeps
       DEF SmellsNext

\* A clean bill of the smell search is true for every call graph of a file, any
\* thresholds and any order of the cuts; and it reports a cycle exactly when two
\* functions reach each other.
THEOREM CleanBillIsTrueHolds == SmellsSpec => []CleanBillIsTrue
<1> DEFINE Inv == generation \in Nat /\ SmellsInv
<1>1. SmellsInit => Inv
      BY SmellsInvInit DEF SmellsInit
<1>2. Inv /\ [SmellsNext]_smellVars => Inv'
  <2>1. generation \in Nat /\ [SmellsNext]_smellVars => (generation \in Nat)'
        BY DEF SmellsNext, smellVars, storedGraphVars, Rebuild, ReadNodes, ReadEdges, Cut,
               NoLongestPath, LongestPath, SmellsReported
  <2> QED
      BY <2>1, SmellsInvStep
<1>3. Inv => CleanBillIsTrue
      BY CycleIsMutual DEF SmellsInv, CleanBillIsTrue, Answering, Mutual
<1> QED
    BY <1>1, <1>2, <1>3, PTL DEF SmellsSpec
=============================================================================
