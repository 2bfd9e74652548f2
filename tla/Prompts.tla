------------------------------ MODULE Prompts ------------------------------
(***************************************************************************)
(* The prompt experiment of one agent role (services/prompts.py) and the    *)
(* evolution step of the improvement cycle (orchestration/improvement.py).  *)
(* A session loads a variant, and writes the columns it changed when it     *)
(* commits: what others committed in between is lost.  Rewards are 0 or 1.  *)
(***************************************************************************)
EXTENDS Naturals

CONSTANTS
  Recorder,      \* sessions that record outcomes at once
  MinTrials,     \* evolve: min_trials; retire_threshold is one half
  MaxVariants,   \* bound
  MaxOutcomes    \* bound: outcomes recorded in all

ASSUME PromptsAssumption == MinTrials \in Nat /\ MaxVariants \in Nat /\ MaxOutcomes \in Nat

VARIABLES
  variant,   \* prompt_variants: number -> its tallies, activity and parent
  log,       \* prompt_executions: rows per variant
  recorder,  \* open sessions: the variant as loaded
  evolver,   \* the open evolution: champion and who is retired
  stale,     \* history: variants whose tallies a stale session overwrote
  outcomes   \* outcomes recorded so far

promptVars == <<variant, log, recorder, evolver, stale, outcomes>>

Number == 1 .. MaxVariants
Known == DOMAIN variant
Active == {v \in Known : variant[v].active}
Fresh(parent) == [trials |-> 0, successes |-> 0, reward |-> 0, active |-> TRUE, parent |-> parent]
NoRecord == [of |-> 0, trials |-> 0, successes |-> 0, reward |-> 0]
NoEvolution == [champion |-> 0, retire |-> {}]

PromptsInit ==
  /\ variant = [v \in {} |-> Fresh(0)]
  /\ log = [v \in Number |-> 0]
  /\ recorder = [s \in Recorder |-> NoRecord]
  /\ evolver = NoEvolution /\ stale = {} /\ outcomes = 0

\* ensure_seed: a second seed of the same name is found, or refused by the index.
EnsureSeed ==
  /\ Known = {} /\ MaxVariants > 0
  /\ variant' = [v \in {1} |-> Fresh(0)]
  /\ UNCHANGED <<log, recorder, evolver, stale, outcomes>>

\* select, the agent run, and record_outcome up to its read of the variant.
Load(s, v) ==
  /\ recorder[s] = NoRecord /\ v \in Known
  /\ recorder' = [recorder EXCEPT ![s] =
       [of |-> v, trials |-> variant[v].trials, successes |-> variant[v].successes,
        reward |-> variant[v].reward]]
  /\ UNCHANGED <<variant, log, evolver, stale, outcomes>>

\* The columns a commit writes: those whose value differs from the loaded one.
Tallied(row, old, success, reward) ==
  [row EXCEPT !.trials = old.trials + 1,
              !.successes = IF success THEN old.successes + 1 ELSE @,
              !.reward = IF reward > 0 THEN old.reward + reward ELSE @]

\* Mutant: a failed run is logged and not counted as a trial.
RecordSuccesses(s, success, reward) ==
  LET old == recorder[s]  v == old.of  IN
  /\ old # NoRecord /\ outcomes < MaxOutcomes
  /\ variant' = IF success THEN [variant EXCEPT ![v] = Tallied(@, old, success, reward)] ELSE variant
  /\ stale' = IF variant[v].trials = old.trials THEN stale ELSE stale \cup {v}
  /\ log' = [log EXCEPT ![v] = @ + 1] /\ outcomes' = outcomes + 1
  /\ recorder' = [recorder EXCEPT ![s] = NoRecord]
  /\ UNCHANGED evolver

\* record_outcome and the commit of its session.
Record(s, success, reward) ==
  LET old == recorder[s]  v == old.of  IN
  /\ old # NoRecord /\ outcomes < MaxOutcomes
  /\ variant' = [variant EXCEPT ![v] = Tallied(@, old, success, reward)]
  /\ stale' = IF variant[v].trials = old.trials THEN stale ELSE stale \cup {v}
  /\ log' = [log EXCEPT ![v] = @ + 1] /\ outcomes' = outcomes + 1
  /\ recorder' = [recorder EXCEPT ![s] = NoRecord]
  /\ UNCHANGED evolver

\* leaderboard: mean reward, then success rate, then trials.
Compare(a, n, b, m) ==  \* a/n against b/m, where 0/0 counts as 0
  IF n = 0 THEN (IF m = 0 \/ b = 0 THEN "same" ELSE "less")
  ELSE IF m = 0 THEN (IF a = 0 THEN "same" ELSE "more")
  ELSE IF a * m = b * n THEN "same" ELSE IF a * m < b * n THEN "less" ELSE "more"

Below(v, w) ==
  LET rewards == Compare(v.reward, v.trials, w.reward, w.trials)
      rates   == Compare(v.successes, v.trials, w.successes, w.trials)
  IN  \/ rewards = "less"
      \/ rewards = "same" /\ (rates = "less" \/ (rates = "same" /\ v.trials < w.trials))

Best == {v \in Known : \A w \in Known : ~Below(variant[v], variant[w])}

\* Mutant: laggards are looked for among all variants of the board.
LaggardsAndChampion(c) ==
  {v \in Active : variant[v].trials >= MinTrials /\ 2 * variant[v].successes < variant[v].trials}

Laggards(c) ==
  {v \in Active \ {c} : variant[v].trials >= MinTrials /\ 2 * variant[v].successes < variant[v].trials}

\* evolve up to the mutator, which is awaited.
Evolve(c) ==
  /\ evolver = NoEvolution /\ c \in Best
  /\ variant[c].trials >= MinTrials
  /\ evolver' = [champion |-> c, retire |-> Laggards(c)]
  /\ UNCHANGED <<variant, log, recorder, stale, outcomes>>

Retired == [v \in Known |-> IF v \in evolver.retire THEN [variant[v] EXCEPT !.active = FALSE]
                            ELSE variant[v]]

\* The mutator returns nothing new: only the retirements are committed.
KeepPool ==
  /\ evolver # NoEvolution
  /\ variant' = Retired /\ evolver' = NoEvolution
  /\ UNCHANGED <<log, recorder, stale, outcomes>>

\* A new template joins the pool.
Breed(n) ==
  /\ evolver # NoEvolution /\ n \in Number \ Known
  /\ variant' = [v \in Known \cup {n} |-> IF v = n THEN Fresh(evolver.champion) ELSE Retired[v]]
  /\ evolver' = NoEvolution
  /\ UNCHANGED <<log, recorder, stale, outcomes>>

\* The mutator raises and the transaction of the cycle rolls back.
EvolveFails ==
  /\ evolver # NoEvolution /\ evolver' = NoEvolution
  /\ UNCHANGED <<variant, log, recorder, stale, outcomes>>

PromptsNext ==
  \/ EnsureSeed \/ KeepPool \/ EvolveFails
  \/ \E s \in Recorder, v \in Known : Load(s, v)
  \/ \E s \in Recorder, success \in BOOLEAN, reward \in 0 .. 1 : Record(s, success, reward)
  \/ \E c \in Known : Evolve(c)
  \/ \E n \in Number : Breed(n)

PromptsSpec == PromptsInit /\ [][PromptsNext]_promptVars

----------------------------------------------------------------------------
\* The tallies the bandit samples from never claim more trials than were run,
\* and agree with the log of executions, with no more successes than trials,
\* until a session commits over another one's outcome.
TalliesMatchLog ==
  \A v \in Known :
    /\ variant[v].trials <= log[v]
    /\ v \notin stale => variant[v].trials = log[v] /\ variant[v].successes <= variant[v].trials

\* A bred variant descends from one that had been run MinTrials times.
ParentsAreProven ==
  \A v \in Known : variant[v].parent # 0 => log[variant[v].parent] >= MinTrials

\* Retirement leaves something to select from, unless the champion itself had
\* been retired by an earlier cycle.
PoolSurvives ==
  [][Active # {} /\ Active' = {} => evolver.champion \notin Active]_promptVars
=============================================================================
