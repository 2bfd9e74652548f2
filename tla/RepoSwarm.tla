----------------------------- MODULE RepoSwarm -----------------------------
(***************************************************************************)
(* The repositories of a project and the build order of a change that       *)
(* spans them (orchestration/swarm.py).  A plan works on the rows it has    *)
(* read, so registrations are not interleaved with it.  place[n] is the     *)
(* index of n in `order`, 0 while n is in `remaining`.                      *)
(***************************************************************************)
EXTENDS Naturals

CONSTANTS
  Repo,    \* full names
  Role,    \* RepoRole
  Rank     \* the order of `sorted` on full names

ASSUME SwarmAssumption ==
  /\ Rank \in [Repo -> Nat]
  /\ \A n, m \in Repo : Rank[n] = Rank[m] => n = m

VARIABLES
  rows,    \* repositories: name -> its role and the roles it depends on
  phase,   \* of plan_cross_repo_change
  deps,    \* its dependency sets; the domain is the target set
  ready,   \* what is left of `ready` in this round of _toposort
  place,
  last,    \* len(order)
  cyclic   \* has_cycle

swarmVars == <<rows, phase, deps, ready, place, last, cyclic>>

Row == [role : Role, on : SUBSET Role]
Targets == DOMAIN deps
Remaining == {n \in Targets : place[n] = 0}

SwarmInit ==
  /\ rows = [n \in {} |-> {}] /\ phase = "idle" /\ deps = [n \in {} |-> {}]
  /\ ready = {} /\ place = [n \in Repo |-> 0] /\ last = 0 /\ cyclic = FALSE

\* register: insert or overwrite.
Register(n, row) ==
  /\ phase = "idle"
  /\ rows' = [m \in DOMAIN rows \cup {n} |-> IF m = n THEN row ELSE rows[m]]
  /\ UNCHANGED <<phase, deps, ready, place, last, cyclic>>

\* n depends on every repository of a role it names, itself excepted.
Needs(n, d) == d # n /\ rows[d].role \in rows[n].on

\* plan_cross_repo_change up to _toposort; no names ask for all repositories.
Plan(names) ==
  LET targets == IF names = {} THEN DOMAIN rows ELSE names \cap DOMAIN rows  IN
  /\ phase = "idle" /\ phase' = "sorting"
  /\ deps' = [n \in targets |-> {d \in targets : Needs(n, d)}]
  /\ ready' = {} /\ place' = [n \in Repo |-> 0] /\ last' = 0 /\ cyclic' = FALSE
  /\ UNCHANGED rows

\* Mutant: the edges point the other way.
FreeBackwards == {n \in Remaining : \A m \in Remaining : n \notin deps[m]}

\* No dependency of these is left.
FreeNow == {n \in Remaining : deps[n] \cap Remaining = {}}

\* Mutant: a cycle is noticed only when it blocks the first round.
RoundUnmarked ==
  /\ phase = "sorting" /\ ready = {}
  /\ IF FreeNow # {}
     THEN ready' = FreeNow /\ UNCHANGED <<phase, cyclic>>
     ELSE phase' = "rest" /\ cyclic' = (Remaining # {} /\ last = 0) /\ UNCHANGED ready
  /\ UNCHANGED <<rows, deps, place, last>>

\* while True: what is ready now, or leave the loop.
Round ==
  /\ phase = "sorting" /\ ready = {}
  /\ IF FreeNow # {}
     THEN ready' = FreeNow /\ UNCHANGED <<phase, cyclic>>
     ELSE phase' = "rest" /\ cyclic' = (Remaining # {}) /\ UNCHANGED ready
  /\ UNCHANGED <<rows, deps, place, last>>

Place(n) == place' = [place EXCEPT ![n] = last + 1] /\ last' = last + 1
First(n, S) == n \in S /\ \A m \in S : Rank[n] <= Rank[m]

\* for n in ready
Take(n) ==
  /\ phase = "sorting" /\ First(n, ready)
  /\ ready' = ready \ {n} /\ Place(n)
  /\ UNCHANGED <<rows, phase, deps, cyclic>>

\* The cyclic remainder, in sorted order.
AppendRest(n) ==
  /\ phase = "rest" /\ First(n, Remaining)
  /\ Place(n)
  /\ UNCHANGED <<rows, phase, deps, ready, cyclic>>

AnswerPlan ==
  /\ phase = "rest" /\ Remaining = {}
  /\ phase' = "planned"
  /\ UNCHANGED <<rows, deps, ready, place, last, cyclic>>

\* The request is over, and with it what it kept.
Forget ==
  /\ phase = "planned" /\ phase' = "idle"
  /\ deps' = [n \in {} |-> {}] /\ ready' = {} /\ place' = [n \in Repo |-> 0]
  /\ last' = 0 /\ cyclic' = FALSE
  /\ UNCHANGED rows

SwarmNext ==
  \/ \E n \in Repo, row \in Row : Register(n, row)
  \/ \E names \in SUBSET Repo : Plan(names)
  \/ \E n \in Repo : Take(n) \/ AppendRest(n)
  \/ Round \/ AnswerPlan \/ Forget

SwarmSpec == SwarmInit /\ [][SwarmNext]_swarmVars

----------------------------------------------------------------------------
SwarmTypeOK ==
  /\ rows \in UNION {[S -> Row] : S \in SUBSET Repo}
  /\ phase \in {"idle", "sorting", "rest", "planned"}
  /\ Targets \subseteq DOMAIN rows /\ \A n \in Targets : deps[n] \subseteq Targets
  /\ ready \subseteq Remaining /\ place \in [Repo -> Nat] /\ last \in Nat
  /\ cyclic \in BOOLEAN

\* A plan names every target, at most once per place, and puts what a
\* repository depends on before it, unless it reports a cycle.
DependenciesFirst ==
  phase = "planned" =>
    /\ \A n \in Targets : place[n] \in 1 .. last
    /\ \A n, m \in Targets : place[n] = place[m] => n = m
    /\ ~cyclic => \A n, d \in Targets : Needs(n, d) => place[d] < place[n]

\* Repositories that all wait for one another.
Knot(S) == S # {} /\ \A n \in S : \E d \in S : Needs(n, d)

\* A cycle is reported exactly when there is one among the targets.
CycleReported ==
  phase = "planned" => (cyclic <=> \E S \in SUBSET Targets : Knot(S))
=============================================================================
