-------------------------- MODULE AgentLoopProofs --------------------------
(***************************************************************************)
(* Theorems about one agent run, for every number of iterations, retries    *)
(* and tool uses.  The inductive invariant ties the counters of the two      *)
(* nested loops and the length of the conversation to the iteration.        *)
(***************************************************************************)
EXTENDS AgentLoop, TLAPS

Live == {"calling", "answered", "dispatching"}
PerIteration == CallRetries + 1

Started ==
  /\ pc = "starting" => iteration = 0 /\ attempt = 0 /\ usage = 0 /\ calls = 0
                        /\ messages = <<>> /\ todo = {}
  /\ pc \in Live => iteration \in 1 .. LoopIterations
  /\ pc # "ended" => outcome = Contract!Running

Counters ==
  /\ pc = "calling" => attempt <= CallRetries /\ usage = iteration - 1
                       /\ calls <= (iteration - 1) * PerIteration + attempt
  /\ pc \in {"answered", "dispatching"} => attempt = 0 /\ usage = iteration
  /\ pc \in {"answered", "dispatching", "ended"} => calls <= iteration * PerIteration

Alternates == \A i \in 1 .. Len(messages) :
  messages[i].role = IF i % 2 = 1 THEN "user" ELSE "assistant"
Paired == \A i \in 1 .. Len(messages) - 1 :
  messages[i].role = "assistant" => messages[i + 1].uses = messages[i].uses

Conversation ==
  /\ pc \in {"calling", "answered"} => Len(messages) = 2 * iteration - 1
  /\ pc = "dispatching" => Len(messages) = 2 * iteration /\ messages[Len(messages)].uses = todo
  /\ pc \in Live => Alternates /\ Paired

IInv == TypeOK /\ Started /\ Counters /\ Conversation

----------------------------------------------------------------------------
(* Products of the two bounds, which the counters need.                     *)
LEMMA Products ==
  ASSUME NEW n \in Nat, NEW w \in Nat, n # 0
  PROVE  /\ (n - 1) * w \in Nat /\ n * w \in Nat
         /\ (n - 1) * w + w = n * w
  OBVIOUS

LEMMA ProductsGrow ==
  ASSUME NEW n \in Nat, NEW k \in Nat, NEW w \in Nat, n <= k
  PROVE  n * w <= k * w
<1>1. PICK d \in Nat : k = n + d
  BY k - n \in Nat
<1>2. k * w = n * w + d * w
  BY <1>1
<1>3. d * w \in Nat /\ n * w \in Nat
  OBVIOUS
<1> QED
  BY <1>2, <1>3

LEMMA Widths == PerIteration \in Nat \ {0}
  BY LoopAssumption DEF PerIteration

\* The records with which a run may end, in the iteration and with the usage
\* that the invariant gives each of them.
LEMMA OutcomeSucceeded ==
  ASSUME iteration \in 1 .. LoopIterations, usage = iteration, Ends("succeeded", usage)
  PROVE  outcome' \in Contract!Reported \cup Contract!Raised
  BY LoopAssumption DEF Ends, Contract!Reported, Contract!Raised, Contract!Succeeded

LEMMA OutcomeExhausted ==
  ASSUME iteration = LoopIterations, usage = iteration, Ends("exhausted", usage)
  PROVE  outcome' \in Contract!Reported \cup Contract!Raised
  BY LoopAssumption DEF Ends, Contract!Reported, Contract!Raised, Contract!Exhausted

LEMMA OutcomeFailed ==
  ASSUME iteration \in 1 .. LoopIterations, usage = iteration - 1, Ends("failed", usage)
  PROVE  outcome' \in Contract!Reported \cup Contract!Raised
  BY LoopAssumption DEF Ends, Contract!Reported, Contract!Raised, Contract!Failed

LEMMA OutcomeRaised ==
  ASSUME iteration \in 0 .. LoopIterations, usage \in 0 .. LoopIterations, Ends("raised", usage)
  PROVE  outcome' \in Contract!Reported \cup Contract!Raised
  BY LoopAssumption DEF Ends, Contract!Raised

----------------------------------------------------------------------------
(* What every action does to the outcome: nothing, or the run returns.       *)

LEMMA StepReturns ==
  ASSUME IInv, LoopNext
  PROVE  \/ outcome' = outcome /\ pc' # "ended"
         \/ /\ outcome = Contract!Running /\ pc' = "ended"
            /\ outcome' \in Contract!Reported \cup Contract!Raised
<1> USE DEF IInv, Started, Counters, Live
<1>1. CASE Execute
  BY <1>1 DEF Execute
<1>2. CASE HookRaises
  <2>1. iteration \in 0 .. LoopIterations /\ usage \in 0 .. LoopIterations
    BY <1>2, LoopAssumption DEF HookRaises
  <2>2. Ends("raised", usage) /\ pc # "ended"
    BY <1>2 DEF HookRaises
  <2> QED
    BY <2>1, <2>2, OutcomeRaised DEF Ends
<1>3. CASE \E n \in 0 .. MaxTools : Answer(1 .. n)
  BY <1>3 DEF Answer
<1>4. CASE Refused
  <2>1. CASE pc' = pc /\ outcome' = outcome
    BY <1>4, <2>1 DEF Refused
  <2>2. CASE Ends("failed", usage)
    <3>1. iteration \in 1 .. LoopIterations /\ usage = iteration - 1 /\ pc # "ended"
      BY <1>4 DEF Refused
    <3> QED
      BY <2>2, <3>1, OutcomeFailed DEF Ends
  <2> QED
    BY <1>4, <2>1, <2>2 DEF Refused
<1>5. CASE Unreachable
  <2>1. iteration \in 1 .. LoopIterations /\ usage = iteration - 1 /\ pc # "ended"
    BY <1>5 DEF Unreachable
  <2>2. Ends("failed", usage)
    BY <1>5 DEF Unreachable
  <2> QED
    BY <2>1, <2>2, OutcomeFailed DEF Ends
<1>6. CASE Step
  <2>1. iteration \in 1 .. LoopIterations /\ usage = iteration /\ pc # "ended"
    BY <1>6 DEF Step
  <2>2. CASE todo = {}
    <3>1. Ends("succeeded", usage)
      BY <1>6, <2>2 DEF Step
    <3> QED
      BY <2>1, <3>1, OutcomeSucceeded DEF Ends
  <2>3. CASE todo # {}
    BY <1>6, <2>3 DEF Step
  <2> QED
    BY <2>2, <2>3
<1>7. CASE Dispatch(todo)
  <2>1. iteration \in 1 .. LoopIterations /\ usage = iteration /\ pc # "ended"
    BY <1>7 DEF Dispatch
  <2>2. CASE iteration < LoopIterations
    BY <1>7, <2>2 DEF Dispatch
  <2>3. CASE ~(iteration < LoopIterations)
    <3>1. Ends("exhausted", usage)
      BY <1>7, <2>3 DEF Dispatch
    <3>2. iteration = LoopIterations
      BY <2>1, <2>3, LoopAssumption
    <3> QED
      BY <2>1, <3>1, <3>2, OutcomeExhausted DEF Ends
  <2> QED
    BY <2>2, <2>3
<1> QED
  BY <1>1, <1>2, <1>3, <1>4, <1>5, <1>6, <1>7 DEF LoopNext

----------------------------------------------------------------------------
(* The invariant is inductive.                                             *)

LEMMA InvInit == LoopInit => IInv
  BY LoopAssumption DEF LoopInit, IInv, TypeOK, Started, Counters, Conversation, Live,
     PerIteration, Turn, Use

LEMMA TypeStep ==
  ASSUME IInv, LoopNext
  PROVE  TypeOK'
<1>0. outcome' \in Contract!Reported \cup Contract!Raised \cup {Contract!Running}
  BY StepReturns DEF IInv, TypeOK
<1> USE LoopAssumption DEF IInv, TypeOK, Started, Counters, Live
<1>1. CASE Execute
  BY <1>0, <1>1 DEF Execute, Turn
<1>2. CASE HookRaises
  BY <1>0, <1>2 DEF HookRaises, Ends
<1>3. CASE \E n \in 0 .. MaxTools : Answer(1 .. n)
  BY <1>0, <1>3 DEF Answer, Use
<1>4. CASE Refused
  BY <1>0, <1>4 DEF Refused, Ends
<1>5. CASE Unreachable
  BY <1>0, <1>5 DEF Unreachable, Ends
<1>6. CASE Step
  <2>1. [role |-> "assistant", uses |-> todo] \in Turn
    BY DEF Turn
  <2>2. messages' \in Seq(Turn)
    BY <1>6, <2>1 DEF Step
  <2> QED
    BY <1>0, <1>6, <2>2 DEF Step, Ends
<1>7. CASE Dispatch(todo)
  <2>1. [role |-> "user", uses |-> todo] \in Turn
    BY DEF Turn
  <2>2. messages' \in Seq(Turn)
    BY <1>7, <2>1 DEF Dispatch
  <2> QED
    BY <1>0, <1>7, <2>2 DEF Dispatch, Ends
<1> QED
  BY <1>1, <1>2, <1>3, <1>4, <1>5, <1>6, <1>7 DEF LoopNext

LEMMA StartedStep ==
  ASSUME IInv, LoopNext
  PROVE  Started'
<1>0. pc' # "ended" => outcome' = Contract!Running
  BY StepReturns, TypeStep DEF IInv, Started, LoopNext, HookRaises, Execute, Answer, Refused,
     Unreachable, Step, Dispatch, Ends
<1> USE LoopAssumption DEF IInv, TypeOK, Started, Live
<1>1. CASE Execute
  BY <1>0, <1>1 DEF Execute
<1>2. CASE HookRaises
  BY <1>0, <1>2 DEF HookRaises, Ends
<1>3. CASE \E n \in 0 .. MaxTools : Answer(1 .. n)
  BY <1>0, <1>3 DEF Answer
<1>4. CASE Refused
  BY <1>0, <1>4 DEF Refused, Ends
<1>5. CASE Unreachable
  BY <1>0, <1>5 DEF Unreachable, Ends
<1>6. CASE Step
  BY <1>0, <1>6 DEF Step, Ends
<1>7. CASE Dispatch(todo)
  BY <1>0, <1>7 DEF Dispatch, Ends
<1> QED
  BY <1>1, <1>2, <1>3, <1>4, <1>5, <1>6, <1>7 DEF LoopNext

\* A call adds one request; the calls of an iteration are at most PerIteration.
LEMMA CountersStep ==
  ASSUME IInv, LoopNext
  PROVE  Counters'
<1>0. /\ PerIteration \in Nat /\ PerIteration = CallRetries + 1
      /\ iteration \in Nat /\ attempt \in Nat /\ usage \in Nat /\ calls \in Nat
      /\ CallRetries \in Nat
  BY Widths, LoopAssumption DEF IInv, TypeOK, PerIteration
<1>a. ASSUME iteration # 0
      PROVE  /\ (iteration - 1) * PerIteration \in Nat
             /\ iteration * PerIteration \in Nat
             /\ (iteration - 1) * PerIteration + PerIteration = iteration * PerIteration
  BY <1>0, <1>a, Products
<1>1. CASE Execute
  <2>1. calls = 0 /\ usage = 0 /\ attempt = 0
    BY <1>1 DEF Execute, IInv, Started
  <2>2. (1 - 1) * PerIteration = 0
    BY <1>0
  <2> QED
    BY <1>0, <1>1, <2>1, <2>2 DEF Execute, Counters
<1>2. CASE HookRaises
  <2>1. CASE pc = "starting"
    <3>1. calls = 0 /\ iteration = 0 /\ 0 * PerIteration = 0
      BY <1>0, <2>1 DEF IInv, Started
    <3> QED
      BY <1>2, <3>1 DEF HookRaises, Ends, Counters
  <2>2. CASE pc = "answered"
    BY <1>2, <2>2 DEF HookRaises, Ends, IInv, Counters
  <2> QED
    BY <1>2, <2>1, <2>2 DEF HookRaises
<1> DEFINE calling == pc = "calling"
<1>b. ASSUME calling
      PROVE  /\ iteration # 0 /\ attempt <= CallRetries /\ usage = iteration - 1
             /\ calls <= (iteration - 1) * PerIteration + attempt
             /\ calls + 1 <= iteration * PerIteration
  <2>1. /\ iteration # 0 /\ attempt <= CallRetries /\ usage = iteration - 1
        /\ calls <= (iteration - 1) * PerIteration + attempt
    BY <1>0, <1>b DEF IInv, Started, Counters, Live
  <2> QED
    BY <1>0, <1>a, <2>1
<1>3. CASE \E n \in 0 .. MaxTools : Answer(1 .. n)
  BY <1>0, <1>b, <1>3 DEF Answer, Counters
<1>4. CASE Refused
  <2>1. CASE attempt + 1 <= CallRetries /\ pc' = pc
    <3>1. calls + 1 <= (iteration - 1) * PerIteration + (attempt + 1)
      BY <1>0, <1>a, <1>b, <1>4 DEF Refused
    <3> QED
      BY <1>0, <1>b, <1>4, <2>1, <3>1 DEF Refused, Counters
  <2>2. CASE Ends("failed", usage)
    BY <1>0, <1>b, <1>4, <2>2 DEF Refused, Ends, Counters
  <2> QED
    BY <1>4, <2>1, <2>2 DEF Refused
<1>5. CASE Unreachable
  BY <1>0, <1>b, <1>5 DEF Unreachable, Ends, Counters
<1>6. CASE Step
  BY <1>6 DEF Step, Ends, IInv, Counters
<1>7. CASE Dispatch(todo)
  <2>1. attempt = 0 /\ usage = iteration /\ calls <= iteration * PerIteration
    BY <1>7 DEF Dispatch, IInv, Counters
  <2>2. CASE iteration < LoopIterations
    <3>1. pc' = "calling" /\ iteration' = iteration + 1
      BY <1>7, <2>2 DEF Dispatch
    <3>2. (iteration' - 1) * PerIteration = iteration * PerIteration
      BY <1>0, <3>1
    <3>3. attempt' = 0 /\ usage' = iteration /\ calls' = calls
      BY <1>7, <2>1 DEF Dispatch
    <3>4. calls <= iteration * PerIteration + 0 /\ iteration = iteration + 1 - 1
      BY <1>0, <2>1
    <3>5. PerIteration' = PerIteration
      BY DEF PerIteration
    <3> QED
      BY <1>0, <3>1, <3>2, <3>3, <3>4, <3>5 DEF Counters
  <2>3. CASE ~(iteration < LoopIterations)
    BY <1>7, <2>1, <2>3 DEF Dispatch, Ends, Counters
  <2> QED
    BY <2>2, <2>3
<1> QED
  BY <1>1, <1>2, <1>3, <1>4, <1>5, <1>6, <1>7 DEF LoopNext

\* The conversation grows by two turns per iteration.
LEMMA ConversationStep ==
  ASSUME IInv, LoopNext
  PROVE  Conversation'
<1>0. messages \in Seq(Turn) /\ iteration \in Nat /\ LoopIterations \in Nat
  BY LoopAssumption DEF IInv, TypeOK
<1>1. CASE Execute
  <2>1. messages' = <<[role |-> "user", uses |-> {}]>> /\ iteration' = 1 /\ pc' = "calling"
    BY <1>1 DEF Execute
  <2> QED
    BY <2>1 DEF Conversation, Alternates, Paired, Live
<1>2. CASE HookRaises
  BY <1>2 DEF HookRaises, Ends, Conversation, Live
<1>3. CASE \E n \in 0 .. MaxTools : Answer(1 .. n)
  BY <1>3 DEF Answer, IInv, Conversation, Alternates, Paired, Live
<1>4. CASE Refused
  BY <1>4 DEF Refused, Ends, IInv, Conversation, Alternates, Paired, Live
<1>5. CASE Unreachable
  BY <1>5 DEF Unreachable, Ends, Conversation, Live
<1>6. CASE Step
  <2>1. CASE todo = {}
    BY <1>6, <2>1 DEF Step, Ends, Conversation, Live
  <2>2. CASE todo # {}
    <3> DEFINE turn == [role |-> "assistant", uses |-> todo]
               n == Len(messages)
    <3>1. messages' = Append(messages, turn) /\ pc' = "dispatching" /\ iteration' = iteration
          /\ todo' = todo
      BY <1>6, <2>2 DEF Step
    <3>2. n = 2 * iteration - 1 /\ Alternates /\ Paired
      BY <1>6 DEF Step, IInv, Conversation, Live
    <3>3. /\ n \in Nat /\ n % 2 = 1 /\ (n + 1) % 2 = 0
      BY <1>0, <3>2
    <3>4. /\ Len(messages') = n + 1 /\ messages'[n + 1] = turn
          /\ \A i \in 1 .. n : messages'[i] = messages[i]
      BY <1>0, <3>1
    <3>5. Alternates'
      <4> SUFFICES ASSUME NEW i \in 1 .. n + 1
                   PROVE  messages'[i].role = IF i % 2 = 1 THEN "user" ELSE "assistant"
        BY <3>4 DEF Alternates
      <4>1. CASE i = n + 1
        BY <3>3, <3>4, <4>1
      <4>2. CASE i \in 1 .. n
        BY <3>2, <3>4, <4>2 DEF Alternates
      <4> QED
        BY <3>3, <4>1, <4>2
    <3>6. Paired'
      <4> SUFFICES ASSUME NEW i \in 1 .. n, messages'[i].role = "assistant"
                   PROVE  messages'[i + 1].uses = messages'[i].uses
        BY <3>3, <3>4 DEF Paired
      <4>1. i # n
        BY <3>2, <3>3, <3>4 DEF Alternates
      <4> QED
        BY <3>2, <3>3, <3>4, <4>1 DEF Paired
    <3> QED
      BY <1>0, <3>1, <3>2, <3>4, <3>5, <3>6 DEF Conversation, Live
  <2> QED
    BY <2>1, <2>2
<1>7. CASE Dispatch(todo)
  <2>1. CASE iteration < LoopIterations
    <3> DEFINE turn == [role |-> "user", uses |-> todo]
               n == Len(messages)
    <3>1. messages' = Append(messages, turn) /\ pc' = "calling" /\ iteration' = iteration + 1
      BY <1>7, <2>1 DEF Dispatch
    <3>2. n = 2 * iteration /\ messages[n].uses = todo /\ Alternates /\ Paired /\ iteration # 0
      BY <1>7 DEF Dispatch, IInv, Conversation, Started, Live
    <3>3. /\ n \in Nat \ {0} /\ (n + 1) % 2 = 1
      BY <1>0, <3>2
    <3>4. /\ Len(messages') = n + 1 /\ messages'[n + 1] = turn
          /\ \A i \in 1 .. n : messages'[i] = messages[i]
      BY <1>0, <3>1
    <3>5. Alternates'
      <4> SUFFICES ASSUME NEW i \in 1 .. n + 1
                   PROVE  messages'[i].role = IF i % 2 = 1 THEN "user" ELSE "assistant"
        BY <3>4 DEF Alternates
      <4>1. CASE i = n + 1
        BY <3>3, <3>4, <4>1
      <4>2. CASE i \in 1 .. n
        BY <3>2, <3>4, <4>2 DEF Alternates
      <4> QED
        BY <3>3, <4>1, <4>2
    <3>6. Paired'
      <4> SUFFICES ASSUME NEW i \in 1 .. n, messages'[i].role = "assistant"
                   PROVE  messages'[i + 1].uses = messages'[i].uses
        BY <3>3, <3>4 DEF Paired
      <4>1. CASE i = n
        BY <3>2, <3>3, <3>4, <4>1
      <4>2. CASE i # n
        <5>1. i \in 1 .. n - 1 /\ i \in 1 .. n /\ i + 1 \in 1 .. n
          BY <3>3, <4>2
        <5>2. messages'[i] = messages[i] /\ messages'[i + 1] = messages[i + 1]
          BY <3>4, <5>1
        <5> QED
          BY <3>2, <5>1, <5>2 DEF Paired
      <4> QED
        BY <4>1, <4>2
    <3> QED
      BY <1>0, <3>1, <3>2, <3>4, <3>5, <3>6 DEF Conversation, Live
  <2>2. CASE ~(iteration < LoopIterations)
    BY <1>7, <2>2 DEF Dispatch, Ends, Conversation, Live
  <2> QED
    BY <2>1, <2>2
<1> QED
  BY <1>1, <1>2, <1>3, <1>4, <1>5, <1>6, <1>7 DEF LoopNext

LEMMA InvStep == IInv /\ [LoopNext]_loopVars => IInv'
<1>1. ASSUME IInv, LoopNext PROVE IInv'
  BY <1>1, TypeStep, StartedStep, CountersStep, ConversationStep DEF IInv
<1>2. ASSUME IInv, UNCHANGED loopVars PROVE IInv'
  BY <1>2 DEF loopVars, IInv, TypeOK, Started, Counters, Conversation, Alternates, Paired, Live,
     PerIteration
<1> QED
  BY <1>1, <1>2

LEMMA Inductive == LoopSpec => []IInv
  BY InvInit, InvStep, PTL DEF LoopSpec

----------------------------------------------------------------------------
(* Every state of a run is well typed; in particular the outcome is one that *)
(* AgentContract allows (AgentLoop.run, BaseAgent.execute).                 *)
THEOREM TypeCorrect == LoopSpec => []TypeOK
<1>1. IInv => TypeOK
  BY DEF IInv
<1> QED
  BY <1>1, Inductive, PTL

(* Whatever the tools and the model do, the provider is only sent            *)
(* conversations in which turns alternate and every tool use is answered.   *)
THEOREM ToolUsesAnsweredHolds == LoopSpec => []ToolUsesAnswered
<1>1. ASSUME IInv, pc = "calling"
      PROVE  Len(messages) = 2 * iteration - 1 /\ Alternates /\ Paired /\ iteration \in Nat
  BY <1>1 DEF IInv, TypeOK, Conversation, Live
<1>2. IInv => ToolUsesAnswered
  <2> SUFFICES ASSUME IInv, pc = "calling" PROVE ToolUsesAnswered
    BY DEF ToolUsesAnswered
  <2>1. Len(messages) = 2 * iteration - 1 /\ iteration \in Nat /\ Alternates /\ Paired
    BY <1>1
  <2>2. Len(messages) % 2 = 1
    BY <2>1
  <2> QED
    BY <2>1, <2>2 DEF ToolUsesAnswered, Alternates, Paired
<1> QED
  BY <1>2, Inductive, PTL

(* Retries times iterations: no run sends more requests, for every limit of  *)
(* either (complete and AgentLoop.run).                                     *)
THEOREM CallsBoundedHolds == LoopSpec => []CallsBounded
<1>1. IInv => CallsBounded
  <2> SUFFICES ASSUME IInv PROVE calls <= LoopIterations * PerIteration
    BY DEF CallsBounded, PerIteration
  <2>1. /\ iteration \in Nat /\ LoopIterations \in Nat /\ iteration <= LoopIterations
        /\ PerIteration \in Nat /\ calls \in Nat
    BY Widths, LoopAssumption DEF IInv, TypeOK
  <2>2. iteration * PerIteration <= LoopIterations * PerIteration
        /\ iteration * PerIteration \in Nat /\ LoopIterations * PerIteration \in Nat
    BY <2>1, ProductsGrow
  <2>3. calls <= iteration * PerIteration
    <3>1. CASE pc = "starting"
      BY <2>1, <2>2, <3>1 DEF IInv, Started
    <3>2. CASE pc = "calling"
      <4>1. /\ iteration # 0 /\ attempt \in Nat /\ attempt <= CallRetries
            /\ calls <= (iteration - 1) * PerIteration + attempt
        BY <2>1, <3>2 DEF IInv, TypeOK, Started, Counters, Live
      <4>2. /\ (iteration - 1) * PerIteration \in Nat
            /\ (iteration - 1) * PerIteration + PerIteration = iteration * PerIteration
        BY <2>1, <4>1, Products
      <4>3. attempt <= PerIteration
        BY <4>1, LoopAssumption DEF PerIteration
      <4> QED
        BY <2>1, <2>2, <4>1, <4>2, <4>3
    <3>3. CASE pc \in {"answered", "dispatching", "ended"}
      BY <3>3 DEF IInv, Counters
    <3> QED
      BY <3>1, <3>2, <3>3 DEF IInv, TypeOK
  <2> QED
    BY <2>1, <2>2, <2>3
<1> QED
  BY <1>1, Inductive, PTL

(* A run reports once, and only what AgentContract allows: every step of the *)
(* loop leaves the outcome alone or is the return of the contract.          *)
THEOREM ContractImplemented == LoopSpec => ContractSpec
<1>1. LoopInit => Contract!Init
  BY DEF LoopInit, Contract!Init
<1>2. IInv /\ [LoopNext]_loopVars => [Contract!Return]_outcome
  <2>1. ASSUME IInv, LoopNext PROVE [Contract!Return]_outcome
    BY <2>1, StepReturns DEF Contract!Return
  <2>2. ASSUME UNCHANGED loopVars PROVE [Contract!Return]_outcome
    BY <2>2 DEF loopVars
  <2> QED
    BY <2>1, <2>2
<1> QED
  BY <1>1, <1>2, Inductive, PTL DEF LoopSpec, ContractSpec, Contract!Spec
=============================================================================
