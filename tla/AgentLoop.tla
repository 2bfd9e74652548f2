----------------------------- MODULE AgentLoop -----------------------------
(***************************************************************************)
(* One agent run: BaseAgent.execute (agents/base.py), the reasoning loop    *)
(* AgentLoop.run, its tool dispatch and LLMClient.complete with its retries *)
(* (services/llm.py).  The model is the environment: it answers with any    *)
(* number of tool uses, refuses the call or cannot be reached.              *)
(***************************************************************************)
EXTENDS Naturals, Sequences, FiniteSets

CONSTANTS
  LoopIterations, \* AgentLoop._max_iterations
  CallRetries,    \* max_retries of LLMClient.complete
  MaxTools        \* bound: tool uses in one answer

ASSUME LoopAssumption ==
  LoopIterations \in Nat \ {0} /\ CallRetries \in Nat /\ MaxTools \in Nat

VARIABLES
  pc,         \* what the run is waiting for
  iteration,  \* of the for loop
  attempt,    \* failed attempts of the current completion
  messages,   \* the conversation: whose turn, and the tool uses it asks for or answers
  todo,       \* tool uses of the last answer that are not executed yet
  usage,      \* answered calls
  calls,      \* requests sent to the provider
  outcome     \* AgentResult, or the exception

loopVars == <<pc, iteration, attempt, messages, todo, usage, calls, outcome>>

Use == 1 .. MaxTools
Turn == [role : {"user", "assistant"}, uses : SUBSET Use]

Contract == INSTANCE AgentContract WITH MaxIterations <- LoopIterations

LoopInit ==
  /\ pc = "starting"
  /\ iteration = 0 /\ attempt = 0 /\ usage = 0 /\ calls = 0
  /\ messages = <<>> /\ todo = {}
  /\ outcome = Contract!Running

\* execute announces the result before it returns it; what it announces with
\* may raise, and then the result is lost.
Ends(status, used) ==
  /\ \E ending \in {status, "raised"} :
       outcome' = [status |-> ending, iterations |-> iteration, usage |-> used]
  /\ pc' = "ended"

\* execute: tools, memory context and prompt are there, the loop begins.
Execute ==
  /\ pc = "starting"
  /\ messages' = <<[role |-> "user", uses |-> {}]>>
  /\ iteration' = 1 /\ pc' = "calling"
  /\ UNCHANGED <<attempt, todo, usage, calls, outcome>>

\* build_context_block, an event that cannot be stored: nobody catches it.
HookRaises ==
  /\ pc \in {"starting", "answered"}
  /\ Ends("raised", usage)
  /\ UNCHANGED <<iteration, attempt, messages, todo, usage, calls>>

\* messages.create returns an answer that asks for the given tool uses.
Answer(uses) ==
  /\ pc = "calling"
  /\ calls' = calls + 1 /\ usage' = usage + 1 /\ attempt' = 0
  /\ todo' = uses
  /\ pc' = "answered"
  /\ UNCHANGED <<iteration, messages, outcome>>

\* Mutant: off by one.
RefusedOnceMore ==
  /\ pc = "calling"
  /\ calls' = calls + 1 /\ attempt' = attempt + 1
  /\ \/ attempt <= CallRetries /\ UNCHANGED <<pc, outcome>>
     \/ attempt > CallRetries /\ Ends("failed", usage)
  /\ UNCHANGED <<iteration, messages, todo, usage>>

\* RateLimitError or APIStatusError: back off and try again, or give up; the
\* loop turns what complete raises into a failed result.
Refused ==
  /\ pc = "calling"
  /\ calls' = calls + 1 /\ attempt' = attempt + 1
  /\ \/ attempt + 1 <= CallRetries /\ UNCHANGED <<pc, outcome>>
     \/ attempt + 1 > CallRetries /\ Ends("failed", usage)
  /\ UNCHANGED <<iteration, messages, todo, usage>>

\* Any other exception of the call is not retried.
Unreachable ==
  /\ pc = "calling"
  /\ calls' = calls + 1
  /\ Ends("failed", usage)
  /\ UNCHANGED <<iteration, attempt, messages, todo, usage>>

\* on_step returned.  Without tool uses the answer is final; otherwise the
\* assistant's turn joins the conversation.
Step ==
  /\ pc = "answered"
  /\ IF todo = {}
     THEN Ends("succeeded", usage) /\ UNCHANGED messages
     ELSE /\ messages' = Append(messages, [role |-> "assistant", uses |-> todo])
          /\ pc' = "dispatching" /\ UNCHANGED outcome
  /\ UNCHANGED <<iteration, attempt, todo, usage, calls>>

\* Mutant: a tool that raises ends the turn; the uses after it get no result.
DispatchUntilError(uses) ==
  /\ pc = "dispatching"
  /\ \E done \in SUBSET uses : messages' = Append(messages, [role |-> "user", uses |-> done])
  /\ todo' = {}
  /\ IF iteration < LoopIterations
     THEN pc' = "calling" /\ iteration' = iteration + 1 /\ UNCHANGED outcome
     ELSE Ends("exhausted", usage) /\ UNCHANGED iteration
  /\ UNCHANGED <<attempt, usage, calls>>

\* Mutant: the range of the loop is one too long.
DispatchOneMore(uses) ==
  /\ pc = "dispatching"
  /\ messages' = Append(messages, [role |-> "user", uses |-> uses])
  /\ todo' = {}
  /\ IF iteration <= LoopIterations
     THEN pc' = "calling" /\ iteration' = iteration + 1 /\ UNCHANGED outcome
     ELSE Ends("exhausted", usage) /\ UNCHANGED iteration
  /\ UNCHANGED <<attempt, usage, calls>>

\* Mutant: the budget is asked for, and nothing ends the run behind it.
DispatchWithinBudget(uses) ==
  /\ pc = "dispatching" /\ iteration < LoopIterations
  /\ messages' = Append(messages, [role |-> "user", uses |-> uses])
  /\ todo' = {} /\ pc' = "calling" /\ iteration' = iteration + 1
  /\ UNCHANGED <<attempt, usage, calls, outcome>>

\* Every tool use is executed, in order; an unknown tool and a tool that raises
\* have a result as well, so the next turn answers all of them.  Then the loop
\* goes on or its budget is exhausted.
Dispatch(uses) ==
  /\ pc = "dispatching"
  /\ messages' = Append(messages, [role |-> "user", uses |-> uses])
  /\ todo' = {}
  /\ IF iteration < LoopIterations
     THEN pc' = "calling" /\ iteration' = iteration + 1 /\ UNCHANGED outcome
     ELSE Ends("exhausted", usage) /\ UNCHANGED iteration
  /\ UNCHANGED <<attempt, usage, calls>>

LoopNext ==
  \/ Execute \/ HookRaises
  \/ \E n \in 0 .. MaxTools : Answer(1 .. n)
  \/ Refused \/ Unreachable \/ Step \/ Dispatch(todo)

LoopSpec == LoopInit /\ [][LoopNext]_loopVars

----------------------------------------------------------------------------
TypeOK ==
  /\ pc \in {"starting", "calling", "answered", "dispatching", "ended"}
  /\ iteration \in 0 .. LoopIterations /\ attempt \in 0 .. CallRetries + 1
  /\ messages \in Seq(Turn) /\ todo \in SUBSET Use
  /\ usage \in Nat /\ calls \in Nat
  /\ outcome \in Contract!Reported \cup Contract!Raised \cup {Contract!Running}

(* Before every call the conversation is one the provider accepts: the turns *)
(* alternate, and each turn of tool uses is followed by the results of all   *)
(* of them (run and ToolRegistry.dispatch, whatever the tools do).          *)
ToolUsesAnswered ==
  pc = "calling" =>
    /\ Len(messages) % 2 = 1
    /\ \A i \in 1 .. Len(messages) :
         messages[i].role = IF i % 2 = 1 THEN "user" ELSE "assistant"
    /\ \A i \in 1 .. Len(messages) - 1 :
         messages[i].role = "assistant" => messages[i + 1].uses = messages[i].uses

(* Retries multiply: a run sends at most so many requests, although the      *)
(* retry counter and the iteration counter are reset and stepped apart.     *)
CallsBounded == calls <= LoopIterations * (CallRetries + 1)

(* The run reports what AgentContract promises, once: every step implements  *)
(* a step of the contract, or leaves the outcome alone.                     *)
ContractSpec == Contract!Spec

(* The run ends: no exception of a hook or a tool, no refused call and no    *)
(* answer leaves the two nested loops without a way on (AgentLoop.run).     *)
RunEnds == pc # "starting" ~> pc = "ended"
=============================================================================
