-------------------------------- MODULE Worker --------------------------------
(***************************************************************************)
(* worker.Worker.Execute: the conversation of one task with the model, its *)
(* budget of tool turns, and the reflection on answers that do not parse.  *)
(* A completion request is one step here (its retries are in LLMClient),   *)
(* and so is a tool call.  What the model answers is nondeterministic; it  *)
(* is assumed to call no tool when it is offered none.                     *)
(***************************************************************************)
EXTENDS Naturals, Sequences, FiniteSets

CONSTANTS MaxToolTurns,          \* 3 by default
          MaxReflectionAttempts, \* 2
          MaxCalls               \* bound: tool calls of one message

BudgetAssumption == MaxToolTurns \in Nat \ {0} /\ MaxReflectionAttempts \in Nat
CallsAssumption == MaxCalls \in Nat \ {0}

VARIABLES
  at,            \* where Execute is
  toolTurnCount, reflectionAttempts,
  messages,      \* the conversation
  answer,        \* the message the model sent last
  pending,       \* its tool calls still to execute
  requests,      \* history: requests answered, in the order of their messages
  offered,       \* the last request offered tools
  ended,         \* the task's context has ended
  persisted,     \* the result is on the blackboard
  result         \* what Execute returned

vars == <<at, toolTurnCount, reflectionAttempts, messages, answer, pending, requests,
          offered, ended, persisted, result>>

\* An answer: tool calls, or a text of one of these kinds.
Texts == {"invalid",    \* not JSON, even without its fence
          "result",     \* JSON with a result
          "yield",      \* JSON with subtasks, with or without a result
          "misshapen",  \* JSON whose subtasks do not have the fields' types
          "other"}      \* any other JSON
Call(n) == [kind |-> "calls", calls |-> n]
Text(k) == [kind |-> k, calls |-> 0]
Message(role, n) == [role |-> role, calls |-> n]

\* ExtractJSON and ParseWorkerResponse: whatever is JSON is a result.
Parse(a) == IF a.kind = "invalid" THEN "error"
            ELSE IF a.kind = "yield" THEN "yielded" ELSE "completed"

Init == /\ at = "loop"
        /\ toolTurnCount = 0 /\ reflectionAttempts = 0
        /\ messages = <<Message("system", 0), Message("user", 0)>>
        /\ answer = Text("other") /\ pending = 0
        /\ requests = 0 /\ offered = TRUE
        /\ ended = FALSE
        /\ persisted = FALSE /\ result = "none"

Goto(where) == at' = where
Return(what) == /\ Goto("returned") /\ result' = what
                /\ persisted' = (what \in {"completed", "yielded"})
Say(ms) == messages' = messages \o ms
AssistantSays == Message("assistant", answer.calls)
talk == <<messages, answer, pending, requests, offered>>
counts == <<toolTurnCount, reflectionAttempts>>

EndCtx == /\ ~ended /\ at # "returned"
          /\ ended' = TRUE
          /\ UNCHANGED <<at, counts, talk, persisted, result>>

\* The top of the loop.
Loop == /\ at = "loop"
        /\ IF ended THEN Return("cancelled")
                    ELSE Goto("ask") /\ UNCHANGED <<persisted, result>>
        /\ UNCHANGED <<counts, talk, ended>>

\* The final request offers no tools, and so does the one that recovers from it.
Offer(where) == where = "ask"

\* CreateChatCompletion: an answer, unless the context has ended, or an error.
Ask(where, next) ==
  /\ at = where /\ ~ended
  /\ requests' = requests + 1
  /\ offered' = Offer(where)
  /\ \E a \in {Text(k) : k \in Texts}
               \cup {Call(n) : n \in IF Offer(where) THEN 1..MaxCalls ELSE {}} :
        answer' = a
  /\ Goto(next)
  /\ UNCHANGED <<counts, messages, pending, ended, persisted, result>>

AskLoop == Ask("ask", "answered")
AskFinal == Ask("final", "final answered")
AskRecovery == Ask("recover", "recovered")

AskFails == /\ at \in {"ask", "final"}
            /\ Return("failed")
            /\ UNCHANGED <<counts, talk, ended>>

\* Mutant: the recovery is asked for again when it fails.
RecoveryFails_Again == at = "recover" /\ UNCHANGED vars

\* An error of the recovery is not told apart from an answer that is invalid.
RecoveryFails == /\ at = "recover"
                 /\ Return("exhausted")
                 /\ UNCHANGED <<counts, talk, ended>>

-----------------------------------------------------------------------------
(* Tool calls                                                              *)

Exhausted(n) == n >= MaxToolTurns

TakeCalls == /\ at = "answered" /\ answer.calls > 0
             /\ toolTurnCount' = toolTurnCount + 1
             /\ IF toolTurnCount + 1 > MaxToolTurns
                THEN /\ Return("over budget")
                     /\ UNCHANGED <<messages, pending>>
                ELSE /\ Goto("tools")
                     /\ Say(<<AssistantSays>>)
                     /\ pending' = answer.calls
                     /\ UNCHANGED <<persisted, result>>
             /\ UNCHANGED <<reflectionAttempts, answer, requests, offered, ended>>

\* Mutant: a tool that fails sends no message.
RunTool_DropError == /\ at = "tools" /\ pending > 0
                     /\ pending' = pending - 1
                     /\ \/ Say(<<Message("tool", 0)>>) \/ UNCHANGED messages
                     /\ UNCHANGED <<at, counts, answer, requests, offered, ended,
                                    persisted, result>>

\* ExecuteToolCall: output or error, an unknown tool and bad arguments included,
\* the model gets a message.  The context is not looked at.
RunTool == /\ at = "tools" /\ pending > 0
           /\ pending' = pending - 1
           /\ Say(<<Message("tool", 0)>>)
           /\ UNCHANGED <<at, counts, answer, requests, offered, ended, persisted, result>>

\* Out of turns, the model is asked for its final answer.
ToolsDone == /\ at = "tools" /\ pending = 0
             /\ IF Exhausted(toolTurnCount)
                THEN Goto("final") /\ Say(<<Message("user", 0)>>)
                ELSE Goto("loop") /\ UNCHANGED messages
             /\ UNCHANGED <<counts, answer, pending, requests, offered, ended, persisted, result>>

-----------------------------------------------------------------------------
(* Answers                                                                 *)

Accept == /\ at \in {"answered", "final answered", "recovered"}
          /\ answer.calls = 0 /\ Parse(answer) # "error"
          /\ Return(Parse(answer))
          /\ UNCHANGED <<counts, talk, ended>>

\* The answer goes back with the error, in the loop or after the final request.
Reflect == /\ at \in {"answered", "final answered"}
           /\ answer.calls = 0 /\ Parse(answer) = "error"
           /\ reflectionAttempts < MaxReflectionAttempts
           /\ reflectionAttempts' = reflectionAttempts + 1
           /\ Say(<<AssistantSays, Message("user", 0)>>)
           /\ Goto(IF at = "answered" THEN "loop" ELSE "recover")
           /\ UNCHANGED <<toolTurnCount, answer, pending, requests, offered, ended,
                          persisted, result>>

Reject == /\ at \in {"answered", "final answered", "recovered"}
          /\ answer.calls = 0 /\ Parse(answer) = "error"
          /\ at # "recovered" => reflectionAttempts >= MaxReflectionAttempts
          /\ Return("exhausted")
          /\ UNCHANGED <<counts, talk, ended>>

Execute == \/ Loop \/ AskLoop \/ AskFinal \/ AskRecovery \/ AskFails \/ RecoveryFails
           \/ TakeCalls \/ RunTool \/ ToolsDone \/ Accept \/ Reflect \/ Reject

Next == Execute \/ EndCtx

Spec == Init /\ [][Next]_vars

\* Execute runs on: requests and tools return.
FairSpec == Spec /\ WF_vars(Execute)

-----------------------------------------------------------------------------
(* Properties                                                              *)

TypeOK == /\ at \in {"loop", "ask", "answered", "tools", "final", "final answered",
                     "recover", "recovered", "returned"}
          /\ toolTurnCount \in 0..MaxToolTurns
          /\ reflectionAttempts \in 0..MaxReflectionAttempts
          /\ \A i \in DOMAIN messages :
                messages[i] \in [role : {"system", "user", "assistant", "tool"},
                                 calls : 0..MaxCalls]
          /\ pending \in 0..MaxCalls
          /\ ended \in BOOLEAN /\ persisted \in BOOLEAN /\ offered \in BOOLEAN
          /\ result \in {"none", "cancelled", "failed", "exhausted", "over budget",
                         "completed", "yielded"}

\* The task costs at most one request per tool turn and per reflection, and one
\* for its answer; the check on top of the budget never has to stop it.
CostIsBounded == /\ requests <= toolTurnCount + reflectionAttempts + 1
                 /\ result # "over budget"

\* Whenever the model is asked, each of its messages is followed by an answer to
\* every tool call it made, and by nothing else of the tools.
CallsAreAnswered ==
  at \in {"ask", "final", "recover"} =>
    \A i \in DOMAIN messages : messages[i].role = "assistant" =>
      LET n == messages[i].calls
      IN /\ i + n <= Len(messages)
         /\ \A j \in 1..n : messages[i + j].role = "tool"
         /\ i + n < Len(messages) => messages[i + n + 1].role # "tool"

\* A task's conversation stays well-formed for the model's API, and its requests
\* within what its turns and reflections account for.
TalkIsSound == TypeOK /\ CallsAreAnswered /\ CostIsBounded

\* Reflection is given up only after all of its attempts.
ReflectionIsUsedUp == result = "exhausted" => reflectionAttempts = MaxReflectionAttempts

\* An answer whose subtasks are misshapen goes back to the model; it is not taken
\* for the result of a task that yields nothing.
MisshapenIsRejected == result = "completed" => answer.kind # "misshapen"

\* Execute returns.
Returns == <>(at = "returned")
===============================================================================
