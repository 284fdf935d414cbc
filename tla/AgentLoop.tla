------------------------------ MODULE AgentLoop ------------------------------
(* run_agent_loop of src/self_harness/adapters/agentic/agent_loop.py with    *)
(* its transport (adapters/llm/messages.py) and tools: the model is asked,   *)
(* the tools it calls are run one by one, their results go back in one       *)
(* message, until it answers, an error ends the turn or the step budget is   *)
(* used up.  The list of messages belongs to the caller and is changed in    *)
(* place, so whatever ends the turn early leaves in it what was there.       *)
EXTENDS Integers, Sequences

CONSTANTS
    MaxSteps,    \* max_steps: model turns per user turn
    MaxTools,    \* bound: tools the model calls in one turn
    MaxAttempts  \* policy.max_attempts: requests before a rate limit is final

ASSUME LoopBounds == /\ MaxSteps \in Nat \ {0}
                     /\ MaxTools \in Nat \ {0}
                     /\ MaxAttempts \in Nat \ {0}

VARIABLES
    pc,       \* where the turn is
    history,  \* messages, in the order the provider will get them
    loop      \* the loop's variables, and the user turn it works on

agentVars == <<pc, history, loop>>

Kinds == {"user", "text", "call", "result"}
Message(kind, turn) == [kind |-> kind, turn |-> turn]

Stop(reason) ==
    /\ pc' = "returned"
    /\ loop' = [loop EXCEPT !.stop = reason]

\* The user's message goes in first; it stays whatever happens then.
BeginLoop(turn) ==
    /\ history' = Append(history, Message("user", turn))
    /\ loop' = [turn |-> turn, step |-> 0, attempt |-> 1, left |-> 0,
                stop |-> "none"]
    /\ pc' = "request"

Reply(kind) == history' = Append(history, Message(kind, loop.turn))

Answer ==
    /\ pc = "request"
    /\ Reply("text")
    /\ Stop("end_turn")

\* The reply has tool calls but not the stop reason that goes with them: cut
\* at max_tokens, or (taken for the same here) a stream that ended before its
\* message_delta.  The calls are recorded and never answered.
AnswerCut ==
    /\ pc = "request"
    /\ Reply("call")
    /\ Stop("max_tokens")

CallTools ==
    /\ pc = "request"
    /\ Reply("call")
    /\ \E n \in 1..MaxTools : loop' = [loop EXCEPT !.left = n]
    /\ pc' = "tools"

RateLimitedAnew ==        \* a slip: the count starts again at the limit
    /\ pc = "request"
    /\ loop' = [loop EXCEPT !.attempt = (@ % MaxAttempts) + 1]
    /\ UNCHANGED <<pc, history>>

RateLimited ==
    /\ pc = "request"
    /\ loop.attempt < MaxAttempts
    /\ loop' = [loop EXCEPT !.attempt = @ + 1]
    /\ UNCHANGED <<pc, history>>

\* An LLMClientError: not retryable, or the last attempt.
Refused ==
    /\ pc = "request"
    /\ Stop("model_error")
    /\ UNCHANGED history

RunToolUntilSpent ==      \* a slip: the budget is looked at before the results
    /\ pc = "tools"
    /\ IF loop.step + 1 = MaxSteps
       THEN Stop("end_turn") /\ UNCHANGED history
       ELSE /\ Reply("result")
            /\ loop' = [loop EXCEPT !.left = 0, !.step = @ + 1]
            /\ pc' = "request"

\* A tool ends, with an error or not: the loop tells them apart no further.
\* After the last one the results are appended and the next step begins.
RunTool ==
    /\ pc = "tools"
    /\ IF loop.left > 1
       THEN /\ loop' = [loop EXCEPT !.left = @ - 1]
            /\ UNCHANGED <<pc, history>>
       ELSE LET spent == loop.step + 1 = MaxSteps
            IN  /\ Reply("result")
                /\ loop' = [loop EXCEPT !.left = 0, !.step = @ + 1,
                                !.attempt = 1,
                                !.stop = IF spent THEN "max_steps" ELSE @]
                /\ pc' = IF spent THEN "returned" ELSE "request"

\* Ctrl-C, or an exception that is no LLMClientError (a read that times out):
\* neither is handled here.
Leave ==
    /\ pc \in {"request", "tools"}
    /\ pc' = "prompt"
    /\ UNCHANGED history
=============================================================================
