----------------------------- MODULE AgenticLoop -----------------------------
(***************************************************************************)
(* The agent's workers, each investigating an event in a loop of model     *)
(* responses and the tool calls they ask for, beside other MCP clients of  *)
(* the same server. What AgentPipeline's Investigate abstracts from.       *)
(***************************************************************************)
EXTENDS AgentSession

CONSTANTS
    Agents,        \* the callers that are the agent's workers
    MaxIterations, \* model responses per investigation
    MaxCalls       \* tool calls the model and the other clients make (bounds the model)

\* What is left of Calls is for the completion of a session at the iteration limit.
ASSUME LoopAssumption ==
    /\ Agents \subseteq Callers
    /\ MaxIterations \in Nat \ {0}
    /\ MaxCalls \in Nat

VARIABLES
    at,         \* worker -> "generate", "call", "closing" or "reported"
    iteration,  \* worker -> responses used
    sessionID,  \* worker -> the session it captured, or Unknown
    outcome     \* worker -> "none", "failed", "completed" or "timeout"

loopData == <<at, iteration, sessionID, outcome>>
loopVars == <<sessionVars, loopData>>

LoopInit ==
    /\ Init
    /\ at = [w \in Agents |-> "generate"]
    /\ iteration = [w \in Agents |-> 0]
    /\ sessionID = [w \in Agents |-> Unknown]
    /\ outcome = [w \in Agents |-> "none"]

CallTool(c) ==
    /\ Cardinality({j \in Calls : pc[j] # "unused"}) < MaxCalls
    /\ \E i \in Calls : BeginTool(i, c)

Report(w, how) ==
    /\ at' = [at EXCEPT ![w] = "reported"]
    /\ outcome' = [outcome EXCEPT ![w] = how]
    /\ UNCHANGED <<sessionVars, iteration, sessionID>>

\* The rate limiter or GenerateContent fails, or the response has no content:
\* the investigation fails, and its session stays as it is.
GenerateFails(w) ==
    /\ at[w] = "generate" /\ iteration[w] < MaxIterations
    /\ Report(w, "failed")

\* A response without function calls is the analysis.
Answer(w) ==
    /\ at[w] = "generate" /\ iteration[w] < MaxIterations
    /\ Report(w, "completed")

\* A response with function calls, of which the first is made.
CallFirst(w) ==
    /\ at[w] = "generate" /\ iteration[w] < MaxIterations
    /\ CallTool(w)
    /\ at' = [at EXCEPT ![w] = "call"]
    /\ iteration' = [iteration EXCEPT ![w] = @ + 1]
    /\ UNCHANGED <<sessionID, outcome>>

LastCall(w, i) == call[i].by = w /\ \A j \in Calls : call[j].by = w => j <= i

\* The id is captured from the answer of start_agent_session, the latest counts.
Capture(w) ==
    \/ \E i \in Sessions : LastCall(w, i) /\ sessionID' = [sessionID EXCEPT ![w] = i]
    \/ (\A i \in Sessions : ~LastCall(w, i)) /\ UNCHANGED sessionID

\* The next function call of the same response.
CallNext(w) ==
    /\ at[w] = "call" /\ Idle(w)
    /\ CallTool(w)
    /\ Capture(w)
    /\ UNCHANGED <<at, iteration, outcome>>

\* Mutant: the loop only goes on from a call that succeeded.
EndIterationOnSuccess(w) ==
    /\ at[w] = "call" /\ Idle(w) /\ \E i \in Calls : LastCall(w, i) /\ pc[i] = "ok"
    /\ at' = [at EXCEPT ![w] = "generate"]
    /\ Capture(w)
    /\ UNCHANGED <<sessionVars, iteration, outcome>>

\* All calls of the response are made: its answers go into the next request.
EndIteration(w) ==
    /\ at[w] = "call" /\ Idle(w)
    /\ at' = [at EXCEPT ![w] = "generate"]
    /\ Capture(w)
    /\ UNCHANGED <<sessionVars, iteration, outcome>>

\* The iteration limit: the session is completed as timed out, whatever its status ...
CloseSession(w) ==
    /\ at[w] = "generate" /\ iteration[w] = MaxIterations
    /\ sessionID[w] # Unknown
    /\ \E i \in Calls :
           Begin(i, w, "complete_agent_session", sessionID[w], Unknown, "timeout")
    /\ at' = [at EXCEPT ![w] = "closing"]
    /\ UNCHANGED <<iteration, sessionID, outcome>>

\* ... and the result is the same whether that worked or not.
ReportTimeout(w) ==
    /\ at[w] = "closing" /\ Idle(w)
    /\ Report(w, "timeout")

\* Without a session the limit is an error.
ReportExceeded(w) ==
    /\ at[w] = "generate" /\ iteration[w] = MaxIterations
    /\ sessionID[w] = Unknown
    /\ Report(w, "failed")

LoopStep(w) ==
    \/ GenerateFails(w) \/ Answer(w) \/ CallFirst(w) \/ CallNext(w) \/ EndIteration(w)
    \/ CloseSession(w) \/ ReportTimeout(w) \/ ReportExceeded(w)

LoopNext ==
    \/ \E w \in Agents : LoopStep(w)
    \/ \E i \in Calls : Step(i) /\ UNCHANGED loopData
    \/ \E c \in Callers \ Agents : CallTool(c) /\ UNCHANGED loopData

LoopSpec == LoopInit /\ [][LoopNext]_loopVars

\* An assumption about the graph, the model and the server: they answer or fail, in
\* the end. No timeout of the clients forces them to. Other clients need not call.
FairLoopSpec ==
    /\ LoopSpec
    /\ \A w \in Agents : WF_loopVars(LoopStep(w))
    /\ \A i \in Calls : WF_loopVars(Step(i) /\ UNCHANGED loopData)

-----------------------------------------------------------------------------
(* Properties. *)

\* gemini.go:531-573: when a worker has reported a timeout, its session has that
\* status, or what a completion asked for that had not returned when the worker's
\* began, unless a statement of its own failed, which it does not look at.
TimeoutCloses ==
    \A w \in Agents, i \in Calls :
        outcome[w] = "timeout" /\ LastCall(w, i) /\ clean[i] =>
            \/ status[sessionID[w]] = "timeout"
            \/ \E j \in Of(sessionID[w], "complete_agent_session") \ {i} :
                   j \notin call[i].after /\ status[sessionID[w]] = call[j].final

\* agent.go:42-71: every investigation comes to a report, within its iterations
\* and the retries of its statements, so the worker gets to the next event.
EveryLoopReports == \A w \in Agents : <>(at[w] = "reported")
=============================================================================
