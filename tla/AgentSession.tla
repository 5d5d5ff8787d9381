---------------------------- MODULE AgentSession -----------------------------
(***************************************************************************)
(* The MCP server's session and investigation tools. A tool call is a      *)
(* handler that sends one statement after another to Neo4j and keeps       *)
(* nothing in memory between them, so the calls of several clients         *)
(* interleave at statements. A statement is retried after any error, also  *)
(* when it was applied and only its answer was lost; when the retries are  *)
(* used up, or the context is done, the handler fails or goes on.          *)
(*                                                                         *)
(* A session, an investigation, a hypothesis and a query execution are     *)
(* named after the call that creates them.                                 *)
(***************************************************************************)
EXTENDS Naturals, FiniteSets

CONSTANTS
    Callers,    \* MCP clients, each with one call at a time
    Calls,      \* the tool calls, numbered in the order they begin
    Tools,      \* caller -> the tools it uses
    Misnamed,   \* the tools also used with an id that nothing has
    Statuses,   \* the final statuses completions ask for: any text will do
    MaxFaults   \* attempts at a statement that fail (bounds the model)

Unknown == 0         \* an id that nothing has
Nobody  == "nobody"

AllTools ==
    {"start_agent_session", "query_with_session", "update_hypothesis", "record_finding",
     "record_recommendation", "record_pattern", "spawn_investigation",
     "complete_agent_session", "get_patterns", "mark_pattern_used",
     "start_investigation", "complete_investigation"}

ASSUME SessionAssumption ==
    /\ Calls \subseteq Nat \ {Unknown}
    /\ Tools \in [Callers -> SUBSET AllTools]
    /\ MaxFaults \in Nat
    /\ Nobody \notin Callers
    /\ {"completed", "timeout"} \subseteq Statuses /\ "none" \notin Statuses

VARIABLES
    call,        \* call -> who made it, the tool, its arguments, the calls ended before
    pc,          \* call -> the statement it is at, "emit", "ok" or "error"
    clean,       \* call -> none of its attempts has failed
    faults,      \* attempts that have failed so far
    status,      \* session -> its status, "none" while it has no node
    queryCount,  \* session -> its query_count
    findingCount,\* session -> its finding_count
    made,        \* call -> rows its statements have written for its session
    found,       \* query call -> Finding nodes of its session extracted from its results
    sequences,   \* query call -> the sequence numbers of its EXECUTED_QUERY edges
    active,      \* the hypotheses, by call, that have status active
    investigation, \* id -> the status of its Investigation node
    metric       \* investigation -> its Metric: "none", "loose" or "linked"

callVars    == <<call, pc, clean, faults>>
counters    == <<queryCount, findingCount>>
records     == <<made, found, sequences, active>>
sessionData == <<status, counters, records>>
evidence    == <<investigation, metric>>
sessionVars == <<callVars, sessionData, evidence>>

NoCall == [by |-> Nobody, tool |-> "none", session |-> Unknown, inv |-> Unknown,
           final |-> "completed", after |-> {}]

Init ==
    /\ call = [i \in Calls |-> NoCall]
    /\ pc = [i \in Calls |-> "unused"]
    /\ clean = [i \in Calls |-> TRUE]
    /\ faults = 0
    /\ status = [s \in Calls |-> "none"]
    /\ queryCount = [s \in Calls |-> 0]
    /\ findingCount = [s \in Calls |-> 0]
    /\ made = [i \in Calls |-> 0]
    /\ found = [i \in Calls |-> 0]
    /\ sequences = [i \in Calls |-> {}]
    /\ active = {}
    /\ investigation = [k \in Calls |-> "none"]
    /\ metric = [k \in Calls |-> "none"]

-----------------------------------------------------------------------------
(* Calls. *)

Returned(i) == pc[i] \in {"ok", "error"}

Idle(c) == \A i \in Calls : call[i].by = c => Returned(i)

\* A client learns the id of a session from start_agent_session.
Sessions == {s \in Calls : call[s].tool = "start_agent_session" /\ pc[s] = "ok"}

\* It may find that of an investigation in the graph before the start returns.
Investigations == {k \in Calls : investigation[k] # "none"}

\* The statement a tool's handler begins with.
Entry(t) ==
    CASE t = "start_agent_session"    -> "create_session"
      [] t = "query_with_session"     -> "run_query"
      [] t = "update_hypothesis"      -> "supersede"
      [] t = "record_finding"         -> "store_finding"
      [] t \in {"record_recommendation", "record_pattern", "mark_pattern_used"} -> "record"
      [] t = "get_patterns"           -> "find_patterns"
      [] t \in {"spawn_investigation", "start_investigation"} -> "create_investigation"
      [] t = "complete_agent_session" -> "set_completed"
      [] t = "complete_investigation" -> "set_investigation"

\* Where a handler goes once its statements are done: some tools emit nothing.
Done(i) ==
    IF call[i].tool \in {"record_pattern", "mark_pattern_used", "get_patterns",
                         "start_investigation", "complete_investigation"}
    THEN "ok" ELSE "emit"

Begin(i, c, t, s, k, final) ==
    /\ pc[i] = "unused"
    /\ \A j \in Calls : j < i => pc[j] # "unused"
    /\ t \in Tools[c] /\ Idle(c)
    /\ call' = [call EXCEPT ![i] =
                    [by |-> c, tool |-> t, session |-> s, inv |-> k, final |-> final,
                     after |-> {j \in Calls : Returned(j)}]]
    /\ pc' = [pc EXCEPT ![i] = Entry(t)]
    /\ UNCHANGED <<clean, faults, sessionData, evidence>>

\* The sessions a tool is called with: one that was opened, or a wrong id.
SessionsFor(t) == Sessions \union (IF t \in Misnamed THEN {Unknown} ELSE {})

InSession(i, c, t) == \E s \in SessionsFor(t) : Begin(i, c, t, s, Unknown, "completed")

StartAgentSession(i, c)    == Begin(i, c, "start_agent_session", i, Unknown, "completed")
QueryWithSession(i, c)     == InSession(i, c, "query_with_session")
UpdateHypothesis(i, c)     == InSession(i, c, "update_hypothesis")
RecordFinding(i, c)        == InSession(i, c, "record_finding")
RecordRecommendation(i, c) == InSession(i, c, "record_recommendation")
RecordPattern(i, c)        == InSession(i, c, "record_pattern")
SpawnInvestigation(i, c)   == InSession(i, c, "spawn_investigation")
GetPatterns(i, c)          == InSession(i, c, "get_patterns")
MarkPatternUsed(i, c)      == InSession(i, c, "mark_pattern_used")

\* The caller may name the final status, "completed" if it does not. No name is
\* refused: "incomplete" is offered as well, and "active" opens the session again.
CompleteAgentSession(i, c) ==
    \E s \in SessionsFor("complete_agent_session"), final \in Statuses :
        Begin(i, c, "complete_agent_session", s, Unknown, final)

StartInvestigation(i, c) == Begin(i, c, "start_investigation", Unknown, Unknown, "completed")

CompleteInvestigation(i, c) ==
    \E k \in Investigations : Begin(i, c, "complete_investigation", Unknown, k, "completed")

BeginTool(i, c) ==
    \/ StartAgentSession(i, c) \/ QueryWithSession(i, c) \/ UpdateHypothesis(i, c)
    \/ RecordFinding(i, c) \/ RecordRecommendation(i, c) \/ RecordPattern(i, c)
    \/ SpawnInvestigation(i, c) \/ CompleteAgentSession(i, c) \/ GetPatterns(i, c)
    \/ MarkPatternUsed(i, c) \/ StartInvestigation(i, c) \/ CompleteInvestigation(i, c)

\* executeWithRetry on the statement at "at": it is applied and answered, or it is
\* applied or not and fails, and is then retried or given up, for onError.
Attempt(i, at, applied, onOk, onError) ==
    /\ pc[i] = at
    /\ \/ /\ applied
          /\ pc' = [pc EXCEPT ![i] = onOk]
          /\ UNCHANGED <<clean, faults>>
       \/ /\ faults < MaxFaults
          /\ faults' = faults + 1
          /\ clean' = [clean EXCEPT ![i] = FALSE]
          /\ \/ UNCHANGED pc
             \/ pc' = [pc EXCEPT ![i] = onError]
    /\ UNCHANGED call

\* The AgentSession nodes MATCH finds: a retried CREATE leaves two of one id.
Rows(s) == IF s = Unknown THEN 0 ELSE made[s]

\* A statement that matches the session and writes one row for each match.
Write(i, applied) ==
    made' = IF applied THEN [made EXCEPT ![i] = @ + Rows(call[i].session)] ELSE made

-----------------------------------------------------------------------------
(* start_agent_session, and the patterns both it and get_patterns present. *)

CreateSession(i) ==
    \E applied \in BOOLEAN :
        /\ Attempt(i, "create_session", applied, "present", "error")
        /\ made' = IF applied THEN [made EXCEPT ![i] = @ + 1] ELSE made
        /\ status' = IF applied THEN [status EXCEPT ![i] = "active"] ELSE status
        /\ UNCHANGED <<counters, found, sequences, active, evidence>>

\* The read of get_patterns, by type or by keywords: an error fails the call or
\* is passed over. That of start_agent_session is always passed over.
FindPatterns(i) ==
    /\ \E applied \in BOOLEAN, onError \in {"error", "present"} :
           Attempt(i, "find_patterns", applied, "present", onError)
    /\ UNCHANGED <<sessionData, evidence>>

\* Neither a type nor keywords are given.
RefusePatterns(i) ==
    /\ pc[i] = "find_patterns"
    /\ pc' = [pc EXCEPT ![i] = "error"]
    /\ UNCHANGED <<call, clean, faults, sessionData, evidence>>

\* No pattern may match.
PresentNone(i) ==
    /\ pc[i] = "present"
    /\ pc' = [pc EXCEPT ![i] = Done(i)]
    /\ UNCHANGED <<call, clean, faults, sessionData, evidence>>

\* The PRESENTED_PATTERN edges say nothing of the session and are not kept.
MarkPatternPresented(i) ==
    /\ \E applied \in BOOLEAN : Attempt(i, "present", applied, Done(i), Done(i))
    /\ UNCHANGED <<sessionData, evidence>>

-----------------------------------------------------------------------------
(* query_with_session. *)

\* Validation or the database refuses the client's own query.
RefuseQuery(i) ==
    /\ pc[i] = "run_query"
    /\ pc' = [pc EXCEPT ![i] = "error"]
    /\ UNCHANGED <<call, clean, faults, sessionData, evidence>>

\* Nothing is recorded before the query has answered; its results may hold a finding.
RunQuery(i) ==
    /\ \E applied \in BOOLEAN, next \in {"store_finding", "store_execution"} :
           Attempt(i, "run_query", applied, next, "error")
    /\ UNCHANGED <<sessionData, evidence>>

\* An automatic finding comes before its query's execution: the statement leaves
\* the Finding in the session and matches no query to link it to. No counter is
\* raised for it. One finding stands for the several that results may hold.
StoreAutomaticFinding(i) ==
    /\ call[i].tool = "query_with_session"
    /\ \E applied \in BOOLEAN :
           /\ Attempt(i, "store_finding", applied, "store_execution", "store_execution")
           /\ found' = IF applied THEN [found EXCEPT ![i] = @ + Rows(call[i].session)] ELSE found
    /\ UNCHANGED <<status, counters, made, sequences, active, evidence>>

\* Mutant: the sequence is taken from the wrong counter.
StoreExecutionByFindings(i) ==
    LET s == call[i].session IN
    \E applied \in BOOLEAN :
        /\ Attempt(i, "store_execution", applied, "bump_queries", "bump_queries")
        /\ Write(i, applied)
        /\ sequences' = IF applied /\ Rows(s) > 0
                        THEN [sequences EXCEPT ![i] = @ \union {findingCount[s] + 1}]
                        ELSE sequences
        /\ UNCHANGED <<status, counters, found, active, evidence>>

StoreExecution(i) ==
    LET s == call[i].session IN
    \E applied \in BOOLEAN :
        /\ Attempt(i, "store_execution", applied, "bump_queries", "bump_queries")
        /\ Write(i, applied)
        /\ sequences' = IF applied /\ Rows(s) > 0
                        THEN [sequences EXCEPT ![i] = @ \union {queryCount[s] + 1}]
                        ELSE sequences
        /\ UNCHANGED <<status, counters, found, active, evidence>>

\* Mutant: the update also sets the session active again.
BumpQueryCountReopens(i) ==
    LET s == call[i].session IN
    \E applied \in BOOLEAN :
        /\ Attempt(i, "bump_queries", applied, Done(i), Done(i))
        /\ queryCount' = IF applied /\ Rows(s) > 0
                         THEN [queryCount EXCEPT ![s] = @ + 1] ELSE queryCount
        /\ status' = IF applied /\ Rows(s) > 0 THEN [status EXCEPT ![s] = "active"] ELSE status
        /\ UNCHANGED <<findingCount, records, evidence>>

BumpQueryCount(i) ==
    LET s == call[i].session IN
    \E applied \in BOOLEAN :
        /\ Attempt(i, "bump_queries", applied, Done(i), Done(i))
        /\ queryCount' = IF applied /\ Rows(s) > 0
                         THEN [queryCount EXCEPT ![s] = @ + 1] ELSE queryCount
        /\ UNCHANGED <<status, findingCount, records, evidence>>

-----------------------------------------------------------------------------
(* The tools that record. *)

\* Mutant: the finding is not counted.
StoreFindingUncounted(i) ==
    /\ call[i].tool = "record_finding"
    /\ \E applied \in BOOLEAN :
           /\ Attempt(i, "store_finding", applied, Done(i), "error")
           /\ Write(i, applied)
    /\ UNCHANGED <<status, counters, found, sequences, active, evidence>>

StoreFinding(i) ==
    /\ call[i].tool = "record_finding"
    /\ \E applied \in BOOLEAN :
           /\ Attempt(i, "store_finding", applied, "bump_findings", "error")
           /\ Write(i, applied)
    /\ UNCHANGED <<status, counters, found, sequences, active, evidence>>

BumpFindingCount(i) ==
    LET s == call[i].session IN
    \E applied \in BOOLEAN :
        /\ Attempt(i, "bump_findings", applied, Done(i), Done(i))
        /\ findingCount' = IF applied /\ Rows(s) > 0
                           THEN [findingCount EXCEPT ![s] = @ + 1] ELSE findingCount
        /\ UNCHANGED <<status, queryCount, records, evidence>>

\* Mutant: only the caller's own hypotheses are superseded.
SupersedeOwn(i) ==
    \E applied \in BOOLEAN :
        /\ Attempt(i, "supersede", applied, "create_hypothesis", "create_hypothesis")
        /\ active' = IF applied THEN {j \in active : call[j].session # call[i].session
                                                   \/ call[j].by # call[i].by}
                     ELSE active
        /\ UNCHANGED <<status, counters, made, found, sequences, evidence>>

\* UpdateHypothesis: every active hypothesis of the session is superseded ...
Supersede(i) ==
    \E applied \in BOOLEAN :
        /\ Attempt(i, "supersede", applied, "create_hypothesis", "create_hypothesis")
        /\ active' = IF applied THEN {j \in active : call[j].session # call[i].session}
                     ELSE active
        /\ UNCHANGED <<status, counters, made, found, sequences, evidence>>

\* Mutant: the error is dropped.
CreateHypothesisUnchecked(i) ==
    \E applied \in BOOLEAN :
        /\ Attempt(i, "create_hypothesis", applied, Done(i), Done(i))
        /\ Write(i, applied)
        /\ active' = IF applied /\ Rows(call[i].session) > 0 THEN active \union {i}
                     ELSE active
        /\ UNCHANGED <<status, counters, found, sequences, evidence>>

\* ... and, in a statement of its own, the new one created.
CreateHypothesis(i) ==
    \E applied \in BOOLEAN :
        /\ Attempt(i, "create_hypothesis", applied, Done(i), "error")
        /\ Write(i, applied)
        /\ active' = IF applied /\ Rows(call[i].session) > 0 THEN active \union {i}
                     ELSE active
        /\ UNCHANGED <<status, counters, found, sequences, evidence>>

\* The tools that store one row in the session.
StoreRow(i, tool, matched) ==
    /\ call[i].tool = tool
    /\ \E applied \in BOOLEAN :
           /\ Attempt(i, "record", applied, Done(i), "error")
           /\ Write(i, applied /\ matched)
    /\ UNCHANGED <<status, counters, found, sequences, active, evidence>>

StoreRecommendation(i) == StoreRow(i, "record_recommendation", TRUE)

\* What RecordPattern reads before, it only logs.
StorePattern(i) == StoreRow(i, "record_pattern", TRUE)

\* The statement must match the pattern too.
UsePattern(i) == \E matched \in BOOLEAN : StoreRow(i, "mark_pattern_used", matched)

-----------------------------------------------------------------------------
(* complete_agent_session. *)

\* Mutant: a status other than "completed" is not taken over.
SetCompletedNoTimeout(i) ==
    LET s == call[i].session
        exists == Rows(s) > 0
    IN
    \E applied \in BOOLEAN :
        /\ Attempt(i, "set_completed", applied, IF exists THEN "get_session" ELSE "error",
                   "error")
        /\ Write(i, applied)
        /\ status' = IF applied /\ exists /\ call[i].final = "completed"
                     THEN [status EXCEPT ![s] = call[i].final]
                     ELSE status
        /\ UNCHANGED <<counters, found, sequences, active, evidence>>

\* Mutant: no status is put in place of the empty one.
SetCompletedNoDefault(i) ==
    LET s == call[i].session
        exists == Rows(s) > 0
    IN
    \E applied \in BOOLEAN :
        /\ Attempt(i, "set_completed", applied, IF exists THEN "get_session" ELSE "error",
                   "error")
        /\ Write(i, applied)
        /\ status' = IF applied /\ exists THEN [status EXCEPT ![s] = ""]
                     ELSE status
        /\ UNCHANGED <<counters, found, sequences, active, evidence>>

\* The status is set whatever it was; without a row the session is not found.
SetCompleted(i) ==
    LET s == call[i].session
        exists == Rows(s) > 0
    IN
    \E applied \in BOOLEAN :
        /\ Attempt(i, "set_completed", applied, IF exists THEN "get_session" ELSE "error",
                   "error")
        /\ Write(i, applied)
        /\ status' = IF applied /\ exists THEN [status EXCEPT ![s] = call[i].final]
                     ELSE status
        /\ UNCHANGED <<counters, found, sequences, active, evidence>>

\* The counts of the summary are read after the session has been closed.
GetSession(i) ==
    /\ \E applied \in BOOLEAN : Attempt(i, "get_session", applied, Done(i), "error")
    /\ UNCHANGED <<sessionData, evidence>>

-----------------------------------------------------------------------------
(* Investigations. *)

\* MERGE on a new id, all properties set: a second attempt sets them again.
CreateInvestigation(i) ==
    \E applied \in BOOLEAN :
        /\ Attempt(i, "create_investigation", applied, "link_resource", "error")
        /\ investigation' = IF applied THEN [investigation EXCEPT ![i] = "active"]
                            ELSE investigation
        /\ UNCHANGED <<sessionData, metric>>

LinkSpawned(i) == IF call[i].tool = "spawn_investigation" THEN "link_session" ELSE "ok"

\* The edge to the resource; then metrics are queried, and there may be none.
LinkResource(i) ==
    /\ \E applied \in BOOLEAN, next \in {"store_metric", LinkSpawned(i)} :
           Attempt(i, "link_resource", applied, next, "error")
    /\ UNCHANGED <<sessionData, evidence>>

\* Mutant: the metric only carries its investigation_id.
StoreMetricUnlinked(i) ==
    \E applied \in BOOLEAN :
        /\ Attempt(i, "store_metric", applied, LinkSpawned(i), LinkSpawned(i))
        /\ metric' = IF applied THEN [metric EXCEPT ![i] = "loose"] ELSE metric
        /\ UNCHANGED <<sessionData, investigation>>

StoreMetric(i) ==
    \E applied \in BOOLEAN :
        /\ Attempt(i, "store_metric", applied, "link_metric", LinkSpawned(i))
        /\ metric' = IF applied THEN [metric EXCEPT ![i] = "loose"] ELSE metric
        /\ UNCHANGED <<sessionData, investigation>>

\* Behind the link, the edge to the resource that emitted the metric, if the
\* metric's labels name one that has to do with the investigation.
LinkCorrelated(i) == {"correlate", LinkSpawned(i)}

\* Mutant: the edge sets the investigation's properties again.
LinkMetricReactivates(i) ==
    \E applied \in BOOLEAN, next \in LinkCorrelated(i) :
        /\ Attempt(i, "link_metric", applied, next, next)
        /\ metric' = IF applied THEN [metric EXCEPT ![i] = "linked"] ELSE metric
        /\ investigation' = IF applied THEN [investigation EXCEPT ![i] = "active"]
                            ELSE investigation
        /\ UNCHANGED sessionData

\* UpsertEdge merges its two ends: a metric purged meanwhile comes back.
LinkMetric(i) ==
    \E applied \in BOOLEAN, next \in LinkCorrelated(i) :
        /\ Attempt(i, "link_metric", applied, next, next)
        /\ metric' = IF applied THEN [metric EXCEPT ![i] = "linked"] ELSE metric
        /\ UNCHANGED <<sessionData, investigation>>

\* UpsertEdge again: a metric purged meanwhile comes back, but not its link.
CorrelateMetric(i) ==
    \E applied \in BOOLEAN :
        /\ Attempt(i, "correlate", applied, LinkSpawned(i), LinkSpawned(i))
        /\ metric' = IF applied /\ metric[i] = "none" THEN [metric EXCEPT ![i] = "loose"]
                     ELSE metric
        /\ UNCHANGED <<sessionData, investigation>>

LinkSession(i) ==
    \E applied \in BOOLEAN :
        /\ Attempt(i, "link_session", applied, "emit", "emit")
        /\ Write(i, applied)
        /\ UNCHANGED <<status, counters, found, sequences, active, evidence>>

\* MERGE again, all properties replaced by the new ones.
SetInvestigation(i) ==
    \E applied \in BOOLEAN :
        /\ Attempt(i, "set_investigation", applied, "purge", "error")
        /\ investigation' = IF applied
                            THEN [investigation EXCEPT ![call[i].inv] = "completed"]
                            ELSE investigation
        /\ UNCHANGED <<sessionData, metric>>

\* Only the metrics that are linked are found; the answer does not depend on them.
Purge(i) ==
    LET k == call[i].inv IN
    \E applied \in BOOLEAN :
        /\ Attempt(i, "purge", applied, "ok", "error")
        /\ metric' = IF applied /\ metric[k] = "linked" THEN [metric EXCEPT ![k] = "none"]
                     ELSE metric
        /\ UNCHANGED <<sessionData, investigation>>

-----------------------------------------------------------------------------
\* The handler tells the SSE clients and returns.
Emit(i) ==
    /\ pc[i] = "emit"
    /\ pc' = [pc EXCEPT ![i] = "ok"]
    /\ UNCHANGED <<call, clean, faults, sessionData, evidence>>

Step(i) ==
    \/ CreateSession(i) \/ FindPatterns(i) \/ RefusePatterns(i) \/ PresentNone(i)
    \/ MarkPatternPresented(i) \/ RefuseQuery(i) \/ RunQuery(i)
    \/ StoreAutomaticFinding(i) \/ StoreExecution(i) \/ BumpQueryCount(i)
    \/ StoreFinding(i) \/ BumpFindingCount(i) \/ Supersede(i) \/ CreateHypothesis(i)
    \/ StoreRecommendation(i) \/ StorePattern(i) \/ UsePattern(i)
    \/ SetCompleted(i) \/ GetSession(i)
    \/ CreateInvestigation(i) \/ LinkResource(i) \/ StoreMetric(i) \/ LinkMetric(i)
    \/ CorrelateMetric(i) \/ LinkSession(i) \/ SetInvestigation(i) \/ Purge(i) \/ Emit(i)

Next ==
    \E i \in Calls :
        \/ Step(i)
        \/ \E c \in Callers : BeginTool(i, c)

Spec == Init /\ [][Next]_sessionVars

-----------------------------------------------------------------------------
(* Properties. *)

Points ==
    {"unused", "create_session", "present", "find_patterns", "run_query", "store_finding",
     "store_execution", "bump_queries", "bump_findings", "supersede", "create_hypothesis",
     "record", "set_completed", "get_session", "create_investigation", "link_resource",
     "store_metric", "link_metric", "correlate", "link_session", "set_investigation",
     "purge", "emit", "ok", "error"}

\* Every variable stays in its type; calls only use sessions that were opened.
TypeOK ==
    /\ call \in [Calls -> [by : Callers \union {Nobody}, tool : AllTools \union {"none"},
                           session : Calls \union {Unknown}, inv : Calls \union {Unknown},
                           final : Statuses, after : SUBSET Calls]]
    /\ pc \in [Calls -> Points]
    /\ clean \in [Calls -> BOOLEAN]
    /\ faults \in 0 .. MaxFaults
    /\ status \in [Calls -> {"none", "active"} \union Statuses]
    /\ queryCount \in [Calls -> Nat] /\ findingCount \in [Calls -> Nat]
    /\ made \in [Calls -> Nat] /\ found \in [Calls -> Nat]
    /\ sequences \in [Calls -> SUBSET Nat]
    /\ active \subseteq Calls
    /\ investigation \in [Calls -> {"none", "active", "completed"}]
    /\ metric \in [Calls -> {"none", "loose", "linked"}]

Of(s, t) == {i \in Calls : call[i].session = s /\ call[i].tool = t}

\* The graph has answered every statement on session s at once.
Quiet(s) == \A i \in Calls : call[i].session = s => clean[i]

\* agent_session_manager.go:174-182, :283-294: the record and the counter are two
\* statements. While nothing fails, query_count is the number of executions in the
\* session and finding_count that of the findings agents recorded, less the calls
\* between the two. Findings extracted from results are in the session as well and
\* are in neither.
CountersMatch ==
    \A s \in Calls : Quiet(s) =>
        /\ queryCount[s] + Cardinality({i \in Calls : call[i].session = s
                                                      /\ pc[i] = "bump_queries"})
             = Cardinality({i \in Of(s, "query_with_session") : made[i] > 0})
        /\ findingCount[s] + Cardinality({i \in Calls : call[i].session = s
                                                        /\ pc[i] = "bump_findings"})
             = Cardinality({i \in Of(s, "record_finding") : made[i] > 0})

\* graph-schema.md: `sequence` is the order of the query in the session. A query
\* that begins after another has returned gets a higher one, whatever the other
\* clients of the session do meanwhile, if the earlier one's count was not lost.
SequenceOrder ==
    \A i, j \in Calls :
        /\ call[i].tool = "query_with_session" /\ call[j].tool = "query_with_session"
        /\ call[i].session = call[j].session /\ i \in call[j].after /\ clean[i]
        => \A m \in sequences[i], n \in sequences[j] : m < n

\* Tool description of update_hypothesis: "previous hypotheses are marked as
\* superseded". Once a later update has returned, one that had returned before
\* it began is not active, if superseding did not fail, which nobody is told.
OneHypothesis ==
    \A i, j \in Calls :
        /\ call[j].tool = "update_hypothesis" /\ pc[j] = "ok" /\ clean[j]
        /\ i \in call[j].after /\ call[i].session = call[j].session
        => i \notin active

\* A call whose notification says that something was recorded in a session.
Told(i) ==
    /\ pc[i] = "ok" /\ call[i].session # Unknown
    /\ \/ call[i].tool \in {"start_agent_session", "update_hypothesis", "record_finding",
                            "record_recommendation", "complete_agent_session"}
       \/ clean[i] /\ call[i].tool \in {"query_with_session", "spawn_investigation"}

\* What the SSE clients were told of is in the graph: a session, a record in an
\* open session. A query and a spawned investigation are announced though
\* recording them failed.
AnnouncedIsStored == \A i \in Calls : Told(i) => made[i] > 0

\* A completion of investigation k that began before its start had returned.
Overlapped(k) ==
    \E h \in Calls : /\ call[h].tool = "complete_investigation"
                     /\ call[h].inv = k /\ k \notin call[h].after

\* investigation_metrics.go:273-310: after a completion that began when the start
\* had returned, the investigation's metrics are gone, in spite of the other
\* completions and investigations. Two things take metrics out of the purge's
\* sight: an edge of the start that failed, and an earlier completion that ran
\* into the start, behind which the edge to the resource brings a metric back.
MetricsPurged ==
    \A j \in Calls :
        /\ call[j].tool = "complete_investigation" /\ pc[j] = "ok"
        /\ call[j].inv \in call[j].after /\ clean[call[j].inv] /\ ~Overlapped(call[j].inv)
        => metric[call[j].inv] = "none"

\* An investigation that was completed is only made active again by a retry of
\* the statement that creates it.
CompletedIsFinal ==
    [][\A k \in Calls : investigation[k] = "completed" /\ clean[k]
           => investigation'[k] = "completed"]_sessionVars

-----------------------------------------------------------------------------
(* The tools keep what SessionLedger promises. *)

Log(s) == {i \in Calls : call[i].session = s /\ (made[i] > 0 \/ found[i] > 0)}

\* The statuses that completions of the session have asked for.
AskedOf(s) == {call[i].final : i \in Of(s, "complete_agent_session")}

Ledger == INSTANCE SessionLedger
    WITH log <- [s \in Calls |-> Log(s)],
         asked <- [s \in Calls |-> AskedOf(s)],
         announced <- {i \in Calls : Told(i)}

\* The session's life cycle and its records, as SessionLedger states them.
ImplementsLedger == Ledger!Spec
=============================================================================
