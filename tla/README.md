# TLA+ verification of kkbase

kkbase keeps a knowledge graph (Neo4j) of Kubernetes clusters, serves it to agents over MCP, and runs an agent that
investigates alerts with an LLM. This directory holds TLA+ models of its concurrent parts, TLC configurations that
check them on small instances, and proofs that TLAPS checks for every size. Paths are relative to the repository;
`PROJECT.json` maps every modelled definition to its source lines.

    tlc -workers 2 -config GraphSync.cfg MCGraphSync.tla      # one run
    tlapm AgentPipelineProofs.tla                             # one proof module

## The system

Three processes share the graph.

| process | parts | state | interacts with |
|---|---|---|---|
| **watcher** (`cmd/watcher`) | `watchers.Manager`, CRD watcher, one informer and one handler per kind (core, gateway, istio, kuadrant), placeholder cleanup, trace streaming | handlers and their maps, informer caches | Kubernetes API (list, watch, list inside handlers), graph writes |
| **mcp-server** (`cmd/mcp-server`) | tools and resources, session manager, SSE broadcaster, metrics and traces, pattern seeder | SSE connections; sessions, findings, hypotheses and metrics as graph nodes | graph reads and writes, dashboards (SSE), agents (HTTP) |
| **agent** (`cmd/agent`) | event sources, router (deduplicator, filters), worker pool, LLM loop, MCP client | channels, the `seen` map, queues | webhooks in, Gemini and mcp-server out |

### Inventory

| component | state | operations | hard behaviour | what makes it correct |
|---|---|---|---|---|
| Agent event pipeline | source channels, `seen`, `eventQueue`, `resultQueue`, `stopCh`, worker loops | webhook, receive, route, submit, investigate, report, log, shut down | check-then-act on `seen`; bounded queues with `default:` branches; closing channels others use | only look-ups that overlap let one id through twice in a TTL; no event lost or doubled without an error; shutdown ends and does not panic |
| LLM loop and MCP client | conversation, iteration count, session id | generate, call tools, give up at the limit | failure half way; two writers of the status | every investigation is reported; a reported timeout is the session's status |
| Session manager and its MCP tools | session, query, finding, hypothesis, pattern nodes and edges | open, query, record, update hypothesis, spawn, complete | several statements per call, retried and not atomic; several clients on one session | counters match the records; numbers follow the order; one current hypothesis; what is announced is stored |
| SSE broadcaster | connection map, `RWMutex`, a mutex and `done` channel per connection | connect, remove, broadcast, count, clean up | three kinds of goroutines over two levels of locks; slow clients | no double close; no write after the handler returned; nobody waits for ever |
| Graph store | nodes (real or placeholder), edges | merge, delete, retry, clean up | any order of writers; retries of what was done | a placeholder becomes real and not the reverse |
| Resource handlers | none (they read the API server) | add, update, delete per kind | several writes per call; delete-and-recreate; failure half way | the graph converges to the cluster |
| Watcher manager, CRD watcher | `handlers`, `coreHandlers`, `started`, per-handler `started` | CRD notifications, registration, start | the listener races with `Start` | each registered handler's informer runs, once |
| Investigation metrics | Investigation and Metric nodes | start, pull, complete, purge | completion races with the start; failed edges | a completed investigation leaves no metrics and stays completed |
| Traces, service discovery | `lastPoll`, service list | poll, rediscover | errors swallowed while time moves on | no interval is skipped |
| Pattern seeder | Pattern nodes | look up, create | check-then-create by two replicas | each pattern once |
| Finding extractor, blast zone, correlator, catalog, providers, config, schema extractor | none | pure functions or I/O | — | — |
| Frontend | browser state | render, observe | — | — |

`PROJECT.json` lists each with its status, and every hazard at its line.

## Modules

    AgentPipeline      <- AgentPipelineProofs, MCAgentPipeline
    GraphStore <- ResourceHandlers <- ExtensionHandlers <- GraphSync <- MCGraphSync
                                      ExtensionHandlers <- HandlerProofs
                                      GraphSync, HandlerProofs <- GraphSyncProofs
    AgentSession <- AgenticLoop <- AgentSessionProofs <- SessionCountProofs
                    AgenticLoop <- MCAgenticLoop
    SessionLedger      <= implemented by AgentSession
    SSEBroadcast       <- SSEBroadcastProofs, MCSSEBroadcast
    WatcherManager     <- WatcherManagerProofs

### AgentPipeline

`pkg/agent`, its webhook sources and `cmd/agent/main.go`. Variables: `chan` (a source's channel), `seen` (the
deduplicator's map), `procPc/procEv/procLast` (the goroutine `processEventSource` of each source: its place, its event,
the time it read from `seen`, and in the history `procKnew` how often its id had been admitted by then), `queue` and `results` (the pool's channels), `workerPc/workerEv`, `logger`
(`resultLogger` still loops), `main/toStop/closed` (where `run()` is after the signal), and the histories
`admitted` (per id, its admissions in their order: when, and how many of the earlier ones preceded the look-up),
`accepted, rejected, investigated, delivered`. An id may come from both sources: the custom webhook takes the one its
caller gives.

`IsDuplicate` is two steps, `LookupSeen` and then `MarkSeen` or `DropDuplicate`, because the code takes its lock twice;
`CleanupSeen` and the other source run in between. A `select` with `default` is a disjunction whose default needs the
other branches not ready. `SendResult` has the three ways out of the code's select. A closed channel that is sent on is a
panic (`SubmitPanics`, `main = "crashed"`). Requests and the signal are the environment.

### GraphStore, ResourceHandlers, ExtensionHandlers, GraphSync

`GraphStore` has the graph's writes as pure operators: `UpsertNode` clears the placeholder mark, `UpsertEdge` creates
missing ends as placeholders, a delete that matches nothing changes nothing.

`ResourceHandlers` gives, for each of the fourteen core and nine Gateway API kinds, the sequence of statements that
`HandleAdd`, `HandleUpdate` and `HandleDelete` run. A statement names what the handler does when it fails for good: go
on (most edges: the error is logged), or return (`OrReturn`), through `skip`, the number of later statements left out.
Delete handlers of five kinds use the bare name where the node's id has the kind before it; the model keeps that.
`NodeTypeFromKind` is the registry of `models/types.go` as `cmd/watcher/main.go` fills it: `Gateway` means Istio's.

`ExtensionHandlers` adds the eight Istio and five Kuadrant kinds, and `Handler`, the table of all 36. Their updates delete
every edge of the node and add the object again. A host is the sequence of its domain's labels, so that
`ParseServiceHost` and `IsExternal` are what they are in the code: an external host has no service and an empty
namespace. The code searches the text for ".com", ".net" and ".org", so a label that begins with one of them is enough
(`ExternalLabels`). A policy lists the pods it is for; Kuadrant's enforcers are found among the Services of all namespaces.

`GraphSync` composes them with the cluster. `cluster` is the truth at the API server; `pending[k]` are the notifications
queued for kind k's handler and `task[k]` the statements its running handler has left. Kinds run concurrently, one
statement at a time; `ListPods`, `ListServices` and `FindService` read the API server *now*, not when the notification was made, and
put the edges they call for in front of the task. `Execute` is a statement that succeeds; `Repeat` one that took effect
and is run again by `executeWithRetry`; `GiveUp` one that fails for good. `Resync` queues an update for every object,
`Cleanup` removes unconnected placeholders, `Crash` drops all that is queued, `Restart` lists the cluster again.
`missed` are the objects whose deletion the process never saw or failed to write; `lossy` says that some statement was
given up or some notification lost since the start.

### AgentSession, SessionLedger, AgenticLoop

`AgentSession` is the MCP server's tools that write to the graph (`pkg/mcp/agent_session_tools.go`,
`server.go`), the session manager and the investigation metrics behind them. A handler keeps nothing in
memory between its statements, so a call is its arguments (`call`), the statement it is at (`pc`) and what it wrote: `made`
counts its rows, `found` the findings that were extracted from a query's results, `sequences` are the numbers on its `EXECUTED_QUERY` edges, `active` the hypotheses in force,
`investigation` and `metric` the nodes of the investigations; a metric is linked to its investigation, or loose, which no
purge sees. `status`, `queryCount` and `findingCount` are the session's
properties. `Attempt` is `executeWithRetry` around a statement: applied and answered; or failed, applied or not, and then
tried again or given up, which the handler reports (`"error"`) or only logs. A `CREATE` that is retried makes two nodes and
later statements match both (`Rows`). Calls begin with `BeginTool`, one action per tool, with the id of an open session or,
for the tools in `Misnamed`, with one that nothing has; `after` remembers the calls that had returned by then, which is
what the order properties compare. The code checks no status: `complete_agent_session` sets what its caller gives, "incomplete"
and "active" too, and the constant `Statuses` is any set of them.

`storeFinding` for a finding the server extracts itself (`StoreAutomaticFinding`) creates the Finding and its
`HAS_FINDING` edge and then matches the query's execution, which does not exist yet: `found` is raised, no counter is. A
start of an investigation writes a metric in three statements (`StoreMetric`, `LinkMetric`, `CorrelateMetric`), the last
two of which merge their ends: they bring back a metric that was purged meanwhile, the second without its link.

`SessionLedger` is what the tools promise: a session is opened once and gets no other status than one that a completion of
it has asked for (`asked`); records are only made in a session that exists, and stay; only what is recorded is announced.
`AgentSession` implements it under `log <- the calls with rows or extracted findings`, `asked <- the statuses in the
completions' arguments`, `announced <- the calls whose notification says so` (`ImplementsLedger`). That a closed session
stays closed is not promised: a completion that asks for "active" opens it again.

`AgenticLoop` puts the agent's workers (`pkg/llm/gemini.go`, `runAgenticLoop`) beside other clients. `iteration` counts
responses, `sessionID` is captured from the last call's answer, and at the limit the worker completes the session with
"timeout" and reports whatever came of that. It is the `Investigate` that `AgentPipeline` takes as one step.

### SSEBroadcast

`pkg/mcp/sse_transport.go` and `NotificationBroadcaster.Emit`. `writer, readers, blocked` are the broadcaster's
`sync.RWMutex` as Go implements it: `Lock` announces a writer, which stops new readers, and holds once the present readers
have left; `Unlock` admits the readers that were blocked. `holder` is each connection's mutex, which is held during a
write to the client. `phase, sends` are the broadcasts and the goroutines they wait for, `pc` the HTTP handlers,
`connections` the map from ids to connections, and `closes` counts the closes of each `done` channel. Two requests may
get one id, since ids are clock readings (`ConnId` is any function).

### WatcherManager

`pkg/watchers/watcher.go` and `crd_watcher.go`. `crd` is the cluster, `events` the notifications for the CRD listener,
`listener` the goroutine of its callbacks, `manager` the one of `Start`. `handlers, core, started` are the manager's
maps and flag; `lock, begun, runs, synced` the mutex and state of each `BaseWatcher`. `m.started` is read without a lock
(a data race); reads and writes of one word interleave in the model, and every order is explored.

## Runs

| run | module, cfg | checks | bounds |
|---|---|---|---|
| `agent_pipeline` | MCAgentPipeline, AgentPipeline | `TypeOK`, `OncePerTTL`, `Accounted`, `NoSendOnClosedResults` | 2 sources, 2 workers, queues of 1, times 0..1 and TTL 0 (a post at the same time is a duplicate, one a tick later is not), an alert posted 3 times and a payload that brings its id once |
| `agent_pipeline_live` | MCAgentPipeline, AgentPipelineLive | `ShutdownCompletes`, `QueueDrains` | 1 worker, queues of 1, 3 payloads without an id: named by their arrival, or filtered |
| `agent_pipeline_shutdown` | MCAgentPipeline, AgentPipelineShutdown | `GracefulShutdown`, **violated** | as above |
| `agent_pipeline_duplicates` | MCAgentPipeline, AgentPipelineDuplicates | `NoDuplicates`, **violated** | as `agent_pipeline`, 1 worker |
| `graph_sync` | MCGraphSync, GraphSync | `TypeOK`, `RealNodeBacked`, `SelectsPodsComplete` | a Pod and a Service with two specs each, 3 changes, 1 failed or repeated statement, 1 crash |
| `graph_sync_live` | MCGraphSync, GraphSyncLive | `EdgesRestored`, `StaleEdgesVanish` | the same objects, 2 changes, 1 failure |
| `graph_sync_kinds` | MCGraphSync, GraphSyncKinds | `RealNodeBacked`, `NodesComplete` | one object of each of the 36 kinds, naming each other, 2 changes |
| `graph_sync_delete` | MCGraphSync, GraphSyncDelete | `DeletedNodesGo`, **violated** | as above |
| `sse_broadcast` | MCSSEBroadcast, SSEBroadcast | `TypeOK`, `ClosedOnce`, `NoWriteAfterReturn`, `EmitReturns`, `HandlerReturns` | 2 clients of one id, 1 emitter, the cleaner |
| `watcher_manager` | WatcherManager, WatcherManager | `TypeOK`, `RunsOnce`, `LateHandlersRun` | 2 kinds, a supported and an unsupported version, 3 CRD changes |
| `watcher_manager_sync` | WatcherManager, WatcherManagerSync | `HandlersRun`, **violated** | 2 CRD changes |
| `agentic_loop` | MCAgenticLoop, AgenticLoop | `TypeOK`, `CountersMatch`, `SequenceOrder`, `OneHypothesis`, `AnnouncedIsStored`, `MetricsPurged`, `TimeoutCloses`, `CompletedIsFinal`, `ImplementsLedger`, `EveryLoopReports` | a worker with all twelve tools and a client with three, 3 calls and a forced completion, 1 failed attempt, 2 responses, the statuses "completed", "timeout" and "active" |

Every bound is a constant that only guards of the environment use (`MaxTime`, `MaxDeliveries`, `MaxChanges`,
`MaxErrors`, `MaxCrashes`, `MaxCalls`, `MaxFaults`) or a capacity of the code (`SourceCap`, `QueueCap`).

Why they are enough to matter. Queues of one fill with the first event, so all `default` branches are taken; three posts
of one alert let an id be admitted, refused and admitted again, and the payload with its id lets the other source's
goroutine look it up at any moment of that. One failing statement may be any statement of any
handler, and three changes cover create–change–delete with the other kind's handler in between. A shared connection id
makes the second connection replace the first while both handlers run, the worst case for double closes. Three CRD
changes give a CRD that is established, goes, and comes back in the other version around `Start`. Three calls are a session and two calls in
it, by one client or by both, with every interleaving of their statements and a failure of any one of them; each of the
properties of `agentic_loop` is broken by its mutant within them. A start, and two completions of its investigation, fit
too. What does not is a third client between two calls that follow each other: the run sees `SequenceOrder`,
`OneHypothesis` and `CountersMatch` with two calls in the session, which overlap or not, and it is their theorems that
cover the rest. Nor can the run show that a session is closed, opened again and closed. `MaxIterations` is the code's own limit, made small. Each property has a
mutant in `PROJECT.json`, a plausible bug that this very run catches.

Deadlock is not reported where the system may stop: in the watcher manager at rest, with no CRD changing; in a cluster
left without objects after its last change, where only idle timers are left; after the last tool call.

### What the properties say

- `OncePerTTL`: an event is let through only if every admission of its id that preceded its look-up is older than TTL,
  whatever the cleanup and the other source do between the look-up and the mark. Two events of one id within a TTL are
  therefore two look-ups that overlapped; that these exist is `NoDuplicates`, below.
- `Accounted`: every accepted event is in one place only, or was refused with `ErrQueueFull`.
- `NoSendOnClosedResults`, `ShutdownCompletes`, `QueueDrains`: the order of `Stop`, that it ends, and that a full result
  queue delays no event.
- `RealNodeBacked`: a deleted object's node is real only while a delete that will remove it is still to come. No
  interleaving of other handlers, retries and resyncs resurrects it. The two exceptions are in the invariant: deletes the
  process missed (`missed`), and the five kinds whose delete handlers use the wrong name.
- `NodesComplete`, `SelectsPodsComplete`: when the handlers are idle and nothing was lost, every object has its nodes with
  data, and every Service its edge to every Pod it selects, though both sides' handlers delete and add those edges.
- `EdgesRestored`, `StaleEdgesVanish`: an edge that stays called for comes back after a failure or another handler's
  delete; one that stays uncalled for goes, when its origin's handler refreshes its edges.
- `ClosedOnce`, `NoWriteAfterReturn`, `EmitReturns`, `HandlerReturns`: see the SSE row of the inventory.
- `CountersMatch`: `query_count` is the number of the session's query executions and `finding_count` that of the findings
  agents recorded, less the calls between the two statements; of sessions none of whose statements has failed, since a
  retried increment counts twice. Findings extracted from results are in no counter.
- `SequenceOrder`: the number is read in one statement and the counter raised in the next, so overlapping queries may
  share a number; a query that begins after another returned still gets a higher one.
- `OneHypothesis`: an update that returned leaves no hypothesis active that was there before it began. Two updates that
  overlap may leave two, and an update whose first statement failed, which it only logs, leaves the old one.
- `AnnouncedIsStored`: what the dashboards are told was recorded is in the graph. Queries and spawned investigations are
  announced though their recording failed, which the property excepts; so are calls with an id that nothing has.
- `MetricsPurged`: after a completion that began when the start had returned, the investigation has no metrics, whatever
  other completions and investigations do meanwhile. Two exceptions are in it, which the code has: a statement of the
  start that failed, and an earlier completion that ran into the start (`Overlapped`).
- `CompletedIsFinal`: only a retried creation makes a completed investigation active again.
- `TimeoutCloses`: when the loop has reported a timeout, its session has that status, or what a completion asked for that
  had not returned when the loop's began: no completion that was over by then shows through, and no other call changes it.
- `EveryLoopReports`: every investigation is reported.
- `RunsOnce`, `LateHandlersRun`: the listener and `Start` may both start an informer and only one runs it; a handler that
  registers after the start is run.

### Fairness

- Goroutines that can run do run (weak fairness): processors, workers, logger and shutdown; handlers; emitters.
- The network, requests, the signal, the clock, CRD and cluster changes have none: a system nobody calls is allowed. A
  failed statement is a choice of the environment, bounded by `MaxErrors`.
- `Resync` is weakly fair: the informers' timer.
- A worker's step and a call's next statement are weakly fair. This is an assumption about the environment, that the
  model, the server and the graph answer or fail in the end: neither the Gemini nor the MCP client sets a timeout.
  Failures stay the environment's, bounded by `MaxFaults`; other clients need not call.
- A write to a client ends (`EndSend`), since `http.Server` has a `WriteTimeout` (`cmd/mcp-server/main.go:178`).
- Taking a mutex is strongly fair: Go's mutexes go into starvation mode after 1 ms, so a waiter is not passed over for
  ever. A `select` with several ready branches picks by a fair coin: strong fairness for the handler's way out.
- `LateHandlersRun` is conditional on waits for informer caches that end: `WaitForCacheSync` has no timeout, and for a
  CRD that has been deleted it never returns.

## Disagreements between code and text

1. **A panic in the graceful shutdown** (`agent_pipeline_shutdown`). `run()` closes the sources and then `Stop` closes
   `eventQueue`, but nobody waits for the `processEventSource` goroutines. One between `Process` and `Submit` sends on
   the closed channel. Text: "shutting down gracefully..." (`cmd/agent/main.go:210`).
2. **Nodes that outlive their objects** (`graph_sync_delete`). `HandleDelete` of Namespace, PersistentVolume,
   StorageClass, Event and GatewayClass passes the name where the id is `Kind/name`. Text: "HandleDelete processes a
   deleted Namespace" (`handlers/core/namespace.go:80`).
3. **An extension handler that never runs** (`watcher_manager_sync`). A handler registered during the cache sync is put
   among the core handlers, which the loop that is there for it skips. Text: "Start informers for any handlers that were
   registered during cache sync" (`watchers/watcher.go:301`).
4. **An id let through twice in a TTL** (`agent_pipeline_duplicates`). `IsDuplicate` reads under one lock and writes under
   another. The two sources' goroutines can both read an id before either marks it; the custom webhook takes any id
   (`sources/webhook.go:144`). Text: "Deduplicator prevents duplicate events from being processed"
   (`deduplicator.go:10`).

Seen while reading, in the models where they change state, and without a run of their own:

- A finding the server extracts itself is stored before its query's execution, with a statement that matches that
  execution: the session has it, without its `DISCOVERED` and `AFFECTS` edges (`agent_session_manager.go:168`, `:742`;
  `agent_session_tools.go:177` promises links). `finding_count` is not raised for it, though `pkg/mcp/types.go:261` calls
  that "Total findings discovered".
- A completion that falls between a metric's link and its edge to the resource purges the metric, and the edge brings it
  back without the link: no later completion finds it, though `investigation_metrics.go` says "Purge all metrics
  associated with this investigation".
- The registry has one node type per kind, and Istio's `Gateway` is registered last (`pkg/models/types.go:34`): an event
  about a Gateway of the Gateway API gets its edge to a placeholder `IstioGateway`.
- `CompleteSession` completes no linked investigations, and a second completion is not refused
  (`docs/services/mcp-server/tools-reference.md:563`). An unknown session is an error of the statement, not a code.
- Completing an investigation replaces its properties, so those about its resource and symptom are lost.
- An investigation that fails (model error, no content) leaves its session active; nothing closes it later.
- The agent does not look at a tool result's error flag: a failed call is an ordinary answer to the model.
- `record_finding` with an unknown session is announced though nothing is stored.
- A wildcard or external host in a DestinationRule with subsets lists the pods of all namespaces
  (`istio/destinationrule.go:101`).
- The automatic start of investigations from a hypothesis is disabled; `AbandonInvestigation` and
  `CreatePolicyManagedByEdge` have no caller.

## Proofs

| theorem | module | says |
|---|---|---|
| `TypeCorrect` | AgentPipelineProofs | `Spec => [](TypeOK /\ OwnEvents)` |
| `DedupOncePerTTL` | AgentPipelineProofs | `Spec => []OncePerTTL` |
| `ResultsSafe` | AgentPipelineProofs | `Spec => []NoSendOnClosedResults` |
| `EventsAccounted` | AgentPipelineProofs | `Spec => []Accounted` |
| `HandlerAdds`, `HandlerErases` | HandlerProofs | what an add, update or delete of any of the 36 kinds may write and delete |
| `BaseAlways` | GraphSyncProofs | `Spec => []Base`, the invariant the next four rest on |
| `TypeCorrect` | GraphSyncProofs | `Spec => []TypeOK` |
| `RealNodesBacked` | GraphSyncProofs | `Spec => []RealNodeBacked` |
| `NodesAreComplete` | GraphSyncProofs | `Spec => []NodesComplete` |
| `SelectsAreComplete` | GraphSyncProofs | `Spec => []SelectsPodsComplete` |
| `TypeCorrect` | SSEBroadcastProofs | `Spec => []TypeOK` |
| `ClosesOnce`, `WritesEnd` | SSEBroadcastProofs | `Spec => []ClosedOnce`, `Spec => []NoWriteAfterReturn` |
| `TypeCorrect` | WatcherManagerProofs | `Spec => []TypeOK` |
| `InformersRunOnce` | WatcherManagerProofs | `Spec => []RunsOnce` |
| `SessionTypeOK` | AgentSessionProofs | `Spec => []TypeOK` |
| `AnnouncementsAreStored` | AgentSessionProofs | `Spec => []AnnouncedIsStored` |
| `SessionsImplementLedger` | AgentSessionProofs | `Spec => ImplementsLedger`, the refinement of `SessionLedger` |
| `HypothesesAreSuperseded`, `SequenceIsOrdered` | AgentSessionProofs | `OneHypothesis`, `SequenceOrder` |
| `CompletionPurges`, `CompletionIsFinal` | AgentSessionProofs | `MetricsPurged`, `CompletedIsFinal` |
| `LoopUsesTools` | AgentSessionProofs | `LoopSpec => Spec /\ []LoopInv`: the loop only takes steps of the tools |
| `TimeoutsClose` | AgentSessionProofs | `LoopSpec => []TimeoutCloses` |
| `CountersAreRight` | SessionCountProofs | `Spec => []CountersMatch` |

Every safety property that a passing run checks is a theorem. The assumptions are those named beside the constants, and
TLC evaluates them in the runs. Capacities and TTLs are naturals, and sets of events are of their type.
`PipelineAssumption` has finitely many workers, the pool being filled by a loop. `SyncAssumption` has finitely many
objects, each of a kind that has a handler (containers come with their Pod), with disjoint nodes (a node's id is its
kind, namespace and name), and `WellFormed`: the fields of a spec that are lists in the API are sequences.
Nothing is assumed of ids, which may come from both sources, nor of `Statuses` but that what the agent and the tool's
default use is in it and that "none", which stands for no session, is not.

The arguments:

- *Deduplication.* `OncePerTTL` is not inductive: a processor acts on `procLast`, read earlier. The strengthening says
  what *covers* an admission that has not expired: the id's entry in `seen` is not older than it (`SeenCovers`), and
  neither is what a processor read after it (`ReadCovers`). The clock only lets admissions expire; the cleanup removes an
  entry when all it covers has expired; a mark, by either source, raises the entry to now. `OwnEvents` says a processor
  holds events of its own source.
- *Results.* `main` reaches the close of `resultQueue` only from `wait`, whose guard is that all workers have stopped; a
  stopped worker stays so.
- *Accounting.* `Accounted` is inductive beside the types: it says of each id that the accepted events are those at a
  goroutine about to submit, in the queue, at a worker, investigated or refused. Each step moves one event between two of
  these places. The lemmas are about cardinalities: a sequence has one position more or less of an id, a set of goroutines
  gains or loses one, which is where the workers have to be finite.
- *Handlers.* A task is 36 tables of statements put together by a few combinators (`EdgesTo`, `OrReturn`, `Chain`,
  `Refresh`). `HandlerProofs` has one lemma for each combinator and one for each handler, and sums them up: an add or
  update of an object writes each of its nodes (`HandlerAdds`), no node of another object and deletes none; a delete only
  deletes nodes, none of another object (`HandlerErases`), and its own unless the kind is one of the five that name it
  otherwise. `skip` never leads out of the task. From there on no proof looks into a handler.
- *Graph.* `RealNodeBacked` and the others say what holds of a queue and of the handler's remaining statements, and neither
  is inductive without the order of the notifications. `QueuesEndCurrent`: behind every notification of an object comes
  one that says what the cluster now holds of it. `TasksOfKind`: what is left of a task is all deletes or all writes, of
  objects of the kind. `LateWritesAreUndone`, `LateDeletesAreUndone`: a handler that still writes a node of an object that
  is gone, or still deletes one of an object that is back, runs before a notification that will undo it. A crash empties
  both (`DownIsIdle`), and a `Restart` lists what is there. Together they are `Base`, with the shape of the graph.
- *Nodes.* `RealNodeBacked` then follows step by step: only an upsert of the object's own handler makes its node real,
  edges of other kinds make placeholders. `NodesComplete` needs `NodesComing`: of an object that exists, each node is real,
  or its handler still has the upsert in front of it, or a notification of the object as it is now waits.
- *Edges of a Service.* Two handlers write `SELECTS_PODS` edges, each from its own list of the other kind, read at some
  moment, and the Service's update deletes them first. `SelectsComing` says of a Service and a Pod it selects that the edge is
  there, or that one of the two is to be notified, or that a list by either handler is still to be made, or that a listed
  edge is still to be written. It is kept when the Service's update deletes the edges because the same task lists the Pods
  behind the deletion (`DropsAreFollowed`), and when the Pod or the Service changes because that queues a notification. That
  a list sees the other object is what makes the two sides meet: whoever lists last finds the other in the cluster.
- *SSE.* A connection whose id maps to it is not closed, and a closed one is not in the map: under the write lock both
  change together. A goroutine that is writing belongs to a broadcast that holds the read lock, or to the handler itself.
  Hence a handler that has taken the write lock to remove its connection has no writer left, and one whose entry was
  replaced by another connection of the same id is covered by the same lock.
- *Informers.* `begun` is set with `runs` under the mutex of `BaseWatcher.Start`. For the types, the list of the CRDs is a
  sequence of as many notifications as there are CRDs, which needs the kinds to be finite.
- *Sessions.* `SessionInv` says of each call what its place in the handler means: `Control`, that it is at a statement of
  its tool; `Named`, that the session it was given was opened before; `Recorded`, that a handler past the statement whose
  failure it reports has a row; `Opened` and `Unwritten`, that sessions and calls not begun have nothing; `Closed`, that after a
  completion's first statement the session has the status it asked for, or one that a completion asked for that was not
  over when it began (`Rivals`); `Ordered`, that calls begin in the order of their
  numbers. It is proved tool by tool: a step touches one call and one session's data. The refinement maps the
  begin of a completion to `Ask`, each statement to `Open`, `Record`, `Complete` or a stutter, and `Emit` to `Announce`:
  its guard, a row in the log, is `Recorded`.
- *History.* The order properties compare a call with those that had returned before it began. `HypothesisInv` follows
  the updates of a session from their first statement; `SequenceInv` bounds a query's numbers by the counter once its own
  increment is through; `EvidenceInv` says that a metric whose start met no failure and was not overlapped is loose only
  until its link is written, and still linked when the edge to the resource is.
- *Counters.* `CountersMatch` compares cardinalities, so `CountsInv` also carries that the sets are finite: they start empty and
  a step adds or removes one call. `Fresh` says that a call which has not failed has no row before its recording statement
  was answered; without it, a recording could not be told from a second one. `BothBalanced` is the sum: a recording puts the
  call both among the records and between the statements, a count takes it out and raises the counter, and every other
  step of any client changes none of them. A failed attempt ends the claim for its session (`Quiet`), which is never made again.
- *Loop.* `WorkerInv` ties the worker to its calls: what it captured is an open session, and in `"closing"` its last call
  is the completion of that session, as "timeout". With `Closed` this is `TimeoutCloses`.

Only model-checked: all liveness (`ShutdownCompletes`, `QueueDrains`, `EdgesRestored`, `StaleEdgesVanish`, `EmitReturns`,
`HandlerReturns`, `LateHandlersRun`, `EveryLoopReports`), since fairness and ENABLED are outside what TLAPS proves. For
the graph this leaves the step from the proved invariants to convergence: that the handlers do catch up, and that an edge
lost to a failure comes back with the resync, TLC shows on the small instances. The four violations are TLC's too.

## What the models leave out

- Properties of nodes and edges, log texts, HTTP answers, metrics counters, event priorities.
- The graph statements as text: Cypher is modelled by what it does to nodes and edges. A statement is atomic, as the
  single-query transactions of Neo4j are.
- The age in `CleanupOrphanedPlaceholders` (an hour): the cleanup may take any unconnected placeholder, more than the code.
- The return without a write of Kuadrant's handlers when a policy's target cannot be read: a handler is only registered
  when the CRD's schema has those fields, and the API server holds objects to their types.
- Pods with a name used before have the containers they had before; an Event's object is in the Event's namespace.
- `GraphSync` takes informers as running; starting them is `WatcherManager`. The core informers' sync is abstract there.
- An informer's relist after a broken watch, which may merge two changes of an object into one update;
  deletes it reports as tombstones are unwrapped by `ConvertToTyped` and are ordinary deletes.
- The cancellation of the watcher's context; `UnregisterHandler` and `WatchCRD` after `Start`, which nothing calls.
- The Kubernetes event source of the agent: it refuses every event (a failing type assertion), so it has no behaviour.
- What sessions contain: texts, confidences, findings' severities, recommendations; a pattern's and a recommendation's own
  statements are one row. The reads of `GetActiveSessions` and `GetSessionTimeline`. The prompt and the parsing of the
  model's analysis; the older `Investigate` without tools.
- Traces and service discovery: what a poll loses depends on the clocks of three systems and on what Jaeger still holds.
  Pattern seeder: one look-up and create at the start; the deployment's two replicas (`deploy/mcp-server-deployment.yaml:11`)
  may both create. Metric catalog, correlator, finding extractor, blast zone, schema
  extractor: pure functions and lookups without state. Configuration, frontend and test support.
- In `SSEBroadcast`, the clock: that `WriteTimeout` also cuts a healthy stream.

Known drift the models show and no text denies: after a restart the nodes of objects deleted meanwhile stay; updates of
Secrets, Gateways and routes drop edges that other kinds made until those objects are resynced; an event dropped at a
full queue is refused as a duplicate for a TTL.

## What is left

In order of importance: an invariant of the other edges that two kinds write (owners, routes, policies), as
`SelectsPodsComplete` is of Services and Pods; the absence of edges a cluster no longer calls for, once all is quiet, which
holds for some kinds only; an informer's relist in `GraphSync`, with a deletion and recreation seen as one update; a clock
for `SSEBroadcast`.
