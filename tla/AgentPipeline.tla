---------------------------- MODULE AgentPipeline ----------------------------
(***************************************************************************)
(* The agent's event pipeline: the two webhook sources, one processing     *)
(* goroutine per source sharing one router (deduplicator and filters), the *)
(* worker pool and the shutdown sequence of run().                         *)
(*                                                                         *)
(* Every goroutine step that touches shared state (a channel operation, a  *)
(* critical section of the deduplicator's lock, a close) is one action.    *)
(* The priority that Process computes is never read by the queue, which is *)
(* a FIFO channel, and is left out.                                        *)
(***************************************************************************)
EXTENDS Integers, Sequences, FiniteSets

CONSTANTS
    Alerts,        \* alerts Alertmanager may post: [name, startsAt, label, status]
    Payloads,      \* bodies of the custom webhook: [id, name, at, severity, reason, complete]
    Allowlist,     \* event reasons let through, {} for all
    Denylist,      \* event reasons refused
    Workers,       \* the pool's worker goroutines
    SourceCap,     \* capacity of a source's events channel (100 in the code)
    QueueCap,      \* capacity of eventQueue and of resultQueue (10 per worker)
    TTL,           \* the deduplicator's time to live
    MaxTime,       \* bound: the clock stops here
    MaxDeliveries  \* bound: source -> posts it may get

Prometheus == "prometheus-alertmanager"
Custom     == "custom-webhook"
Sources    == {Prometheus, Custom}

NoId    == <<>>     \* a payload without an id
NoTime  == -1       \* a payload without a timestamp
NotSeen == -1       \* no entry in the deduplicator's map

Times == 0..MaxTime

ASSUME PipelineAssumption ==
    /\ SourceCap \in Nat \ {0} /\ QueueCap \in Nat \ {0}
    /\ TTL \in Nat /\ MaxTime \in Nat
    /\ IsFiniteSet(Workers)
    /\ MaxDeliveries \in [Sources -> Nat]

-----------------------------------------------------------------------------
(* Events: what a handler makes of a request. *)

Severities == {"info", "warning", "critical"}

SeverityRank == [info |-> 1, warning |-> 2, critical |-> 3]

MapSeverity(label) ==
    CASE label \in {"critical", "page"} -> "critical"
      [] label \in {"warning", "warn"}  -> "warning"
      [] OTHER                          -> "info"

\* The id of an alert is its name and the second it started firing.
AlertEvent(a) ==
    [id |-> <<"prom", a.name, a.startsAt>>,
     severity |-> MapSeverity(a.label),
     reason |-> a.name]

PayloadSeverity(label) == IF label \in {"critical", "warning"} THEN label ELSE "info"

\* A payload that brings no id is named after its resource and its timestamp,
\* which is the time of arrival when it brings none of those either.
CustomEvent(p, now) ==
    [id |-> IF p.id # NoId THEN p.id
            ELSE <<"custom", p.name, IF p.at = NoTime THEN now ELSE p.at>>,
     severity |-> PayloadSeverity(p.severity),
     reason |-> p.reason]

EventsOf(s) ==
    IF s = Prometheus THEN {AlertEvent(a) : a \in Alerts}
    ELSE {CustomEvent(p, t) : p \in Payloads, t \in Times}

Events == UNION {EventsOf(s) : s \in Sources}

Ids == {e.id : e \in Events}

AllowlistFilter(e) == Allowlist = {} \/ e.reason \in Allowlist
DenylistFilter(e)  == e.reason \notin Denylist
SeverityFilter(e)  == SeverityRank[e.severity] >= SeverityRank.warning

Filters(e) == AllowlistFilter(e) /\ DenylistFilter(e) /\ SeverityFilter(e)

-----------------------------------------------------------------------------
VARIABLES
    now,         \* the wall clock, in units of which TTL is a number
    chan,        \* source -> its buffered events channel
    chanClosed,  \* the sources whose channel is closed
    delivered,   \* source -> posts so far (bounds the model)
    seen,        \* the deduplicator's map: id -> time last seen
    procPc,      \* source -> where its processEventSource goroutine is
    procEv,      \* source -> the event it is processing
    procLast,    \* source -> what IsDuplicate's read section returned
    procKnew,    \* history: source -> admissions of its event's id before that read
    queue,       \* eventQueue
    results,     \* resultQueue
    closed,      \* which of stopCh, eventQueue and resultQueue are closed
    workerPc,    \* worker -> where its goroutine is
    workerEv,    \* worker -> the event it has taken
    logger,      \* resultLogger is running
    main,        \* where run() is
    toStop,      \* the sources run() has not stopped yet
    admitted,    \* history: id -> admissions, when IsDuplicate said an event is new
    accepted,    \* history: id -> events Process accepted
    rejected,    \* history: id -> events Submit refused
    investigated \* history: id -> events an agent has finished

vars == <<now, chan, chanClosed, delivered, seen, procPc, procEv, procLast, procKnew, queue,
          results, closed, workerPc, workerEv, logger, main, toStop,
          admitted, accepted, rejected, investigated>>

sourceVars == <<chan, chanClosed, delivered>>
routerVars == <<seen, admitted, accepted>>
procVars   == <<procPc, procEv, procLast, procKnew>>
poolVars   == <<queue, results, workerPc, workerEv, logger, investigated>>
mainVars   == <<main, toStop, closed>>

NoEvent == [id |-> NoId, severity |-> "info", reason |-> ""]

Init ==
    /\ now = 0
    /\ chan = [s \in Sources |-> <<>>]
    /\ chanClosed = {}
    /\ delivered = [s \in Sources |-> 0]
    /\ seen = [i \in Ids |-> NotSeen]
    /\ procPc = [s \in Sources |-> "recv"]
    /\ procEv = [s \in Sources |-> NoEvent]
    /\ procLast = [s \in Sources |-> NotSeen]
    /\ procKnew = [s \in Sources |-> 0]
    /\ queue = <<>>
    /\ results = <<>>
    /\ closed = {}
    /\ workerPc = [w \in Workers |-> "recv"]
    /\ workerEv = [w \in Workers |-> NoEvent]
    /\ logger = TRUE
    /\ main = "serving"
    /\ toStop = <<Prometheus, Custom>>
    /\ admitted = [i \in Ids |-> <<>>]
    /\ accepted = [i \in Ids |-> 0]
    /\ rejected = [i \in Ids |-> 0]
    /\ investigated = [i \in Ids |-> 0]

\* The process runs until run() has returned or a goroutine has panicked.
Alive == main \notin {"exited", "crashed"}

\* The deferred cancel() runs when run() returns, before the process exits.
CtxDone == main = "deferred"

Tick ==
    /\ Alive
    /\ now < MaxTime
    /\ now' = now + 1
    /\ UNCHANGED <<sourceVars, routerVars, procVars, poolVars, mainVars, rejected>>

-----------------------------------------------------------------------------
(* Sources. *)

\* select { case events <- e: default: }. On a closed channel the send panics,
\* net/http recovers it and the event is lost.
TrySend(s, e) ==
    /\ Alive
    /\ delivered[s] < MaxDeliveries[s]
    /\ delivered' = [delivered EXCEPT ![s] = @ + 1]
    /\ chan' = IF s \in chanClosed \/ Len(chan[s]) = SourceCap THEN chan
               ELSE [chan EXCEPT ![s] = Append(@, e)]
    /\ UNCHANGED <<now, chanClosed, routerVars, procVars, poolVars, mainVars, rejected>>

\* One alert of a post: the handler loops over them, a send for each that fires.
AlertmanagerWebhook ==
    \E a \in Alerts : a.status = "firing" /\ TrySend(Prometheus, AlertEvent(a))

\* The custom webhook, which wants the resource's type and name.
CustomWebhook ==
    \E p \in Payloads : p.complete /\ TrySend(Custom, CustomEvent(p, now))

-----------------------------------------------------------------------------
(* processEventSource, and the router it calls. *)

Receive(s) ==
    /\ Alive
    /\ procPc[s] = "recv"
    /\ chan[s] # <<>>
    /\ procPc' = [procPc EXCEPT ![s] = "lookup"]
    /\ procEv' = [procEv EXCEPT ![s] = Head(chan[s])]
    /\ chan' = [chan EXCEPT ![s] = Tail(@)]
    /\ UNCHANGED <<now, chanClosed, delivered, procLast, procKnew, routerVars, poolVars,
                   mainVars, rejected>>

\* The channel is closed and drained, or the context is done.
StopProcessing(s) ==
    /\ Alive
    /\ procPc[s] = "recv"
    /\ CtxDone \/ (s \in chanClosed /\ chan[s] = <<>>)
    /\ procPc' = [procPc EXCEPT ![s] = "done"]
    /\ UNCHANGED <<now, sourceVars, procEv, procLast, procKnew, routerVars, poolVars,
                   mainVars, rejected>>

\* IsDuplicate's read section.
LookupSeen(s) ==
    /\ Alive
    /\ procPc[s] = "lookup"
    /\ procPc' = [procPc EXCEPT ![s] = "decide"]
    /\ procLast' = [procLast EXCEPT ![s] = seen[procEv[s].id]]
    /\ procKnew' = [procKnew EXCEPT ![s] = Len(admitted[procEv[s].id])]
    /\ UNCHANGED <<now, procEv, sourceVars, routerVars, poolVars, mainVars, rejected>>

IsNew(last) == last = NotSeen \/ now - last > TTL

\* Mutant: an expired entry is let through and its time is not refreshed.
MarkSeenNoRefresh(s) ==
    LET e == procEv[s] IN
    /\ Alive
    /\ procPc[s] = "decide"
    /\ IsNew(procLast[s])
    /\ seen' = IF procLast[s] = NotSeen THEN [seen EXCEPT ![e.id] = now] ELSE seen
    /\ admitted' = [admitted EXCEPT ![e.id] = Append(@, [at |-> now, knew |-> procKnew[s]])]
    /\ accepted' = IF Filters(e) THEN [accepted EXCEPT ![e.id] = @ + 1] ELSE accepted
    /\ procPc' = [procPc EXCEPT ![s] = IF Filters(e) THEN "submit" ELSE "recv"]
    /\ UNCHANGED <<now, sourceVars, procEv, procLast, procKnew, poolVars, mainVars, rejected>>

\* The rest of IsDuplicate, decided on what the read section returned, and of
\* Process: the id is marked before the filters run.
MarkSeen(s) ==
    LET e == procEv[s] IN
    /\ Alive
    /\ procPc[s] = "decide"
    /\ IsNew(procLast[s])
    /\ seen' = [seen EXCEPT ![e.id] = now]
    /\ admitted' = [admitted EXCEPT ![e.id] = Append(@, [at |-> now, knew |-> procKnew[s]])]
    /\ accepted' = IF Filters(e) THEN [accepted EXCEPT ![e.id] = @ + 1] ELSE accepted
    /\ procPc' = [procPc EXCEPT ![s] = IF Filters(e) THEN "submit" ELSE "recv"]
    /\ UNCHANGED <<now, sourceVars, procEv, procLast, procKnew, poolVars, mainVars, rejected>>

DropDuplicate(s) ==
    /\ Alive
    /\ procPc[s] = "decide"
    /\ ~IsNew(procLast[s])
    /\ procPc' = [procPc EXCEPT ![s] = "recv"]
    /\ UNCHANGED <<now, sourceVars, procEv, procLast, procKnew, routerVars, poolVars,
                   mainVars, rejected>>

\* The deduplicator's cleanup, one critical section.
CleanupSeen ==
    /\ Alive
    /\ \E i \in Ids : seen[i] # NotSeen /\ now - seen[i] > TTL
    /\ seen' = [i \in Ids |-> IF now - seen[i] > TTL THEN NotSeen ELSE seen[i]]
    /\ UNCHANGED <<now, sourceVars, admitted, accepted, procVars, poolVars, mainVars,
                   rejected>>

\* Mutant: a full queue drops its oldest event and reports nothing.
SubmitDropOldest(s) ==
    LET e == procEv[s] IN
    /\ Alive
    /\ procPc[s] = "submit"
    /\ "eventQueue" \notin closed
    /\ queue' = IF Len(queue) < QueueCap THEN Append(queue, e) ELSE Append(Tail(queue), e)
    /\ procPc' = [procPc EXCEPT ![s] = "recv"]
    /\ UNCHANGED <<now, sourceVars, routerVars, procEv, procLast, procKnew, results,
                   workerPc, workerEv, logger, investigated, mainVars, rejected>>

\* pool.Submit while the queue is open: enqueue, or ErrQueueFull, which the
\* caller logs.
Submit(s) ==
    LET e == procEv[s] IN
    /\ Alive
    /\ procPc[s] = "submit"
    /\ "eventQueue" \notin closed
    /\ IF Len(queue) < QueueCap
       THEN queue' = Append(queue, e) /\ UNCHANGED rejected
       ELSE rejected' = [rejected EXCEPT ![e.id] = @ + 1] /\ UNCHANGED queue
    /\ procPc' = [procPc EXCEPT ![s] = "recv"]
    /\ UNCHANGED <<now, sourceVars, routerVars, procEv, procLast, procKnew, results,
                   workerPc, workerEv, logger, investigated, mainVars>>

\* pool.Submit after Stop: the send on the closed channel panics in a goroutine
\* that nothing recovers, and the process dies.
SubmitPanics(s) ==
    /\ Alive
    /\ procPc[s] = "submit"
    /\ "eventQueue" \in closed
    /\ main' = "crashed"
    /\ UNCHANGED <<now, sourceVars, routerVars, procVars, poolVars, toStop, closed,
                   rejected>>

-----------------------------------------------------------------------------
(* The worker pool. *)

TakeEvent(w) ==
    /\ Alive
    /\ workerPc[w] = "recv"
    /\ queue # <<>>
    /\ workerPc' = [workerPc EXCEPT ![w] = "investigate"]
    /\ workerEv' = [workerEv EXCEPT ![w] = Head(queue)]
    /\ queue' = Tail(queue)
    /\ UNCHANGED <<now, sourceVars, routerVars, procVars, results, logger, investigated,
                   mainVars, rejected>>

\* Mutant: the receive ignores that the queue is closed and takes its zero value.
StopWorkerTakesZero(w) ==
    /\ Alive
    /\ workerPc[w] = "recv"
    /\ \/ /\ CtxDone \/ "stopCh" \in closed
          /\ workerPc' = [workerPc EXCEPT ![w] = "stopped"]
          /\ UNCHANGED workerEv
       \/ /\ "eventQueue" \in closed /\ queue = <<>>
          /\ workerPc' = [workerPc EXCEPT ![w] = "investigate"]
          /\ workerEv' = [workerEv EXCEPT ![w] = NoEvent]
    /\ UNCHANGED <<now, sourceVars, routerVars, procVars, queue, results,
                   logger, investigated, mainVars, rejected>>

\* stopCh, the context, or the queue closed and drained.
StopWorker(w) ==
    /\ Alive
    /\ workerPc[w] = "recv"
    /\ CtxDone \/ "stopCh" \in closed \/ ("eventQueue" \in closed /\ queue = <<>>)
    /\ workerPc' = [workerPc EXCEPT ![w] = "stopped"]
    /\ UNCHANGED <<now, sourceVars, routerVars, procVars, workerEv, queue, results,
                   logger, investigated, mainVars, rejected>>

\* agent.Investigate returns, with a result or an error: either is a result.
Investigate(w) ==
    /\ Alive
    /\ workerPc[w] = "investigate"
    /\ workerPc' = [workerPc EXCEPT ![w] = "report"]
    /\ investigated' = [investigated EXCEPT ![workerEv[w].id] = @ + 1]
    /\ UNCHANGED <<now, sourceVars, routerVars, procVars, workerEv, queue, results,
                   logger, mainVars, rejected>>

\* Mutant: a plain blocking send in place of the select.
SendResultBlocking(w) ==
    /\ Alive
    /\ workerPc[w] = "report"
    /\ Len(results) < QueueCap
    /\ results' = Append(results, workerEv[w])
    /\ workerPc' = [workerPc EXCEPT ![w] = "recv"]
    /\ UNCHANGED <<now, sourceVars, routerVars, procVars, workerEv, queue, logger,
                   investigated, mainVars, rejected>>

\* Mutant: the full-queue branch returns from the worker.
SendResultReturns(w) ==
    /\ Alive
    /\ workerPc[w] = "report"
    /\ \/ /\ Len(results) < QueueCap
          /\ results' = Append(results, workerEv[w])
          /\ workerPc' = [workerPc EXCEPT ![w] = "recv"]
       \/ /\ "stopCh" \in closed \/ Len(results) = QueueCap
          /\ workerPc' = [workerPc EXCEPT ![w] = "stopped"]
          /\ UNCHANGED results
    /\ UNCHANGED <<now, sourceVars, routerVars, procVars, workerEv, queue, logger,
                   investigated, mainVars, rejected>>

\* The select after Investigate: send, stop, or, when neither is ready, drop.
SendResult(w) ==
    /\ Alive
    /\ workerPc[w] = "report"
    /\ \/ /\ Len(results) < QueueCap
          /\ results' = Append(results, workerEv[w])
          /\ workerPc' = [workerPc EXCEPT ![w] = "recv"]
       \/ /\ "stopCh" \in closed
          /\ workerPc' = [workerPc EXCEPT ![w] = "stopped"]
          /\ UNCHANGED results
       \/ /\ Len(results) = QueueCap /\ "stopCh" \notin closed
          /\ workerPc' = [workerPc EXCEPT ![w] = "recv"]
          /\ UNCHANGED results
    /\ UNCHANGED <<now, sourceVars, routerVars, procVars, workerEv, queue, logger,
                   investigated, mainVars, rejected>>

\* resultLogger's loop.
LogResult ==
    /\ Alive
    /\ logger
    /\ \/ /\ results # <<>>
          /\ results' = Tail(results)
          /\ UNCHANGED logger
       \/ /\ CtxDone \/ "stopCh" \in closed
          /\ logger' = FALSE
          /\ UNCHANGED results
    /\ UNCHANGED <<now, sourceVars, routerVars, procVars, queue, workerPc, workerEv,
                   investigated, mainVars, rejected>>

-----------------------------------------------------------------------------
(* run() from the signal to the end of the process. *)

Goto(from, to) == main = from /\ main' = to

OnlyMain == UNCHANGED <<now, delivered, chan, routerVars, procVars, poolVars, rejected>>

Signal ==
    /\ Goto("serving", "stopSources")
    /\ OnlyMain /\ UNCHANGED <<chanClosed, toStop, closed>>

\* source.Stop() of the webhooks, in the order of eventSources.
StopSource ==
    /\ main = "stopSources" /\ toStop # <<>>
    /\ chanClosed' = chanClosed \union {Head(toStop)}
    /\ toStop' = Tail(toStop)
    /\ OnlyMain /\ UNCHANGED <<main, closed>>

CloseStopCh ==
    /\ toStop = <<>>
    /\ Goto("stopSources", "stopCh")
    /\ closed' = closed \union {"stopCh"}
    /\ OnlyMain /\ UNCHANGED <<chanClosed, toStop>>

CloseEventQueue ==
    /\ Goto("stopCh", "wait")
    /\ closed' = closed \union {"eventQueue"}
    /\ OnlyMain /\ UNCHANGED <<chanClosed, toStop>>

\* Mutant: Stop closes resultQueue without waiting for the workers.
CloseResultQueueEarly ==
    /\ Goto("wait", "deferred")
    /\ closed' = closed \union {"resultQueue"}
    /\ OnlyMain /\ UNCHANGED <<chanClosed, toStop>>

\* wg.Wait() returns, and Stop closes the result queue.
CloseResultQueue ==
    /\ \A w \in Workers : workerPc[w] = "stopped"
    /\ Goto("wait", "deferred")
    /\ closed' = closed \union {"resultQueue"}
    /\ OnlyMain /\ UNCHANGED <<chanClosed, toStop>>

Exit ==
    /\ Goto("deferred", "exited")
    /\ OnlyMain /\ UNCHANGED <<chanClosed, toStop, closed>>

Terminated == ~Alive /\ UNCHANGED vars

-----------------------------------------------------------------------------
ProcessorStep(s) ==
    \/ Receive(s) \/ StopProcessing(s) \/ LookupSeen(s) \/ MarkSeen(s)
    \/ DropDuplicate(s) \/ Submit(s) \/ SubmitPanics(s)

WorkerStep(w) == TakeEvent(w) \/ StopWorker(w) \/ Investigate(w) \/ SendResult(w)

ShutdownStep ==
    \/ StopSource \/ CloseStopCh \/ CloseEventQueue \/ CloseResultQueue \/ Exit

Next ==
    \/ Tick \/ AlertmanagerWebhook \/ CustomWebhook \/ CleanupSeen
    \/ \E s \in Sources : ProcessorStep(s)
    \/ \E w \in Workers : WorkerStep(w)
    \/ LogResult \/ Signal \/ ShutdownStep \/ Terminated

\* The Go scheduler runs every runnable goroutine; requests, the clock and the
\* signal are the environment's.
Fairness ==
    /\ \A s \in Sources : WF_vars(ProcessorStep(s))
    /\ \A w \in Workers : WF_vars(WorkerStep(w))
    /\ WF_vars(LogResult)
    /\ WF_vars(ShutdownStep)

Spec == Init /\ [][Next]_vars

FairSpec == Spec /\ Fairness

-----------------------------------------------------------------------------
(* Properties. *)

ProcPCs   == {"recv", "lookup", "decide", "submit", "done"}
WorkerPCs == {"recv", "investigate", "report", "stopped"}
MainPCs   == {"serving", "stopSources", "stopCh", "wait", "deferred", "exited", "crashed"}

\* When, and how many admissions of the id there were when it was looked up.
Admissions == [at : Times, knew : Nat]

TypeOK ==
    /\ now \in Times
    /\ chan \in [Sources -> Seq(Events)]
    /\ chanClosed \subseteq Sources
    /\ delivered \in [Sources -> Nat]
    /\ seen \in [Ids -> {NotSeen} \union Times]
    /\ procPc \in [Sources -> ProcPCs]
    /\ procEv \in [Sources -> Events \union {NoEvent}]
    /\ procLast \in [Sources -> {NotSeen} \union Times]
    /\ procKnew \in [Sources -> Nat]
    /\ queue \in Seq(Events)
    /\ results \in Seq(Events)
    /\ closed \subseteq {"stopCh", "eventQueue", "resultQueue"}
    /\ workerPc \in [Workers -> WorkerPCs]
    /\ workerEv \in [Workers -> Events \union {NoEvent}]
    /\ logger \in BOOLEAN
    /\ main \in MainPCs
    /\ toStop \in Seq(Sources)
    /\ admitted \in [Ids -> Seq(Admissions)]
    /\ accepted \in [Ids -> Nat]
    /\ rejected \in [Ids -> Nat]
    /\ investigated \in [Ids -> Nat]

\* An event is let through only if all admissions of its id that preceded its
\* look-up are older than TTL, by whichever source, whatever the cleanup removed
\* and the other source's goroutine wrote between its look-up and its own mark.
\* Two events of one id within a TTL therefore are two look-ups that overlapped.
OncePerTTL ==
    \A i \in Ids : \A k \in DOMAIN admitted[i] : \A j \in 1..admitted[i][k].knew :
        admitted[i][k].at - admitted[i][j].at > TTL

\* What the deduplicator's comment promises, that it "prevents duplicate events
\* from being processed": any two admissions of an id are more than TTL apart.
NoDuplicates ==
    \A i \in Ids : \A k \in DOMAIN admitted[i] : \A j \in 1..k - 1 :
        admitted[i][k].at - admitted[i][j].at > TTL

CountIn(q, i) == Cardinality({k \in 1..Len(q) : q[k].id = i})

\* Every event Process accepted is in exactly one place: about to be submitted,
\* queued, under investigation, investigated, or refused with ErrQueueFull. No
\* event is handed to two workers and none disappears without an error.
Accounted ==
    \A i \in Ids :
        accepted[i] =
              Cardinality({s \in Sources : procPc[s] = "submit" /\ procEv[s].id = i})
            + CountIn(queue, i)
            + Cardinality({w \in Workers : workerPc[w] = "investigate"
                                           /\ workerEv[w].id = i})
            + investigated[i] + rejected[i]

\* Stop closes resultQueue, and no worker that could still send on it is left:
\* a send on the closed channel would panic.
NoSendOnClosedResults ==
    "resultQueue" \in closed => \A w \in Workers : workerPc[w] = "stopped"

\* After the signal the process ends: Stop waits for the workers, and each of
\* them leaves its loop though nobody reads their results any more.
ShutdownCompletes == main = "stopSources" ~> ~Alive

\* A queued event is investigated unless a shutdown cuts in: a full result
\* queue delays no worker.
QueueDrains ==
    \A i \in Ids : CountIn(queue, i) > 0 ~> (CountIn(queue, i) = 0 \/ main # "serving")

\* What main.go logs at the signal: "shutting down gracefully...".
GracefulShutdown == main # "crashed"
=============================================================================
