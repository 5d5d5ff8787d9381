------------------------------ MODULE GraphSync ------------------------------
(***************************************************************************)
(* The watcher keeping the graph in step with the cluster.                 *)
(*                                                                         *)
(* The API server's objects change; each kind has an informer, whose       *)
(* listener goroutine runs the kind's handler for one notification after   *)
(* another. The handlers of different kinds interleave between any two of  *)
(* their store statements, each of which is one auto-commit transaction.   *)
(* A statement may be committed and then repeated (executeWithRetry does   *)
(* not know), or fail for good; the watcher may crash and be restarted.    *)
(*                                                                         *)
(* The delay between a change and the informer's cache seeing it is part   *)
(* of the time a notification waits in its kind's queue.                   *)
(***************************************************************************)
EXTENDS ExtensionHandlers, FiniteSets, SequencesExt

CONSTANTS
    Objects,     \* the objects that may exist in the cluster
    Specs,       \* object -> the specs it may have
    Initial,     \* the clusters the watcher may find when it starts
    MaxChanges,  \* bound: changes of the cluster
    MaxErrors,   \* bound: failed attempts of store statements
    MaxCrashes   \* bound: crashes of the watcher

Absent == [absent |-> TRUE]

Kinds == {o.kind : o \in Objects}

\* No object is called Container: a container comes and goes with its Pod.
ASSUME SyncAssumption ==
    /\ IsFiniteSet(Objects)
    /\ \A o \in Objects :
           /\ o.kind \in HandledKinds \ {"Container"}
           /\ Absent \notin Specs[o]
           /\ \A s \in Specs[o] : WellFormed(o, s)
    /\ \A o, p \in Objects : o # p => NodesOf(o) \intersect NodesOf(p) = {}
    /\ Initial \subseteq {c \in [Objects -> (UNION {Specs[o] : o \in Objects}) \union {Absent}] :
                              \A o \in Objects : c[o] \in Specs[o] \union {Absent}}
    /\ {MaxChanges, MaxErrors, MaxCrashes} \subseteq Nat

VARIABLES
    cluster,  \* object -> its spec in the API server, or Absent
    up,       \* the watcher runs
    pending,  \* kind -> the notifications its listener has not handled
    task,     \* kind -> the statements its running handler has still to do
    graph,    \* the graph in Neo4j
    lossy,    \* a statement failed for good since the watcher started
    missed,   \* history: deleted objects whose deletion the watcher lost
    changes, errors, crashes  \* counters that bound the model

vars == <<cluster, up, pending, task, graph, lossy, missed, changes, errors, crashes>>

Exists(o) == cluster[o] # Absent

Notification(type, o, s) == [type |-> type, obj |-> o, spec |-> s]

OfKind == [k \in HandledKinds |-> {o \in Objects : o.kind = k}]

Existing(k) == {o \in OfKind[k] : Exists(o)}

\* One notification for each object of the kind, in the order of the list.
ForEach(k, type) ==
    LET list == SetToSeq(Existing(k))
    IN  [i \in DOMAIN list |-> Notification(type, list[i], cluster[list[i]])]

Init ==
    /\ cluster \in Initial
    /\ up = TRUE
    /\ pending = [k \in Kinds |-> ForEach(k, "add")]
    /\ task = [k \in Kinds |-> <<>>]
    /\ graph = EmptyGraph
    /\ lossy = FALSE
    /\ missed = {}
    /\ changes = 0 /\ errors = 0 /\ crashes = 0

-----------------------------------------------------------------------------
(* The cluster, and the informers that report its changes. *)

Notify(type, o, s) ==
    pending' = IF up THEN [pending EXCEPT ![o.kind] = Append(@, Notification(type, o, s))]
               ELSE pending

CountChange ==
    /\ changes' = changes + 1
    /\ UNCHANGED <<up, task, graph, lossy, errors, crashes>>

Create(o, s) ==
    /\ changes < MaxChanges /\ ~Exists(o)
    /\ cluster' = [cluster EXCEPT ![o] = s]
    /\ Notify("add", o, s)
    /\ missed' = missed \ {o}
    /\ CountChange

Change(o, s) ==
    /\ changes < MaxChanges /\ Exists(o) /\ cluster[o] # s
    /\ cluster' = [cluster EXCEPT ![o] = s]
    /\ Notify("update", o, s)
    /\ UNCHANGED missed
    /\ CountChange

Delete(o) ==
    /\ changes < MaxChanges /\ Exists(o)
    /\ cluster' = [cluster EXCEPT ![o] = Absent]
    /\ Notify("delete", o, cluster[o])
    /\ missed' = IF up THEN missed ELSE missed \union {o}
    /\ CountChange

ClusterStep ==
    \E o \in Objects : Delete(o) \/ \E s \in Specs[o] : Create(o, s) \/ Change(o, s)

\* The informer's periodic resync, of a kind that has objects. Bound: not while
\* notifications wait.
Resync(k) ==
    /\ up /\ pending[k] = <<>> /\ Existing(k) # {}
    /\ pending' = [pending EXCEPT ![k] = ForEach(k, "update")]
    /\ UNCHANGED <<cluster, up, task, graph, lossy, missed, changes, errors, crashes>>

-----------------------------------------------------------------------------
(* The handlers. *)

Take(k) ==
    /\ task[k] = <<>> /\ pending[k] # <<>>
    /\ LET n == Head(pending[k])
       IN  task' = [task EXCEPT ![k] = Handler(n.type, n.obj, n.spec)]
    /\ pending' = [pending EXCEPT ![k] = Tail(@)]
    /\ UNCHANGED <<cluster, up, graph, lossy, missed, changes, errors, crashes>>

IsList(stmt) == stmt.op \in {"ListServices", "ListPods", "FindService"}

\* What a list at the API server may give rise to now: sets of edges.
Listed(stmt) ==
    LET a == stmt.arg
        EdgeTo(found) == <<NodeFor(a.for), a.type, NodeFor(found)>>
        labelled == {s \in Existing("Service") : a.labels \subseteq cluster[s].labels}
    IN  CASE stmt.op = "ListServices" ->
                 {{SelectsEdge(s, a.for) : s \in
                      {t \in Existing("Service") :
                           Selects(t, cluster[t].selector, a.for, a.labels)}}}
          [] stmt.op = "ListPods" ->
                 {{EdgeTo(p) : p \in
                      {q \in Existing("Pod") :
                           a.ns \in {"", q.ns} /\ a.labels \subseteq cluster[q].labels}}}
          [] stmt.op = "FindService" ->
                 IF labelled = {} THEN {{}} ELSE {{EdgeTo(s)} : s \in labelled}

\* What a list may leave to do: the core kinds stop at the first edge that fails,
\* the others go on. Other statements leave nothing.
Followers(stmt) ==
    IF ~IsList(stmt) THEN {<<>>}
    ELSE {LET merges == SetToSeq({Statement("UpsertEdge", e) : e \in edges})
          IN  IF stmt.arg.type = "SELECTS_PODS" THEN Chain(merges) ELSE merges :
          edges \in Listed(stmt)}

\* What a statement of the store does to the graph.
Run(g, stmt) ==
    CASE stmt.op = "UpsertNode"        -> UpsertNode(g, stmt.arg)
      [] stmt.op = "UpsertEdge"        -> UpsertEdge(g, stmt.arg)
      [] stmt.op = "DeleteNode"        -> DeleteNode(g, stmt.arg)
      [] stmt.op = "DeleteEdgesByNode" -> DeleteEdgesByNode(g, stmt.arg)
      [] stmt.op = "DeleteEdgesByTypeAndNode" ->
             DeleteEdgesByTypeAndNode(g, stmt.arg[1], stmt.arg[2])
      [] OTHER -> g

Execute(k) ==
    /\ task[k] # <<>>
    /\ graph' = Run(graph, Head(task[k]))
    /\ \E edges \in Followers(Head(task[k])) :
           task' = [task EXCEPT ![k] = edges \o Tail(@)]
    /\ UNCHANGED <<cluster, up, pending, lossy, missed, changes, errors, crashes>>

CountError ==
    /\ errors' = errors + 1
    /\ UNCHANGED <<cluster, up, pending, changes, crashes>>

\* An attempt commits, its answer is lost, and executeWithRetry tries again.
Repeat(k) ==
    /\ errors < MaxErrors
    /\ task[k] # <<>> /\ ~IsList(Head(task[k]))
    /\ graph' = Run(graph, Head(task[k]))
    /\ CountError
    /\ UNCHANGED <<task, lossy, missed>>

\* The notifications and statements that will delete node n of object o.
DeleteComing(o, n) ==
    \/ \E i \in DOMAIN pending[o.kind] :
           pending[o.kind][i].type = "delete" /\ pending[o.kind][i].obj = o
    \/ \E i \in DOMAIN task[o.kind] :
           task[o.kind][i].op = "DeleteNode" /\ task[o.kind][i].arg = n

Doomed == {o \in Objects : ~Exists(o) /\ \E n \in NodesOf(o) : DeleteComing(o, n)}

\* The last attempt fails, committed or not; the handler logs it and goes on.
GiveUp(k) ==
    LET stmt == Head(task[k]) IN
    /\ errors < MaxErrors
    /\ task[k] # <<>>
    /\ graph' \in {graph, Run(graph, stmt)}
    /\ task' = [task EXCEPT ![k] = SubSeq(@, 2 + stmt.skip, Len(@))]
    /\ lossy' = TRUE
    /\ missed' = IF stmt.op # "DeleteNode" THEN missed
                 ELSE missed \union {o \in Objects : ~Exists(o) /\ stmt.arg \in NodesOf(o)}
    /\ CountError

\* monitorPlaceholders, without the age a placeholder must have.
Cleanup ==
    /\ up
    /\ Orphans(graph) # {}
    /\ graph' = CleanupOrphanedPlaceholders(graph)
    /\ UNCHANGED <<cluster, up, pending, task, lossy, missed, changes, errors, crashes>>

Crash ==
    /\ up /\ crashes < MaxCrashes
    /\ up' = FALSE
    /\ missed' = missed \union Doomed
    /\ pending' = [k \in Kinds |-> <<>>]
    /\ task' = [k \in Kinds |-> <<>>]
    /\ crashes' = crashes + 1
    /\ UNCHANGED <<cluster, graph, lossy, changes, errors>>

\* The informers list what there is; nothing compares it with the graph.
Restart ==
    /\ ~up
    /\ up' = TRUE
    /\ pending' = [k \in Kinds |-> ForEach(k, "add")]
    /\ lossy' = FALSE
    /\ UNCHANGED <<cluster, task, graph, missed, changes, errors, crashes>>

-----------------------------------------------------------------------------
HandlerStep(k) == Take(k) \/ Execute(k)

Next ==
    \/ ClusterStep
    \/ \E k \in Kinds : HandlerStep(k) \/ Repeat(k) \/ GiveUp(k) \/ Resync(k)
    \/ Cleanup \/ Crash \/ Restart

\* Handlers run, the resync and cleanup timers fire, a crashed pod is restarted.
Fairness ==
    /\ \A k \in Kinds : WF_vars(HandlerStep(k)) /\ WF_vars(Resync(k))
    /\ WF_vars(Cleanup) /\ WF_vars(Restart)

Spec == Init /\ [][Next]_vars

FairSpec == Spec /\ Fairness

-----------------------------------------------------------------------------
(* Properties. *)

IsNotification(n, k) ==
    /\ n.type \in {"add", "update", "delete"}
    /\ n.obj \in Objects /\ n.obj.kind = k /\ n.spec \in Specs[n.obj]

TypeOK ==
    /\ \A o \in Objects : cluster[o] \in Specs[o] \union {Absent}
    /\ up \in BOOLEAN /\ lossy \in BOOLEAN
    /\ DOMAIN pending = Kinds /\ DOMAIN task = Kinds
    /\ \A k \in Kinds : \A i \in DOMAIN pending[k] : IsNotification(pending[k][i], k)
    /\ \A k \in Kinds : \A i \in DOMAIN task[k] :
           i + task[k][i].skip \in DOMAIN task[k]
    /\ graph.real \intersect graph.placeholder = {}
    /\ \A e \in graph.edges : {From(e), To(e)} \subseteq graph.real \union graph.placeholder
    /\ missed \subseteq Objects
    /\ changes \in 0..MaxChanges /\ errors \in 0..MaxErrors /\ crashes \in 0..MaxCrashes

\* The kinds whose HandleDelete names the node by its id.
DeletedById ==
    HandledKinds \ {"Namespace", "PersistentVolume", "StorageClass", "Event", "GatewayClass"}

\* A node with data of an object that is gone is about to be deleted, unless the
\* watcher was down or its delete statement failed: whatever the other handlers
\* write in between, none brings the node back as a real one.
RealNodeBacked ==
    \A o \in Objects : o.kind \in DeletedById /\ ~Exists(o) /\ o \notin missed =>
        \A n \in NodesOf(o) \intersect graph.real : DeleteComing(o, n)

Quiet == up /\ \A k \in Kinds : pending[k] = <<>> /\ task[k] = <<>>

\* When the handlers have caught up and none of their statements failed, each
\* object has its nodes with data, in whatever order edges named them before.
NodesComplete ==
    Quiet /\ ~lossy => \A o \in Objects : Exists(o) => NodesOf(o) \subseteq graph.real

\* "HandleDelete processes a deleted ...": and then its nodes are gone.
DeletedNodesGo ==
    Quiet /\ ~lossy =>
        \A o \in Objects \ missed : ~Exists(o) => NodesOf(o) \intersect graph.real = {}

Matches ==
    UNION {{SelectsEdge(s, p) : p \in {q \in Existing("Pod") :
                Selects(s, cluster[s].selector, q, cluster[q].labels)}} :
           s \in Existing("Service")}

\* When the handlers have caught up and none of their statements failed, every
\* Service has its edge to every Pod it selects, though a Service update deletes
\* those edges while Pod handlers add them and each side works from its own
\* list of the other.
SelectsPodsComplete == Quiet /\ ~lossy => Matches \subseteq graph.edges

\* What an object's spec calls for: edges it names, and lists that find more.
StatementsOf(h) == {h[i] : i \in DOMAIN h}

EdgesFor ==
    [o \in Objects |-> [s \in Specs[o] |->
        {stmt.arg : stmt \in {st \in StatementsOf(Handler("add", o, s)) : st.op = "UpsertEdge"}}]]

ListsFor ==
    [o \in Objects |-> [s \in Specs[o] |-> {st \in StatementsOf(Handler("add", o, s)) : IsList(st)}]]

\* The edges that the specs of the existing objects call for.
Expected(e) ==
    \E o \in Objects : Exists(o) /\
        \/ e \in EdgesFor[o][cluster[o]]
        \/ \E list \in ListsFor[o][cluster[o]] : e \in UNION Listed(list)

PossibleEdges ==
    UNION {UNION {EdgesFor[o][s] \union
                  {<<NodeFor(o), list.arg.type, NodeFor(p)>> :
                       list \in {l \in ListsFor[o][s] : l.op = "ListPods"},
                       p \in {q \in Objects : q.kind = "Pod"}} :
                  s \in Specs[o]} : o \in Objects}

\* An edge that stays called for is there again and again: the resync brings back
\* what a deletion at its other end, or a failed statement, took away.
EdgesRestored ==
    \A e \in PossibleEdges : <>[]Expected(e) => []<>(e \in graph.edges)

\* The kinds whose update starts by deleting the edges it will make.
Refreshing ==
    {"Service", "Gateway", "HTTPRoute", "GRPCRoute", "TCPRoute", "UDPRoute", "TLSRoute",
     "ReferenceGrant", "BackendTLSPolicy"} \union IstioKinds \union KuadrantKinds

FromRefreshing(e) == \E o \in Objects : o.kind \in Refreshing /\ Exists(o) /\ From(e) = NodeFor(o)

\* An edge from such an object that its spec calls for no longer goes, and stays
\* away: no handler that began before the change puts it back for good.
StaleEdgesVanish ==
    \A e \in PossibleEdges :
        <>[](FromRefreshing(e) /\ ~Expected(e)) => <>[](e \notin graph.edges)
=============================================================================
