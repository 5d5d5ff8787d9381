--------------------------- MODULE ResourceHandlers ---------------------------
(***************************************************************************)
(* What the watcher's handlers do: for each kind, the store statements its *)
(* HandleAdd, HandleUpdate and HandleDelete run, in their order.           *)
(*                                                                         *)
(* A handler is a sequence of statements. A statement that fails for good  *)
(* is logged and the handler goes on, `skip` statements further: past the  *)
(* rest of its Create...Edges function, which returns its error, or past   *)
(* everything when the handler itself returns.                             *)
(*                                                                         *)
(* An object is a record [kind, ns, name], with ns = "" for what has no    *)
(* namespace; a Pod's record also has `containers` and an Event's          *)
(* `involved`, which never change. Its spec is what may: the fields the    *)
(* handlers make edges of.                                                 *)
(***************************************************************************)
EXTENDS GraphStore, Integers, Sequences

Statement(op, arg) == [op |-> op, arg |-> arg, skip |-> 0]

MergeNode(n)              == Statement("UpsertNode", n)
MergeEdge(from, type, to) == Statement("UpsertEdge", <<from, type, to>>)
DetachDelete(n)           == Statement("DeleteNode", n)
DropEdges(n)              == Statement("DeleteEdgesByNode", n)
DropEdgesOf(n, types)     == Statement("DeleteEdgesByTypeAndNode", <<n, types>>)

\* The calls of one Create...Edges function: the first that fails ends it.
Chain(stmts) == [i \in DOMAIN stmts |-> [stmts[i] EXCEPT !.skip = Len(stmts) - i]]

\* if err := statement; err != nil { return }
OrReturn(stmt, rest) == <<[stmt EXCEPT !.skip = Len(rest)]>> \o rest

-----------------------------------------------------------------------------
(* Kinds, identifiers and the edges that several kinds share. *)

ClusterScoped == {"Namespace", "Node", "PersistentVolume", "StorageClass", "GatewayClass"}

CoreKinds ==
    {"Namespace", "Node", "Deployment", "ReplicaSet", "StatefulSet", "DaemonSet", "Pod",
     "Service", "PersistentVolume", "PersistentVolumeClaim", "StorageClass", "ConfigMap",
     "Secret", "Event", "Container"}

GatewayKinds ==
    {"GatewayClass", "Gateway", "HTTPRoute", "GRPCRoute", "TCPRoute", "UDPRoute", "TLSRoute",
     "ReferenceGrant", "BackendTLSPolicy"}

RouteKinds == {"HTTPRoute", "GRPCRoute", "TCPRoute", "UDPRoute", "TLSRoute"}

IstioKinds ==
    {"IstioGateway", "VirtualService", "DestinationRule", "ServiceEntry", "Sidecar",
     "AuthorizationPolicy", "PeerAuthentication", "RequestAuthentication"}

KuadrantKinds == {"Kuadrant", "AuthPolicy", "RateLimitPolicy", "DNSPolicy", "TLSPolicy"}

\* What the handlers are registered for. Istio's Gateway is called IstioGateway
\* here, as its node is; at the API server it is a Gateway too.
HandledKinds == CoreKinds \union GatewayKinds \union IstioKinds \union KuadrantKinds

RegisteredKinds == HandledKinds \ {"IstioGateway"}

NodeOf(type, ns, name) ==
    <<type, GetNodeID(type, IF type \in ClusterScoped THEN "" ELSE ns, name)>>

\* The registry has one entry for a kind, and Istio's Gateway is registered last.
NodeTypeFromKind(kind) ==
    CASE kind = "Event"   -> "K8sEvent"
      [] kind = "Gateway" -> "IstioGateway"
      [] OTHER            -> kind

\* The node that an owner reference or an event's involved object is taken to be.
ReferredNode(kind, ns, name) == NodeOf(NodeTypeFromKind(kind), ns, name)

ContainerNode(pod, c) == <<"Container", <<"Container", pod.ns, pod.name, c>>>>

EventNode(ev) == <<"K8sEvent", <<"Event", ev.ns, ev.involved.name, ev.name>>>>

\* The node of an object: the id that its converter gives it.
NodeFor(o) == IF o.kind = "Event" THEN EventNode(o) ELSE NodeOf(o.kind, o.ns, o.name)

\* What HandleDelete calls the object where it does not use that id.
BareName(o) == <<o.kind, <<o.name>>>>

NoOwner == [kind |-> "", name |-> ""]

OwnerEdge(o, owner) ==
    IF owner.kind \in RegisteredKinds
    THEN <<MergeEdge(ReferredNode(owner.kind, o.ns, owner.name), "MANAGES", NodeFor(o))>>
    ELSE <<>>

NamespaceEdge(o) == <<MergeEdge(NodeFor(o), "IN_NAMESPACE", NodeOf("Namespace", "", o.ns))>>

-----------------------------------------------------------------------------
(* Core resources. *)

PodSchedulingEdges(o, s) ==
    Chain((IF s.node = "" THEN <<>>
           ELSE <<MergeEdge(NodeFor(o), "SCHEDULED_ON", NodeOf("Node", "", s.node))>>)
          \o NamespaceEdge(o))

PodContainerEdges(o) ==
    Chain([i \in DOMAIN o.containers |->
              MergeEdge(NodeFor(o), "CONTAINS", ContainerNode(o, o.containers[i]))])

\* s.uses lists the claims, config maps and secrets of the volumes and envFrom.
VolumeEdgeType ==
    [PersistentVolumeClaim |-> "MOUNTS", ConfigMap |-> "USES_CONFIG", Secret |-> "USES_SECRET"]

PodVolumeEdges(o, s) ==
    Chain([i \in DOMAIN s.uses |->
              LET r == s.uses[i]
              IN  MergeEdge(NodeFor(o), VolumeEdgeType[r.kind], NodeOf(r.kind, o.ns, r.name))])

Selects(svc, sel, pod, labels) == svc.ns = pod.ns /\ sel # {} /\ sel \subseteq labels

SelectsEdge(svc, pod) == <<NodeFor(svc), "SELECTS_PODS", NodeFor(pod)>>

\* A list at the API server, then an edge of the type for each match. The pods are
\* those of a namespace, or of all when it is "", that have the labels.
ListServices(pod, labels) ==
    Statement("ListServices", [for |-> pod, type |-> "SELECTS_PODS", labels |-> labels])

ListPods(o, type, ns, labels) ==
    Statement("ListPods", [for |-> o, type |-> type, ns |-> ns, labels |-> labels])

ContainerNodes(pod) == [i \in DOMAIN pod.containers |-> ContainerNode(pod, pod.containers[i])]

\* Mutant: containers come into the graph by their edges only.
NoContainerUpserts(o) == <<>>

ContainerUpserts(o) == [i \in DOMAIN o.containers |-> MergeNode(ContainerNodes(o)[i])]

PodAdd(o, s) ==
    OrReturn(MergeNode(NodeFor(o)),
           ContainerUpserts(o)
        \o PodSchedulingEdges(o, s) \o PodContainerEdges(o) \o PodVolumeEdges(o, s)
        \o <<ListServices(o, s.labels)>> \o OwnerEdge(o, s.owner))

\* Mutant: the containers of a deleted pod are left.
PodDeleteAlone(o) == <<DetachDelete(NodeFor(o))>>

PodDelete(o) ==
    [i \in DOMAIN o.containers |-> DetachDelete(ContainerNodes(o)[i])]
        \o <<DetachDelete(NodeFor(o))>>

\* Mutant: an update writes the pod's properties only.
PodHandlerLightUpdate(type, o, s) ==
    CASE type = "add"    -> PodAdd(o, s)
      [] type = "update" -> <<MergeNode(NodeFor(o))>>
      [] type = "delete" -> PodDelete(o)

PodHandler(type, o, s) == IF type = "delete" THEN PodDelete(o) ELSE PodAdd(o, s)

ManagedEdgeTypes == {"SELECTS_PODS", "IN_NAMESPACE", "ROUTES_TO", "FORWARDS_TO"}

ServiceAdd(o, s) ==
    OrReturn(MergeNode(NodeFor(o)),
           NamespaceEdge(o)
        \o (IF s.selector = {} THEN <<>>
            ELSE <<ListPods(o, "SELECTS_PODS", o.ns, s.selector)>>))

\* Mutant: an update adds the new edges and then deletes the old ones.
ServiceHandlerDeletesLast(type, o, s) ==
    CASE type = "add"    -> ServiceAdd(o, s)
      [] type = "update" -> ServiceAdd(o, s) \o <<DropEdgesOf(NodeFor(o), ManagedEdgeTypes)>>
      [] type = "delete" -> <<DetachDelete(NodeFor(o))>>

\* Mutant: an update is an add, as for the other kinds.
ServiceHandlerAddsOnly(type, o, s) ==
    IF type = "delete" THEN <<DetachDelete(NodeFor(o))>> ELSE ServiceAdd(o, s)

ServiceHandler(type, o, s) ==
    CASE type = "add"    -> ServiceAdd(o, s)
      [] type = "update" -> <<DropEdgesOf(NodeFor(o), ManagedEdgeTypes)>> \o ServiceAdd(o, s)
      [] type = "delete" -> <<DetachDelete(NodeFor(o))>>

\* Node, and what has no more than a node and its namespace's edge.
NodeHandler(type, o) ==
    IF type = "delete" THEN <<DetachDelete(NodeFor(o))>> ELSE <<MergeNode(NodeFor(o))>>

NamespacedHandler(type, o) ==
    IF type = "delete" THEN <<DetachDelete(NodeFor(o))>>
    ELSE OrReturn(MergeNode(NodeFor(o)), NamespaceEdge(o))

DeploymentHandler(type, o)  == NamespacedHandler(type, o)
StatefulSetHandler(type, o) == NamespacedHandler(type, o)
DaemonSetHandler(type, o)   == NamespacedHandler(type, o)
ConfigMapHandler(type, o)   == NamespacedHandler(type, o)

\* An update first deletes the edges of the secret, those of its users too.
SecretHandler(type, o) ==
    (IF type = "update" THEN <<DropEdges(NodeFor(o))>> ELSE <<>>) \o NamespacedHandler(type, o)

ReplicaSetHandler(type, o, s) ==
    IF type = "delete" THEN <<DetachDelete(NodeFor(o))>>
    ELSE OrReturn(MergeNode(NodeFor(o)), NamespaceEdge(o) \o OwnerEdge(o, s.owner))

ClassEdge(o, class) ==
    IF class = "" THEN <<>>
    ELSE <<MergeEdge(NodeFor(o), "PROVISIONED_BY", NodeOf("StorageClass", "", class))>>

PVCHandler(type, o, s) ==
    IF type = "delete" THEN <<DetachDelete(NodeFor(o))>>
    ELSE OrReturn(MergeNode(NodeFor(o)),
             NamespaceEdge(o)
          \o (IF s.volume = "" THEN <<>>
              ELSE <<MergeEdge(NodeFor(o), "BOUND_TO", NodeOf("PersistentVolume", "", s.volume))>>)
          \o ClassEdge(o, s.class))

\* The kinds whose HandleDelete names the node by something else than its id.
NamespaceHandler(type, o) ==
    IF type = "delete" THEN <<DetachDelete(BareName(o))>> ELSE <<MergeNode(NodeFor(o))>>

StorageClassHandler(type, o) ==
    IF type = "delete" THEN <<DetachDelete(BareName(o))>> ELSE <<MergeNode(NodeFor(o))>>

PVHandler(type, o, s) ==
    IF type = "delete" THEN <<DetachDelete(BareName(o))>>
    ELSE OrReturn(MergeNode(NodeFor(o)), ClassEdge(o, s.class))

EventHandler(type, o) ==
    IF type = "delete"
    THEN <<DetachDelete(<<"K8sEvent", <<o.ns, o.involved.name, o.name>>>>)>>
    ELSE OrReturn(MergeNode(NodeFor(o)),
             IF o.involved.kind \notin RegisteredKinds THEN <<>>
             ELSE <<MergeEdge(NodeFor(o), "INVOLVES",
                              ReferredNode(o.involved.kind, o.ns, o.involved.name))>>)

-----------------------------------------------------------------------------
(* Gateway API resources. *)

GatewayClassHandler(type, o) ==
    IF type = "delete" THEN <<DetachDelete(BareName(o))>> ELSE <<MergeNode(NodeFor(o))>>

\* An edge to each of a sequence of references [ns, name], each on its own.
EdgesTo(o, type, kind, refs) ==
    [i \in DOMAIN refs |-> MergeEdge(NodeFor(o), type, NodeOf(kind, refs[i].ns, refs[i].name))]

\* HandleUpdate of the kinds below: delete every edge of the node, then add.
Refresh(type, o, add) ==
    CASE type = "add"    -> add
      [] type = "update" -> <<DropEdges(NodeFor(o))>> \o add
      [] type = "delete" -> <<DetachDelete(NodeFor(o))>>

GatewayHandler(type, o, s) ==
    Refresh(type, o, OrReturn(MergeNode(NodeFor(o)),
           NamespaceEdge(o)
        \o <<MergeEdge(NodeFor(o), "IMPLEMENTED_BY", NodeOf("GatewayClass", "", s.class))>>
        \o EdgesTo(o, "USES_TLS_FROM", "Secret", s.certificates)))

RouteHandler(type, o, s) ==
    Refresh(type, o, OrReturn(MergeNode(NodeFor(o)),
           NamespaceEdge(o)
        \o EdgesTo(o, "ATTACHES_TO", "Gateway", s.parents)
        \o EdgesTo(o, "FORWARDS_TO", "Service", s.backends)))

HTTPRouteHandler(type, o, s) == RouteHandler(type, o, s)
GRPCRouteHandler(type, o, s) == RouteHandler(type, o, s)
TCPRouteHandler(type, o, s)  == RouteHandler(type, o, s)
UDPRouteHandler(type, o, s)  == RouteHandler(type, o, s)
TLSRouteHandler(type, o, s)  == RouteHandler(type, o, s)

\* s.services and s.targets: the Services of its own namespace it names.
ReferenceGrantHandler(type, o, s) ==
    Refresh(type, o, OrReturn(MergeNode(NodeFor(o)),
        NamespaceEdge(o) \o EdgesTo(o, "ALLOWS_ROUTE_TO", "Service", s.services)))

BackendTLSPolicyHandler(type, o, s) ==
    Refresh(type, o, OrReturn(MergeNode(NodeFor(o)),
        NamespaceEdge(o) \o EdgesTo(o, "APPLIES_TO", "Service", s.targets)))

-----------------------------------------------------------------------------
\* The handlers of these kinds; the other extensions' are in ExtensionHandlers.
ResourceHandler(type, o, s) ==
    CASE o.kind = "Pod"                   -> PodHandler(type, o, s)
      [] o.kind = "Service"               -> ServiceHandler(type, o, s)
      [] o.kind = "Node"                  -> NodeHandler(type, o)
      [] o.kind = "Namespace"             -> NamespaceHandler(type, o)
      [] o.kind = "Deployment"            -> DeploymentHandler(type, o)
      [] o.kind = "StatefulSet"           -> StatefulSetHandler(type, o)
      [] o.kind = "DaemonSet"             -> DaemonSetHandler(type, o)
      [] o.kind = "ReplicaSet"            -> ReplicaSetHandler(type, o, s)
      [] o.kind = "ConfigMap"             -> ConfigMapHandler(type, o)
      [] o.kind = "Secret"                -> SecretHandler(type, o)
      [] o.kind = "PersistentVolumeClaim" -> PVCHandler(type, o, s)
      [] o.kind = "PersistentVolume"      -> PVHandler(type, o, s)
      [] o.kind = "StorageClass"          -> StorageClassHandler(type, o)
      [] o.kind = "Event"                 -> EventHandler(type, o)
      [] o.kind = "GatewayClass"          -> GatewayClassHandler(type, o)
      [] o.kind = "Gateway"               -> GatewayHandler(type, o, s)
      [] o.kind = "HTTPRoute"             -> HTTPRouteHandler(type, o, s)
      [] o.kind = "GRPCRoute"             -> GRPCRouteHandler(type, o, s)
      [] o.kind = "TCPRoute"              -> TCPRouteHandler(type, o, s)
      [] o.kind = "UDPRoute"              -> UDPRouteHandler(type, o, s)
      [] o.kind = "TLSRoute"              -> TLSRouteHandler(type, o, s)
      [] o.kind = "ReferenceGrant"        -> ReferenceGrantHandler(type, o, s)
      [] o.kind = "BackendTLSPolicy"      -> BackendTLSPolicyHandler(type, o, s)

\* The nodes an object's handler makes real.
NodesOf(o) ==
    {NodeFor(o)} \union
    (IF o.kind = "Pod" THEN {ContainerNode(o, o.containers[i]) : i \in DOMAIN o.containers}
     ELSE {})
=============================================================================
