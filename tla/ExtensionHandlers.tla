--------------------------- MODULE ExtensionHandlers ---------------------------
(***************************************************************************)
(* The handlers of the Istio and Kuadrant kinds, and the table of all      *)
(* handlers. Their HandleUpdate deletes every edge of the node and then    *)
(* adds the object again; each edge fails on its own.                      *)
(***************************************************************************)
EXTENDS ResourceHandlers, FiniteSets, Functions

CONSTANT ExternalLabels  \* the labels of a domain name that begin with com, net or org

ASSUME ExternalAssumption == {"com", "net", "org"} \subseteq ExternalLabels

-----------------------------------------------------------------------------
(* How Istio names things: a gateway by <<name>> or <<ns, name>>, a host by the *)
(* labels of its domain name.                                               *)

ParseGatewayRef(ref, ns) ==
    IF Len(ref) = 2 THEN [ns |-> ref[1], name |-> ref[2]] ELSE [ns |-> ns, name |-> ref[1]]

\* A wildcard, or a name with ".com", ".net" or ".org" anywhere in it: the text is
\* searched, so that a label behind a dot need only begin with com, net or org.
IsExternal(host) ==
    host[1] = "*" \/ \E i \in 2..Len(host) : host[i] \in ExternalLabels

NoService == [ns |-> "", name |-> ""]

ParseServiceHost(host, ns) ==
    CASE IsExternal(host)                    -> NoService
      [] ~IsExternal(host) /\ Len(host) >= 2 -> [ns |-> host[2], name |-> host[1]]
      [] OTHER                               -> [ns |-> ns, name |-> host[1]]

Parsed(hosts, ns) == [i \in DOMAIN hosts |-> ParseServiceHost(hosts[i], ns)]

\* The references that name something, in their order: the k-th of them is at
\* the position up to which there are k.
Named(refs) ==
    LET I == {i \in DOMAIN refs : refs[i].name # ""}
        Nth(k) == CHOOSE i \in I : Cardinality({j \in I : j <= i}) = k
    IN  [k \in 1..Cardinality(I) |-> refs[Nth(k)]]

-----------------------------------------------------------------------------
(* Istio. *)

VirtualServiceHandler(type, o, s) ==
    Refresh(type, o, OrReturn(MergeNode(NodeFor(o)),
           NamespaceEdge(o)
        \o EdgesTo(o, "ATTACHES_TO", "IstioGateway",
                   [i \in DOMAIN s.gateways |-> ParseGatewayRef(s.gateways[i], o.ns)])
        \o EdgesTo(o, "ROUTES_TRAFFIC_FOR", "Service", Named(Parsed(s.hosts, o.ns)))
        \* s.subsets: the hosts of the destinations that name a subset.
        \o EdgesTo(o, "ROUTES_TO_SUBSET", "DestinationRule", Parsed(s.subsets, o.ns))))

\* One list for each of s.subsets, the label sets of the subsets that have any.
SubsetPodEdges(o, s) ==
    [i \in DOMAIN s.subsets |->
        ListPods(o, "SELECTS_SUBSET_PODS", ParseServiceHost(s.host, o.ns).ns, s.subsets[i])]

DestinationRuleHandler(type, o, s) ==
    Refresh(type, o, OrReturn(MergeNode(NodeFor(o)),
           NamespaceEdge(o)
        \o EdgesTo(o, "DEFINES_POLICY_FOR", "Service",
                   Named(<<ParseServiceHost(s.host, o.ns)>>))
        \o SubsetPodEdges(o, s)))

IstioGatewayHandler(type, o, s) ==
    Refresh(type, o, OrReturn(MergeNode(NodeFor(o)),
           NamespaceEdge(o)
        \o (IF s.selector = {} THEN <<>>
            ELSE <<ListPods(o, "SELECTS_PROXY", "", s.selector)>>)))

\* Without a selector a policy is for every pod of its namespace.
IstioPolicyAppliesTo(o, s) == <<ListPods(o, "APPLIES_TO", o.ns, s.selector)>>

AuthorizationPolicyHandler(type, o, s) ==
    Refresh(type, o, OrReturn(MergeNode(NodeFor(o)),
                              NamespaceEdge(o) \o IstioPolicyAppliesTo(o, s)))

PeerAuthenticationHandler(type, o, s) ==
    Refresh(type, o, OrReturn(MergeNode(NodeFor(o)),
                              NamespaceEdge(o) \o IstioPolicyAppliesTo(o, s)))

RequestAuthenticationHandler(type, o, s) ==
    Refresh(type, o, OrReturn(MergeNode(NodeFor(o)),
                              NamespaceEdge(o) \o IstioPolicyAppliesTo(o, s)))

ServiceEntryHandler(type, o) ==
    Refresh(type, o, OrReturn(MergeNode(NodeFor(o)), NamespaceEdge(o)))

SidecarHandler(type, o) ==
    Refresh(type, o, OrReturn(MergeNode(NodeFor(o)), NamespaceEdge(o)))

-----------------------------------------------------------------------------
(* Kuadrant. *)

\* FindServiceByLabel and the edge to what it finds: the first of the Services,
\* in whatever namespace, that have the label.
EdgeToServiceWith(o, type, label) ==
    Statement("FindService", [for |-> o, type |-> type, labels |-> {label}])

Authorino == "app=authorino"
Limitador == "app=limitador"

\* The handlers return without a write when the target cannot be read, which the
\* schema of a CRD that has them registered rules out.
\* The target is in the policy's namespace; its kind is its node's type.
PolicyAppliesTo(o, s) ==
    EdgesTo(o, "APPLIES_TO", s.target.kind, <<[ns |-> o.ns, name |-> s.target.name]>>)

AuthPolicyHandler(type, o, s) ==
    Refresh(type, o, OrReturn(MergeNode(NodeFor(o)),
           NamespaceEdge(o) \o PolicyAppliesTo(o, s)
        \o <<EdgeToServiceWith(o, "ENFORCED_BY", Authorino)>>))

RateLimitPolicyHandler(type, o, s) ==
    Refresh(type, o, OrReturn(MergeNode(NodeFor(o)),
           NamespaceEdge(o) \o PolicyAppliesTo(o, s)
        \o <<EdgeToServiceWith(o, "ENFORCED_BY", Limitador)>>))

\* s.providers: the Secrets of its namespace with the credentials.
DNSPolicyHandler(type, o, s) ==
    Refresh(type, o, OrReturn(MergeNode(NodeFor(o)),
           NamespaceEdge(o) \o PolicyAppliesTo(o, s)
        \o EdgesTo(o, "USES_SECRET", "Secret", s.providers)))

TLSPolicyHandler(type, o, s) ==
    Refresh(type, o, OrReturn(MergeNode(NodeFor(o)), NamespaceEdge(o) \o PolicyAppliesTo(o, s)))

KuadrantHandler(type, o) ==
    Refresh(type, o, OrReturn(MergeNode(NodeFor(o)),
           NamespaceEdge(o)
        \o <<EdgeToServiceWith(o, "MANAGES", Authorino),
             EdgeToServiceWith(o, "MANAGES", Limitador)>>))

-----------------------------------------------------------------------------
IstioHandler(type, o, s) ==
    CASE o.kind = "IstioGateway"          -> IstioGatewayHandler(type, o, s)
      [] o.kind = "VirtualService"        -> VirtualServiceHandler(type, o, s)
      [] o.kind = "DestinationRule"       -> DestinationRuleHandler(type, o, s)
      [] o.kind = "ServiceEntry"          -> ServiceEntryHandler(type, o)
      [] o.kind = "Sidecar"               -> SidecarHandler(type, o)
      [] o.kind = "AuthorizationPolicy"   -> AuthorizationPolicyHandler(type, o, s)
      [] o.kind = "PeerAuthentication"    -> PeerAuthenticationHandler(type, o, s)
      [] o.kind = "RequestAuthentication" -> RequestAuthenticationHandler(type, o, s)

KuadrantKindHandler(type, o, s) ==
    CASE o.kind = "AuthPolicy"      -> AuthPolicyHandler(type, o, s)
      [] o.kind = "RateLimitPolicy" -> RateLimitPolicyHandler(type, o, s)
      [] o.kind = "DNSPolicy"       -> DNSPolicyHandler(type, o, s)
      [] o.kind = "TLSPolicy"       -> TLSPolicyHandler(type, o, s)
      [] o.kind = "Kuadrant"        -> KuadrantHandler(type, o)

\* The handler registered for the kind.
Handler(type, o, s) ==
    CASE o.kind \in IstioKinds    -> IstioHandler(type, o, s)
      [] o.kind \in KuadrantKinds -> KuadrantKindHandler(type, o, s)
      [] OTHER                    -> ResourceHandler(type, o, s)

-----------------------------------------------------------------------------
(* The shape of the objects and specs that the handlers are given. *)

\* The fields of a spec that are lists.
ListFields(kind) ==
    CASE kind = "Pod"              -> {"uses"}
      [] kind = "Gateway"          -> {"certificates"}
      [] kind \in RouteKinds       -> {"parents", "backends"}
      [] kind = "ReferenceGrant"   -> {"services"}
      [] kind = "BackendTLSPolicy" -> {"targets"}
      [] kind = "VirtualService"   -> {"gateways", "hosts", "subsets"}
      [] kind = "DestinationRule"  -> {"subsets"}
      [] kind = "DNSPolicy"        -> {"providers"}
      [] OTHER                     -> {}

IsSequence(q) == q \in Seq(Range(q))

WellFormed(o, s) ==
    /\ o.kind = "Pod" => IsSequence(o.containers)
    /\ \A f \in ListFields(o.kind) : IsSequence(s[f])
=============================================================================
