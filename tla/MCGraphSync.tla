----------------------------- MODULE MCGraphSync -----------------------------
(* Small clusters for GraphSync. *)
EXTENDS GraphSync, TLC

Obj(kind, name) == [kind |-> kind, ns |-> IF kind \in ClusterScoped THEN "" ELSE "ns", name |-> name]

Pod(name) == [containers |-> <<"main">>] @@ Obj("Pod", name)
Svc(name) == Obj("Service", name)

PodSpec(labels, uses) ==
    [node |-> "", labels |-> labels, uses |-> uses, owner |-> NoOwner]

SvcSpec(selector) == [selector |-> selector, labels |-> {}]

Nothing == [o \in Objects |-> Absent]

-----------------------------------------------------------------------------
(* A Service that selects a Pod, or not. *)

SelectObjects == {Pod("p"), Svc("s")}

SelectSpecs ==
       Pod("p") :> {PodSpec({"a"}, <<>>), PodSpec({}, <<>>)}
    @@ Svc("s") :> {SvcSpec({"a"}), SvcSpec({"b"})}

Selected == [Nothing EXCEPT ![Svc("s")] = SvcSpec({"a"}), ![Pod("p")] = PodSpec({"a"}, <<>>)]

SelectInitial == {Nothing, Selected}

LiveInitial == {Selected}

-----------------------------------------------------------------------------
(* One object of each kind, each naming the others it may name. *)

Ref(kind, name) == [kind |-> kind, name |-> name]
At(name)        == [ns |-> "ns", name |-> name]

Event == [involved |-> Ref("Pod", "p")] @@ Obj("Event", "e")

SelectorKinds ==
    {"IstioGateway", "AuthorizationPolicy", "PeerAuthentication", "RequestAuthentication"}

KindObjects ==
    {Pod("p"), Svc("s"), Event} \union
    {Obj(k, "x") : k \in HandledKinds \ {"Pod", "Service", "Event", "Container"}}

FullPodSpec ==
    [node |-> "x", labels |-> {"a"}, owner |-> Ref("ReplicaSet", "x"),
     uses |-> <<Ref("PersistentVolumeClaim", "x"), Ref("ConfigMap", "x"), Ref("Secret", "x")>>]

KindSpec(o) ==
    CASE o.kind = "Pod"        -> FullPodSpec
      [] o.kind = "Service"    -> [selector |-> {"a"}, labels |-> {Authorino, Limitador}]
      [] o.kind = "ReplicaSet" -> [owner |-> Ref("Deployment", "x")]
      [] o.kind = "PersistentVolumeClaim" -> [volume |-> "x", class |-> "x"]
      [] o.kind = "PersistentVolume"      -> [class |-> "x"]
      [] o.kind = "Gateway"    -> [class |-> "x", certificates |-> <<At("x")>>]
      [] o.kind \in RouteKinds -> [parents |-> <<At("x")>>, backends |-> <<At("s")>>]
      [] o.kind = "ReferenceGrant"   -> [services |-> <<At("s")>>]
      [] o.kind = "BackendTLSPolicy" -> [targets |-> <<At("s")>>]
      [] o.kind = "VirtualService"   ->
             [gateways |-> <<<<"x">>, <<"ns", "x">>>>, hosts |-> <<<<"s">>, <<"cart", "commerce">>>>,
              subsets |-> <<<<"x", "ns", "svc">>>>]
      [] o.kind = "DestinationRule"  -> [host |-> <<"s", "ns">>, subsets |-> <<{"a"}>>]
      [] o.kind \in SelectorKinds    -> [selector |-> {"a"}]
      [] o.kind \in {"AuthPolicy", "RateLimitPolicy", "TLSPolicy"} ->
             [target |-> Ref("HTTPRoute", "x")]
      [] o.kind = "DNSPolicy"        -> [target |-> Ref("Gateway", "x"), providers |-> <<At("x")>>]
      [] OTHER -> [data |-> 0]

\* A route may also be changed to have no backend.
KindSpecs ==
    [o \in KindObjects |->
        {KindSpec(o)} \union
        (IF o.kind = "HTTPRoute" THEN {[parents |-> <<At("x")>>, backends |-> <<>>]} ELSE {})]

KindInitial == {Nothing}
=============================================================================
