--------------------------- MODULE MCAgentPipeline ---------------------------
(* Small instances of AgentPipeline for TLC. *)
EXTENDS AgentPipeline, TLC

Alert(label) == [name |-> "OOMKilled", startsAt |-> 0, label |-> label, status |-> "firing"]

\* An alert that may be posted again while it fires, always under one id.
MCAlerts == {Alert("page")}

Payload(id, at, severity) ==
    [id |-> id, name |-> "db", at |-> at, severity |-> severity,
     reason |-> "Slow", complete |-> TRUE]

\* A payload that brings the alert's id: both sources' goroutines look it up.
MCSharedPayloads == {Payload(AlertEvent(Alert("page")).id, 0, "critical")}

\* Payloads without an id: one that is named by its time of arrival, and one that
\* SeverityFilter refuses.
MCUnnamedPayloads == {Payload(NoId, NoTime, "warning"), Payload(NoId, 0, "info")}

MCDeliveries == Prometheus :> 3 @@ Custom :> 1

MCLiveDeliveries == Prometheus :> 0 @@ Custom :> 3

WorkerSymmetry == Permutations(Workers)
=============================================================================
