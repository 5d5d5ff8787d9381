---------------------------- MODULE MCAgenticLoop ----------------------------
(* Small instances of AgenticLoop for TLC. *)
EXTENDS AgenticLoop

MCCalls == 1 .. (MaxCalls + Cardinality(Agents))

CONSTANTS agent, client   \* a worker of the agent, and a client beside it

\* The client uses what interferes with the worker's calls.
MCTools ==
    [c \in Callers |->
        IF c = agent THEN AllTools
        ELSE {"query_with_session", "update_hypothesis", "complete_investigation"}]
=============================================================================
