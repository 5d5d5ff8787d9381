-------------------------- MODULE AgentSessionProofs --------------------------
(***************************************************************************)
(* Theorems about AgentSession and AgenticLoop, for any callers, any       *)
(* number of calls and of failed attempts at their statements.             *)
(***************************************************************************)
EXTENDS AgenticLoop, TLAPS

(***************************************************************************)
(* The inductive invariant.                                                *)
(***************************************************************************)

Announcing ==
    {"start_agent_session", "update_hypothesis", "record_finding", "record_recommendation",
     "complete_agent_session", "query_with_session", "spawn_investigation"}

\* Each tool runs its own statements.
Control(i) ==
    LET p == pc[i]  t == call[i].tool IN
    /\ p = "unused" <=> t = "none"
    /\ p = "create_session" => t = "start_agent_session"
    /\ p = "find_patterns" => t = "get_patterns"
    /\ p = "present" => t \in {"start_agent_session", "get_patterns"}
    /\ p \in {"run_query", "store_execution", "bump_queries"} => t = "query_with_session"
    /\ p = "store_finding" => t \in {"query_with_session", "record_finding"}
    /\ p = "bump_findings" => t = "record_finding"
    /\ p \in {"supersede", "create_hypothesis"} => t = "update_hypothesis"
    /\ p = "record" => t \in {"record_recommendation", "record_pattern", "mark_pattern_used"}
    /\ p \in {"set_completed", "get_session"} => t = "complete_agent_session"
    /\ p \in {"create_investigation", "link_resource", "store_metric", "link_metric", "correlate"}
         => t \in {"spawn_investigation", "start_investigation"}
    /\ p = "link_session" => t = "spawn_investigation"
    /\ p \in {"set_investigation", "purge"} => t = "complete_investigation"
    /\ p = "emit" => t \in Announcing

\* A start names its own session; another call's session was opened before it began.
Named(i) ==
    LET s == call[i].session IN
    /\ call[i].tool = "start_agent_session" => s = i
    /\ call[i].tool # "start_agent_session" /\ s # Unknown
         => call[s].tool = "start_agent_session" /\ pc[s] = "ok"

\* The points a handler only gets to over the statement it announces.
PastRecord(i) ==
    LET p == pc[i]  t == call[i].tool IN
    \/ t = "start_agent_session" /\ p \in {"present", "emit", "ok"}
    \/ t \in {"update_hypothesis", "record_recommendation"} /\ p \in {"emit", "ok"}
    \/ t = "record_finding" /\ p \in {"bump_findings", "emit", "ok"}
    \/ t = "complete_agent_session" /\ p \in {"get_session", "emit", "ok"}
    \/ clean[i] /\ t = "query_with_session" /\ p \in {"bump_queries", "emit", "ok"}
    \/ clean[i] /\ t = "spawn_investigation" /\ p \in {"emit", "ok"}

Recorded(i) == call[i].session # Unknown /\ PastRecord(i) => made[i] > 0

\* A session has a status when its node has been created, and is not closed before.
Opened(i) ==
    /\ status[i] # "none" <=> call[i].tool = "start_agent_session" /\ made[i] > 0
    /\ pc[i] = "create_session" => status[i] \in {"none", "active"}

Unwritten(i) == pc[i] = "unused" => call[i] = NoCall /\ made[i] = 0 /\ found[i] = 0

\* A completion of the session of call i, other than it, that had not returned when
\* it began.
Rivals(i) == {j \in Of(call[i].session, "complete_agent_session") \ {i} : j \notin call[i].after}

\* What a completion has set stays, or is replaced by what such a one asked for.
Closed(i) ==
    /\ call[i].tool = "complete_agent_session" /\ call[i].session # Unknown
    /\ clean[i] /\ pc[i] # "set_completed"
    => status[call[i].session] \in {call[j].final : j \in {i} \union Rivals(i)}

\* The calls before a call have ended, and calls begin in their order.
Ordered(i) ==
    /\ \A j \in call[i].after : Returned(j)
    /\ pc[i] # "unused" => \A j \in Calls : j < i => pc[j] # "unused"

CallInv(i) ==
    /\ Control(i) /\ Named(i) /\ Recorded(i) /\ Opened(i)
    /\ Unwritten(i) /\ Closed(i) /\ Ordered(i)

SessionInv == TypeOK /\ \A i \in Calls : CallInv(i)

-----------------------------------------------------------------------------
(***************************************************************************)
(* What the helpers do.                                                    *)
(***************************************************************************)

CallTypes ==
    /\ call \in [Calls -> [by : Callers \union {Nobody}, tool : AllTools \union {"none"},
                           session : Calls \union {Unknown}, inv : Calls \union {Unknown},
                           final : Statuses, after : SUBSET Calls]]
    /\ pc \in [Calls -> Points]
    /\ clean \in [Calls -> BOOLEAN]
    /\ faults \in 0 .. MaxFaults

SessionTypes ==
    /\ status \in [Calls -> {"none", "active"} \union Statuses]
    /\ queryCount \in [Calls -> Nat] /\ findingCount \in [Calls -> Nat]
    /\ made \in [Calls -> Nat] /\ found \in [Calls -> Nat]
    /\ sequences \in [Calls -> SUBSET Nat]
    /\ active \subseteq Calls

EvidenceTypes ==
    /\ investigation \in [Calls -> {"none", "active", "completed"}]
    /\ metric \in [Calls -> {"none", "loose", "linked"}]

LEMMA TypeParts == TypeOK <=> CallTypes /\ SessionTypes /\ EvidenceTypes
BY DEF TypeOK, CallTypes, SessionTypes, EvidenceTypes

\* Where the handlers go when they are done.
LEMMA Ends ==
    ASSUME NEW i \in Calls
    PROVE  /\ Done(i) \in {"emit", "ok"}
           /\ call[i].tool \in Announcing => Done(i) = "emit"
           /\ call[i].tool \in {"record_pattern", "mark_pattern_used", "get_patterns"}
                => Done(i) = "ok"
           /\ LinkSpawned(i) \in {"link_session", "ok"}
           /\ LinkSpawned(i) = "link_session" <=> call[i].tool = "spawn_investigation"
BY DEF Done, LinkSpawned, Announcing

\* The handler of call i has taken its attempt at a statement, the others nothing.
Moves(i, here, onOk, onError) ==
    /\ CallTypes' /\ call' = call
    /\ pc[i] = here /\ pc'[i] \in {here, onOk, onError}
    /\ clean'[i] => clean[i] /\ pc'[i] = onOk
    /\ \A j \in Calls \ {i} : pc'[j] = pc[j] /\ clean'[j] = clean[j]

\* An attempt moves one handler, stays clean only if it succeeds, and keeps the types.
LEMMA Attempts ==
    ASSUME TypeOK, NEW i \in Calls, NEW here, NEW applied \in BOOLEAN,
           NEW onOk \in Points, NEW onError \in Points,
           Attempt(i, here, applied, onOk, onError)
    PROVE  /\ Moves(i, here, onOk, onError)
           /\ applied \/ (pc'[i] \in {here, onError} /\ ~clean'[i])
<1>1. CASE /\ applied /\ pc[i] = here
           /\ pc' = [pc EXCEPT ![i] = onOk] /\ UNCHANGED <<call, clean, faults>>
    <2>1. CallTypes /\ CallTypes' /\ pc'[i] = onOk /\ \A j \in Calls \ {i} : pc'[j] = pc[j]
        BY <1>1 DEF TypeOK, CallTypes
    <2>2. clean' = clean /\ call' = call
        BY <1>1
    <2>3. /\ clean'[i] => clean[i]
          /\ \A j \in Calls \ {i} : clean'[j] = clean[j]
        BY <2>2, Zenon
    <2>4. QED
        BY <1>1, <2>1, <2>2, <2>3 DEF Moves
<1>2. CASE /\ faults < MaxFaults /\ faults' = faults + 1 /\ pc[i] = here
           /\ clean' = [clean EXCEPT ![i] = FALSE]
           /\ UNCHANGED pc \/ pc' = [pc EXCEPT ![i] = onError]
           /\ UNCHANGED call
    <2>1. faults' \in 0 .. MaxFaults
        BY <1>2, SessionAssumption DEF TypeOK
    <2>2. clean' \in [Calls -> BOOLEAN] /\ ~clean'[i]
          /\ \A j \in Calls \ {i} : clean'[j] = clean[j]
        BY <1>2, Zenon DEF TypeOK
    <2>3. pc' \in [Calls -> Points] /\ pc'[i] \in {here, onError}
          /\ \A j \in Calls \ {i} : pc'[j] = pc[j]
        BY <1>2 DEF TypeOK
    <2>4. QED
        BY <1>2, <2>1, <2>2, <2>3 DEF Moves, CallTypes, TypeOK
<1>3. QED
    BY <1>1, <1>2 DEF Attempt

LEMMA SomeAttempt ==
    ASSUME TypeOK, NEW i \in Calls, NEW here, NEW onOk \in Points, NEW onError \in Points,
           \E applied \in BOOLEAN : Attempt(i, here, applied, onOk, onError)
    PROVE  Moves(i, here, onOk, onError)
BY Attempts

\* Nothing is written in the session, or only by call i, which then has a row.
Adds(i) ==
    /\ made' \in [Calls -> Nat] /\ made'[i] >= made[i]
    /\ \A j \in Calls \ {i} : made'[j] = made[j]
    /\ made'[i] # made[i] => Rows(call[i].session) > 0

LEMMA NoWrite == ASSUME TypeOK, NEW i \in Calls, made' = made PROVE Adds(i)
BY DEF TypeOK, Adds

\* A statement with a write: the row is there once it was answered.
LEMMA SomeWrite ==
    ASSUME TypeOK, NEW i \in Calls, NEW here, NEW onOk \in Points, NEW onError \in Points,
           \E applied \in BOOLEAN : Attempt(i, here, applied, onOk, onError)
                                    /\ Write(i, applied)
    PROVE  /\ Moves(i, here, onOk, onError)
           /\ Adds(i)
           /\ /\ Rows(call[i].session) > 0 /\ pc'[i] = onOk
              /\ clean'[i] \/ onOk \notin {here, onError}
              => made'[i] > 0
<1>1. PICK applied \in BOOLEAN : Attempt(i, here, applied, onOk, onError) /\ Write(i, applied)
    OBVIOUS
<1>2. /\ Moves(i, here, onOk, onError)
      /\ applied \/ (pc'[i] \in {here, onError} /\ ~clean'[i])
    BY <1>1, Attempts
<1>3. Rows(call[i].session) \in Nat
    <2>1. call[i].session \in Calls \union {Unknown}
        BY DEF TypeOK
    <2>2. \A s \in Calls : made[s] \in Nat /\ s # Unknown
        BY SessionAssumption DEF TypeOK
    <2>3. QED
        BY <2>1, <2>2 DEF Rows, Unknown
<1>4. made[i] \in Nat
    BY DEF TypeOK
<1>5. CASE applied
    <2>1. made' = [made EXCEPT ![i] = @ + Rows(call[i].session)]
        BY <1>1, <1>5 DEF Write
    <2>2. Adds(i) /\ (Rows(call[i].session) > 0 => made'[i] > 0)
        BY <2>1, <1>3, <1>4 DEF TypeOK, Adds
    <2>3. QED
        BY <2>2, <1>2
<1>6. CASE ~applied
    <2>1. made' = made
        BY <1>1, <1>6 DEF Write
    <2>2. QED
        BY <2>1, <1>2, <1>6, NoWrite
<1>7. QED
    BY <1>5, <1>6

-----------------------------------------------------------------------------
(***************************************************************************)
(* Each statement moves one handler within its tool.                       *)
(***************************************************************************)

\* Call i has moved by a statement of its tool, and has left a row if it is past it.
Moved(i) ==
    /\ CallTypes' /\ call' = call
    /\ \A j \in Calls \ {i} : pc'[j] = pc[j] /\ clean'[j] = clean[j]
    /\ pc[i] \notin {"unused", "ok", "error"} /\ pc'[i] # "unused"
    /\ clean'[i] => clean[i]
    /\ Control(i)'
    /\ \A p \in {"create_session", "set_completed", "create_investigation"} :
           pc'[i] = p => pc[i] = p
    /\ pc'[i] = "correlate" => pc[i] \in {"link_metric", "correlate"}
    /\ pc'[i] = "ok" /\ call[i].tool \in Announcing => pc[i] = "emit"
    /\ Rows(call[i].session) > 0 \/ call[i].tool = "start_agent_session" =>
           (PastRecord(i)' => PastRecord(i) \/ made'[i] > 0)

LEMMA StepMoves ==
    ASSUME TypeOK, NEW i \in Calls, Control(i), Step(i)
    PROVE  Moved(i)
<1>1. CASE FindPatterns(i)
    <2>1. \/ \E applied \in BOOLEAN : Attempt(i, "find_patterns", applied, "present", "error")
          \/ \E applied \in BOOLEAN : Attempt(i, "find_patterns", applied, "present", "present")
        BY <1>1, Zenon DEF FindPatterns
    <2>2. \/ Moves(i, "find_patterns", "present", "error")
          \/ Moves(i, "find_patterns", "present", "present")
        BY <2>1, SomeAttempt, Ends DEF Points
    <2>3. QED
        BY <2>2, <1>1, Ends DEF FindPatterns, Moves, Moved, Control, PastRecord, Announcing
<1>2. CASE MarkPatternPresented(i)
    <2>1. \E applied \in BOOLEAN : Attempt(i, "present", applied, Done(i), Done(i))
        BY <1>2, Zenon DEF MarkPatternPresented
    <2>2. Moves(i, "present", Done(i), Done(i))
        BY <2>1, SomeAttempt, Ends DEF Points
    <2>3. QED
        BY <2>2, <1>2, Ends DEF MarkPatternPresented, Moves, Moved, Control, PastRecord, Announcing
<1>3. CASE StoreAutomaticFinding(i)
    <2>1. \E applied \in BOOLEAN : Attempt(i, "store_finding", applied, "store_execution", "store_execution")
        BY <1>3, Zenon DEF StoreAutomaticFinding
    <2>2. Moves(i, "store_finding", "store_execution", "store_execution")
        BY <2>1, SomeAttempt, Ends DEF Points
    <2>3. QED
        BY <2>2, <1>3, Ends DEF StoreAutomaticFinding, Moves, Moved, Control, PastRecord, Announcing
<1>4. CASE StoreExecution(i)
    <2>1. \E applied \in BOOLEAN : Attempt(i, "store_execution", applied, "bump_queries", "bump_queries")
                                    /\ Write(i, applied)
        BY <1>4, Zenon DEF StoreExecution
    <2>2. /\ Moves(i, "store_execution", "bump_queries", "bump_queries")
          /\ Rows(call[i].session) > 0 /\ pc'[i] = "bump_queries"
             /\ (clean'[i] \/ "bump_queries" \notin {"store_execution", "bump_queries"})
             => made'[i] > 0
        BY <2>1, SomeWrite, Ends DEF Points
    <2>3. QED
        BY <2>2, <1>4, Ends DEF StoreExecution, Moves, Moved, Control, PastRecord, Announcing
<1>5. CASE BumpQueryCount(i)
    <2>1. \E applied \in BOOLEAN : Attempt(i, "bump_queries", applied, Done(i), Done(i))
        BY <1>5, Zenon DEF BumpQueryCount
    <2>2. Moves(i, "bump_queries", Done(i), Done(i))
        BY <2>1, SomeAttempt, Ends DEF Points
    <2>3. QED
        BY <2>2, <1>5, Ends DEF BumpQueryCount, Moves, Moved, Control, PastRecord, Announcing
<1>6. CASE StoreFinding(i)
    <2>1. \E applied \in BOOLEAN : Attempt(i, "store_finding", applied, "bump_findings", "error")
                                    /\ Write(i, applied)
        BY <1>6, Zenon DEF StoreFinding
    <2>2. /\ Moves(i, "store_finding", "bump_findings", "error")
          /\ Rows(call[i].session) > 0 /\ pc'[i] = "bump_findings"
             /\ (clean'[i] \/ "bump_findings" \notin {"store_finding", "error"})
             => made'[i] > 0
        BY <2>1, SomeWrite, Ends DEF Points
    <2>3. QED
        BY <2>2, <1>6, Ends DEF StoreFinding, Moves, Moved, Control, PastRecord, Announcing
<1>7. CASE BumpFindingCount(i)
    <2>1. \E applied \in BOOLEAN : Attempt(i, "bump_findings", applied, Done(i), Done(i))
        BY <1>7, Zenon DEF BumpFindingCount
    <2>2. Moves(i, "bump_findings", Done(i), Done(i))
        BY <2>1, SomeAttempt, Ends DEF Points
    <2>3. QED
        BY <2>2, <1>7, Ends DEF BumpFindingCount, Moves, Moved, Control, PastRecord, Announcing
<1>8. CASE Supersede(i)
    <2>1. \E applied \in BOOLEAN : Attempt(i, "supersede", applied, "create_hypothesis", "create_hypothesis")
        BY <1>8, Zenon DEF Supersede
    <2>2. Moves(i, "supersede", "create_hypothesis", "create_hypothesis")
        BY <2>1, SomeAttempt, Ends DEF Points
    <2>3. QED
        BY <2>2, <1>8, Ends DEF Supersede, Moves, Moved, Control, PastRecord, Announcing
<1>9. CASE CreateHypothesis(i)
    <2>1. \E applied \in BOOLEAN : Attempt(i, "create_hypothesis", applied, Done(i), "error")
                                    /\ Write(i, applied)
        BY <1>9, Zenon DEF CreateHypothesis
    <2>2. /\ Moves(i, "create_hypothesis", Done(i), "error")
          /\ Rows(call[i].session) > 0 /\ pc'[i] = Done(i)
             /\ (clean'[i] \/ Done(i) \notin {"create_hypothesis", "error"})
             => made'[i] > 0
        <3>1. Done(i) \in Points /\ "error" \in Points
            BY Ends DEF Points
        <3>2. QED  BY <2>1, <3>1, SomeWrite
    <2>3. QED
        BY <2>2, <1>9, Ends DEF CreateHypothesis, Moves, Moved, Control, PastRecord, Announcing
<1>10. CASE GetSession(i)
    <2>1. \E applied \in BOOLEAN : Attempt(i, "get_session", applied, Done(i), "error")
        BY <1>10, Zenon DEF GetSession
    <2>2. Moves(i, "get_session", Done(i), "error")
        BY <2>1, SomeAttempt, Ends DEF Points
    <2>3. QED
        BY <2>2, <1>10, Ends DEF GetSession, Moves, Moved, Control, PastRecord, Announcing
<1>11. CASE CreateInvestigation(i)
    <2>1. \E applied \in BOOLEAN : Attempt(i, "create_investigation", applied, "link_resource", "error")
        BY <1>11, Zenon DEF CreateInvestigation
    <2>2. Moves(i, "create_investigation", "link_resource", "error")
        BY <2>1, SomeAttempt, Ends DEF Points
    <2>3. QED
        BY <2>2, <1>11, Ends DEF CreateInvestigation, Moves, Moved, Control, PastRecord, Announcing
<1>12. CASE StoreMetric(i)
    <2>1. \E applied \in BOOLEAN : Attempt(i, "store_metric", applied, "link_metric", LinkSpawned(i))
        BY <1>12, Zenon DEF StoreMetric
    <2>2. Moves(i, "store_metric", "link_metric", LinkSpawned(i))
        BY <2>1, SomeAttempt, Ends DEF Points
    <2>3. QED
        BY <2>2, <1>12, Ends DEF StoreMetric, Moves, Moved, Control, PastRecord, Announcing
<1>13. CASE LinkMetric(i)
    <2>1. \/ \E applied \in BOOLEAN : Attempt(i, "link_metric", applied, "correlate", "correlate")
          \/ \E applied \in BOOLEAN : Attempt(i, "link_metric", applied, LinkSpawned(i), LinkSpawned(i))
        BY <1>13, Zenon DEF LinkMetric, LinkCorrelated
    <2>2. \/ Moves(i, "link_metric", "correlate", "correlate")
          \/ Moves(i, "link_metric", LinkSpawned(i), LinkSpawned(i))
        BY <2>1, SomeAttempt, Ends DEF Points
    <2>3. QED
        BY <2>2, <1>13, Ends DEF LinkMetric, Moves, Moved, Control, PastRecord, Announcing
<1>14. CASE LinkSession(i)
    <2>1. \E applied \in BOOLEAN : Attempt(i, "link_session", applied, "emit", "emit")
                                    /\ Write(i, applied)
        BY <1>14, Zenon DEF LinkSession
    <2>2. /\ Moves(i, "link_session", "emit", "emit")
          /\ Rows(call[i].session) > 0 /\ pc'[i] = "emit"
             /\ (clean'[i] \/ "emit" \notin {"link_session", "emit"})
             => made'[i] > 0
        BY <2>1, SomeWrite, Ends DEF Points
    <2>3. QED
        BY <2>2, <1>14, Ends DEF LinkSession, Moves, Moved, Control, PastRecord, Announcing
<1>15. CASE SetInvestigation(i)
    <2>1. \E applied \in BOOLEAN : Attempt(i, "set_investigation", applied, "purge", "error")
        BY <1>15, Zenon DEF SetInvestigation
    <2>2. Moves(i, "set_investigation", "purge", "error")
        BY <2>1, SomeAttempt, Ends DEF Points
    <2>3. QED
        BY <2>2, <1>15, Ends DEF SetInvestigation, Moves, Moved, Control, PastRecord, Announcing
<1>16. CASE Purge(i)
    <2>1. \E applied \in BOOLEAN : Attempt(i, "purge", applied, "ok", "error")
        BY <1>16, Zenon DEF Purge
    <2>2. Moves(i, "purge", "ok", "error")
        BY <2>1, SomeAttempt, Ends DEF Points
    <2>3. QED
        BY <2>2, <1>16, Ends DEF Purge, Moves, Moved, Control, PastRecord, Announcing
<1>17. CASE StoreRecommendation(i)
    <2>1. \E applied \in BOOLEAN : Attempt(i, "record", applied, Done(i), "error")
                                    /\ Write(i, applied /\ TRUE)
        BY <1>17, Zenon DEF StoreRecommendation, StoreRow
    <2>2. \E applied \in BOOLEAN : Attempt(i, "record", applied, Done(i), "error")
                                    /\ Write(i, applied)
        BY <2>1 DEF Write
    <2>3. /\ Moves(i, "record", Done(i), "error")
          /\ Rows(call[i].session) > 0 /\ pc'[i] = Done(i)
             /\ (clean'[i] \/ Done(i) \notin {"record", "error"})
             => made'[i] > 0
        <3>1. Done(i) \in Points /\ "error" \in Points
            BY Ends DEF Points
        <3>2. QED  BY <2>2, <3>1, SomeWrite
    <2>4. QED
        BY <2>3, <1>17, Ends DEF StoreRecommendation, StoreRow, Moves, Moved, Control, PastRecord, Announcing
<1>18. CASE StorePattern(i)
    <2>1. \E applied \in BOOLEAN : Attempt(i, "record", applied, Done(i), "error")
                                    /\ Write(i, applied /\ TRUE)
        BY <1>18, Zenon DEF StorePattern, StoreRow
    <2>2. \E applied \in BOOLEAN : Attempt(i, "record", applied, Done(i), "error")
                                    /\ Write(i, applied)
        BY <2>1 DEF Write
    <2>3. /\ Moves(i, "record", Done(i), "error")
          /\ Rows(call[i].session) > 0 /\ pc'[i] = Done(i)
             /\ (clean'[i] \/ Done(i) \notin {"record", "error"})
             => made'[i] > 0
        <3>1. Done(i) \in Points /\ "error" \in Points
            BY Ends DEF Points
        <3>2. QED  BY <2>2, <3>1, SomeWrite
    <2>4. QED
        BY <2>3, <1>18, Ends DEF StorePattern, StoreRow, Moves, Moved, Control, PastRecord, Announcing
<1>19. CASE UsePattern(i)
    <2>1. \E applied \in BOOLEAN : Attempt(i, "record", applied, "ok", "error")
        BY <1>19, Ends DEF UsePattern, StoreRow
    <2>2. Moves(i, "record", "ok", "error")
        BY <2>1, SomeAttempt DEF Points
    <2>3. QED
        BY <2>2, <1>19 DEF UsePattern, StoreRow, Moves, Moved, Control, PastRecord, Announcing
<1>20. CASE PresentNone(i)
    <2>1. call' = call /\ clean' = clean /\ faults' = faults /\ made' = made
          /\ pc[i] = "present" /\ pc' = [pc EXCEPT ![i] = Done(i)]
        BY <1>20 DEF PresentNone, sessionData, records
    <2>2. CallTypes' /\ pc'[i] = Done(i) /\ \A j \in Calls \ {i} : pc'[j] = pc[j]
        BY <2>1, Ends DEF TypeOK, CallTypes, Points
    <2>3. (clean'[i] <=> clean[i]) /\ \A j \in Calls \ {i} : clean'[j] = clean[j]
        BY <2>1, Zenon
    <2>4. QED
        BY <2>1, <2>2, <2>3, Ends DEF Moved, Control, PastRecord, Announcing
<1>21. CASE RefuseQuery(i)
    <2>1. call' = call /\ clean' = clean /\ faults' = faults /\ made' = made
          /\ pc[i] = "run_query" /\ pc' = [pc EXCEPT ![i] = "error"]
        BY <1>21 DEF RefuseQuery, sessionData, records
    <2>2. CallTypes' /\ pc'[i] = "error" /\ \A j \in Calls \ {i} : pc'[j] = pc[j]
        BY <2>1, Ends DEF TypeOK, CallTypes, Points
    <2>3. (clean'[i] <=> clean[i]) /\ \A j \in Calls \ {i} : clean'[j] = clean[j]
        BY <2>1, Zenon
    <2>4. QED
        BY <2>1, <2>2, <2>3, Ends DEF Moved, Control, PastRecord, Announcing
<1>22. CASE Emit(i)
    <2>1. call' = call /\ clean' = clean /\ faults' = faults /\ made' = made
          /\ pc[i] = "emit" /\ pc' = [pc EXCEPT ![i] = "ok"]
        BY <1>22 DEF Emit, sessionData, records
    <2>2. CallTypes' /\ pc'[i] = "ok" /\ \A j \in Calls \ {i} : pc'[j] = pc[j]
        BY <2>1, Ends DEF TypeOK, CallTypes, Points
    <2>3. (clean'[i] <=> clean[i]) /\ \A j \in Calls \ {i} : clean'[j] = clean[j]
        BY <2>1, Zenon
    <2>4. QED
        BY <2>1, <2>2, <2>3, Ends DEF Moved, Control, PastRecord, Announcing
<1>23. CASE RunQuery(i)
    <2>1. \/ \E applied \in BOOLEAN : Attempt(i, "run_query", applied, "store_finding", "error")
          \/ \E applied \in BOOLEAN : Attempt(i, "run_query", applied, "store_execution", "error")
        BY <1>23, Zenon DEF RunQuery
    <2>2. \/ Moves(i, "run_query", "store_finding", "error")
          \/ Moves(i, "run_query", "store_execution", "error")
        BY <2>1, SomeAttempt, Ends DEF Points
    <2>3. QED
        BY <2>2, <1>23, Ends DEF RunQuery, Moves, Moved, Control, PastRecord, Announcing
<1>24. CASE LinkResource(i)
    <2>1. \/ \E applied \in BOOLEAN : Attempt(i, "link_resource", applied, "store_metric", "error")
          \/ \E applied \in BOOLEAN : Attempt(i, "link_resource", applied, LinkSpawned(i), "error")
        BY <1>24, Zenon DEF LinkResource
    <2>2. \/ Moves(i, "link_resource", "store_metric", "error")
          \/ Moves(i, "link_resource", LinkSpawned(i), "error")
        BY <2>1, SomeAttempt, Ends DEF Points
    <2>3. QED
        BY <2>2, <1>24, Ends DEF LinkResource, Moves, Moved, Control, PastRecord, Announcing
<1>25. CASE SetCompleted(i)
    <2> DEFINE next == IF Rows(call[i].session) > 0 THEN "get_session" ELSE "error"
    <2>1. \E applied \in BOOLEAN : Attempt(i, "set_completed", applied, next, "error")
                                    /\ Write(i, applied)
        BY <1>25, Zenon DEF SetCompleted
    <2>2. next \in Points
        BY DEF Points
    <2>3. /\ Moves(i, "set_completed", next, "error")
          /\ Rows(call[i].session) > 0 /\ pc'[i] = next
             /\ (clean'[i] \/ next \notin {"set_completed", "error"})
             => made'[i] > 0
        <3> HIDE DEF next
        <3> QED BY <2>1, <2>2, SomeWrite DEF Points
    <2>4. QED
        BY <2>3, <1>25 DEF Moves, Moved, Control, PastRecord, Announcing
<1>26. CASE CreateSession(i)
    <2>1. PICK applied \in BOOLEAN :
              /\ Attempt(i, "create_session", applied, "present", "error")
              /\ made' = IF applied THEN [made EXCEPT ![i] = @ + 1] ELSE made
        BY <1>26, Zenon DEF CreateSession
    <2>2. /\ Moves(i, "create_session", "present", "error")
          /\ applied \/ (pc'[i] \in {"create_session", "error"} /\ ~clean'[i])
        <3>1. {"present", "error"} \subseteq Points
            BY DEF Points
        <3>2. QED  BY <2>1, <3>1, Attempts
    <2>3. pc'[i] = "present" => made'[i] > 0
        BY <2>1, <2>2 DEF TypeOK
    <2>4. QED
        BY <2>2, <2>3 DEF Moves, Moved, Control, PastRecord, Announcing
<1>27. CASE CorrelateMetric(i)
    <2>1. \E applied \in BOOLEAN : Attempt(i, "correlate", applied, LinkSpawned(i), LinkSpawned(i))
        BY <1>27, Zenon DEF CorrelateMetric
    <2>2. Moves(i, "correlate", LinkSpawned(i), LinkSpawned(i))
        BY <2>1, SomeAttempt, Ends DEF Points
    <2>3. QED
        BY <2>2, <1>27, Ends DEF CorrelateMetric, Moves, Moved, Control, PastRecord, Announcing
<1>28. CASE RefusePatterns(i)
    <2>1. call' = call /\ clean' = clean /\ faults' = faults /\ made' = made
          /\ pc[i] = "find_patterns" /\ pc' = [pc EXCEPT ![i] = "error"]
        BY <1>28 DEF RefusePatterns, sessionData, records
    <2>2. CallTypes' /\ pc'[i] = "error" /\ \A j \in Calls \ {i} : pc'[j] = pc[j]
        BY <2>1, Ends DEF TypeOK, CallTypes, Points
    <2>3. (clean'[i] <=> clean[i]) /\ \A j \in Calls \ {i} : clean'[j] = clean[j]
        BY <2>1, Zenon
    <2>4. QED
        BY <2>1, <2>2, <2>3, Ends DEF Moved, Control, PastRecord, Announcing
<1>29. QED
    BY <1>1, <1>2, <1>3, <1>4, <1>5, <1>6, <1>7, <1>8, <1>9, <1>10, <1>11, <1>12, <1>13,
       <1>14, <1>15, <1>16, <1>17, <1>18, <1>19, <1>20, <1>21, <1>22, <1>23, <1>24,
       <1>25, <1>26, <1>27, <1>28 DEF Step

-----------------------------------------------------------------------------
(***************************************************************************)
(* What a statement does to the graph.                                     *)
(***************************************************************************)

Opens(i) ==
    /\ pc[i] = "create_session"
    /\ made' = [made EXCEPT ![i] = @ + 1]
    /\ status' = [status EXCEPT ![i] = "active"]

Closes(i) ==
    LET s == call[i].session IN
    /\ pc[i] = "set_completed" /\ s \in Calls /\ Rows(s) > 0
    /\ made' = [made EXCEPT ![i] = @ + Rows(s)]
    /\ status' = [status EXCEPT ![s] = call[i].final]

\* Only a query leaves findings, in a session that is there.
Finds(i) ==
    /\ found' \in [Calls -> Nat] /\ found'[i] >= found[i]
    /\ \A j \in Calls \ {i} : found'[j] = found[j]
    /\ found'[i] # found[i] => Rows(call[i].session) > 0 /\ UNCHANGED <<made, status>>

LEMMA NoFinding == ASSUME TypeOK, NEW i \in Calls, found' = found PROVE Finds(i)
BY DEF TypeOK, Finds

\* It opens a session, closes one, or adds a row of its call to one, or nothing.
Effect(i) == Finds(i) /\ (Opens(i) \/ Closes(i) \/ (Adds(i) /\ status' = status))

\* A row is only written in a session, which is a call.
LEMMA RowsTypes ==
    ASSUME TypeOK, NEW i \in Calls
    PROVE  /\ Rows(call[i].session) \in Nat
           /\ Rows(call[i].session) > 0 => call[i].session \in Calls
                                           /\ Rows(call[i].session) = made[call[i].session]
<1>1. call[i].session \in Calls \union {Unknown}
    BY DEF TypeOK
<1>2. \A s \in Calls : made[s] \in Nat /\ s # Unknown
    BY SessionAssumption DEF TypeOK
<1>3. QED
    BY <1>1, <1>2 DEF Rows, Unknown

LEMMA StepEffect ==
    ASSUME TypeOK, NEW i \in Calls, Step(i)
    PROVE  SessionTypes' /\ EvidenceTypes' /\ Effect(i)
<1> USE TypeParts
<1>1. CASE UNCHANGED <<sessionData, evidence>>
    BY <1>1, NoWrite, NoFinding
    DEF sessionData, counters, records, evidence, SessionTypes, EvidenceTypes, Effect
<1>2. ASSUME UNCHANGED sessionData, EvidenceTypes' PROVE SessionTypes' /\ EvidenceTypes' /\ Effect(i)
    BY <1>2, NoWrite, NoFinding DEF sessionData, counters, records, SessionTypes, Effect
<1>3. CASE CreateInvestigation(i)
    BY <1>2, <1>3 DEF CreateInvestigation, EvidenceTypes
<1>4. CASE StoreMetric(i)
    BY <1>2, <1>4 DEF StoreMetric, EvidenceTypes
<1>5. CASE LinkMetric(i)
    BY <1>2, <1>5 DEF LinkMetric, EvidenceTypes
<1>6. CASE SetInvestigation(i)
    BY <1>2, <1>6 DEF SetInvestigation, EvidenceTypes
<1>7. CASE Purge(i)
    BY <1>2, <1>7 DEF Purge, EvidenceTypes
<1>8. ASSUME NEW applied \in BOOLEAN, Write(i, applied) PROVE Adds(i) /\ made' \in [Calls -> Nat]
    <2>1. made[i] \in Nat /\ made \in [Calls -> Nat]
        BY DEF TypeOK
    <2>2. QED
        BY <1>8, NoFinding, <2>1, RowsTypes DEF Write, Adds
<1>9. CASE StoreFinding(i) \/ StoreRecommendation(i) \/ StorePattern(i) \/ UsePattern(i) \/ LinkSession(i)
    <2>1. PICK applied \in BOOLEAN : Write(i, applied)
        BY <1>9 DEF StoreFinding, StoreRecommendation, StorePattern, UsePattern, StoreRow, LinkSession
    <2>2. UNCHANGED <<status, counters, found, sequences, active, evidence>>
        BY <1>9 DEF StoreFinding, StoreRecommendation, StorePattern, UsePattern, StoreRow, LinkSession
    <2>3. QED
        BY <1>8, NoFinding, <2>1, <2>2 DEF counters, evidence, SessionTypes, EvidenceTypes, Effect
<1>10. CASE CreateHypothesis(i)
    <2>1. PICK applied \in BOOLEAN :
              /\ Write(i, applied)
              /\ active' \in {active, active \union {i}}
              /\ UNCHANGED <<status, counters, found, sequences, evidence>>
        BY <1>10 DEF CreateHypothesis
    <2>2. QED
        BY <1>8, NoFinding, <2>1 DEF counters, evidence, SessionTypes, EvidenceTypes, Effect
<1>11. CASE StoreExecution(i)
    <2>1. PICK applied \in BOOLEAN :
              /\ Write(i, applied)
              /\ sequences' = IF applied /\ Rows(call[i].session) > 0
                              THEN [sequences EXCEPT ![i] = @ \union {queryCount[call[i].session] + 1}]
                              ELSE sequences
              /\ UNCHANGED <<status, counters, found, active, evidence>>
        BY <1>11 DEF StoreExecution
    <2>2. sequences' \in [Calls -> SUBSET Nat]
        BY <2>1, RowsTypes DEF SessionTypes
    <2>3. QED
        BY <1>8, NoFinding, <2>1, <2>2 DEF counters, evidence, SessionTypes, EvidenceTypes, Effect
<1>12. CASE BumpQueryCount(i)
    <2>1. queryCount' \in [Calls -> Nat]
        BY <1>12, RowsTypes DEF BumpQueryCount, SessionTypes
    <2>2. UNCHANGED <<status, findingCount, records, evidence>>
        BY <1>12 DEF BumpQueryCount
    <2>3. QED
        BY <2>1, <2>2, NoWrite, NoFinding DEF records, evidence, SessionTypes, EvidenceTypes, Effect
<1>13. CASE BumpFindingCount(i)
    <2>1. findingCount' \in [Calls -> Nat]
        BY <1>13, RowsTypes DEF BumpFindingCount, SessionTypes
    <2>2. UNCHANGED <<status, queryCount, records, evidence>>
        BY <1>13 DEF BumpFindingCount
    <2>3. QED
        BY <2>1, <2>2, NoWrite, NoFinding DEF records, evidence, SessionTypes, EvidenceTypes, Effect
<1>14. CASE Supersede(i)
    <2>1. active' \subseteq active /\ UNCHANGED <<status, counters, made, found, sequences, evidence>>
        BY <1>14 DEF Supersede
    <2>2. QED
        BY <2>1, NoWrite, NoFinding DEF counters, evidence, SessionTypes, EvidenceTypes, Effect
<1>15. CASE SetCompleted(i)
    <2> DEFINE s == call[i].session
    <2>1. PICK applied \in BOOLEAN :
              /\ pc[i] = "set_completed" /\ Write(i, applied)
              /\ status' = IF applied /\ Rows(s) > 0 THEN [status EXCEPT ![s] = call[i].final]
                           ELSE status
              /\ UNCHANGED <<counters, found, sequences, active, evidence>>
        BY <1>15 DEF SetCompleted, Attempt
    <2>2. call[i].final \in Statuses
        BY DEF TypeOK
    <2>3. status' \in [Calls -> {"none", "active"} \union Statuses]
        BY <2>1, <2>2 DEF SessionTypes
    <2>4. Adds(i) /\ Finds(i) /\ made' \in [Calls -> Nat]
        BY <1>8, NoFinding, <2>1
    <2>5. Effect(i)
        <3>1. CASE applied /\ Rows(s) > 0
            BY <2>1, <2>4, <3>1, RowsTypes DEF Effect, Closes, Write
        <3>2. CASE ~(applied /\ Rows(s) > 0)
            BY <2>1, <2>4, <3>2 DEF Effect
        <3>3. QED
            BY <3>1, <3>2
    <2>6. QED
        BY <2>1, <2>3, <2>4, <2>5 DEF counters, evidence, SessionTypes, EvidenceTypes
<1>16. CASE CreateSession(i)
    <2>1. PICK applied \in BOOLEAN :
              /\ pc[i] = "create_session"
              /\ made' = IF applied THEN [made EXCEPT ![i] = @ + 1] ELSE made
              /\ status' = IF applied THEN [status EXCEPT ![i] = "active"] ELSE status
              /\ UNCHANGED <<counters, found, sequences, active, evidence>>
        BY <1>16 DEF CreateSession, Attempt
    <2>2. made' \in [Calls -> Nat] /\ status' \in [Calls -> {"none", "active"} \union Statuses]
        BY <2>1 DEF SessionTypes
    <2>3. Effect(i)
        <3>1. CASE applied
            BY <2>1, <3>1, NoFinding DEF Effect, Opens
        <3>2. CASE ~applied
            BY <2>1, <3>2, NoWrite, NoFinding DEF Effect
        <3>3. QED
            BY <3>1, <3>2
    <2>4. QED
        BY <2>1, <2>2, <2>3 DEF counters, evidence, SessionTypes, EvidenceTypes
<1>17. CASE CorrelateMetric(i)
    BY <1>2, <1>17 DEF CorrelateMetric, EvidenceTypes
<1>18. CASE StoreAutomaticFinding(i)
    <2>1. PICK applied \in BOOLEAN :
              /\ found' = IF applied THEN [found EXCEPT ![i] = @ + Rows(call[i].session)] ELSE found
              /\ UNCHANGED <<status, counters, made, sequences, active, evidence>>
        BY <1>18 DEF StoreAutomaticFinding
    <2>2. Finds(i) /\ found' \in [Calls -> Nat]
        BY <2>1, RowsTypes DEF Finds, TypeOK
    <2>3. QED
        BY <2>1, <2>2, NoWrite DEF counters, evidence, SessionTypes, EvidenceTypes, Effect
<1>19. QED
    BY <1>1, <1>3, <1>4, <1>5, <1>6, <1>7, <1>9, <1>10, <1>11, <1>12, <1>13, <1>14, <1>15,
       <1>16, <1>17, <1>18
    DEF Step, FindPatterns, RefusePatterns, PresentNone, MarkPatternPresented, RefuseQuery,
        RunQuery, GetSession, LinkResource, Emit

\* The statement a handler is at is the one it sends.
LEMMA StepAt ==
    ASSUME NEW i \in Calls, Step(i)
    PROVE  /\ pc[i] = "set_completed" => SetCompleted(i)
           /\ pc[i] = "store_execution" => StoreExecution(i)
           /\ pc[i] = "bump_queries" => BumpQueryCount(i)
           /\ pc[i] = "supersede" => Supersede(i)
           /\ pc[i] = "create_investigation" => CreateInvestigation(i)
           /\ pc[i] = "store_metric" => StoreMetric(i)
           /\ pc[i] = "link_metric" => LinkMetric(i)
           /\ pc[i] = "correlate" => CorrelateMetric(i)
           /\ pc[i] = "set_investigation" => SetInvestigation(i)
           /\ pc[i] = "purge" => Purge(i)
           /\ pc[i] = "emit" => Emit(i)
BY DEF Step, CreateSession, FindPatterns, RefusePatterns, PresentNone, MarkPatternPresented,
       RefuseQuery, RunQuery, StoreAutomaticFinding, StoreExecution, BumpQueryCount,
       StoreFinding, BumpFindingCount, Supersede, CreateHypothesis, StoreRecommendation,
       StorePattern, UsePattern, StoreRow, SetCompleted, GetSession, CreateInvestigation,
       LinkResource, StoreMetric, LinkMetric, CorrelateMetric, LinkSession, SetInvestigation,
       Purge, Emit, Attempt

\* A completion that was answered has found its session, or none.
LEMMA StepCloses ==
    ASSUME TypeOK, NEW i \in Calls, Step(i), pc[i] = "set_completed", clean'[i],
           Rows(call[i].session) > 0
    PROVE  Closes(i)
<1>1. SetCompleted(i)
    BY StepAt
<1> DEFINE s == call[i].session
           next == IF Rows(s) > 0 THEN "get_session" ELSE "error"
<1>2. PICK applied \in BOOLEAN :
          /\ Attempt(i, "set_completed", applied, next, "error") /\ Write(i, applied)
          /\ status' = IF applied /\ Rows(s) > 0 THEN [status EXCEPT ![s] = call[i].final]
                       ELSE status
    BY <1>1, Zenon DEF SetCompleted
<1>3. next \in Points
    BY DEF Points
<1>4. applied
    <2> HIDE DEF next
    <2>1. "error" \in Points
        BY DEF Points
    <2>2. QED  BY <1>2, <1>3, <2>1, Attempts
<1>5. QED
    BY <1>2, <1>4, RowsTypes DEF Closes, Write

\* Rows are never taken away, and only call i adds one.
LEMMA EffectRows ==
    ASSUME TypeOK, NEW i \in Calls, Effect(i)
    PROVE  /\ \A j \in Calls : made'[j] >= made[j]
           /\ \A j \in Calls \ {i} : made'[j] = made[j]
<1>1. made \in [Calls -> Nat]
    BY DEF TypeOK
<1>2. QED
    BY <1>1, RowsTypes DEF Effect, Opens, Closes, Adds

-----------------------------------------------------------------------------
(***************************************************************************)
(* The invariant is kept.                                                  *)
(***************************************************************************)

LEMMA TypesAgain == CallTypes' /\ SessionTypes' /\ EvidenceTypes' => TypeOK'
BY DEF TypeOK, CallTypes, SessionTypes, EvidenceTypes

\* The session of a call that did not open it is open.
LEMMA OpenSession ==
    ASSUME SessionInv, NEW j \in Calls,
           call[j].session # Unknown, call[j].tool # "start_agent_session"
    PROVE  LET s == call[j].session IN
           /\ s \in Calls /\ s # j /\ call[s].tool = "start_agent_session" /\ pc[s] = "ok"
           /\ made[s] > 0 /\ status[s] # "none" /\ Rows(s) > 0
<1> DEFINE s == call[j].session
<1>1. s \in Calls
    BY DEF SessionInv, TypeOK
<1>2. call[s].tool = "start_agent_session" /\ pc[s] = "ok"
    BY DEF SessionInv, CallInv, Named
<1>3. call[s].session # Unknown
    BY <1>1, <1>2, SessionAssumption DEF SessionInv, CallInv, Named
<1>4. made[s] > 0
    BY <1>1, <1>2, <1>3 DEF SessionInv, CallInv, Recorded, PastRecord
<1>5. QED
    BY <1>1, <1>2, <1>4 DEF SessionInv, CallInv, Opened, Rows

LEMMA InitInv == ASSUME Init PROVE SessionInv
<1>1. TypeOK
    BY SessionAssumption DEF Init, TypeOK, NoCall, Points, Unknown, Nobody
<1>2. ASSUME NEW i \in Calls PROVE CallInv(i)
    <2>1. /\ call[i] = NoCall /\ pc[i] = "unused"
          /\ made[i] = 0 /\ found[i] = 0 /\ status[i] = "none"
        BY DEF Init
    <2>2. NoCall.tool = "none" /\ NoCall.session = Unknown /\ NoCall.after = {}
        BY DEF NoCall
    <2>3. Control(i) /\ Named(i) /\ Recorded(i) /\ Opened(i)
        BY <2>1, <2>2 DEF Control, Named, Recorded, Opened
    <2>4. QED
        BY <2>1, <2>2, <2>3 DEF CallInv, Unwritten, Closed, Ordered
<1>3. QED
    BY <1>1, <1>2 DEF SessionInv

\* What a completion has set is only replaced by one that had not returned when
\* it began.
LEMMA StaysClosed ==
    ASSUME SessionInv, NEW i \in Calls, Effect(i), call' = call, NEW j \in Calls,
           call[j].tool = "complete_agent_session", call[j].session # Unknown,
           clean[j], pc[j] # "set_completed"
    PROVE  status'[call[j].session] \in {call[h].final : h \in {j} \union Rivals(j)}
<1> DEFINE s == call[j].session
<1>1. TypeOK /\ CallInv(i) /\ status[s] \in {call[h].final : h \in {j} \union Rivals(j)}
    BY DEF SessionInv, CallInv, Closed
<1>2. s \in Calls /\ pc[s] = "ok"
    BY OpenSession
<1>3. CASE Opens(i)
    BY <1>1, <1>2, <1>3 DEF Opens, TypeOK
<1>4. CASE Closes(i) /\ call[i].session = s
    <2>1. pc[i] = "set_completed" /\ status'[s] = call[i].final
        BY <1>1, <1>2, <1>4 DEF Closes, TypeOK
    <2>2. call[i].tool = "complete_agent_session" /\ i # j
        BY <1>1, <2>1 DEF CallInv, Control
    <2>3. i \notin call[j].after
        BY <2>1 DEF SessionInv, CallInv, Ordered, Returned
    <2>4. i \in Rivals(j)
        BY <1>4, <2>2, <2>3 DEF Rivals, Of
    <2>5. QED
        BY <2>1, <2>4
<1>5. CASE Closes(i) /\ call[i].session # s
    BY <1>1, <1>2, <1>5 DEF Closes, TypeOK
<1>6. CASE status' = status
    BY <1>1, <1>6
<1>7. QED
    BY <1>3, <1>4, <1>5, <1>6 DEF Effect

LEMMA StepInv ==
    ASSUME SessionInv, NEW i \in Calls, Step(i)
    PROVE  SessionInv'
<1>1. TypeOK /\ CallInv(i) /\ Control(i)
    BY DEF SessionInv, CallInv
<1>2. Moved(i) /\ SessionTypes' /\ EvidenceTypes' /\ Effect(i)
    BY <1>1, StepMoves, StepEffect
<1>3. TypeOK'
    BY <1>2, TypesAgain DEF Moved
<1>4. ASSUME NEW j \in Calls PROVE CallInv(j)'
    <2>1. CallInv(j) /\ call' = call
        BY <1>2 DEF SessionInv, Moved
    <2>2. /\ \A k \in Calls : made'[k] >= made[k] /\ made[k] \in Nat /\ made'[k] \in Nat
          /\ \A k \in Calls \ {i} : made'[k] = made[k]
        BY <1>1, <1>2, <1>3, EffectRows DEF TypeOK
    <2>3. j # i => pc'[j] = pc[j] /\ clean'[j] = clean[j]
        BY <1>2 DEF Moved
    <2>4. /\ pc[i] \notin {"unused", "ok", "error"} /\ pc'[i] # "unused"
          /\ pc'[i] = "create_session" => pc[i] = "create_session"
          /\ \A k \in Calls \ {i} : pc'[k] = pc[k]
        BY <1>2 DEF Moved
    <2>5. Control(j)'
        BY <1>2, <2>1, <2>3 DEF Moved, CallInv, Control
    <2>6. Named(j)'
        <3>1. call[j].session # Unknown => call[j].session \in Calls
            BY <1>1 DEF TypeOK
        <3>2. QED
            BY <3>1, <2>1, <2>4 DEF CallInv, Named
    <2>7. Recorded(j)'
        <3>1. CASE j # i
            <4>1. PastRecord(j)' => PastRecord(j)
                BY <3>1, <2>1, <2>3 DEF PastRecord
            <4>2. QED
                BY <3>1, <4>1, <2>1, <2>2 DEF CallInv, Recorded
        <3>2. CASE j = i
            <4>1. SUFFICES ASSUME call[i].session # Unknown, PastRecord(i)' PROVE made'[i] > 0
                BY <3>2, <2>1 DEF Recorded
            <4>2. Rows(call[i].session) > 0 \/ call[i].tool = "start_agent_session"
                BY <4>1, OpenSession
            <4>3. PastRecord(i) \/ made'[i] > 0
                BY <1>2, <4>1, <4>2 DEF Moved
            <4>4. QED
                BY <1>1, <4>1, <4>3, <2>2 DEF CallInv, Recorded
        <3>3. QED
            BY <3>1, <3>2
    <2>8. Opened(j)'
        <3>1. CASE Opens(i)
            <4>1. call[i].tool = "start_agent_session"
                BY <3>1, <1>1 DEF Opens, Control
            <4>2. QED
                BY <1>1, <3>1, <4>1, <2>1, <2>2, <2>4 DEF Opens, CallInv, Opened, TypeOK
        <3>2. CASE Closes(i)
            <4> DEFINE s == call[i].session
            <4>1. s \in Calls /\ s # Unknown /\ call[i].tool = "complete_agent_session"
                BY <3>2, <1>1, SessionAssumption DEF Closes, Control
            <4>2. s # i /\ call[s].tool = "start_agent_session" /\ pc[s] = "ok" /\ made[s] > 0
                BY <4>1, OpenSession
            <4>3. call[i].final \in Statuses /\ status \in [Calls -> {"none", "active"} \union Statuses]
                BY <1>1 DEF TypeOK
            <4>4. status' = [status EXCEPT ![s] = call[i].final]
                BY <3>2 DEF Closes
            <4>5. CASE j = s
                BY <4>2, <4>3, <4>4, <4>5, <2>1, <2>2, <2>4, SessionAssumption DEF Opened
            <4>6. CASE j = i
                BY <4>1, <4>2, <4>3, <4>4, <4>6, <2>1, <2>4, <3>2 DEF Opened, CallInv, Closes
            <4>7. CASE j # s /\ j # i
                BY <4>3, <4>4, <4>7, <2>1, <2>2, <2>4 DEF Opened, CallInv
            <4>8. QED
                BY <4>5, <4>6, <4>7
        <3>3. CASE Adds(i) /\ status' = status
            <4>1. CASE j # i
                BY <3>3, <4>1, <2>1, <2>2, <2>4 DEF Opened, CallInv
            <4>2. CASE j = i
                <5>1. call[i].tool = "start_agent_session" /\ made'[i] # made[i] => made[i] > 0
                    BY <3>3, <1>1, RowsTypes DEF Adds, CallInv, Named
                <5>2. QED
                    BY <3>3, <4>2, <5>1, <2>1, <2>2, <2>4 DEF Opened, CallInv
            <4>3. QED
                BY <4>1, <4>2
        <3>4. QED
            BY <1>2, <3>1, <3>2, <3>3 DEF Effect
    <2>9. Unwritten(j)'
        <3>1. j # i => found'[j] = found[j]
            BY <1>2 DEF Effect, Finds
        <3>2. QED
            BY <3>1, <2>1, <2>2, <2>4 DEF CallInv, Unwritten
    <2>10. Closed(j)'
        <3> DEFINE s == call[j].session
        <3>1. SUFFICES ASSUME call[j].tool = "complete_agent_session", s # Unknown,
                              clean'[j], pc'[j] # "set_completed"
                       PROVE  status'[s] \in {call[h].final : h \in {j} \union Rivals(j)}
            BY <2>1 DEF Closed, Rivals, Of
        <3>2. s \in Calls /\ Rows(s) > 0
            BY <3>1, OpenSession
        <3>3. CASE pc[j] = "set_completed"
            <4>1. j = i
                BY <3>1, <3>3, <2>3
            <4>2. Closes(i)
                BY <1>1, <3>1, <3>2, <3>3, <4>1, StepCloses
            <4>3. status'[s] = call[j].final
                BY <1>1, <3>2, <4>1, <4>2 DEF Closes, TypeOK
            <4>4. QED
                BY <4>3
        <3>4. CASE pc[j] # "set_completed"
            <4>1. clean[j]
                BY <1>2, <2>3, <3>1 DEF Moved
            <4>2. QED
                BY <1>2, <2>1, <3>1, <3>4, <4>1, StaysClosed
        <3>5. QED
            BY <3>3, <3>4
    <2>11. Ordered(j)'
        <3>1. call[j].after \subseteq Calls
            BY <1>1 DEF TypeOK
        <3>2. QED
            BY <3>1, <2>1, <2>4 DEF CallInv, Ordered, Returned
    <2>12. QED
        BY <2>5, <2>6, <2>7, <2>8, <2>9, <2>10, <2>11 DEF CallInv
<1>5. QED
    BY <1>3, <1>4 DEF SessionInv

\* A call begins with arguments its client can have.
Begins(i) ==
    \E c \in Callers, t \in AllTools, s \in Calls \union {Unknown},
       k \in Calls \union {Unknown}, final \in Statuses :
        /\ Begin(i, c, t, s, k, final)
        /\ IF t = "start_agent_session" THEN s = i ELSE s \in Sessions \union {Unknown}
        /\ t = "complete_investigation" => k \in Investigations

LEMMA ToolBegins ==
    ASSUME NEW i \in Calls, NEW c \in Callers, BeginTool(i, c)
    PROVE  Begins(i)
<1>1. ASSUME NEW t \in AllTools \ {"start_agent_session", "complete_investigation"},
             InSession(i, c, t)
      PROVE  Begins(i)
    BY <1>1, SessionAssumption DEF InSession, SessionsFor, Sessions, Begins
<1>2. CASE StartAgentSession(i, c)
    BY <1>2, SessionAssumption DEF StartAgentSession, Begins, AllTools
<1>3. CASE StartInvestigation(i, c)
    BY <1>3, SessionAssumption DEF StartInvestigation, Begins, AllTools
<1>4. CASE CompleteInvestigation(i, c)
    BY <1>4, SessionAssumption DEF CompleteInvestigation, Investigations, Begins, AllTools
<1>5. CASE CompleteAgentSession(i, c)
    BY <1>5 DEF CompleteAgentSession, SessionsFor, Sessions, Begins, AllTools
<1>6. QED
    BY <1>1, <1>2, <1>3, <1>4, <1>5
    DEF BeginTool, QueryWithSession, UpdateHypothesis, RecordFinding, RecordRecommendation,
        RecordPattern, SpawnInvestigation, GetPatterns, MarkPatternUsed, AllTools

\* The call that begins, and what it leaves alone.
Begun(i) ==
    /\ pc[i] = "unused" /\ \A j \in Calls : j < i => pc[j] # "unused"
    /\ \A j \in Calls \ {i} : call'[j] = call[j] /\ pc'[j] = pc[j]
    /\ clean' = clean /\ UNCHANGED <<sessionData, evidence>>
    /\ call'[i].tool \in AllTools /\ pc'[i] = Entry(call'[i].tool)
    /\ call'[i].after = {j \in Calls : Returned(j)}
    /\ IF call'[i].tool = "start_agent_session" THEN call'[i].session = i
       ELSE call'[i].session \in Sessions \union {Unknown}
    /\ call'[i].tool = "complete_investigation" => call'[i].inv \in Investigations

LEMMA BeginsCall ==
    ASSUME TypeOK, NEW i \in Calls, Begins(i)
    PROVE  Begun(i) /\ TypeOK'
<1>1. PICK c \in Callers, t \in AllTools, s \in Calls \union {Unknown},
           k \in Calls \union {Unknown}, final \in Statuses :
          /\ Begin(i, c, t, s, k, final)
          /\ IF t = "start_agent_session" THEN s = i ELSE s \in Sessions \union {Unknown}
          /\ t = "complete_investigation" => k \in Investigations
    BY Zenon DEF Begins
<1>2. Entry(t) \in Points
    BY DEF Entry, Points, AllTools
<1> DEFINE r == [by |-> c, tool |-> t, session |-> s, inv |-> k, final |-> final,
                 after |-> {j \in Calls : Returned(j)}]
<1>3. call' = [call EXCEPT ![i] = r] /\ pc' = [pc EXCEPT ![i] = Entry(t)]
    BY <1>1 DEF Begin
<1>4. call'[i] = r /\ pc'[i] = Entry(t) /\ \A j \in Calls \ {i} : call'[j] = call[j] /\ pc'[j] = pc[j]
    BY <1>3 DEF TypeOK
<1>5. CallTypes'
    <2>1. r \in [by : Callers \union {Nobody}, tool : AllTools \union {"none"},
                 session : Calls \union {Unknown}, inv : Calls \union {Unknown},
                 final : Statuses, after : SUBSET Calls]
        OBVIOUS
    <2>2. clean' = clean /\ faults' = faults
        BY <1>1 DEF Begin
    <2> HIDE DEF r
    <2>3. QED
        BY <1>2, <1>3, <2>1, <2>2 DEF TypeOK, CallTypes
<1>6. clean' = clean /\ UNCHANGED <<sessionData, evidence>>
    BY <1>1 DEF Begin
<1>7. TypeOK'
    BY <1>5, <1>6, TypesAgain
    DEF sessionData, counters, records, evidence, TypeOK, SessionTypes, EvidenceTypes
<1>8. pc[i] = "unused" /\ \A j \in Calls : j < i => pc[j] # "unused"
    BY <1>1 DEF Begin
<1>9. QED
    BY <1>1, <1>4, <1>6, <1>7, <1>8 DEF Begun

LEMMA BeginInv ==
    ASSUME SessionInv, NEW i \in Calls, Begins(i)
    PROVE  SessionInv'
<1>1. Begun(i) /\ TypeOK'
    BY BeginsCall DEF SessionInv
<1>2. /\ pc[i] = "unused" /\ \A j \in Calls \ {i} : call'[j] = call[j] /\ pc'[j] = pc[j]
      /\ status' = status /\ made' = made /\ found' = found /\ clean' = clean
    BY <1>1 DEF Begun, sessionData, records
<1>3. pc'[i] = Entry(call'[i].tool) /\ call'[i].tool \in AllTools
    BY <1>1 DEF Begun
<1>4. ASSUME NEW j \in Calls, j # i PROVE CallInv(j)'
    <2>1. CallInv(j) /\ call'[j] = call[j] /\ pc'[j] = pc[j]
        BY <1>2, <1>4 DEF SessionInv
    <2>2. (clean'[j] <=> clean[j])
        BY <1>2
    <2>3. call[j].session # Unknown => call[j].session \in Calls
        BY DEF SessionInv, TypeOK
    <2>4. Named(j)'
        BY <1>2, <2>1, <2>3 DEF CallInv, Named
    <2>5. call[j].after \subseteq Calls
        BY DEF SessionInv, TypeOK
    <2>6. Ordered(j)'
        BY <1>2, <1>4, <2>1, <2>5 DEF CallInv, Ordered, Returned
    <2>7. Control(j)' /\ Opened(j)' /\ Unwritten(j)'
        BY <1>2, <2>1, <2>2 DEF CallInv, Control, Opened, Unwritten
    <2>10. Closed(j)'
        <3>1. Rivals(j) \subseteq Rivals(j)' /\ \A h \in {j} \union Rivals(j) : call'[h] = call[h]
            <4>1. call[i].tool = "none"
                BY <1>2 DEF SessionInv, CallInv, Control
            <4>2. QED
                BY <1>2, <1>4, <2>1, <4>1 DEF Rivals, Of
        <3>2. QED
            BY <1>2, <2>1, <2>2, <3>1 DEF CallInv, Closed
    <2>8. Recorded(j)'
        BY <1>2, <2>1, <2>2 DEF CallInv, Recorded, PastRecord
    <2>9. QED
        BY <2>4, <2>6, <2>7, <2>8, <2>10 DEF CallInv
<1>5. CallInv(i)'
    <2>1. made[i] = 0 /\ status[i] = "none"
        BY <1>2 DEF SessionInv, CallInv, Unwritten, Opened
    <2>2. Control(i)' /\ ~PastRecord(i)' /\ pc'[i] # "unused"
        BY <1>3 DEF Entry, AllTools, Control, PastRecord
    <2>3. Named(i)'
        <3>1. CASE call'[i].tool = "start_agent_session"
            BY <1>1, <3>1 DEF Begun, Named
        <3>2. CASE call'[i].tool # "start_agent_session"
            <4>1. call'[i].session \in Sessions \union {Unknown}
                BY <1>1, <3>2 DEF Begun
            <4>2. QED
                BY <1>2, <3>2, <4>1 DEF Named, Sessions
        <3>3. QED
            BY <3>1, <3>2
    <2>4. Opened(i)' /\ Closed(i)'
        <3>1. call'[i].tool = "complete_agent_session" => pc'[i] = "set_completed"
            BY <1>3 DEF Entry
        <3>2. QED
            BY <1>2, <2>1, <3>1 DEF Opened, Closed
    <2>5. Ordered(i)'
        <3>1. call'[i].after = {j \in Calls : Returned(j)} /\ \A j \in Calls : j < i => pc[j] # "unused"
            BY <1>1 DEF Begun
        <3>2. \A j \in Calls \ {i} : pc'[j] = pc[j]
            BY <1>2
        <3>3. \A j \in call'[i].after : Returned(j)'
            BY <3>1, <3>2, <1>2 DEF Returned
        <3>4. ~(i < i)
            BY SessionAssumption
        <3>5. QED
            BY <3>1, <3>2, <3>3, <3>4 DEF Ordered
    <2>6. QED
        BY <2>2, <2>3, <2>4, <2>5 DEF CallInv, Recorded, Unwritten
<1>6. QED
    BY <1>1, <1>4, <1>5 DEF SessionInv

LEMMA InvStable == ASSUME SessionInv, UNCHANGED sessionVars PROVE SessionInv'
BY DEF sessionVars, callVars, sessionData, counters, records, evidence, SessionInv, TypeOK,
       CallInv, Control, Named, Recorded, PastRecord, Opened, Unwritten, Closed, Rivals, Of,
       Ordered, Returned

LEMMA NextInv == ASSUME SessionInv, [Next]_sessionVars PROVE SessionInv'
<1>1. ASSUME NEW i \in Calls, NEW c \in Callers, BeginTool(i, c) PROVE SessionInv'
    BY <1>1, ToolBegins, BeginInv
<1>2. QED
    BY <1>1, StepInv, InvStable DEF Next

\* The invariant of the tools.
LEMMA SessionInvariant == Spec => []SessionInv
<1>1. Init => SessionInv
    BY InitInv
<1>2. SessionInv /\ [Next]_sessionVars => SessionInv'
    BY NextInv
<1>3. QED
    BY <1>1, <1>2, PTL DEF Spec

-----------------------------------------------------------------------------
(***************************************************************************)
(* What the notifications say is in the graph.                             *)
(***************************************************************************)

LEMMA ToldPast ==
    ASSUME NEW i \in Calls, Told(i)
    PROVE  PastRecord(i) /\ call[i].tool \in Announcing /\ call[i].session # Unknown
BY DEF Told, PastRecord, Announcing

\* Every variable of the tools stays in its type, and the calls use their sessions.
THEOREM SessionTypeOK == Spec => []TypeOK
<1>1. SessionInv => TypeOK
    BY DEF SessionInv
<1>2. QED
    BY <1>1, SessionInvariant, PTL

\* What the SSE clients were told of is in the graph, whatever statements fail or
\* are sent twice: emit comes after the statement that stores, and its session was
\* opened before the call began.
THEOREM AnnouncementsAreStored == Spec => []AnnouncedIsStored
<1>1. SessionInv => AnnouncedIsStored
    BY ToldPast DEF SessionInv, CallInv, Recorded, AnnouncedIsStored
<1>2. QED
    BY <1>1, SessionInvariant, PTL

-----------------------------------------------------------------------------
(***************************************************************************)
(* The tools keep the ledger's promises.                                   *)
(***************************************************************************)

\* A call is in the log of its session once it has left a row or a finding there.
HasRow(i) == made[i] > 0 \/ found[i] > 0

LEMMA SameLog ==
    ASSUME call' = call, \A j \in Calls : HasRow(j)' <=> HasRow(j)
    PROVE  \A s \in Calls : Log(s)' = Log(s)
BY DEF Log, HasRow

\* A first row of call i puts it into the log of its session.
LEMMA LogGrows ==
    ASSUME NEW i \in Calls, call' = call, \A j \in Calls \ {i} : HasRow(j)' <=> HasRow(j),
           HasRow(i)', NEW s \in Calls, s = call[i].session
    PROVE  [t \in Calls |-> Log(t)'] =
               [[t \in Calls |-> Log(t)] EXCEPT ![s] = @ \union {i}]
<1>1. Log(s)' = Log(s) \union {i}
    BY DEF Log, HasRow
<1>2. \A t \in Calls \ {s} : Log(t)' = Log(t)
    BY DEF Log, HasRow
<1>3. QED
    BY <1>1, <1>2

\* Only the step that emits lets the clients know of a call.
LEMMA Announced ==
    ASSUME SessionInv, NEW i \in Calls, Moved(i)
    PROVE  /\ pc[i] # "emit" => \A j \in Calls : Told(j)' <=> Told(j)
           /\ \A j \in Calls \ {i} : Told(j)' <=> Told(j)
           /\ ~Told(i)
<1>1. call' = call /\ pc[i] # "ok" /\ \A j \in Calls \ {i} : pc'[j] = pc[j] /\ clean'[j] = clean[j]
    BY DEF Moved
<1>2. \A j \in Calls \ {i} : Told(j)' <=> Told(j)
    BY <1>1 DEF Told
<1>3. ~Told(i)
    BY <1>1 DEF Told
<1>4. pc[i] # "emit" => ~Told(i)'
    <2>1. pc'[i] = "ok" /\ call[i].tool \in Announcing => pc[i] = "emit"
        BY DEF Moved
    <2>2. QED
        BY <1>1, <2>1 DEF Told, Announcing
<1>5. QED
    BY <1>2, <1>3, <1>4

LEMMA StepLedger ==
    ASSUME SessionInv, NEW i \in Calls, Step(i)
    PROVE  [Ledger!Next]_Ledger!ledgerVars
<1> DEFINE s == call[i].session
           log == [t \in Calls |-> Log(t)]
           asked == [t \in Calls |-> AskedOf(t)]
           announced == {j \in Calls : Told(j)}
<1>1. TypeOK /\ CallInv(i)
    BY DEF SessionInv
<1>2. Moved(i) /\ Effect(i) /\ SessionInv'
    BY <1>1, StepMoves, StepEffect, StepInv DEF CallInv
<1>3. call' = call /\ \A j \in Calls \ {i} : HasRow(j)' <=> HasRow(j)
    BY <1>1, <1>2, EffectRows DEF Moved, Effect, Finds, HasRow
<1>9. asked' = asked
    BY <1>3 DEF AskedOf, Of
<1>4. made[i] \in Nat /\ made'[i] \in Nat /\ made'[i] >= made[i] /\ (s # Unknown => s \in Calls)
    BY <1>1, <1>2, EffectRows DEF TypeOK, SessionInv
<1>5. /\ pc[i] # "emit" => \A j \in Calls : Told(j)' <=> Told(j)
      /\ \A j \in Calls \ {i} : Told(j)' <=> Told(j)
      /\ ~Told(i)
    BY <1>2, Announced
<1>6. CASE pc[i] = "emit"
    <2>1. made' = made /\ status' = status
        BY <1>6, StepAt DEF Emit, sessionData, records
    <2>2. \A t \in Calls : Log(t)' = Log(t)
        <3>1. found' = found
            BY <1>6, StepAt DEF Emit, sessionData, records
        <3>2. QED
            BY <1>3, <2>1, <3>1, SameLog DEF HasRow
    <2>3. CASE Told(i)'
        <3>1. s \in Calls /\ made'[i] > 0
            BY <1>2, <1>3, <1>4, <2>3 DEF SessionInv, CallInv, Recorded, PastRecord, Told
        <3>2. i \in Log(s)
            BY <2>1, <3>1 DEF Log
        <3>3. announced' = announced \union {i}
            BY <1>5, <2>3
        <3>4. Ledger!Announce(s, i)
            BY <1>9, <2>1, <2>2, <3>1, <3>2, <3>3 DEF Ledger!Announce
        <3>5. QED
            BY <3>1, <3>4 DEF Ledger!Next
    <2>4. CASE ~Told(i)'
        <3>1. announced' = announced
            BY <1>5, <2>4
        <3>2. QED
            BY <1>9, <2>1, <2>2, <3>1 DEF Ledger!ledgerVars
    <2>5. QED
        BY <2>3, <2>4
<1>7. CASE pc[i] # "emit"
    <2>1. announced' = announced
        BY <1>5, <1>7
    <2>2. ASSUME HasRow(i)' <=> HasRow(i), status' = status
          PROVE  UNCHANGED Ledger!ledgerVars
        <3>1. \A j \in Calls : HasRow(j)' <=> HasRow(j)
            BY <1>3, <2>2
        <3>2. \A t \in Calls : Log(t)' = Log(t)
            BY <1>3, <3>1, SameLog
        <3>3. QED
            BY <1>9, <2>1, <2>2, <3>2 DEF Ledger!ledgerVars
    <2>3. CASE Opens(i)
        <3>1. s = i /\ call[i].tool = "start_agent_session" /\ made'[i] > 0
            BY <1>1, <2>3 DEF Opens, CallInv, Control, Named, TypeOK
        <3>2. CASE made[i] > 0
            <4>1. status[i] = "active"
                BY <1>1, <2>3, <3>1, <3>2 DEF Opens, CallInv, Opened
            <4>2. status' = status
                BY <1>1, <2>3, <4>1 DEF Opens, TypeOK
            <4>3. QED
                BY <2>2, <3>1, <3>2, <4>2 DEF HasRow
        <3>3. CASE ~(made[i] > 0)
            <4>1. status[i] = "none"
                BY <1>1, <3>3 DEF CallInv, Opened
            <4>2. Log(i) \subseteq {i}
                <5>1. ASSUME NEW j \in Calls, call[j].session = i PROVE j = i
                    <6>1. i # Unknown
                        BY SessionAssumption
                    <6>2. call[j].tool # "start_agent_session" => pc[i] = "ok"
                        BY <5>1, <6>1 DEF SessionInv, CallInv, Named
                    <6>3. call[j].tool = "start_agent_session" => i = j
                        BY <5>1 DEF SessionInv, CallInv, Named
                    <6>4. QED
                        BY <2>3, <6>2, <6>3 DEF Opens
                <5>2. QED
                    BY <5>1 DEF Log
            <4>3. [t \in Calls |-> Log(t)'] = [log EXCEPT ![i] = @ \union {i}]
                BY <1>3, <3>1, LogGrows DEF HasRow
            <4>4. [t \in Calls |-> Log(t)'] = [log EXCEPT ![i] = {i}]
                BY <4>2, <4>3
            <4>5. Ledger!Open(i)
                BY <1>9, <2>1, <2>3, <4>1, <4>4 DEF Opens, Ledger!Open
            <4>6. QED
                BY <4>5 DEF Ledger!Next
        <3>4. QED
            BY <3>2, <3>3
    <2>4. CASE Closes(i)
        <3>1. s \in Calls /\ s # Unknown /\ call[i].tool = "complete_agent_session"
            BY <1>1, <2>4, SessionAssumption DEF Closes, CallInv, Control
        <3>2. status[s] # "none" /\ Rows(s) > 0
            BY <3>1, OpenSession
        <3>3. made'[i] > 0
            BY <1>1, <2>4, <3>2, RowsTypes DEF Closes, TypeOK
        <3>4. [t \in Calls |-> Log(t)'] = [log EXCEPT ![s] = @ \union {i}]
            BY <1>3, <3>1, <3>3, LogGrows DEF HasRow
        <3>5. call[i].final \in Statuses /\ call[i].final \in AskedOf(s)
            BY <1>1, <3>1 DEF TypeOK, AskedOf, Of
        <3>6. Ledger!Complete(s, i, call[i].final)
            BY <1>9, <2>1, <2>4, <3>1, <3>4, <3>5 DEF Closes, Ledger!Complete
        <3>7. QED
            BY <3>1, <3>5, <3>6 DEF Ledger!Next
    <2>5. CASE Adds(i) /\ status' = status
        <3>1. CASE HasRow(i)' <=> HasRow(i)
            BY <2>2, <2>5, <3>1
        <3>2. CASE HasRow(i)' /\ ~HasRow(i)
            <4>1. Rows(s) > 0
                <5>1. Finds(i) /\ (made'[i] # made[i] \/ found'[i] # found[i])
                    BY <1>2, <3>2 DEF Effect, HasRow
                <5>2. QED
                    BY <2>5, <5>1 DEF Adds, Finds
            <4>2. s \in Calls /\ s # Unknown /\ made[s] > 0
                BY <1>1, <4>1, RowsTypes, SessionAssumption
            <4>3. s # i
                BY <3>2, <4>2 DEF HasRow
            <4>4. status[s] # "none"
                BY <1>1, <4>2, <4>3, OpenSession DEF CallInv, Named
            <4>5. [t \in Calls |-> Log(t)'] = [log EXCEPT ![s] = @ \union {i}]
                BY <1>3, <3>2, <4>2, LogGrows
            <4>6. Ledger!Record(s, i)
                BY <1>9, <2>1, <2>5, <4>4, <4>5 DEF Ledger!Record
            <4>7. QED
                BY <4>2, <4>6 DEF Ledger!Next
        <3>3. CASE HasRow(i) /\ ~HasRow(i)'
            BY <1>1, <1>2, <1>4, <3>3 DEF HasRow, Effect, Finds, TypeOK
        <3>4. QED
            BY <3>1, <3>2, <3>3
    <2>6. QED
        BY <1>2, <2>3, <2>4, <2>5 DEF Effect
<1>8. QED
    BY <1>6, <1>7

\* A call that begins has recorded and announced nothing, and may ask for a status.
LEMMA BeginLedger ==
    ASSUME SessionInv, NEW i \in Calls, Begins(i)
    PROVE  [Ledger!Next]_Ledger!ledgerVars
<1> DEFINE asked == [t \in Calls |-> AskedOf(t)]
<1>9. PICK s, final : s = call'[i].session /\ final = call'[i].final
    OBVIOUS
<1>1. Begun(i) /\ SessionInv'
    BY BeginsCall, BeginInv DEF SessionInv
<1>2. /\ pc[i] = "unused" /\ \A j \in Calls \ {i} : call'[j] = call[j] /\ pc'[j] = pc[j]
      /\ status' = status /\ made' = made /\ found' = found /\ clean' = clean
    BY <1>1 DEF Begun, sessionData, records
<1>3. made[i] = 0 /\ found[i] = 0 /\ call[i].tool = "none"
    BY <1>2 DEF SessionInv, CallInv, Unwritten, Control
<1>4. \A t \in Calls : Log(t)' = Log(t)
    BY <1>2, <1>3 DEF Log
<1>5. \A j \in Calls : Told(j)' <=> Told(j)
    <2>1. ~Told(i) /\ ~Told(i)'
        BY <1>1, <1>2 DEF Told, Begun, Entry
    <2>2. \A j \in Calls \ {i} : Told(j)' <=> Told(j)
        BY <1>2 DEF Told
    <2>3. QED
        BY <2>1, <2>2
<1>6. CASE call'[i].tool = "complete_agent_session" /\ s \in Calls
    <2>1. AskedOf(s)' = AskedOf(s) \union {final}
        BY <1>2, <1>3, <1>6, <1>9 DEF AskedOf, Of
    <2>2. \A t \in Calls \ {s} : AskedOf(t)' = AskedOf(t)
        BY <1>2, <1>3, <1>6, <1>9 DEF AskedOf, Of
    <2>3. [t \in Calls |-> AskedOf(t)'] = [asked EXCEPT ![s] = @ \union {final}]
        BY <1>6, <2>1, <2>2
    <2>4. status[s] # "none"
        <3>1. s # Unknown
            BY <1>6, SessionAssumption
        <3>2. status'[s] # "none"
            <4>1. call'[s].tool = "start_agent_session" /\ pc'[s] = "ok"
                BY <1>1, <1>6, <1>9, <3>1 DEF SessionInv, CallInv, Named
            <4>2. call'[s].session = s
                BY <1>1, <1>6, <4>1 DEF SessionInv, CallInv, Named
            <4>3. made'[s] > 0
                BY <1>1, <1>6, <1>9, <3>1, <4>1, <4>2 DEF SessionInv, CallInv, Recorded, PastRecord
            <4>4. QED
                BY <1>1, <1>6, <4>1, <4>3 DEF SessionInv, CallInv, Opened
        <3>3. QED
            BY <1>2, <3>2
    <2>5. final \in Statuses
        BY <1>1, <1>9 DEF SessionInv, TypeOK
    <2>6. Ledger!Ask(s, final)
        BY <1>2, <1>4, <1>5, <2>3, <2>4 DEF Ledger!Ask
    <2>7. QED
        BY <1>6, <2>5, <2>6 DEF Ledger!Next
<1>7. CASE call'[i].tool # "complete_agent_session" \/ s \notin Calls
    <2>1. \A t \in Calls : AskedOf(t)' = AskedOf(t)
        BY <1>2, <1>3, <1>7, <1>9 DEF AskedOf, Of
    <2>2. QED
        BY <1>2, <1>4, <1>5, <2>1 DEF Ledger!ledgerVars
<1>8. QED
    BY <1>6, <1>7

LEMMA SameLedger == ASSUME UNCHANGED sessionVars PROVE UNCHANGED Ledger!ledgerVars
<1>1. /\ call' = call /\ pc' = pc /\ clean' = clean /\ status' = status
      /\ made' = made /\ found' = found
    BY DEF sessionVars, callVars, sessionData, records
<1>2. /\ \A s \in Calls : Log(s)' = Log(s) /\ AskedOf(s)' = AskedOf(s)
      /\ \A j \in Calls : Told(j)' <=> Told(j)
    BY <1>1 DEF Log, AskedOf, Of, Told
<1>3. QED
    BY <1>1, <1>2 DEF Ledger!ledgerVars

\* The tools implement the ledger: a session is opened once, and its status then only
\* set to what a completion of it asked for; records, automatic findings among them,
\* only go to sessions that exist and stay; an announced call has its record.
THEOREM SessionsImplementLedger == Spec => ImplementsLedger
<1>1. Init => Ledger!Init
    <2> SUFFICES ASSUME Init PROVE Ledger!Init
        OBVIOUS
    <2>1. /\ status = [s \in Calls |-> "none"]
          /\ \A i \in Calls : /\ made[i] = 0 /\ found[i] = 0
                              /\ pc[i] = "unused" /\ call[i].tool = "none"
        BY DEF Init, NoCall
    <2>2. \A i \in Calls : Log(i) = {} /\ AskedOf(i) = {} /\ ~Told(i)
        BY <2>1 DEF Log, AskedOf, Of, Told
    <2>3. QED
        BY <2>1, <2>2 DEF Ledger!Init
<1>2. SessionInv /\ [Next]_sessionVars => [Ledger!Next]_Ledger!ledgerVars
    <2>1. ASSUME SessionInv, NEW i \in Calls, NEW c \in Callers, BeginTool(i, c)
          PROVE  [Ledger!Next]_Ledger!ledgerVars
        BY <2>1, ToolBegins, BeginLedger
    <2>2. QED
        BY <2>1, StepLedger, SameLedger DEF Next
<1>3. QED
    BY <1>1, <1>2, SessionInvariant, PTL DEF Spec, ImplementsLedger, Ledger!Spec

-----------------------------------------------------------------------------
(***************************************************************************)
(* The loop is one of the callers.                                         *)
(***************************************************************************)

LoopTypes ==
    /\ at \in [Agents -> {"generate", "call", "closing", "reported"}]
    /\ sessionID \in [Agents -> Calls \union {Unknown}]
    /\ outcome \in [Agents -> {"none", "failed", "completed", "timeout"}]

\* What a worker has captured is a session that was opened; once it has asked for
\* the completion at the limit, that is its last call.
WorkerInv(w) ==
    /\ sessionID[w] \in Sessions \union {Unknown}
    /\ outcome[w] # "none" => at[w] = "reported"
    /\ \A i \in Calls :
        LastCall(w, i) /\ (at[w] = "closing" \/ outcome[w] = "timeout") =>
            /\ call[i].tool = "complete_agent_session"
            /\ call[i].session = sessionID[w] /\ sessionID[w] # Unknown
            /\ call[i].final = "timeout"
            /\ outcome[w] = "timeout" => Returned(i)

LoopInv == LoopTypes /\ \A w \in Agents : WorkerInv(w)

\* What the workers and the clients do, the tools do.
LEMMA LoopTools ==
    ASSUME LoopInv, LoopNext
    PROVE  Next \/ UNCHANGED sessionVars
<1>1. ASSUME NEW c \in Callers, CallTool(c) PROVE Next
    BY <1>1 DEF CallTool, Next
<1>2. ASSUME NEW w \in Agents, CloseSession(w) PROVE Next
    <2>1. PICK i \in Calls :
              Begin(i, w, "complete_agent_session", sessionID[w], Unknown, "timeout")
        BY <1>2 DEF CloseSession
    <2>2. w \in Callers /\ sessionID[w] \in Sessions
        BY <1>2, LoopAssumption DEF CloseSession, LoopInv, WorkerInv
    <2>3. CompleteAgentSession(i, w)
        BY <2>1, <2>2, SessionAssumption DEF CompleteAgentSession, SessionsFor
    <2>4. QED
        BY <2>2, <2>3 DEF BeginTool, Next
<1>3. ASSUME NEW w \in Agents, LoopStep(w) PROVE Next \/ UNCHANGED sessionVars
    <2>1. w \in Callers
        BY LoopAssumption
    <2>2. QED
        BY <1>1, <1>2, <1>3, <2>1
        DEF LoopStep, GenerateFails, Answer, CallFirst, CallNext, EndIteration, ReportTimeout,
            ReportExceeded, Report
<1>4. QED
    BY <1>1, <1>3 DEF LoopNext, Next

\* A call that has returned stays so, and its arguments stay.
LEMMA ReturnedStays ==
    ASSUME SessionInv, Next \/ UNCHANGED sessionVars, NEW j \in Calls, Returned(j)
    PROVE  pc'[j] = pc[j] /\ call'[j] = call[j]
<1>1. ASSUME NEW i \in Calls, Step(i) PROVE pc'[j] = pc[j] /\ call'[j] = call[j]
    <2>1. Moved(i)
        BY <1>1, StepMoves DEF SessionInv, CallInv
    <2>2. QED
        BY <2>1 DEF Moved, Returned
<1>2. ASSUME NEW i \in Calls, NEW c \in Callers, BeginTool(i, c)
      PROVE  pc'[j] = pc[j] /\ call'[j] = call[j]
    <2>1. Begun(i)
        BY <1>2, ToolBegins, BeginsCall DEF SessionInv
    <2>2. QED
        BY <2>1 DEF Begun, Returned
<1>3. QED
    BY <1>1, <1>2 DEF Next, sessionVars, callVars

LEMMA SessionsStay ==
    ASSUME SessionInv, Next \/ UNCHANGED sessionVars
    PROVE  Sessions \subseteq Sessions'
BY ReturnedStays DEF Sessions, Returned

\* A call that begins is its caller's last one, and nobody else's.
LEMMA BeginsLast ==
    ASSUME SessionInv, NEW i \in Calls, NEW c \in Callers, NEW t, NEW s, NEW k, NEW final,
           Begin(i, c, t, s, k, final)
    PROVE  /\ call'[i].by = c /\ call'[i].tool = t /\ call'[i].session = s
           /\ call'[i].final = final
           /\ \A j \in Calls : LastCall(c, j)' => j = i
           /\ \A w \in Callers \ {c}, j \in Calls :
                  LastCall(w, j)' => LastCall(w, j) /\ j # i /\ call'[j] = call[j]
                                     /\ pc'[j] = pc[j]
<1>1. /\ call' = [call EXCEPT ![i] = [by |-> c, tool |-> t, session |-> s, inv |-> k,
                                      final |-> final, after |-> {j \in Calls : Returned(j)}]]
      /\ pc' = [pc EXCEPT ![i] = Entry(t)] /\ pc[i] = "unused"
    BY DEF Begin
<1>2. /\ call'[i].by = c /\ call'[i].tool = t /\ call'[i].session = s
      /\ call'[i].final = final
      /\ \A j \in Calls \ {i} : call'[j] = call[j] /\ pc'[j] = pc[j]
    BY <1>1 DEF SessionInv, TypeOK
<1>3. ASSUME NEW j \in Calls, LastCall(c, j)', j # i PROVE FALSE
    <2>1. call[j].by = c /\ i <= j
        BY <1>2, <1>3 DEF LastCall
    <2>2. pc[j] # "unused"
        <3>1. NoCall.by # c
            BY SessionAssumption DEF NoCall
        <3>2. QED
            BY <2>1, <3>1 DEF SessionInv, CallInv, Unwritten
    <2>3. i < j
        BY <1>3, <2>1, SessionAssumption
    <2>4. QED
        BY <1>1, <2>2, <2>3 DEF SessionInv, CallInv, Ordered
<1>4. ASSUME NEW w \in Callers \ {c}, NEW j \in Calls, LastCall(w, j)'
      PROVE  LastCall(w, j) /\ j # i /\ call'[j] = call[j] /\ pc'[j] = pc[j]
    <2>1. NoCall.by # w /\ call[i] = NoCall
        BY <1>1, SessionAssumption DEF NoCall, SessionInv, CallInv, Unwritten
    <2>2. QED
        BY <1>2, <1>4, <2>1 DEF LastCall
<1>5. QED
    BY <1>2, <1>3, <1>4

LEMMA ToolLast ==
    ASSUME SessionInv, NEW i \in Calls, NEW c \in Callers, BeginTool(i, c)
    PROVE  \A w \in Callers \ {c}, j \in Calls :
               LastCall(w, j)' => LastCall(w, j) /\ call'[j] = call[j] /\ pc'[j] = pc[j]
<1>1. \E t, s, k, final : Begin(i, c, t, s, k, final)
    BY Zenon DEF BeginTool, StartAgentSession, QueryWithSession, UpdateHypothesis, RecordFinding,
       RecordRecommendation, RecordPattern, SpawnInvestigation, GetPatterns, MarkPatternUsed,
       CompleteAgentSession, StartInvestigation, CompleteInvestigation, InSession
<1>2. QED
    BY <1>1, BeginsLast

\* A worker keeps its invariant while the others, and the handlers, move.
LEMMA WorkerStays ==
    ASSUME SessionInv, LoopInv, Next \/ UNCHANGED sessionVars, NEW w \in Agents,
           at'[w] = at[w], outcome'[w] = outcome[w], sessionID'[w] = sessionID[w],
           \A j \in Calls : LastCall(w, j)' => LastCall(w, j) /\ call'[j] = call[j]
    PROVE  WorkerInv(w)'
<1>1. WorkerInv(w)
    BY DEF LoopInv
<1>2. sessionID'[w] \in Sessions' \union {Unknown}
    BY <1>1, SessionsStay DEF WorkerInv
<1>3. \A j \in Calls : Returned(j) => Returned(j)'
    BY ReturnedStays DEF Returned
<1>4. QED
    BY <1>1, <1>2, <1>3 DEF WorkerInv

\* A worker that is in the middle of its work, or has reported without a timeout.
LEMMA WorkerOpen ==
    ASSUME NEW w \in Agents, sessionID'[w] \in Sessions' \union {Unknown},
           at'[w] # "closing" /\ outcome'[w] # "timeout",
           outcome'[w] # "none" => at'[w] = "reported"
    PROVE  WorkerInv(w)'
BY DEF WorkerInv

\* What a step of worker w leaves alone of the other workers.
Others(w) ==
    /\ LoopTypes'
    /\ \A v \in Agents \ {w} :
        /\ at'[v] = at[v] /\ outcome'[v] = outcome[v] /\ sessionID'[v] = sessionID[v]
        /\ \A j \in Calls : LastCall(v, j)' => LastCall(v, j) /\ call'[j] = call[j]

LEMMA OthersStay ==
    ASSUME SessionInv, LoopInv, Next \/ UNCHANGED sessionVars, NEW w \in Agents,
           Others(w), WorkerInv(w)'
    PROVE  LoopInv'
<1>1. \A v \in Agents \ {w} : WorkerInv(v)'
    BY WorkerStays DEF Others
<1>2. QED
    BY <1>1 DEF LoopInv, Others

LEMMA ReportInv ==
    ASSUME SessionInv, LoopInv, NEW w \in Agents,
           NEW how \in {"failed", "completed", "timeout"}, Report(w, how),
           how = "timeout" => at[w] = "closing" /\ Idle(w)
    PROVE  LoopInv'
<1>1. /\ UNCHANGED sessionVars /\ sessionID' = sessionID
      /\ at' = [at EXCEPT ![w] = "reported"] /\ outcome' = [outcome EXCEPT ![w] = how]
    BY DEF Report
<1>2. call' = call /\ pc' = pc
    BY <1>1 DEF sessionVars, callVars
<1>3. LoopTypes /\ WorkerInv(w)
    BY DEF LoopInv
<1>4. Others(w) /\ at'[w] = "reported" /\ outcome'[w] = how /\ sessionID'[w] = sessionID[w]
    BY <1>1, <1>2, <1>3 DEF LoopTypes, Others, LastCall
<1>5. Sessions' = Sessions
    BY <1>2 DEF Sessions
<1>6. WorkerInv(w)'
    <2>1. CASE how = "timeout"
        <3>1. \A i \in Calls : LastCall(w, i) => Returned(i)'
            BY <1>2, <2>1 DEF LastCall, Idle, Returned
        <3>2. QED
            BY <1>2, <1>3, <1>4, <1>5, <2>1, <3>1 DEF WorkerInv, LastCall
    <2>2. CASE how # "timeout"
        BY <1>3, <1>4, <1>5, <2>2, WorkerOpen DEF WorkerInv
    <2>3. QED
        BY <2>1, <2>2
<1>7. QED
    BY <1>1, <1>4, <1>6, OthersStay

LEMMA CaptureTypes ==
    ASSUME LoopInv, NEW w \in Agents, Capture(w)
    PROVE  /\ sessionID' \in [Agents -> Calls \union {Unknown}]
           /\ sessionID'[w] \in Sessions \union {Unknown}
           /\ \A v \in Agents \ {w} : sessionID'[v] = sessionID[v]
BY DEF Capture, LoopInv, LoopTypes, WorkerInv, Sessions

LEMMA LoopStepInv ==
    ASSUME SessionInv, LoopInv, NEW w \in Agents, LoopStep(w)
    PROVE  LoopInv'
<1>1. LoopTypes /\ WorkerInv(w) /\ Agents \subseteq Callers /\ w \in Callers
    BY LoopAssumption DEF LoopInv
<1>2. Next \/ UNCHANGED sessionVars
    BY LoopTools DEF LoopNext
<1>3. ASSUME CallTool(w)
      PROVE  \A v \in Agents \ {w}, j \in Calls :
                 LastCall(v, j)' => LastCall(v, j) /\ call'[j] = call[j]
    BY <1>1, <1>3, ToolLast DEF CallTool
<1>4. CASE GenerateFails(w) \/ Answer(w) \/ ReportTimeout(w) \/ ReportExceeded(w)
    BY <1>4, ReportInv DEF GenerateFails, Answer, ReportTimeout, ReportExceeded
<1>5. CASE CallFirst(w)
    <2>1. /\ at[w] = "generate" /\ at' = [at EXCEPT ![w] = "call"] /\ CallTool(w)
          /\ sessionID' = sessionID /\ outcome' = outcome
        BY <1>5 DEF CallFirst
    <2>2. Others(w) /\ at'[w] = "call" /\ outcome'[w] = "none"
        BY <1>1, <1>3, <2>1 DEF LoopTypes, WorkerInv, Others
    <2>3. sessionID'[w] \in Sessions' \union {Unknown}
        BY <1>1, <1>2, <2>1, SessionsStay DEF WorkerInv
    <2>4. QED
        BY <1>2, <2>2, <2>3, WorkerOpen, OthersStay
<1>6. CASE CallNext(w)
    <2>1. at[w] = "call" /\ at' = at /\ CallTool(w) /\ Capture(w) /\ outcome' = outcome
        BY <1>6 DEF CallNext
    <2>2. Others(w) /\ at'[w] = "call" /\ outcome'[w] = "none"
        BY <1>1, <1>3, <2>1, CaptureTypes DEF LoopTypes, WorkerInv, Others
    <2>3. sessionID'[w] \in Sessions' \union {Unknown}
        BY <1>2, <2>1, CaptureTypes, SessionsStay
    <2>4. QED
        BY <1>2, <2>2, <2>3, WorkerOpen, OthersStay
<1>7. CASE EndIteration(w)
    <2>1. /\ at[w] = "call" /\ at' = [at EXCEPT ![w] = "generate"] /\ Capture(w)
          /\ outcome' = outcome /\ UNCHANGED sessionVars /\ call' = call
        BY <1>7 DEF EndIteration, sessionVars, callVars
    <2>2. Others(w) /\ at'[w] = "generate" /\ outcome'[w] = "none"
        BY <1>1, <2>1, CaptureTypes DEF LoopTypes, WorkerInv, Others, LastCall
    <2>3. sessionID'[w] \in Sessions' \union {Unknown}
        BY <1>2, <2>1, CaptureTypes, SessionsStay
    <2>4. QED
        BY <1>2, <2>2, <2>3, WorkerOpen, OthersStay
<1>8. CASE CloseSession(w)
    <2>1. /\ at[w] = "generate" /\ at' = [at EXCEPT ![w] = "closing"]
          /\ sessionID[w] # Unknown /\ sessionID' = sessionID /\ outcome' = outcome
        BY <1>8 DEF CloseSession
    <2>2. PICK i \in Calls :
              Begin(i, w, "complete_agent_session", sessionID[w], Unknown, "timeout")
        BY <1>8 DEF CloseSession
    <2>3. /\ call'[i].tool = "complete_agent_session" /\ call'[i].session = sessionID[w]
          /\ call'[i].final = "timeout"
          /\ \A j \in Calls : LastCall(w, j)' => j = i
          /\ \A v \in Callers \ {w}, j \in Calls :
                 LastCall(v, j)' => LastCall(v, j) /\ call'[j] = call[j]
        BY <1>1, <2>2, BeginsLast
    <2>4. Others(w) /\ at'[w] = "closing" /\ outcome'[w] = "none"
        BY <1>1, <2>1, <2>3 DEF LoopTypes, WorkerInv, Others
    <2>5. sessionID'[w] \in Sessions' \union {Unknown}
        BY <1>1, <1>2, <2>1, SessionsStay DEF WorkerInv
    <2>6. WorkerInv(w)'
        BY <2>1, <2>3, <2>4, <2>5 DEF WorkerInv
    <2>7. QED
        BY <1>2, <2>4, <2>6, OthersStay
<1>9. QED
    BY <1>4, <1>5, <1>6, <1>7, <1>8 DEF LoopStep

LEMMA LoopInvStep ==
    ASSUME SessionInv, LoopInv, [LoopNext]_loopVars
    PROVE  LoopInv'
<1>1. ASSUME UNCHANGED loopData, Next \/ UNCHANGED sessionVars,
             \A w \in Agents, j \in Calls :
                 LastCall(w, j)' => LastCall(w, j) /\ call'[j] = call[j]
      PROVE  LoopInv'
    <2>1. LoopTypes' /\ \A w \in Agents : at'[w] = at[w] /\ outcome'[w] = outcome[w]
                                         /\ sessionID'[w] = sessionID[w]
        BY <1>1 DEF loopData, LoopInv, LoopTypes
    <2>2. QED
        BY <1>1, <2>1, WorkerStays DEF LoopInv
<1>2. CASE UNCHANGED loopVars
    <2>1. UNCHANGED loopData /\ UNCHANGED sessionVars /\ call' = call
        BY <1>2 DEF loopVars, loopData, sessionVars, callVars
    <2>2. QED
        BY <1>1, <2>1 DEF LastCall
<1>3. ASSUME NEW i \in Calls, Step(i), UNCHANGED loopData PROVE LoopInv'
    <2>1. call' = call
        BY <1>3, StepMoves DEF SessionInv, CallInv, Moved
    <2>2. QED
        BY <1>1, <1>3, <2>1 DEF LastCall, Next
<1>4. ASSUME NEW c \in Callers \ Agents, CallTool(c), UNCHANGED loopData PROVE LoopInv'
    <2>1. PICK i \in Calls : BeginTool(i, c)
        BY <1>4 DEF CallTool
    <2>2. \A w \in Agents, j \in Calls : LastCall(w, j)' => LastCall(w, j) /\ call'[j] = call[j]
        BY <1>4, <2>1, ToolLast, LoopAssumption
    <2>3. QED
        BY <1>1, <1>4, <2>1, <2>2 DEF Next
<1>5. QED
    BY <1>2, <1>3, <1>4, LoopStepInv DEF LoopNext

\* The agent's loop is a client like the others: what is proved of the tools, for
\* any callers, holds of the workers beside the other clients.
THEOREM LoopUsesTools == LoopSpec => Spec /\ []LoopInv
<1>1. LoopInit => Init /\ SessionInv
    BY InitInv DEF LoopInit
<1>2. LoopInit => LoopInv
    BY DEF LoopInit, LoopInv, LoopTypes, WorkerInv
<1>3. SessionInv /\ LoopInv /\ [LoopNext]_loopVars => [Next]_sessionVars
    BY LoopTools DEF loopVars
<1>4. SessionInv /\ [Next]_sessionVars => SessionInv'
    BY NextInv
<1>5. SessionInv /\ LoopInv /\ [LoopNext]_loopVars => LoopInv'
    BY LoopInvStep
<1>6. QED
    BY <1>1, <1>2, <1>3, <1>4, <1>5, PTL DEF LoopSpec, Spec

\* gemini.go:531-573: an investigation reported as timed out has given that status
\* to the session it captured, if no attempt at the completion failed, and only a
\* completion that had not returned when its own began has set another since.
THEOREM TimeoutsClose == LoopSpec => []TimeoutCloses
<1>1. SessionInv /\ LoopInv => TimeoutCloses
    <2> SUFFICES ASSUME SessionInv, LoopInv, NEW w \in Agents, NEW i \in Calls,
                        outcome[w] = "timeout", LastCall(w, i), clean[i]
                 PROVE  \/ status[sessionID[w]] = "timeout"
                        \/ \E j \in Of(sessionID[w], "complete_agent_session") \ {i} :
                               j \notin call[i].after /\ status[sessionID[w]] = call[j].final
        BY DEF TimeoutCloses
    <2>1. /\ call[i].tool = "complete_agent_session" /\ call[i].session = sessionID[w]
          /\ call[i].final = "timeout" /\ sessionID[w] # Unknown /\ Returned(i)
        BY DEF LoopInv, WorkerInv
    <2>2. status[sessionID[w]] \in {call[j].final : j \in {i} \union Rivals(i)}
        BY <2>1 DEF Returned, SessionInv, CallInv, Closed
    <2>3. QED
        BY <2>1, <2>2 DEF Rivals
<1>2. QED
    BY <1>1, LoopUsesTools, SessionInvariant, PTL

-----------------------------------------------------------------------------
(***************************************************************************)
(* Hypotheses, sequence numbers and evidence. Each property speaks of two  *)
(* calls, of which one had returned when the other began; the invariants   *)
(* say what the graph holds while the second is under way.                 *)
(***************************************************************************)

\* Once an update has superseded, no hypothesis that was returned before is active.
HypothesisInv ==
    \A i, j \in Calls :
        /\ call[j].tool = "update_hypothesis" /\ pc[j] \in {"create_hypothesis", "emit", "ok"}
        /\ clean[j] /\ i \in call[j].after /\ call[i].session = call[j].session
        => i \notin active

\* A sequence number is at most one ahead of the counter, and only until the
\* counter has been incremented.
SequenceInv(i) ==
    sequences[i] # {} =>
        /\ call[i].tool = "query_with_session" /\ call[i].session # Unknown
        /\ clean[i] => pc[i] \notin {"run_query", "store_finding", "store_execution"}
        /\ \A m \in sequences[i] :
              /\ m <= queryCount[call[i].session] + 1
              /\ clean[i] /\ pc[i] # "bump_queries" => m <= queryCount[call[i].session]

\* Before a start has written, its investigation has no node; a metric without its
\* edge is one the start is about to link, and linked until the start is done with it.
EvidenceInv(k) ==
    /\ pc[k] = "unused" => investigation[k] = "none" /\ metric[k] = "none"
    /\ pc[k] = "create_investigation" /\ clean[k] => investigation[k] = "none"
    /\ clean[k] /\ ~Overlapped(k) =>
          /\ metric[k] = "loose" => pc[k] = "link_metric"
          /\ pc[k] = "correlate" => metric[k] = "linked"
    /\ call[k].tool = "complete_investigation" =>
          call[k].inv \in Calls /\ investigation[call[k].inv] # "none"

HistoryInv ==
    /\ HypothesisInv
    /\ \A i \in Calls : SequenceInv(i) /\ EvidenceInv(i)
    /\ SequenceOrder /\ MetricsPurged

\* Which statements write what.
LEMMA Writers ==
    ASSUME NEW i \in Calls, Step(i)
    PROVE  /\ active' = active \/ Supersede(i) \/ CreateHypothesis(i)
           /\ sequences' = sequences \/ StoreExecution(i)
           /\ queryCount' = queryCount \/ BumpQueryCount(i)
           /\ investigation' = investigation \/ CreateInvestigation(i) \/ SetInvestigation(i)
           /\ metric' = metric \/ StoreMetric(i) \/ LinkMetric(i) \/ CorrelateMetric(i) \/ Purge(i)
BY DEF Step, CreateSession, FindPatterns, RefusePatterns, PresentNone, MarkPatternPresented,
       RefuseQuery, RunQuery, StoreAutomaticFinding, StoreExecution, BumpQueryCount, StoreFinding,
       BumpFindingCount, Supersede, CreateHypothesis, StoreRecommendation, StorePattern,
       UsePattern, StoreRow, SetCompleted, GetSession, CreateInvestigation, LinkResource,
       StoreMetric, LinkMetric, CorrelateMetric, LinkSession, SetInvestigation, Purge, Emit,
       sessionData, counters, records, evidence

\* A step of one call, seen from the calls that had returned before another began.
LEMMA Earlier ==
    ASSUME SessionInv, NEW k \in Calls, Step(k)
    PROVE  /\ Moved(k) /\ call' = call /\ CallInv(k) /\ TypeOK /\ TypeOK'
           /\ \A i, j \in Calls : i \in call[j].after => i # k /\ Returned(i)
           /\ \A j \in Calls : clean'[j] => clean[j]
<1>1. Moved(k) /\ SessionInv' /\ CallInv(k) /\ TypeOK
    BY StepMoves, StepInv DEF SessionInv, CallInv
<1>2. \A i, j \in Calls : i \in call[j].after => i # k /\ Returned(i)
    BY <1>1 DEF SessionInv, CallInv, Ordered, Returned, Moved
<1>3. ASSUME NEW j \in Calls, clean'[j] PROVE clean[j]
    BY <1>1, <1>3 DEF Moved
<1>4. QED
    BY <1>1, <1>2, <1>3 DEF Moved, SessionInv

LEMMA HypothesisStep ==
    ASSUME SessionInv, HypothesisInv, NEW k \in Calls, Step(k)
    PROVE  HypothesisInv'
<1>1. /\ Moved(k) /\ call' = call /\ CallInv(k) /\ TypeOK
      /\ \A i, j \in Calls : i \in call[j].after => i # k
      /\ \A j \in Calls : clean'[j] => clean[j]
    BY Earlier
<1>2. active' \subseteq active \union {k}
    BY Writers DEF Supersede, CreateHypothesis
<1>3. SUFFICES ASSUME NEW i \in Calls, NEW j \in Calls,
                      call[j].tool = "update_hypothesis",
                      pc'[j] \in {"create_hypothesis", "emit", "ok"}, clean'[j],
                      i \in call[j].after, call[i].session = call[j].session
               PROVE  i \notin active'
    BY <1>1 DEF HypothesisInv
<1>4. CASE pc[j] \in {"create_hypothesis", "emit", "ok"}
    BY <1>1, <1>2, <1>3, <1>4 DEF HypothesisInv
<1>5. CASE pc[j] \notin {"create_hypothesis", "emit", "ok"}
    <2>1. j = k /\ pc[k] \notin {"unused", "error"}
        BY <1>1, <1>3, <1>5 DEF Moved
    <2>2. pc[k] = "supersede"
        BY <1>1, <1>3, <1>5, <2>1 DEF CallInv, Control, TypeOK, Points
    <2>3. PICK applied \in BOOLEAN :
              /\ Attempt(k, "supersede", applied, "create_hypothesis", "create_hypothesis")
              /\ active' = IF applied THEN {h \in active : call[h].session # call[k].session}
                           ELSE active
        BY <2>2, StepAt DEF Supersede
    <2>4. applied
        <3>1. "create_hypothesis" \in Points
            BY DEF Points
        <3>2. QED  BY <1>1, <1>3, <2>1, <2>3, <3>1, Attempts
    <2>5. QED
        BY <1>3, <2>1, <2>3, <2>4
<1>6. QED
    BY <1>4, <1>5

LEMMA SequenceStep ==
    ASSUME SessionInv, \A j \in Calls : SequenceInv(j), NEW k \in Calls, Step(k), NEW i \in Calls
    PROVE  SequenceInv(i)'
<1> DEFINE s == call[i].session
<1>1. /\ Moved(k) /\ call' = call /\ CallInv(k) /\ TypeOK /\ TypeOK'
      /\ \A j \in Calls : clean'[j] => clean[j]
    BY Earlier
<1>2. SequenceInv(i) /\ (s # Unknown => s \in Calls)
    BY <1>1 DEF TypeOK
<1>3. ASSUME NEW t \in Calls PROVE queryCount[t] \in Nat /\ queryCount'[t] \in Nat /\ queryCount[t] <= queryCount'[t]
    <2>1. queryCount[t] \in Nat /\ queryCount'[t] \in Nat
        BY <1>1 DEF TypeOK
    <2>2. queryCount' = queryCount \/ \E u \in Calls : queryCount' = [queryCount EXCEPT ![u] = @ + 1]
        BY <1>1, Writers, RowsTypes DEF BumpQueryCount
    <2>3. QED
        BY <1>1, <2>1, <2>2 DEF TypeOK
<1>4. sequences \in [Calls -> SUBSET Nat] /\ sequences' \in [Calls -> SUBSET Nat]
    BY <1>1 DEF TypeOK
<1>5. CASE i # k
    <2>1. sequences'[i] = sequences[i]
        BY <1>4, <1>5, Writers DEF StoreExecution
    <2>2. pc'[i] = pc[i] /\ (clean'[i] => clean[i])
        BY <1>1, <1>5 DEF Moved
    <2>3. SUFFICES ASSUME sequences[i] # {} PROVE SequenceInv(i)'
        BY <1>1, <2>1 DEF SequenceInv
    <2>4. s \in Calls /\ \A m \in sequences[i] : m \in Nat
        BY <1>2, <1>4, <2>3 DEF SequenceInv
    <2>5. queryCount[s] \in Nat /\ queryCount'[s] \in Nat /\ queryCount[s] <= queryCount'[s]
        BY <1>3, <2>4
    <2>6. QED
        BY <1>1, <1>2, <2>1, <2>2, <2>3, <2>4, <2>5 DEF SequenceInv
<1>6. CASE i = k /\ pc[i] = "store_execution"
    <2>1. StoreExecution(i)
        BY <1>6, StepAt
    <2>2. PICK applied \in BOOLEAN :
              /\ Attempt(i, "store_execution", applied, "bump_queries", "bump_queries")
              /\ sequences' = IF applied /\ Rows(s) > 0
                              THEN [sequences EXCEPT ![i] = @ \union {queryCount[s] + 1}]
                              ELSE sequences
              /\ queryCount' = queryCount
        BY <2>1 DEF StoreExecution, counters
    <2>3. /\ pc'[i] \in {"store_execution", "bump_queries"}
          /\ clean'[i] => clean[i] /\ pc'[i] = "bump_queries"
        <3>1. "store_execution" \in Points /\ "bump_queries" \in Points
            BY DEF Points
        <3>2. Moves(i, "store_execution", "bump_queries", "bump_queries")
            BY <1>1, <2>2, <3>1, Attempts
        <3>3. QED  BY <3>2 DEF Moves
    <2>4. call[i].tool = "query_with_session"
        BY <1>1, <1>6 DEF CallInv, Control
    <2>5. sequences'[i] # {} => s # Unknown
        BY <1>1, <1>2, <1>4, <2>2, RowsTypes DEF SequenceInv, Rows
    <2>6. \A m \in sequences'[i] : m <= queryCount[s] + 1
        <3>1. CASE applied /\ Rows(s) > 0
            <4>1. sequences'[i] = sequences[i] \union {queryCount[s] + 1}
                BY <1>4, <2>2, <3>1
            <4>2. queryCount[s] \in Nat
                BY <1>1, <1>3, <3>1, RowsTypes
            <4>3. QED
                BY <1>2, <4>1, <4>2 DEF SequenceInv
        <3>2. CASE ~(applied /\ Rows(s) > 0)
            BY <1>2, <2>2, <3>2 DEF SequenceInv
        <3>3. QED
            BY <3>1, <3>2
    <2>7. QED
        BY <1>1, <2>2, <2>3, <2>4, <2>5, <2>6 DEF SequenceInv
<1>7. CASE i = k /\ pc[i] # "store_execution"
    <2>1. sequences'[i] = sequences[i]
        BY <1>7, Writers DEF StoreExecution, Attempt
    <2>2. SUFFICES ASSUME sequences[i] # {} PROVE SequenceInv(i)'
        BY <1>1, <2>1 DEF SequenceInv
    <2>3. /\ call[i].tool = "query_with_session" /\ s \in Calls /\ s # Unknown
          /\ \A m \in sequences[i] : m \in Nat /\ m <= queryCount[s] + 1
        BY <1>2, <1>4, <2>2 DEF SequenceInv
    <2>4. queryCount[s] \in Nat /\ queryCount'[s] \in Nat /\ queryCount[s] <= queryCount'[s]
        BY <1>3, <2>3
    <2>5. SUFFICES ASSUME clean'[i]
                   PROVE  /\ pc'[i] \notin {"run_query", "store_finding", "store_execution"}
                          /\ pc'[i] # "bump_queries" => \A m \in sequences[i] : m <= queryCount'[s]
        BY <1>1, <2>1, <2>3, <2>4 DEF SequenceInv
    <2>6. clean[i] /\ pc[i] \notin {"run_query", "store_finding", "store_execution"}
        BY <1>1, <1>2, <2>2, <2>5 DEF SequenceInv
    <2>7. pc[i] \in {"bump_queries", "emit"}
        BY <1>1, <1>7, <2>3, <2>6 DEF Moved, CallInv, Control, TypeOK, Points
    <2>8. CASE pc[i] = "emit"
        <3>1. pc'[i] = "ok"
            BY <1>1, <1>7, <2>8, StepAt DEF Emit, TypeOK
        <3>2. QED
            BY <1>2, <2>2, <2>3, <2>4, <2>6, <2>8, <3>1 DEF SequenceInv
    <2>9. CASE pc[i] = "bump_queries"
        <3>1. PICK applied \in BOOLEAN :
                  /\ Attempt(i, "bump_queries", applied, Done(i), Done(i))
                  /\ queryCount' = IF applied /\ Rows(s) > 0
                                   THEN [queryCount EXCEPT ![s] = @ + 1] ELSE queryCount
            BY <1>7, <2>9, StepAt DEF BumpQueryCount
        <3>2. Done(i) \in Points /\ Done(i) \in {"emit", "ok"}
            BY Ends DEF Points
        <3>3. applied /\ pc'[i] = Done(i)
            BY <1>1, <2>5, <3>1, <3>2, Attempts DEF Moves
        <3>4. Rows(s) > 0
            BY <2>3, OpenSession
        <3>5. queryCount'[s] = queryCount[s] + 1
            BY <1>1, <2>3, <3>1, <3>3, <3>4 DEF TypeOK
        <3>6. QED
            BY <2>3, <3>2, <3>3, <3>5
    <2>10. QED
        BY <2>7, <2>8, <2>9
<1>8. QED
    BY <1>5, <1>6, <1>7

\* The next number is above those of all calls that have returned.
LEMMA OrderStep ==
    ASSUME SessionInv, \A j \in Calls : SequenceInv(j), SequenceOrder, NEW k \in Calls, Step(k)
    PROVE  SequenceOrder'
<1>1. /\ call' = call /\ CallInv(k) /\ TypeOK /\ TypeOK'
      /\ \A i, j \in Calls : i \in call[j].after => i # k /\ Returned(i)
      /\ \A j \in Calls : clean'[j] => clean[j]
    BY Earlier
<1>2. SUFFICES ASSUME NEW i \in Calls, NEW j \in Calls,
                      call[i].tool = "query_with_session", call[j].tool = "query_with_session",
                      call[i].session = call[j].session, i \in call[j].after, clean'[i],
                      NEW m \in sequences'[i], NEW n \in sequences'[j]
               PROVE  m < n
    BY <1>1 DEF SequenceOrder
<1>3. i # k /\ Returned(i) /\ clean[i]
    BY <1>1, <1>2
<1>4. sequences'[i] = sequences[i]
    BY <1>1, <1>3, Writers DEF StoreExecution, TypeOK
<1>5. CASE n \in sequences[j]
    BY <1>2, <1>3, <1>4, <1>5 DEF SequenceOrder
<1>6. CASE n \notin sequences[j]
    <2>1. /\ j = k /\ Rows(call[j].session) > 0 /\ n = queryCount[call[j].session] + 1
        BY <1>1, <1>2, <1>6, Writers DEF StoreExecution, TypeOK
    <2>2. m \in Nat /\ m <= queryCount[call[j].session]
        BY <1>1, <1>2, <1>3, <1>4 DEF SequenceInv, Returned, TypeOK
    <2>3. queryCount[call[j].session] \in Nat
        BY <1>1, <2>1, RowsTypes DEF TypeOK
    <2>4. QED
        BY <2>1, <2>2, <2>3
<1>7. QED
    BY <1>5, <1>6

\* What a step does to investigations and metrics.
LEMMA EvidenceWrites ==
    ASSUME TypeOK, NEW k \in Calls, Step(k), NEW i \in Calls
    PROVE  /\ investigation'[i] # investigation[i] =>
                  \/ i = k /\ pc[k] = "create_investigation" /\ investigation'[i] = "active"
                  \/ i = call[k].inv /\ pc[k] = "set_investigation"
                     /\ investigation'[i] = "completed"
           /\ metric'[i] # metric[i] =>
                  \/ metric'[i] = "none" /\ i = call[k].inv /\ pc[k] = "purge"
                  \/ i = k /\ pc[k] \in {"store_metric", "link_metric", "correlate"}
<1>1. investigation'[i] # investigation[i] =>
          \/ i = k /\ pc[k] = "create_investigation" /\ investigation'[i] = "active"
          \/ i = call[k].inv /\ pc[k] = "set_investigation" /\ investigation'[i] = "completed"
    <2>1. CASE investigation' = investigation
        BY <2>1
    <2>2. CASE CreateInvestigation(k)
        BY <2>2 DEF CreateInvestigation, Attempt, TypeOK
    <2>3. CASE SetInvestigation(k)
        BY <2>3 DEF SetInvestigation, Attempt, TypeOK
    <2>4. QED
        BY <2>1, <2>2, <2>3, Writers
<1>2. metric'[i] # metric[i] =>
          \/ metric'[i] = "none" /\ i = call[k].inv /\ pc[k] = "purge"
          \/ i = k /\ pc[k] \in {"store_metric", "link_metric", "correlate"}
    <2>1. CASE metric' = metric
        BY <2>1
    <2>2. CASE StoreMetric(k)
        BY <2>2 DEF StoreMetric, Attempt, TypeOK
    <2>3. CASE LinkMetric(k)
        BY <2>3 DEF LinkMetric, Attempt, TypeOK
    <2>4. CASE Purge(k)
        BY <2>4 DEF Purge, Attempt, TypeOK
    <2>5. CASE CorrelateMetric(k)
        BY <2>5 DEF CorrelateMetric, Attempt, TypeOK
    <2>6. QED
        BY <2>1, <2>2, <2>3, <2>4, <2>5, Writers
<1>3. QED
    BY <1>1, <1>2

LEMMA EvidenceStep ==
    ASSUME SessionInv, \A j \in Calls : EvidenceInv(j), NEW k \in Calls, Step(k), NEW i \in Calls
    PROVE  EvidenceInv(i)'
<1>1. /\ Moved(k) /\ call' = call /\ CallInv(k) /\ TypeOK
      /\ \A j \in Calls : clean'[j] => clean[j]
    BY Earlier
<1>2. EvidenceInv(i) /\ EvidenceInv(k)
    OBVIOUS
<1>3. ASSUME NEW x \in Calls PROVE investigation[x] # "none" => investigation'[x] # "none"
    BY <1>1, EvidenceWrites
<1>4. call[i].tool = "complete_investigation" =>
          call[i].inv \in Calls /\ investigation'[call[i].inv] # "none"
    BY <1>2, <1>3 DEF EvidenceInv
<1>5. ASSUME i # k, investigation[i] = "none" PROVE investigation'[i] = "none"
    <2>1. SUFFICES ASSUME i = call[k].inv, pc[k] = "set_investigation" PROVE FALSE
        BY <1>1, <1>5, EvidenceWrites
    <2>2. call[k].tool = "complete_investigation"
        BY <1>1, <2>1 DEF CallInv, Control
    <2>3. QED
        BY <1>2, <1>5, <2>1, <2>2 DEF EvidenceInv
<1>9. Overlapped(i)' <=> Overlapped(i)
    BY <1>1 DEF Overlapped
<1>6. CASE i # k
    <2>1. pc'[i] = pc[i] /\ (clean'[i] => clean[i])
        BY <1>1, <1>6 DEF Moved
    <2>2. metric'[i] # metric[i] => metric'[i] = "none"
        BY <1>1, <1>6, EvidenceWrites
    <2>3. ~Overlapped(i) /\ pc[i] = "correlate" => metric'[i] = metric[i]
        <3>1. SUFFICES ASSUME ~Overlapped(i), pc[i] = "correlate", metric'[i] # metric[i]
                       PROVE  FALSE
            OBVIOUS
        <3>2. i = call[k].inv /\ call[k].tool = "complete_investigation"
            BY <1>1, <1>6, <3>1, EvidenceWrites DEF CallInv, Control
        <3>3. Returned(i)
            BY <3>1, <3>2 DEF Overlapped, SessionInv, CallInv, Ordered
        <3>4. QED
            BY <3>1, <3>3 DEF Returned
    <2>4. QED
        BY <1>1, <1>2, <1>4, <1>5, <1>6, <1>9, <2>1, <2>2, <2>3 DEF EvidenceInv
<1>7. CASE i = k
    <2>1. pc'[i] # "unused"
        BY <1>1, <1>7 DEF Moved
    <2>2. ~(pc'[i] = "create_investigation" /\ clean'[i])
        <3>1. SUFFICES ASSUME pc'[i] = "create_investigation", clean'[i] PROVE FALSE
            OBVIOUS
        <3>2. \E applied \in BOOLEAN :
                  Attempt(i, "create_investigation", applied, "link_resource", "error")
            BY <1>1, <1>7, <3>1, StepAt DEF Moved, CreateInvestigation
        <3>3. Moves(i, "create_investigation", "link_resource", "error")
            BY <1>1, <3>2, SomeAttempt DEF Points
        <3>4. QED
            BY <3>1, <3>3 DEF Moves
    <2>3. clean'[i] /\ ~Overlapped(i) =>
              /\ metric'[i] = "loose" => pc'[i] = "link_metric"
              /\ pc'[i] = "correlate" => metric'[i] = "linked"
        <3>1. SUFFICES ASSUME clean'[i], ~Overlapped(i)
                       PROVE  /\ metric'[i] = "loose" => pc'[i] = "link_metric"
                              /\ pc'[i] = "correlate" => metric'[i] = "linked"
            OBVIOUS
        <3>2. CASE pc[i] = "store_metric"
            <4>1. \E applied \in BOOLEAN :
                      Attempt(i, "store_metric", applied, "link_metric", LinkSpawned(i))
                BY <1>7, <3>2, StepAt DEF StoreMetric
            <4>2. LinkSpawned(i) \in Points
                BY Ends DEF Points
            <4>3. Moves(i, "store_metric", "link_metric", LinkSpawned(i))
                BY <1>1, <4>1, <4>2, SomeAttempt DEF Points
            <4>4. QED
                BY <3>1, <4>3 DEF Moves
        <3>3. CASE pc[i] = "link_metric"
            <4>1. PICK applied \in BOOLEAN, next \in LinkCorrelated(i) :
                      /\ Attempt(i, "link_metric", applied, next, next)
                      /\ metric' = IF applied THEN [metric EXCEPT ![i] = "linked"] ELSE metric
                BY <1>7, <3>3, StepAt DEF LinkMetric
            <4>2. next \in Points
                BY Ends DEF LinkCorrelated, Points
            <4>3. applied
                BY <1>1, <3>1, <4>1, <4>2, Attempts
            <4>4. QED
                BY <1>1, <3>1, <4>1, <4>3 DEF TypeOK
        <3>4. CASE pc[i] = "correlate"
            <4>1. metric[i] = "linked"
                BY <1>1, <1>2, <3>1, <3>4 DEF EvidenceInv
            <4>2. metric'[i] = "linked"
                BY <1>7, <3>4, <4>1, StepAt DEF CorrelateMetric
            <4>3. QED
                BY <4>2
        <3>5. CASE pc[i] \notin {"store_metric", "link_metric", "correlate"}
            <4>1. ~(metric'[i] = "loose")
                BY <1>1, <1>2, <1>7, <3>1, <3>5, EvidenceWrites DEF EvidenceInv
            <4>2. pc'[i] # "correlate"
                BY <1>1, <1>7, <3>5 DEF Moved
            <4>3. QED
                BY <4>1, <4>2
        <3>6. QED
            BY <3>2, <3>3, <3>4, <3>5
    <2>4. QED
        BY <1>1, <1>4, <1>9, <2>1, <2>2, <2>3 DEF EvidenceInv
<1>8. QED
    BY <1>6, <1>7

\* The purge finds the metric of a start that has returned and linked it.
LEMMA PurgeStep ==
    ASSUME SessionInv, \A j \in Calls : EvidenceInv(j), MetricsPurged, NEW k \in Calls, Step(k)
    PROVE  MetricsPurged'
<1>1. /\ Moved(k) /\ call' = call /\ CallInv(k) /\ TypeOK
      /\ \A i, j \in Calls : i \in call[j].after => i # k /\ Returned(i)
      /\ \A j \in Calls : clean'[j] => clean[j] /\ call[j].after \subseteq Calls
    BY Earlier DEF TypeOK
<1>2. SUFFICES ASSUME NEW j \in Calls, call[j].tool = "complete_investigation", pc'[j] = "ok",
                      call[j].inv \in call[j].after, clean'[call[j].inv],
                      ~Overlapped(call[j].inv)
               PROVE  metric'[call[j].inv] = "none"
    BY <1>1 DEF MetricsPurged, Overlapped
<1> DEFINE x == call[j].inv
<1>3. call[j].after \subseteq Calls
    BY <1>1 DEF TypeOK
<1>4. x \in Calls /\ x # k /\ Returned(x) /\ clean[x]
    BY <1>1, <1>2, <1>3
<1>5. metric'[x] # metric[x] => metric'[x] = "none"
    BY <1>1, <1>4, EvidenceWrites
<1>6. CASE pc[j] = "ok"
    BY <1>2, <1>4, <1>5, <1>6 DEF MetricsPurged
<1>7. CASE pc[j] # "ok"
    <2>1. j = k
        BY <1>1, <1>2, <1>7 DEF Moved
    <2>2. pc[k] \in {"set_investigation", "purge"}
        BY <1>1, <1>2, <2>1 DEF Moved, CallInv, Control, Announcing, TypeOK, Points
    <2>3. pc[k] # "set_investigation"
        <3>1. SUFFICES ASSUME pc[k] = "set_investigation" PROVE FALSE
            OBVIOUS
        <3>2. \E applied \in BOOLEAN : Attempt(k, "set_investigation", applied, "purge", "error")
            BY <3>1, StepAt DEF SetInvestigation
        <3>3. Moves(k, "set_investigation", "purge", "error")
            BY <1>1, <3>2, SomeAttempt DEF Points
        <3>4. QED
            BY <1>2, <2>1, <3>3 DEF Moves
    <2>4. PICK applied \in BOOLEAN :
              /\ Attempt(k, "purge", applied, "ok", "error")
              /\ metric' = IF applied /\ metric[x] = "linked" THEN [metric EXCEPT ![x] = "none"]
                           ELSE metric
        BY <2>1, <2>2, <2>3, StepAt DEF Purge
    <2>5. applied
        <3>1. {"ok", "error"} \subseteq Points
            BY DEF Points
        <3>2. QED  BY <1>1, <1>2, <2>1, <2>4, <3>1, Attempts
    <2>6. metric[x] \in {"none", "linked"}
        <3>1. metric[x] \in {"none", "loose", "linked"}
            BY <1>1, <1>4 DEF TypeOK
        <3>2. metric[x] # "loose"
            BY <1>2, <1>4 DEF EvidenceInv, Returned
        <3>3. QED
            BY <3>1, <3>2
    <2>7. QED
        BY <1>1, <1>4, <2>4, <2>5, <2>6 DEF TypeOK
<1>8. QED
    BY <1>6, <1>7

LEMMA HistoryStep ==
    ASSUME SessionInv, HistoryInv, NEW k \in Calls, Step(k)
    PROVE  HistoryInv'
<1>1. HypothesisInv' /\ SequenceOrder' /\ MetricsPurged'
    BY HypothesisStep, OrderStep, PurgeStep DEF HistoryInv
<1>2. \A i \in Calls : SequenceInv(i)' /\ EvidenceInv(i)'
    BY SequenceStep, EvidenceStep DEF HistoryInv
<1>3. QED
    BY <1>1, <1>2 DEF HistoryInv

\* Nothing in the graph is about a call that begins.
LEMMA HistoryBegin ==
    ASSUME SessionInv, HistoryInv, NEW k \in Calls, Begins(k)
    PROVE  HistoryInv'
<1>1. Begun(k) /\ TypeOK /\ TypeOK' /\ CallInv(k)
    BY BeginsCall DEF SessionInv
<1>2. /\ pc[k] = "unused" /\ \A j \in Calls \ {k} : call'[j] = call[j] /\ pc'[j] = pc[j]
      /\ clean' = clean /\ active' = active /\ sequences' = sequences
      /\ queryCount' = queryCount /\ investigation' = investigation /\ metric' = metric
    BY <1>1 DEF Begun, sessionData, counters, records, evidence
<1>3. call'[k].tool \in AllTools /\ pc'[k] = Entry(call'[k].tool)
    BY <1>1 DEF Begun
<1>4. /\ call'[k].tool = "update_hypothesis" => pc'[k] = "supersede"
      /\ call'[k].tool = "complete_investigation" => pc'[k] = "set_investigation"
      /\ pc'[k] \notin {"unused", "ok", "correlate"}
    BY <1>3 DEF Entry, AllTools
<1>5. ASSUME NEW j \in Calls \ {k}
      PROVE  call[j].after \subseteq Calls /\ k \notin call[j].after
    BY <1>2 DEF SessionInv, TypeOK, CallInv, Ordered, Returned
<1>6. sequences[k] = {} /\ call[k].tool = "none"
    BY <1>2 DEF SessionInv, CallInv, Control, HistoryInv, SequenceInv
<1>13. \A x : Overlapped(x) => Overlapped(x)'
    BY <1>2, <1>6 DEF Overlapped
<1>7. HypothesisInv'
    <2>1. SUFFICES ASSUME NEW i \in Calls, NEW j \in Calls,
                          call'[j].tool = "update_hypothesis",
                          pc'[j] \in {"create_hypothesis", "emit", "ok"}, clean'[j],
                          i \in call'[j].after, call'[i].session = call'[j].session
                   PROVE  i \notin active'
        BY DEF HypothesisInv
    <2>2. j # k
        BY <1>4, <2>1
    <2>3. i # k
        BY <1>2, <1>5, <2>1, <2>2
    <2>4. QED
        BY <1>2, <2>1, <2>2, <2>3 DEF HistoryInv, HypothesisInv
<1>8. ASSUME NEW i \in Calls PROVE SequenceInv(i)'
    <2>1. CASE i = k
        BY <1>2, <1>6, <2>1 DEF SequenceInv
    <2>2. CASE i # k
        BY <1>2, <2>2 DEF HistoryInv, SequenceInv
    <2>3. QED
        BY <2>1, <2>2
<1>9. ASSUME NEW i \in Calls PROVE EvidenceInv(i)'
    <2>1. CASE i = k
        <3>1. investigation[k] = "none" /\ metric[k] = "none"
            BY <1>2 DEF HistoryInv, EvidenceInv
        <3>2. call'[k].tool = "complete_investigation" =>
                  call'[k].inv \in Calls /\ investigation[call'[k].inv] # "none"
            BY <1>1 DEF Begun, Investigations
        <3>3. QED
            BY <1>2, <1>4, <2>1, <3>1, <3>2 DEF EvidenceInv
    <2>2. CASE i # k
        BY <1>2, <1>13, <2>2 DEF HistoryInv, EvidenceInv
    <2>3. QED
        BY <2>1, <2>2
<1>10. SequenceOrder'
    <2>1. SUFFICES ASSUME NEW i \in Calls, NEW j \in Calls,
                          call'[i].tool = "query_with_session",
                          call'[j].tool = "query_with_session",
                          call'[i].session = call'[j].session, i \in call'[j].after, clean'[i],
                          NEW m \in sequences'[i], NEW n \in sequences'[j]
                   PROVE  m < n
        BY DEF SequenceOrder
    <2>2. i # k /\ j # k
        BY <1>2, <1>6, <2>1
    <2>3. QED
        BY <1>2, <2>1, <2>2 DEF HistoryInv, SequenceOrder
<1>11. MetricsPurged'
    <2>1. SUFFICES ASSUME NEW j \in Calls, call'[j].tool = "complete_investigation",
                          pc'[j] = "ok", call'[j].inv \in call'[j].after, clean'[call'[j].inv],
                          (~Overlapped(call[j].inv))'
                   PROVE  metric'[call'[j].inv] = "none"
        BY DEF MetricsPurged
    <2>2. j # k
        BY <1>4, <2>1
    <2>3. ~Overlapped(call[j].inv)
        BY <1>2, <1>13, <2>1, <2>2
    <2>4. QED
        BY <1>2, <2>1, <2>2, <2>3 DEF HistoryInv, MetricsPurged
<1>12. QED
    BY <1>7, <1>8, <1>9, <1>10, <1>11 DEF HistoryInv

LEMMA HistoryStable == ASSUME HistoryInv, UNCHANGED sessionVars PROVE HistoryInv'
BY DEF sessionVars, callVars, sessionData, counters, records, evidence, HistoryInv,
       HypothesisInv, SequenceInv, EvidenceInv, SequenceOrder, MetricsPurged, Overlapped

LEMMA HistoryInvariant == Spec => [](SessionInv /\ HistoryInv)
<1>1. Init => SessionInv /\ HistoryInv
    <2>1. Init => HistoryInv
        BY DEF Init, NoCall, HistoryInv, HypothesisInv, SequenceInv, EvidenceInv, SequenceOrder,
               MetricsPurged
    <2>2. QED
        BY <2>1, InitInv
<1>2. SessionInv /\ HistoryInv /\ [Next]_sessionVars => (SessionInv /\ HistoryInv)'
    <2>1. ASSUME SessionInv, HistoryInv, NEW i \in Calls, NEW c \in Callers, BeginTool(i, c)
          PROVE  HistoryInv'
        BY <2>1, ToolBegins, HistoryBegin
    <2>2. QED
        BY <2>1, HistoryStep, HistoryStable, NextInv DEF Next
<1>3. QED
    BY <1>1, <1>2, PTL DEF Spec

\* After an update that superseded, the hypotheses of the updates before it are no
\* longer active, whichever clients made them and whatever failed meanwhile.
THEOREM HypothesesAreSuperseded == Spec => []OneHypothesis
<1>1. HistoryInv => OneHypothesis
    BY DEF HistoryInv, HypothesisInv, OneHypothesis
<1>2. QED
    BY <1>1, HistoryInvariant, PTL

\* A query that begins after another has returned gets a higher sequence number,
\* though number and counter are read and written by different statements.
THEOREM SequenceIsOrdered == Spec => []SequenceOrder
<1>1. HistoryInv => SequenceOrder
    BY DEF HistoryInv
<1>2. QED
    BY <1>1, HistoryInvariant, PTL

\* A completion purges the metrics of a start that had returned before it began and
\* had linked them, if no completion ran into that start.
THEOREM CompletionPurges == Spec => []MetricsPurged
<1>1. HistoryInv => MetricsPurged
    BY DEF HistoryInv
<1>2. QED
    BY <1>1, HistoryInvariant, PTL

\* A completed investigation is only made active again by a retried creation.
THEOREM CompletionIsFinal == Spec => CompletedIsFinal
<1>1. SessionInv /\ HistoryInv /\ [Next]_sessionVars =>
          [\A k \in Calls : investigation[k] = "completed" /\ clean[k]
               => investigation'[k] = "completed"]_sessionVars
    <2>1. ASSUME SessionInv, HistoryInv, NEW i \in Calls, Step(i), NEW k \in Calls,
                 investigation[k] = "completed", clean[k]
          PROVE  investigation'[k] = "completed"
        <3>1. TypeOK /\ EvidenceInv(k)
            BY <2>1 DEF SessionInv, HistoryInv
        <3>2. QED
            BY <2>1, <3>1, EvidenceWrites DEF EvidenceInv
    <2>2. ASSUME SessionInv, NEW i \in Calls, NEW c \in Callers, BeginTool(i, c)
          PROVE  investigation' = investigation
        BY <2>2, ToolBegins, BeginsCall DEF SessionInv, Begun, evidence
    <2>3. QED
        BY <2>1, <2>2 DEF Next
<1>2. QED
    BY <1>1, HistoryInvariant, PTL DEF Spec, CompletedIsFinal
=============================================================================
