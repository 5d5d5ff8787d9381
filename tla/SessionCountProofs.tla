-------------------------- MODULE SessionCountProofs --------------------------
(***************************************************************************)
(* The counters of a session are the numbers of the executions and of the  *)
(* findings agents recorded, for any clients and calls: a record and its   *)
(* counter are written by two statements, between which those of other     *)
(* calls fall.                                                             *)
(***************************************************************************)
EXTENDS AgentSessionProofs, FiniteSetTheorems

(***************************************************************************)
(* The inductive invariant.                                                *)
(***************************************************************************)

\* The calls of a tool that have a row in session s, and those at point p in it.
Tally(s, t)   == {i \in Of(s, t) : made[i] > 0}
Between(s, p) == {i \in Calls : call[i].session = s /\ pc[i] = p}

\* Before its statement has been answered, a call that has not failed has no row.
Fresh(i) ==
    clean[i] =>
        /\ /\ call[i].tool = "query_with_session"
           /\ pc[i] \in {"run_query", "store_finding", "store_execution"}
           => made[i] = 0
        /\ call[i].tool = "record_finding" /\ pc[i] = "store_finding" => made[i] = 0

\* The counter n of session s, and the calls of tool t that are counted at point p.
Balanced(s, n, t, p) ==
    /\ IsFiniteSet(Tally(s, t)) /\ IsFiniteSet(Between(s, p))
    /\ Quiet(s) => n + Cardinality(Between(s, p)) = Cardinality(Tally(s, t))

BothBalanced(s) ==
    /\ Balanced(s, queryCount[s], "query_with_session", "bump_queries")
    /\ Balanced(s, findingCount[s], "record_finding", "bump_findings")

CountsInv == (\A i \in Calls : Fresh(i)) /\ (\A s \in Calls : BothBalanced(s))

\* Nothing changes, or a call is recorded, or a recorded one is counted.
LEMMA Balance ==
    ASSUME NEW R, NEW B, IsFiniteSet(R), IsFiniteSet(B), NEW n \in Nat, NEW R2, NEW B2, NEW n2, NEW k,
           n + Cardinality(B) = Cardinality(R),
           \/ R2 = R /\ B2 = B /\ n2 = n
           \/ k \notin R /\ k \notin B /\ R2 = R \union {k} /\ B2 = B \union {k} /\ n2 = n
           \/ k \in B /\ R2 = R /\ B2 = B \ {k} /\ n2 = n + 1
    PROVE  n2 + Cardinality(B2) = Cardinality(R2)
<1>1. Cardinality(R) \in Nat /\ Cardinality(B) \in Nat
    BY FS_CardinalityType
<1>2. CASE R2 = R /\ B2 = B /\ n2 = n
    BY <1>2
<1>3. CASE k \notin R /\ k \notin B /\ R2 = R \union {k} /\ B2 = B \union {k} /\ n2 = n
    <2>1. Cardinality(R2) = Cardinality(R) + 1 /\ Cardinality(B2) = Cardinality(B) + 1
        BY <1>3, FS_AddElement
    <2>2. QED  BY <1>1, <1>3, <2>1
<1>4. CASE k \in B /\ R2 = R /\ B2 = B \ {k} /\ n2 = n + 1
    <2>1. Cardinality(B2) = Cardinality(B) - 1
        BY <1>4, FS_RemoveElement
    <2>2. QED  BY <1>1, <1>4, <2>1
<1>5. QED
    BY <1>2, <1>3, <1>4

-----------------------------------------------------------------------------
(***************************************************************************)
(* The statements that record and count.                                   *)
(***************************************************************************)

\* Which statements lead to a count, and which write the rows and counters.
LEMMA Counters ==
    ASSUME NEW i \in Calls, Step(i)
    PROVE  /\ findingCount' = findingCount \/ BumpFindingCount(i)
           /\ queryCount' = queryCount \/ BumpQueryCount(i)
           /\ \/ made' = made \/ StoreExecution(i) \/ StoreFinding(i)
              \/ pc[i] \in {"create_session", "create_hypothesis", "record", "set_completed",
                            "link_session"}
           /\ pc[i] = "bump_findings" => BumpFindingCount(i)
           /\ pc[i] = "store_finding" => StoreFinding(i) \/ StoreAutomaticFinding(i)
           /\ pc[i] = "run_query" => RefuseQuery(i) \/ RunQuery(i)
BY DEF Step, CreateSession, FindPatterns, RefusePatterns, PresentNone, MarkPatternPresented,
       RefuseQuery, RunQuery, StoreAutomaticFinding, StoreExecution, BumpQueryCount, StoreFinding,
       BumpFindingCount, Supersede, CreateHypothesis, StoreRecommendation, StorePattern,
       UsePattern, StoreRow, SetCompleted, GetSession, CreateInvestigation, LinkResource,
       StoreMetric, LinkMetric, CorrelateMetric, LinkSession, SetInvestigation, Purge, Emit, Attempt,
       sessionData, counters, records, evidence

\* The points around the statements that record.
Near == {"run_query", "store_finding", "store_execution", "bump_queries", "bump_findings"}

\* Where each of them is reached from.
LEMMA StepNear ==
    ASSUME TypeOK, NEW i \in Calls, Control(i), Step(i), pc'[i] \in Near
    PROVE  /\ pc[i] \in Near
           /\ pc'[i] = "bump_queries" => pc[i] \in {"store_execution", "bump_queries"}
           /\ pc'[i] = "bump_findings" => pc[i] \in {"store_finding", "bump_findings"}
<1>1. Done(i) \notin Near /\ LinkSpawned(i) \notin Near
    BY Ends DEF Near
<1>2. ASSUME NEW here, NEW applied \in BOOLEAN, NEW onOk, NEW onError,
             Attempt(i, here, applied, onOk, onError)
      PROVE  pc[i] = here /\ pc'[i] \in {here, onOk, onError}
    BY <1>2 DEF Attempt, TypeOK
<1>3. \/ pc[i] \in {"run_query", "store_execution", "bump_queries", "bump_findings"}
      \/ pc[i] = "store_finding"
    BY <1>1, <1>2
    DEF Near, Step, CreateSession, FindPatterns, RefusePatterns, PresentNone, MarkPatternPresented,
        RefuseQuery, RunQuery, StoreAutomaticFinding, StoreExecution, BumpQueryCount, StoreFinding,
        BumpFindingCount, Supersede, CreateHypothesis, StoreRecommendation, StorePattern,
        UsePattern, StoreRow, SetCompleted, GetSession, CreateInvestigation, LinkResource,
        StoreMetric, LinkMetric, CorrelateMetric, LinkSession, SetInvestigation, Purge, Emit, TypeOK,
        LinkCorrelated
<1>4. CASE pc[i] = "run_query"
    BY <1>2, <1>4, Counters DEF Near, RefuseQuery, RunQuery, TypeOK
<1>5. CASE pc[i] = "store_finding"
    BY <1>2, <1>5, Counters DEF Near, StoreFinding, StoreAutomaticFinding
<1>6. CASE pc[i] = "store_execution"
    BY <1>2, <1>6, StepAt DEF Near, StoreExecution
<1>7. CASE pc[i] = "bump_queries"
    BY <1>2, <1>1, <1>7, StepAt DEF Near, BumpQueryCount
<1>8. CASE pc[i] = "bump_findings"
    BY <1>2, <1>1, <1>8, Counters DEF Near, BumpFindingCount
<1>9. QED
    BY <1>3, <1>4, <1>5, <1>6, <1>7, <1>8 DEF Near

\* A statement that records, answered at its first attempt: the row and no count yet.
LEMMA RecordStep ==
    ASSUME SessionInv, NEW k \in Calls, Step(k), clean'[k], Fresh(k), call[k].session # Unknown,
           \/ pc[k] = "store_execution"
           \/ pc[k] = "store_finding" /\ call[k].tool = "record_finding"
    PROVE  /\ made[k] = 0 /\ made'[k] > 0
           /\ pc'[k] = (IF pc[k] = "store_execution" THEN "bump_queries" ELSE "bump_findings")
           /\ UNCHANGED <<queryCount, findingCount>>
<1>1. TypeOK /\ clean[k] /\ Control(k)
    BY Earlier DEF CallInv
<1>2. made[k] = 0 /\ call[k].tool \in {"query_with_session", "record_finding"}
    BY <1>1 DEF Fresh, Control
<1>3. Rows(call[k].session) > 0
    BY <1>2, OpenSession
<1>4. CASE pc[k] = "store_execution"
    <2>1. StoreExecution(k)
        BY <1>4, StepAt
    <2>2. \E applied \in BOOLEAN :
              Attempt(k, "store_execution", applied, "bump_queries", "bump_queries")
              /\ Write(k, applied)
        BY <2>1, Zenon DEF StoreExecution
    <2>3. /\ Moves(k, "store_execution", "bump_queries", "bump_queries")
          /\ Rows(call[k].session) > 0 /\ pc'[k] = "bump_queries" /\ clean'[k] => made'[k] > 0
        BY <1>1, <2>2, SomeWrite DEF Points
    <2>4. UNCHANGED <<queryCount, findingCount>>
        BY <2>1 DEF StoreExecution, counters
    <2>5. QED  BY <1>2, <1>3, <1>4, <2>3, <2>4 DEF Moves
<1>5. CASE pc[k] = "store_finding" /\ call[k].tool = "record_finding"
    <2>1. StoreFinding(k)
        BY <1>5, Counters DEF StoreAutomaticFinding
    <2>2. \E applied \in BOOLEAN :
              Attempt(k, "store_finding", applied, "bump_findings", "error") /\ Write(k, applied)
        BY <2>1, Zenon DEF StoreFinding
    <2>3. /\ Moves(k, "store_finding", "bump_findings", "error")
          /\ Rows(call[k].session) > 0 /\ pc'[k] = "bump_findings" /\ clean'[k] => made'[k] > 0
        BY <1>1, <2>2, SomeWrite DEF Points
    <2>4. UNCHANGED <<queryCount, findingCount>>
        BY <2>1 DEF StoreFinding, counters
    <2>5. QED  BY <1>2, <1>3, <1>5, <2>3, <2>4 DEF Moves
<1>6. QED
    BY <1>4, <1>5

\* A statement that counts, answered at its first attempt.
LEMMA CountStep ==
    ASSUME SessionInv, NEW k \in Calls, Step(k), clean'[k], call[k].session # Unknown,
           pc[k] \in {"bump_queries", "bump_findings"}
    PROVE  LET s == call[k].session IN
           /\ s \in Calls /\ made' = made /\ pc'[k] \notin Near
           /\ queryCount'[s] = IF pc[k] = "bump_queries" THEN queryCount[s] + 1 ELSE queryCount[s]
           /\ findingCount'[s] =
                  IF pc[k] = "bump_findings" THEN findingCount[s] + 1 ELSE findingCount[s]
<1> DEFINE s == call[k].session
<1>1. TypeOK /\ clean[k] /\ Control(k)
    BY Earlier DEF CallInv
<1>2. call[k].tool \in {"query_with_session", "record_finding"}
    BY <1>1 DEF Control
<1>3. Rows(s) > 0 /\ s \in Calls
    BY <1>2, OpenSession
<1>4. Done(k) \in Points /\ Done(k) \notin Near
    BY Ends DEF Points, Near
<1>5. CASE pc[k] = "bump_queries"
    <2>1. BumpQueryCount(k)
        BY <1>5, StepAt
    <2>2. PICK applied \in BOOLEAN :
              /\ Attempt(k, "bump_queries", applied, Done(k), Done(k))
              /\ queryCount' = IF applied /\ Rows(s) > 0
                               THEN [queryCount EXCEPT ![s] = @ + 1] ELSE queryCount
        BY <2>1 DEF BumpQueryCount
    <2>3. applied /\ pc'[k] = Done(k)
        <3>1. Attempt(k, "bump_queries", applied, Done(k), Done(k))
            BY <2>2
        <3>2. /\ Moves(k, "bump_queries", Done(k), Done(k))
              /\ applied \/ (pc'[k] \in {"bump_queries", Done(k)} /\ ~clean'[k])
            BY <1>1, <1>4, <3>1, Attempts
        <3>3. QED  BY <3>2 DEF Moves
    <2>4. queryCount'[s] = queryCount[s] + 1
        BY <1>1, <1>3, <2>2, <2>3 DEF TypeOK
    <2>5. findingCount' = findingCount /\ made' = made
        BY <2>1 DEF BumpQueryCount, records
    <2>6. QED  BY <1>3, <1>4, <1>5, <2>3, <2>4, <2>5
<1>6. CASE pc[k] = "bump_findings"
    <2>1. BumpFindingCount(k)
        BY <1>6, Counters
    <2>2. PICK applied \in BOOLEAN :
              /\ Attempt(k, "bump_findings", applied, Done(k), Done(k))
              /\ findingCount' = IF applied /\ Rows(s) > 0
                                 THEN [findingCount EXCEPT ![s] = @ + 1] ELSE findingCount
        BY <2>1 DEF BumpFindingCount
    <2>3. applied /\ pc'[k] = Done(k)
        <3>1. Attempt(k, "bump_findings", applied, Done(k), Done(k))
            BY <2>2
        <3>2. /\ Moves(k, "bump_findings", Done(k), Done(k))
              /\ applied \/ (pc'[k] \in {"bump_findings", Done(k)} /\ ~clean'[k])
            BY <1>1, <1>4, <3>1, Attempts
        <3>3. QED  BY <3>2 DEF Moves
    <2>4. findingCount'[s] = findingCount[s] + 1
        BY <1>1, <1>3, <2>2, <2>3 DEF TypeOK
    <2>5. queryCount' = queryCount /\ made' = made
        BY <2>1 DEF BumpFindingCount, records
    <2>6. QED  BY <1>3, <1>4, <1>6, <2>3, <2>4, <2>5
<1>7. QED
    BY <1>5, <1>6

-----------------------------------------------------------------------------
(***************************************************************************)
(* The invariant is kept.                                                  *)
(***************************************************************************)

LEMMA FreshStep ==
    ASSUME SessionInv, NEW k \in Calls, Step(k), NEW i \in Calls, Fresh(i)
    PROVE  Fresh(i)'
<1>1. /\ Moved(k) /\ call' = call /\ CallInv(k) /\ TypeOK
      /\ \A j \in Calls : clean'[j] => clean[j]
    BY Earlier
<1>2. \A j \in Calls \ {k} : made'[j] = made[j] /\ pc'[j] = pc[j]
    BY <1>1, StepEffect, EffectRows DEF Moved
<1>3. CASE i # k
    BY <1>1, <1>2, <1>3 DEF Fresh
<1>4. CASE i = k
    <2>1. Control(k) /\ Control(k)'
        BY <1>1 DEF CallInv, Moved
    <2>2. ASSUME clean'[k], pc'[k] \in {"run_query", "store_finding", "store_execution"},
                 call[k].tool \in {"query_with_session", "record_finding"},
                 call[k].tool = "record_finding" => pc'[k] = "store_finding"
          PROVE  made'[k] = 0
        <3>1. pc[k] \in Near /\ clean[k]
            BY <1>1, <2>1, <2>2, StepNear DEF Near
        <3>2. pc[k] \notin {"bump_queries", "bump_findings"}
            <4>1. BumpQueryCount(k) \/ BumpFindingCount(k) => pc'[k] \in {pc[k], Done(k)}
                BY <1>1 DEF BumpQueryCount, BumpFindingCount, Attempt, TypeOK
            <4>2. Done(k) \notin Near
                BY Ends DEF Near
            <4>3. QED  BY <2>2, <4>1, <4>2, StepAt, Counters DEF Near
        <3>3. pc[k] # "store_execution"
            <4>1. ASSUME pc[k] = "store_execution" PROVE pc'[k] = "bump_queries"
                <5>1. \E applied \in BOOLEAN :
                          Attempt(k, "store_execution", applied, "bump_queries", "bump_queries")
                    BY <4>1, StepAt DEF StoreExecution
                <5>2. Moves(k, "store_execution", "bump_queries", "bump_queries")
                    BY <1>1, <5>1, SomeAttempt DEF Points
                <5>3. QED  BY <2>2, <5>2 DEF Moves
            <4>2. QED  BY <2>2, <4>1
        <3>4. ~(pc[k] = "store_finding" /\ call[k].tool = "record_finding")
            <4>1. ASSUME pc[k] = "store_finding", call[k].tool = "record_finding"
                  PROVE  pc'[k] = "bump_findings"
                <5>1. \E applied \in BOOLEAN :
                          Attempt(k, "store_finding", applied, "bump_findings", "error")
                    BY <4>1, Counters DEF StoreFinding, StoreAutomaticFinding
                <5>2. Moves(k, "store_finding", "bump_findings", "error")
                    BY <1>1, <5>1, SomeAttempt DEF Points
                <5>3. QED  BY <2>2, <5>2 DEF Moves
            <4>2. QED  BY <2>2, <4>1
        <3>5. call[k].tool = "query_with_session" /\ pc[k] \in {"run_query", "store_finding"}
            BY <2>1, <2>2, <3>1, <3>2, <3>3, <3>4 DEF Near, Control
        <3>6. made' = made
            BY <3>5, Counters DEF StoreExecution, StoreFinding, Attempt
        <3>7. QED  BY <1>4, <3>1, <3>5, <3>6 DEF Fresh
    <2>3. QED  BY <1>1, <1>4, <2>2 DEF Fresh
<1>5. QED
    BY <1>3, <1>4

\* How the two sets of a tool in session s change with a step of call k.
Shifts(k, s, t, p) ==
    /\ Tally(s, t)' = Tally(s, t) \/ Tally(s, t)' = Tally(s, t) \union {k}
    /\ call[k].session # s \/ call[k].tool # t \/ made'[k] = made[k] =>
           Tally(s, t)' = Tally(s, t)
    /\ call[k].session = s /\ call[k].tool = t /\ made'[k] > 0 =>
           Tally(s, t)' = Tally(s, t) \union {k}
    /\ \/ Between(s, p)' = Between(s, p) \/ Between(s, p)' = Between(s, p) \union {k}
       \/ Between(s, p)' = Between(s, p) \ {k}
    /\ call[k].session # s \/ (pc[k] = p <=> pc'[k] = p) => Between(s, p)' = Between(s, p)
    /\ call[k].session = s /\ pc'[k] = p => Between(s, p)' = Between(s, p) \union {k}
    /\ pc'[k] # p => Between(s, p)' = Between(s, p) \ {k}

LEMMA SetsAfter ==
    ASSUME call' = call, made \in [Calls -> Nat], made' \in [Calls -> Nat],
           NEW k \in Calls, made'[k] >= made[k],
           \A j \in Calls \ {k} : made'[j] = made[j] /\ pc'[j] = pc[j],
           NEW s, NEW t, NEW p
    PROVE  Shifts(k, s, t, p)
<1>1. Tally(s, t) = {i \in Calls : call[i].session = s /\ call[i].tool = t /\ made[i] > 0}
    BY DEF Tally, Of
<1>2. Tally(s, t)' = {i \in Calls : call[i].session = s /\ call[i].tool = t /\ made'[i] > 0}
    BY DEF Tally, Of
<1>3. Between(s, p) = {i \in Calls : call[i].session = s /\ pc[i] = p}
    BY DEF Between
<1>4. Between(s, p)' = {i \in Calls : call[i].session = s /\ pc'[i] = p}
    BY DEF Between
<1>5. made[k] \in Nat /\ made'[k] \in Nat
    OBVIOUS
<1>6. /\ Tally(s, t)' = Tally(s, t) \/ Tally(s, t)' = Tally(s, t) \union {k}
      /\ call[k].session # s \/ call[k].tool # t \/ made'[k] = made[k] =>
             Tally(s, t)' = Tally(s, t)
      /\ call[k].session = s /\ call[k].tool = t /\ made'[k] > 0 =>
             Tally(s, t)' = Tally(s, t) \union {k}
    BY <1>1, <1>2, <1>5
<1>7. /\ \/ Between(s, p)' = Between(s, p) \/ Between(s, p)' = Between(s, p) \union {k}
         \/ Between(s, p)' = Between(s, p) \ {k}
      /\ call[k].session # s \/ (pc[k] = p <=> pc'[k] = p) => Between(s, p)' = Between(s, p)
      /\ call[k].session = s /\ pc'[k] = p => Between(s, p)' = Between(s, p) \union {k}
      /\ pc'[k] # p => Between(s, p)' = Between(s, p) \ {k}
    BY <1>3, <1>4
<1>8. QED
    BY <1>6, <1>7 DEF Shifts

\* How the sets and the counter of one tool change together.
Counts(R, B, n, R2, B2, n2, k) ==
    \/ R2 = R /\ B2 = B /\ n2 = n
    \/ k \notin R /\ k \notin B /\ R2 = R \union {k} /\ B2 = B \union {k} /\ n2 = n
    \/ k \in B /\ R2 = R /\ B2 = B \ {k} /\ n2 = n + 1

LEMMA BalancedThen ==
    ASSUME NEW s, NEW t, NEW p, NEW n \in Nat, NEW n2, NEW k, Balanced(s, n, t, p),
           Quiet(s)' => Quiet(s),
           NEW R2, NEW B2, R2 = Tally(s, t)', B2 = Between(s, p)',
           R2 = Tally(s, t) \/ R2 = Tally(s, t) \union {k},
           B2 = Between(s, p) \/ B2 = Between(s, p) \union {k} \/ B2 = Between(s, p) \ {k},
           Quiet(s)' => Counts(Tally(s, t), Between(s, p), n, R2, B2, n2, k)
    PROVE  /\ IsFiniteSet(Tally(s, t)') /\ IsFiniteSet(Between(s, p)')
           /\ Quiet(s)' => n2 + Cardinality(Between(s, p)') = Cardinality(Tally(s, t)')
<1> DEFINE R == Tally(s, t)
           B == Between(s, p)
<1>1. IsFiniteSet(R) /\ IsFiniteSet(B) /\ (Quiet(s) => n + Cardinality(B) = Cardinality(R))
    BY DEF Balanced
<1> HIDE DEF R, B
<1>2. IsFiniteSet(R2) /\ IsFiniteSet(B2)
    BY <1>1, FS_AddElement, FS_RemoveElement DEF R, B
<1>3. ASSUME Quiet(s)' PROVE n2 + Cardinality(B2) = Cardinality(R2)
    <2>1. n + Cardinality(B) = Cardinality(R) /\ Counts(R, B, n, R2, B2, n2, k)
        BY <1>1, <1>3 DEF R, B
    <2>2. QED  BY <1>1, <2>1, Balance DEF Counts
<1>4. QED
    BY <1>2, <1>3

\* A step of call k counts for no session but its own, and there as it should.
LEMMA CountsStep ==
    ASSUME SessionInv, NEW k \in Calls, Fresh(k), Step(k), NEW s \in Calls, Quiet(s)'
    PROVE  /\ Counts(Tally(s, "query_with_session"), Between(s, "bump_queries"), queryCount[s],
                     Tally(s, "query_with_session")', Between(s, "bump_queries")',
                     queryCount'[s], k)
           /\ Counts(Tally(s, "record_finding"), Between(s, "bump_findings"), findingCount[s],
                     Tally(s, "record_finding")', Between(s, "bump_findings")',
                     findingCount'[s], k)
<1> DEFINE Queries  == Tally(s, "query_with_session")
           Findings == Tally(s, "record_finding")
           Asked    == Between(s, "bump_queries")
           Found    == Between(s, "bump_findings")
<1>1. /\ Moved(k) /\ call' = call /\ TypeOK /\ Control(k) /\ Control(k)'
      /\ s # Unknown
    BY Earlier, SessionAssumption DEF CallInv, Moved
<1>2. /\ made \in [Calls -> Nat] /\ made' \in [Calls -> Nat] /\ made'[k] >= made[k]
      /\ \A j \in Calls \ {k} : made'[j] = made[j] /\ pc'[j] = pc[j]
    BY <1>1, StepEffect, EffectRows DEF Moved, TypeOK, SessionTypes
<1>3. /\ call[k].session # s \/ call[k].tool # "query_with_session" \/ made'[k] = made[k] =>
             Queries' = Queries
      /\ call[k].session = s /\ call[k].tool = "query_with_session" /\ made'[k] > 0 =>
             Queries' = Queries \union {k}
      /\ call[k].session # s \/ (pc[k] = "bump_queries" <=> pc'[k] = "bump_queries") =>
             Asked' = Asked
      /\ call[k].session = s /\ pc'[k] = "bump_queries" => Asked' = Asked \union {k}
      /\ pc'[k] # "bump_queries" => Asked' = Asked \ {k}
    <2>1. Shifts(k, s, "query_with_session", "bump_queries")
        BY <1>1, <1>2, SetsAfter
    <2>2. QED  BY <2>1 DEF Shifts
<1>4. /\ call[k].session # s \/ call[k].tool # "record_finding" \/ made'[k] = made[k] =>
             Findings' = Findings
      /\ call[k].session = s /\ call[k].tool = "record_finding" /\ made'[k] > 0 =>
             Findings' = Findings \union {k}
      /\ call[k].session # s \/ (pc[k] = "bump_findings" <=> pc'[k] = "bump_findings") =>
             Found' = Found
      /\ call[k].session = s /\ pc'[k] = "bump_findings" => Found' = Found \union {k}
      /\ pc'[k] # "bump_findings" => Found' = Found \ {k}
    <2>1. Shifts(k, s, "record_finding", "bump_findings")
        BY <1>1, <1>2, SetsAfter
    <2>2. QED  BY <2>1 DEF Shifts
<1>5. /\ made[k] = 0 => k \notin Queries /\ k \notin Findings
      /\ k \in Asked <=> call[k].session = s /\ pc[k] = "bump_queries"
      /\ k \in Found <=> call[k].session = s /\ pc[k] = "bump_findings"
    BY DEF Tally, Of, Between
<1> HIDE DEF Queries, Findings, Asked, Found
<1>6. CASE call[k].session # s
    <2>1. queryCount'[s] = queryCount[s]
        BY <1>1, <1>6, Counters DEF BumpQueryCount, TypeOK
    <2>2. findingCount'[s] = findingCount[s]
        BY <1>1, <1>6, Counters DEF BumpFindingCount, TypeOK
    <2>3. QED  BY <1>3, <1>4, <1>6, <2>1, <2>2 DEF Counts, Queries, Findings, Asked, Found
<1>7. ASSUME call[k].session = s PROVE clean'[k]
    BY <1>1, <1>7 DEF Quiet
<1>8. ASSUME call[k].session = s,
             \/ pc[k] = "store_execution"
             \/ pc[k] = "store_finding" /\ call[k].tool = "record_finding"
      PROVE  /\ made[k] = 0 /\ made'[k] > 0
             /\ pc'[k] = (IF pc[k] = "store_execution" THEN "bump_queries" ELSE "bump_findings")
             /\ UNCHANGED <<queryCount, findingCount>>
    BY <1>1, <1>7, <1>8, RecordStep
<1>9. CASE call[k].session = s /\ pc[k] = "store_execution"
    <2>1. call[k].tool = "query_with_session"
        BY <1>1, <1>9 DEF Control
    <2>2. QED
        BY <1>3, <1>4, <1>5, <1>8, <1>9, <2>1 DEF Counts, Queries, Findings, Asked, Found
<1>10. CASE call[k].session = s /\ pc[k] = "store_finding" /\ call[k].tool = "record_finding"
    BY <1>3, <1>4, <1>5, <1>8, <1>10 DEF Counts, Queries, Findings, Asked, Found
<1>11. CASE call[k].session = s /\ pc[k] \in {"bump_queries", "bump_findings"}
    <2>1. /\ made' = made /\ pc'[k] \notin {"bump_queries", "bump_findings"}
          /\ queryCount'[s] = IF pc[k] = "bump_queries" THEN queryCount[s] + 1 ELSE queryCount[s]
          /\ findingCount'[s] =
                 IF pc[k] = "bump_findings" THEN findingCount[s] + 1 ELSE findingCount[s]
        BY <1>1, <1>7, <1>11, CountStep DEF Near
    <2>2. QED
        BY <1>3, <1>4, <1>5, <1>11, <2>1 DEF Counts, Queries, Findings, Asked, Found
<1>12. CASE /\ call[k].session = s
            /\ pc[k] \notin {"store_execution", "bump_queries", "bump_findings"}
            /\ ~(pc[k] = "store_finding" /\ call[k].tool = "record_finding")
    <2>1. pc'[k] \notin {"bump_queries", "bump_findings"}
        BY <1>1, <1>12, StepNear DEF Near, Control
    <2>2. queryCount' = queryCount /\ findingCount' = findingCount
        BY <1>12, Counters DEF BumpQueryCount, BumpFindingCount, Attempt
    <2>3. call[k].tool \in {"query_with_session", "record_finding"} => made' = made
        BY <1>1, <1>12, Counters DEF Control, StoreExecution, StoreFinding, Attempt
    <2>4. QED
        BY <1>3, <1>4, <1>12, <2>1, <2>2, <2>3 DEF Counts, Queries, Findings, Asked, Found
<1>13. QED
    BY <1>6, <1>9, <1>10, <1>11, <1>12

LEMMA BalancedStep ==
    ASSUME SessionInv, CountsInv, NEW k \in Calls, Step(k), NEW s \in Calls
    PROVE  BothBalanced(s)'
<1>1. /\ Moved(k) /\ call' = call /\ TypeOK /\ (\A j \in Calls : clean'[j] => clean[j])
      /\ Fresh(k) /\ BothBalanced(s)
    BY Earlier DEF CountsInv
<1>2. /\ made \in [Calls -> Nat] /\ made' \in [Calls -> Nat] /\ made'[k] >= made[k]
      /\ \A j \in Calls \ {k} : made'[j] = made[j] /\ pc'[j] = pc[j]
      /\ queryCount[s] \in Nat /\ findingCount[s] \in Nat
    BY <1>1, StepEffect, EffectRows DEF Moved, TypeOK, SessionTypes
<1>3. Quiet(s)' => Quiet(s)
    BY <1>1 DEF Quiet
<1>4. ASSUME NEW t, NEW p
      PROVE  /\ Tally(s, t)' = Tally(s, t) \/ Tally(s, t)' = Tally(s, t) \union {k}
             /\ \/ Between(s, p)' = Between(s, p) \/ Between(s, p)' = Between(s, p) \union {k}
                \/ Between(s, p)' = Between(s, p) \ {k}
    BY <1>1, <1>2, SetsAfter DEF Shifts
<1>5. Balanced(s, queryCount[s], "query_with_session", "bump_queries")'
    <2>1. Balanced(s, queryCount[s], "query_with_session", "bump_queries")
        BY <1>1 DEF BothBalanced
    <2>2. Quiet(s)' => Counts(Tally(s, "query_with_session"), Between(s, "bump_queries"),
                              queryCount[s], Tally(s, "query_with_session")',
                              Between(s, "bump_queries")', queryCount'[s], k)
        BY <1>1, CountsStep
    <2>3. PICK R2, B2 : R2 = Tally(s, "query_with_session")' /\ B2 = Between(s, "bump_queries")'
        OBVIOUS
    <2>4. PICK n, n2 : n = queryCount[s] /\ n2 = queryCount'[s]
        OBVIOUS
    <2>5. /\ IsFiniteSet(Tally(s, "query_with_session")')
          /\ IsFiniteSet(Between(s, "bump_queries")')
          /\ Quiet(s)' => n2 + Cardinality(Between(s, "bump_queries")') =
                              Cardinality(Tally(s, "query_with_session")')
        <3>1. n \in Nat /\ Balanced(s, n, "query_with_session", "bump_queries")
            BY <1>2, <2>1, <2>4
        <3>2. /\ R2 = Tally(s, "query_with_session") \/ R2 = Tally(s, "query_with_session") \union {k}
              /\ \/ B2 = Between(s, "bump_queries") \/ B2 = Between(s, "bump_queries") \union {k}
                 \/ B2 = Between(s, "bump_queries") \ {k}
            BY <1>4, <2>3
        <3>3. Quiet(s)' => Counts(Tally(s, "query_with_session"), Between(s, "bump_queries"), n, R2, B2, n2, k)
            BY <2>2, <2>3, <2>4
        <3>4. QED  BY <1>3, <2>3, <3>1, <3>2, <3>3, BalancedThen
    <2>6. QED  BY <2>4, <2>5 DEF Balanced
<1>6. Balanced(s, findingCount[s], "record_finding", "bump_findings")'
    <2>1. Balanced(s, findingCount[s], "record_finding", "bump_findings")
        BY <1>1 DEF BothBalanced
    <2>2. Quiet(s)' => Counts(Tally(s, "record_finding"), Between(s, "bump_findings"),
                              findingCount[s], Tally(s, "record_finding")',
                              Between(s, "bump_findings")', findingCount'[s], k)
        BY <1>1, CountsStep
    <2>3. PICK R2, B2 : R2 = Tally(s, "record_finding")' /\ B2 = Between(s, "bump_findings")'
        OBVIOUS
    <2>4. PICK n, n2 : n = findingCount[s] /\ n2 = findingCount'[s]
        OBVIOUS
    <2>5. /\ IsFiniteSet(Tally(s, "record_finding")')
          /\ IsFiniteSet(Between(s, "bump_findings")')
          /\ Quiet(s)' => n2 + Cardinality(Between(s, "bump_findings")') =
                              Cardinality(Tally(s, "record_finding")')
        <3>1. n \in Nat /\ Balanced(s, n, "record_finding", "bump_findings")
            BY <1>2, <2>1, <2>4
        <3>2. /\ R2 = Tally(s, "record_finding") \/ R2 = Tally(s, "record_finding") \union {k}
              /\ \/ B2 = Between(s, "bump_findings") \/ B2 = Between(s, "bump_findings") \union {k}
                 \/ B2 = Between(s, "bump_findings") \ {k}
            BY <1>4, <2>3
        <3>3. Quiet(s)' => Counts(Tally(s, "record_finding"), Between(s, "bump_findings"), n, R2, B2, n2, k)
            BY <2>2, <2>3, <2>4
        <3>4. QED  BY <1>3, <2>3, <3>1, <3>2, <3>3, BalancedThen
    <2>6. QED  BY <2>4, <2>5 DEF Balanced
<1>7. QED
    BY <1>5, <1>6 DEF BothBalanced

\* A call that begins is not in the counts of any session.
LEMMA CountsBegin ==
    ASSUME SessionInv, CountsInv, NEW k \in Calls, Begins(k)
    PROVE  CountsInv'
<1>1. Begun(k) /\ TypeOK /\ Unwritten(k)
    BY BeginsCall DEF SessionInv, CallInv
<1>2. /\ pc[k] = "unused" /\ \A j \in Calls \ {k} : call'[j] = call[j] /\ pc'[j] = pc[j]
      /\ clean' = clean /\ made' = made /\ queryCount' = queryCount
      /\ findingCount' = findingCount
    BY <1>1 DEF Begun, sessionData, counters, records
<1>3. call'[k].tool \in AllTools /\ pc'[k] = Entry(call'[k].tool)
    BY <1>1 DEF Begun
<1>4. pc'[k] \notin {"bump_queries", "bump_findings"}
    BY <1>3 DEF Entry, AllTools
<1>5. made[k] = 0 /\ call[k].session = Unknown
    BY <1>1, <1>2 DEF Unwritten, NoCall
<1>6. ASSUME NEW i \in Calls PROVE Fresh(i)'
    <2>1. Fresh(i)
        BY DEF CountsInv
    <2>2. QED  BY <1>2, <1>5, <2>1 DEF Fresh
<1>7. ASSUME NEW s \in Calls PROVE BothBalanced(s)'
    <2>1. s # Unknown /\ BothBalanced(s)
        BY SessionAssumption DEF CountsInv
    <2>2. ASSUME NEW t PROVE Tally(s, t)' = Tally(s, t)
        <3>1. Tally(s, t) = {i \in Calls : call[i].session = s /\ call[i].tool = t /\ made[i] > 0}
            BY DEF Tally, Of
        <3>2. Tally(s, t)' = {i \in Calls : call'[i].session = s /\ call'[i].tool = t /\ made'[i] > 0}
            BY DEF Tally, Of
        <3>3. QED  BY <1>2, <1>5, <2>1, <3>1, <3>2
    <2>3. ASSUME NEW p \in {"bump_queries", "bump_findings"} PROVE Between(s, p)' = Between(s, p)
        BY <1>2, <1>4, <1>5, <2>1 DEF Between
    <2>4. Quiet(s)' => Quiet(s)
        BY <1>2, <1>5, <2>1 DEF Quiet
    <2>5. Balanced(s, queryCount[s], "query_with_session", "bump_queries")'
        BY <1>2, <2>1, <2>2, <2>3, <2>4 DEF BothBalanced, Balanced
    <2>6. Balanced(s, findingCount[s], "record_finding", "bump_findings")'
        BY <1>2, <2>1, <2>2, <2>3, <2>4 DEF BothBalanced, Balanced
    <2>7. QED  BY <2>5, <2>6 DEF BothBalanced
<1>8. QED
    BY <1>6, <1>7 DEF CountsInv

LEMMA CountsStable == ASSUME CountsInv, UNCHANGED sessionVars PROVE CountsInv'
BY DEF sessionVars, callVars, sessionData, counters, records, CountsInv, Fresh, BothBalanced,
       Balanced, Tally, Of, Between, Quiet

LEMMA CountsInit == ASSUME Init PROVE CountsInv
<1>1. \A i \in Calls : call[i] = NoCall /\ pc[i] = "unused" /\ made[i] = 0
    BY DEF Init
<1>2. ASSUME NEW i \in Calls PROVE Fresh(i)
    BY <1>1 DEF Fresh
<1>3. ASSUME NEW s \in Calls PROVE BothBalanced(s)
    <2>1. /\ \A t : Tally(s, t) = {}
          /\ \A p \in {"bump_queries", "bump_findings"} : Between(s, p) = {}
        BY <1>1 DEF Tally, Of, Between
    <2>2. queryCount[s] = 0 /\ findingCount[s] = 0
        BY DEF Init
    <2>3. IsFiniteSet({}) /\ Cardinality({}) = 0
        BY FS_EmptySet
    <2>4. QED  BY <2>1, <2>2, <2>3 DEF BothBalanced, Balanced
<1>4. QED
    BY <1>2, <1>3 DEF CountsInv

LEMMA CountsInvariant == Spec => [](SessionInv /\ CountsInv)
<1>1. Init => SessionInv /\ CountsInv
    BY InitInv, CountsInit
<1>2. SessionInv /\ CountsInv /\ [Next]_sessionVars => (SessionInv /\ CountsInv)'
    <2>1. ASSUME SessionInv, CountsInv, NEW i \in Calls, NEW c \in Callers, BeginTool(i, c)
          PROVE  CountsInv'
        BY <2>1, ToolBegins, CountsBegin
    <2>2. ASSUME SessionInv, CountsInv, NEW k \in Calls, Step(k) PROVE CountsInv'
        <3>1. ASSUME NEW i \in Calls PROVE Fresh(i)'
            BY <2>2, FreshStep DEF CountsInv
        <3>2. ASSUME NEW s \in Calls PROVE BothBalanced(s)'
            BY <2>2, BalancedStep
        <3>3. QED  BY <3>1, <3>2 DEF CountsInv
    <2>3. QED
        BY <2>1, <2>2, CountsStable, NextInv DEF Next
<1>3. QED
    BY <1>1, <1>2, PTL DEF Spec

-----------------------------------------------------------------------------
\* agent_session_manager.go:174-182, :283-294: a query execution, and a finding that an
\* agent records, are stored by one statement and counted by the next, which those of
\* other clients come between. However many calls interleave, a session whose statements
\* have all been answered at once has counters that miss exactly the calls between the
\* two. The findings extracted from results are in neither: nothing counts them.
THEOREM CountersAreRight == Spec => []CountersMatch
<1>1. CountsInv => CountersMatch
    BY DEF CountsInv, BothBalanced, Balanced, Tally, Between, CountersMatch
<1>2. QED
    BY <1>1, CountsInvariant, PTL
=============================================================================
