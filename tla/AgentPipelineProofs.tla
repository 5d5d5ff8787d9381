------------------------- MODULE AgentPipelineProofs -------------------------
(***************************************************************************)
(* Theorems about AgentPipeline, for every set of workers, every capacity, *)
(* every TTL and every set of alerts and payloads.                         *)
(***************************************************************************)
EXTENDS AgentPipeline, FiniteSetTheorems, FunctionTheorems, SequenceTheorems, TLAPS

(***************************************************************************)
(* Helpers: what the event constructors and the sequence operators return. *)
(***************************************************************************)

\* The events the handlers make are the source's own.
LEMMA MadeEvents ==
    /\ \A a \in Alerts : AlertEvent(a) \in EventsOf(Prometheus)
    /\ \A p \in Payloads, t \in Times : CustomEvent(p, t) \in EventsOf(Custom)
<1>1. Prometheus # Custom  BY DEF Prometheus, Custom
<1>2. QED  BY <1>1 DEF EventsOf

\* Each source's events are events, and their ids are ids.
LEMMA EventIds ==
    /\ \A s \in Sources : EventsOf(s) \subseteq Events
    /\ \A e \in Events : e.id \in Ids
BY DEF Events, Ids

\* Dropping the head of a nonempty sequence, and adding at its end.
LEMMA SeqOps ==
    ASSUME NEW S, NEW q \in Seq(S)
    PROVE  /\ q # <<>> => Head(q) \in S /\ Tail(q) \in Seq(S)
           /\ \A e \in S : Append(q, e) \in Seq(S)
BY SMT

(***************************************************************************)
(* Types.                                                                  *)
(***************************************************************************)

\* A source's channel and its goroutine hold events of that source only, and a
\* busy worker holds an event.
OwnEvents ==
    /\ \A s \in Sources :
        /\ chan[s] \in Seq(EventsOf(s))
        /\ procPc[s] \in {"lookup", "decide", "submit"} => procEv[s] \in EventsOf(s)
    /\ \A w \in Workers : workerPc[w] \in {"investigate", "report"} => workerEv[w] \in Events

\* The initial state is well typed.
LEMMA InitTypeOK == Init => TypeOK
<1> SUFFICES ASSUME Init PROVE TypeOK
    OBVIOUS
<1>1. toStop \in Seq(Sources)
    BY DEF Init, Sources
<1>2. now \in Times /\ MainPCs = MainPCs \union {"serving"}
    BY PipelineAssumption DEF Init, Times, MainPCs
<1>3. seen \in [Ids -> {NotSeen} \union Times] /\ admitted \in [Ids -> Seq(Admissions)]
    BY DEF Init
<1>4. QED
    BY <1>1, <1>2, <1>3 DEF Init, TypeOK, ProcPCs, WorkerPCs, MainPCs

\* No step, of a source, a goroutine or run(), leaves the types.
LEMMA NextTypeOK == TypeOK /\ OwnEvents /\ [Next]_vars => TypeOK'
<1> SUFFICES ASSUME TypeOK, OwnEvents, [Next]_vars PROVE TypeOK'
    OBVIOUS
<1> USE DEF sourceVars, routerVars, procVars, poolVars, mainVars
<1>1. CASE Tick
    BY <1>1, PipelineAssumption DEF Tick, TypeOK, Times
<1>2. ASSUME NEW s \in Sources, NEW e \in Events, TrySend(s, e) PROVE TypeOK'
    <2>1. chan' \in [Sources -> Seq(Events)]
        BY <1>2, SeqOps DEF TrySend, TypeOK
    <2>2. QED
        BY <1>2, <2>1, SMTT(30) DEF TrySend, TypeOK
<1>3. CASE AlertmanagerWebhook
    BY <1>2, <1>3, MadeEvents, EventIds DEF AlertmanagerWebhook, Sources
<1>4. CASE CustomWebhook
    <2>1. now \in Times  BY DEF TypeOK
    <2>2. QED  BY <1>2, <1>4, <2>1, MadeEvents, EventIds DEF CustomWebhook, Sources
<1>5. CASE CleanupSeen
    BY <1>5 DEF CleanupSeen, TypeOK
<1>6. ASSUME NEW s \in Sources, ProcessorStep(s) PROVE TypeOK'
    <2>1. CASE Receive(s)
        <3>1. Head(chan[s]) \in Events /\ chan' \in [Sources -> Seq(Events)]
            BY <2>1, SeqOps DEF Receive, TypeOK
        <3>2. QED
            BY <2>1, <3>1 DEF Receive, TypeOK, ProcPCs
    <2>2. CASE StopProcessing(s)
        BY <2>2 DEF StopProcessing, TypeOK, ProcPCs
    <2>3. CASE LookupSeen(s)
        <3>1. procEv[s].id \in Ids
            BY <2>3, EventIds DEF LookupSeen, OwnEvents
        <3>2. procKnew' \in [Sources -> Nat]
            <4>1. Len(admitted[procEv[s].id]) \in Nat
                BY <3>1 DEF TypeOK
            <4>2. QED  BY <2>3, <4>1 DEF LookupSeen, TypeOK
        <3>3. QED
            BY <2>3, <3>1, <3>2 DEF LookupSeen, TypeOK, ProcPCs
    <2>4. CASE MarkSeen(s)
        <3>1. procEv[s].id \in Ids
            BY <2>4, EventIds DEF MarkSeen, OwnEvents
        <3>2. admitted' \in [Ids -> Seq(Admissions)]
            <4>1. [at |-> now, knew |-> procKnew[s]] \in Admissions
                BY DEF TypeOK, Admissions
            <4>2. QED  BY <2>4, <3>1, <4>1, SeqOps DEF MarkSeen, TypeOK
        <3>3. seen' \in [Ids -> {NotSeen} \union Times] /\ accepted' \in [Ids -> Nat]
            BY <2>4, <3>1, SMTT(30) DEF MarkSeen, TypeOK
        <3>4. QED
            BY <2>4, <3>2, <3>3 DEF MarkSeen, TypeOK, ProcPCs
    <2>5. CASE DropDuplicate(s)
        BY <2>5 DEF DropDuplicate, TypeOK, ProcPCs
    <2>6. CASE Submit(s)
        <3>1. procEv[s] \in Events /\ procEv[s].id \in Ids
            BY <2>6, EventIds DEF Submit, OwnEvents
        <3>2. Append(queue, procEv[s]) \in Seq(Events)
            BY <3>1, SeqOps DEF TypeOK
        <3>3. queue' \in Seq(Events)
            BY <2>6, <3>2 DEF Submit, TypeOK
        <3>4. rejected' \in [Ids -> Nat]
            <4>1. [rejected EXCEPT ![procEv[s].id] = @ + 1] \in [Ids -> Nat]
                BY <3>1, SMTT(30) DEF TypeOK
            <4>2. QED  BY <2>6, <4>1 DEF Submit, TypeOK
        <3>5. QED
            BY <2>6, <3>3, <3>4 DEF Submit, TypeOK, ProcPCs
    <2>7. CASE SubmitPanics(s)
        BY <2>7 DEF SubmitPanics, TypeOK, MainPCs
    <2>8. QED  BY <1>6, <2>1, <2>2, <2>3, <2>4, <2>5, <2>6, <2>7 DEF ProcessorStep
<1>7. ASSUME NEW w \in Workers, WorkerStep(w) PROVE TypeOK'
    <2>1. CASE TakeEvent(w)
        BY <2>1, SeqOps DEF TakeEvent, TypeOK, WorkerPCs
    <2>2. CASE StopWorker(w)
        BY <2>2 DEF StopWorker, TypeOK, WorkerPCs
    <2>3. CASE Investigate(w)
        <3>1. workerEv[w].id \in Ids
            BY <2>3, EventIds DEF Investigate, OwnEvents
        <3>2. investigated' \in [Ids -> Nat]
            BY <2>3, <3>1 DEF Investigate, TypeOK
        <3>3. workerPc' \in [Workers -> WorkerPCs]
            BY <2>3 DEF Investigate, TypeOK, WorkerPCs
        <3>4. QED
            BY <2>3, <3>2, <3>3 DEF Investigate, TypeOK
    <2>4. CASE SendResult(w)
        <3>1. Append(results, workerEv[w]) \in Seq(Events)
            BY <2>4, SeqOps DEF SendResult, OwnEvents, TypeOK
        <3>2. results' \in Seq(Events)
            BY <2>4, <3>1 DEF SendResult, TypeOK
        <3>3. QED
            BY <2>4, <3>2 DEF SendResult, TypeOK, WorkerPCs
    <2>5. QED  BY <1>7, <2>1, <2>2, <2>3, <2>4 DEF WorkerStep
<1>8. CASE LogResult
    <2>1. results # <<>> => Tail(results) \in Seq(Events)
        BY SeqOps DEF TypeOK
    <2>2. results' \in Seq(Events)
        BY <1>8, <2>1 DEF LogResult, TypeOK
    <2>3. logger' \in BOOLEAN
        BY <1>8, Zenon DEF LogResult, TypeOK
    <2>4. QED  BY <1>8, <2>2, <2>3 DEF LogResult, TypeOK
<1>9. CASE Signal \/ ShutdownStep
    <2>1. CASE StopSource
        <3>1. toStop' \in Seq(Sources) /\ Head(toStop) \in Sources
            BY <2>1, SeqOps DEF StopSource, TypeOK
        <3>2. QED  BY <2>1, <3>1 DEF StopSource, OnlyMain, TypeOK
    <2>2. CASE Signal \/ CloseStopCh \/ CloseEventQueue \/ CloseResultQueue \/ Exit
        BY <2>2
        DEF Signal, CloseStopCh, CloseEventQueue, CloseResultQueue, Exit, Goto, OnlyMain,
            TypeOK, MainPCs
    <2>3. QED  BY <1>9, <2>1, <2>2 DEF ShutdownStep
<1>10. CASE Terminated \/ UNCHANGED vars
    BY <1>10 DEF Terminated, vars, TypeOK
<1>11. QED
    BY <1>1, <1>3, <1>4, <1>5, <1>6, <1>7, <1>8, <1>9, <1>10 DEF Next

\* Each goroutine receives from its own channel, which its source alone fills.
LEMMA NextOwnEvents == TypeOK /\ OwnEvents /\ [Next]_vars => OwnEvents'
<1> SUFFICES ASSUME TypeOK, OwnEvents, [Next]_vars PROVE OwnEvents'
    OBVIOUS
<1> USE DEF sourceVars, routerVars, procVars, poolVars, mainVars
<1>1. ASSUME NEW s \in Sources, NEW e \in EventsOf(s), TrySend(s, e) PROVE OwnEvents'
    <2> SUFFICES ASSUME NEW r \in Sources PROVE chan'[r] \in Seq(EventsOf(r))
        BY <1>1 DEF TrySend, OwnEvents
    <2>1. CASE r = s
        BY <1>1, <2>1, SeqOps DEF TrySend, OwnEvents, TypeOK
    <2>2. CASE r # s
        BY <1>1, <2>2 DEF TrySend, OwnEvents, TypeOK
    <2>3. QED  BY <2>1, <2>2
<1>2. CASE AlertmanagerWebhook \/ CustomWebhook
    <2>1. now \in Times  BY DEF TypeOK
    <2>2. QED
        BY <1>1, <1>2, <2>1, MadeEvents DEF AlertmanagerWebhook, CustomWebhook, Sources
<1>3. ASSUME NEW s \in Sources, ProcessorStep(s) PROVE OwnEvents'
    <2>1. CASE Receive(s)
        <3>1. Head(chan[s]) \in EventsOf(s) /\ Tail(chan[s]) \in Seq(EventsOf(s))
            BY <2>1, SeqOps DEF Receive, OwnEvents
        <3>2. QED  BY <2>1, <3>1 DEF Receive, OwnEvents, TypeOK
    <2>2. CASE ~Receive(s)
        BY <1>3, <2>2
        DEF ProcessorStep, StopProcessing, LookupSeen, MarkSeen, DropDuplicate, Submit,
            SubmitPanics, OwnEvents, TypeOK
    <2>3. QED  BY <2>1, <2>2
<1>4. ASSUME NEW w \in Workers, WorkerStep(w) PROVE OwnEvents'
    <2>1. TakeEvent(w) => Head(queue) \in Events
        BY SeqOps DEF TakeEvent, TypeOK
    <2>2. QED
        BY <1>4, <2>1
        DEF WorkerStep, TakeEvent, StopWorker, Investigate, SendResult, OwnEvents, TypeOK
<1>5. CASE Tick \/ CleanupSeen \/ LogResult
    BY <1>5 DEF Tick, CleanupSeen, LogResult, OwnEvents
<1>6. CASE Signal \/ ShutdownStep
    BY <1>6
    DEF Signal, ShutdownStep, StopSource, CloseStopCh, CloseEventQueue, CloseResultQueue,
        Exit, Goto, OnlyMain, OwnEvents
<1>7. CASE Terminated \/ UNCHANGED vars
    BY <1>7 DEF Terminated, vars, OwnEvents
<1>8. QED
    BY <1>2, <1>3, <1>4, <1>5, <1>6, <1>7 DEF Next

\* Every state is well typed, whatever the requests, the schedule and the
\* moment of the signal.
THEOREM TypeCorrect == Spec => [](TypeOK /\ OwnEvents)
<1>1. Init => TypeOK /\ OwnEvents
    <2>1. Init => OwnEvents  BY DEF Init, OwnEvents
    <2>2. QED  BY <2>1, InitTypeOK
<1>2. TypeOK /\ OwnEvents /\ [Next]_vars => (TypeOK /\ OwnEvents)'
    BY NextTypeOK, NextOwnEvents
<1>3. QED
    BY <1>1, <1>2, PTL DEF Spec

(***************************************************************************)
(* The deduplicator.                                                       *)
(*                                                                         *)
(* IsDuplicate decides on a value it read before it takes the write lock.  *)
(* OncePerTTL is not inductive: it needs that an admission younger than    *)
(* TTL is covered, by the entry as it is and by what a goroutine read of   *)
(* it: neither is older than the admission. The two sources may write one  *)
(* entry by turns, which only ever raises it.                              *)
(***************************************************************************)

\* An admission is covered by an entry of the map, or has expired.
Covered(a, entry) == a.at <= entry \/ now - a.at > TTL

\* Admissions lie in the past and knew of earlier ones, and the entry of an id
\* covers all of them.
SeenCovers ==
    \A i \in Ids : \A k \in DOMAIN admitted[i] :
        /\ admitted[i][k].at <= now /\ admitted[i][k].knew < k
        /\ Covered(admitted[i][k], seen[i])

\* What the read section returned covers the admissions there were by then.
ReadCovers ==
    \A s \in Sources : procPc[s] = "decide" =>
        /\ procKnew[s] <= Len(admitted[procEv[s].id])
        /\ \A k \in 1..procKnew[s] : Covered(admitted[procEv[s].id][k], procLast[s])

DedupInv == SeenCovers /\ ReadCovers /\ OncePerTTL

\* What the type invariant says of the times in the history.
LEMMA AdmissionTypes ==
    ASSUME TypeOK
    PROVE  /\ now \in Int /\ TTL \in Int /\ \A i \in Ids : seen[i] \in Int
           /\ \A s \in Sources : procLast[s] \in Int /\ procKnew[s] \in Nat
           /\ \A i \in Ids : /\ admitted[i] \in Seq(Admissions)
                             /\ DOMAIN admitted[i] = 1..Len(admitted[i])
                             /\ \A k \in DOMAIN admitted[i] :
                                    /\ admitted[i][k].at \in Int /\ admitted[i][k].knew \in Nat
                                    /\ admitted[i][k].at > NotSeen
<1>1. Times \subseteq Int /\ NotSeen \in Int /\ \A t \in Times : t > NotSeen
    BY PipelineAssumption DEF Times, NotSeen
<1>2. /\ now \in Int /\ TTL \in Int /\ \A i \in Ids : seen[i] \in Int
      /\ \A s \in Sources : procLast[s] \in Int /\ procKnew[s] \in Nat
    <2>1. /\ now \in Times /\ seen \in [Ids -> {NotSeen} \union Times]
          /\ procLast \in [Sources -> {NotSeen} \union Times] /\ procKnew \in [Sources -> Nat]
        BY DEF TypeOK
    <2>2. {NotSeen} \union Times \subseteq Int /\ TTL \in Int
        BY <1>1, PipelineAssumption
    <2>3. QED  BY <2>1, <2>2
<1>3. ASSUME NEW i \in Ids
      PROVE  /\ admitted[i] \in Seq(Admissions)
             /\ DOMAIN admitted[i] = 1..Len(admitted[i])
             /\ \A k \in DOMAIN admitted[i] :
                    /\ admitted[i][k].at \in Int /\ admitted[i][k].knew \in Nat
                    /\ admitted[i][k].at > NotSeen
    <2>1. admitted[i] \in Seq(Admissions)
        BY DEF TypeOK
    <2>2. \A k \in DOMAIN admitted[i] : admitted[i][k] \in Admissions
        BY <2>1
    <2>3. \A k \in DOMAIN admitted[i] : admitted[i][k].at \in Times /\ admitted[i][k].knew \in Nat
        BY <2>2 DEF Admissions
    <2>4. DOMAIN admitted[i] = 1..Len(admitted[i])
        BY <2>1
    <2>5. QED  BY <1>1, <2>1, <2>3, <2>4
<1>4. QED
    BY <1>2, <1>3

\* A step that leaves the map, the history, the clock and what was read alone.
LEMMA DedupUnchanged ==
    ASSUME DedupInv, UNCHANGED <<now, seen, admitted, procEv, procLast, procKnew>>,
           \A s \in Sources : procPc'[s] = "decide" => procPc[s] = "decide"
    PROVE  DedupInv'
BY DEF DedupInv, SeenCovers, ReadCovers, OncePerTTL, Covered

\* Time only makes admissions older.
LEMMA TickKeepsDedup == TypeOK /\ OwnEvents /\ DedupInv /\ Tick => DedupInv'
<1> SUFFICES ASSUME TypeOK, OwnEvents, DedupInv, Tick PROVE DedupInv'
    OBVIOUS
<1> USE DEF sourceVars, routerVars, procVars, poolVars, mainVars
<1>1. now' = now + 1 /\ UNCHANGED <<seen, admitted, procPc, procEv, procLast, procKnew>>
    BY DEF Tick
<1>2. SeenCovers'
    <2> SUFFICES ASSUME NEW i \in Ids, NEW k \in DOMAIN admitted[i]
                 PROVE  /\ admitted[i][k].at <= now' /\ admitted[i][k].knew < k
                        /\ Covered(admitted[i][k], seen[i])'
        BY <1>1 DEF SeenCovers
    <2>1. /\ admitted[i][k].at <= now /\ admitted[i][k].knew < k
          /\ Covered(admitted[i][k], seen[i])
        BY DEF DedupInv, SeenCovers
    <2>2. QED  BY <1>1, <2>1, AdmissionTypes DEF Covered
<1>3. ReadCovers'
    <2> SUFFICES ASSUME NEW s \in Sources, procPc[s] = "decide"
                 PROVE  /\ procKnew[s] <= Len(admitted[procEv[s].id])
                        /\ \A k \in 1..procKnew[s] :
                               Covered(admitted[procEv[s].id][k], procLast[s])'
        BY <1>1 DEF ReadCovers
    <2>1. procEv[s].id \in Ids
        BY EventIds DEF OwnEvents
    <2>2. /\ procKnew[s] <= Len(admitted[procEv[s].id])
          /\ \A k \in 1..procKnew[s] : Covered(admitted[procEv[s].id][k], procLast[s])
        BY DEF DedupInv, ReadCovers
    <2>3. ASSUME NEW k \in 1..procKnew[s]
          PROVE  Covered(admitted[procEv[s].id][k], procLast[s])'
        <3>1. k \in DOMAIN admitted[procEv[s].id]
            BY <2>1, <2>2, AdmissionTypes
        <3>2. admitted[procEv[s].id][k].at \in Int /\ now \in Int /\ TTL \in Int
            BY <2>1, <3>1, AdmissionTypes
        <3>3. QED  BY <1>1, <2>2, <3>2 DEF Covered
    <2>4. QED  BY <2>2, <2>3
<1>4. QED
    BY <1>1, <1>2, <1>3 DEF DedupInv, OncePerTTL

\* The cleanup removes an entry only when all it covers has expired.
LEMMA CleanupKeepsDedup == TypeOK /\ DedupInv /\ CleanupSeen => DedupInv'
<1> SUFFICES ASSUME TypeOK, DedupInv, CleanupSeen PROVE DedupInv'
    OBVIOUS
<1> USE DEF sourceVars, routerVars, procVars, poolVars, mainVars
<1>1. UNCHANGED <<now, admitted, procPc, procEv, procLast, procKnew>>
    BY DEF CleanupSeen
<1>2. \A i \in Ids : seen'[i] = seen[i] \/ now - seen[i] > TTL
    BY DEF CleanupSeen
<1>3. SeenCovers'
    <2> SUFFICES ASSUME NEW i \in Ids, NEW k \in DOMAIN admitted[i]
                 PROVE  /\ admitted[i][k].at <= now /\ admitted[i][k].knew < k
                        /\ Covered(admitted[i][k], seen[i])'
        BY <1>1 DEF SeenCovers
    <2>1. /\ admitted[i][k].at <= now /\ admitted[i][k].knew < k
          /\ Covered(admitted[i][k], seen[i])
        BY DEF DedupInv, SeenCovers
    <2>2. QED  BY <1>1, <1>2, <2>1, AdmissionTypes DEF Covered
<1>4. QED
    BY <1>1, <1>3 DEF DedupInv, ReadCovers, Covered, OncePerTTL

\* A look-up returns the entry, which covers every admission so far.
LEMMA LookupKeepsDedup ==
    ASSUME TypeOK, OwnEvents, DedupInv, NEW s \in Sources, LookupSeen(s)
    PROVE  DedupInv'
<1> USE DEF sourceVars, routerVars, procVars, poolVars, mainVars
<1>1. /\ UNCHANGED <<now, admitted, seen, procEv>>
      /\ procLast' = [procLast EXCEPT ![s] = seen[procEv[s].id]]
      /\ procKnew' = [procKnew EXCEPT ![s] = Len(admitted[procEv[s].id])]
      /\ procPc' = [procPc EXCEPT ![s] = "decide"]
    BY DEF LookupSeen
<1>2. procEv[s].id \in Ids
    BY EventIds DEF LookupSeen, OwnEvents
<1>3. ReadCovers'
    <2> SUFFICES ASSUME NEW r \in Sources, procPc'[r] = "decide"
                 PROVE  /\ procKnew'[r] <= Len(admitted[procEv[r].id])
                        /\ \A k \in 1..procKnew'[r] :
                               Covered(admitted[procEv[r].id][k], procLast'[r])
        BY <1>1 DEF ReadCovers, Covered
    <2>1. CASE r = s
        <3>1. /\ procKnew'[r] = Len(admitted[procEv[s].id])
              /\ procLast'[r] = seen[procEv[s].id]
            BY <1>1, <2>1 DEF TypeOK
        <3>2. procKnew'[r] <= Len(admitted[procEv[r].id])
            BY <1>2, <2>1, <3>1, AdmissionTypes
        <3>3. ASSUME NEW k \in 1..procKnew'[r]
              PROVE  Covered(admitted[procEv[r].id][k], procLast'[r])
            <4>1. k \in DOMAIN admitted[procEv[s].id]
                BY <1>2, <3>1, AdmissionTypes
            <4>2. QED  BY <1>2, <2>1, <3>1, <4>1 DEF DedupInv, SeenCovers
        <3>4. QED  BY <3>2, <3>3
    <2>2. CASE r # s
        <3>1. procPc[r] = "decide" /\ procKnew'[r] = procKnew[r] /\ procLast'[r] = procLast[r]
            BY <1>1, <2>2 DEF TypeOK
        <3>2. QED  BY <3>1 DEF DedupInv, ReadCovers
    <2>3. QED  BY <2>1, <2>2
<1>4. QED
    BY <1>1, <1>3 DEF DedupInv, SeenCovers, Covered, OncePerTTL

\* An event that is let through is covered by its mark, as are all before it.
LEMMA MarkKeepsDedup ==
    ASSUME TypeOK, OwnEvents, DedupInv, NEW s \in Sources, MarkSeen(s)
    PROVE  DedupInv'
<1> USE DEF sourceVars, routerVars, procVars, poolVars, mainVars
<1> DEFINE i == procEv[s].id
           a == [at |-> now, knew |-> procKnew[s]]
<1>1. i \in Ids /\ procPc[s] = "decide" /\ IsNew(procLast[s])
    BY EventIds DEF MarkSeen, OwnEvents
<1>2. /\ UNCHANGED <<now, procEv, procLast, procKnew>>
      /\ seen' = [seen EXCEPT ![i] = now]
      /\ admitted' = [admitted EXCEPT ![i] = Append(@, a)]
      /\ \A r \in Sources : procPc'[r] = "decide" => r # s /\ procPc[r] = "decide"
    BY DEF MarkSeen, TypeOK
<1>3. /\ \A j \in Ids : j # i => admitted'[j] = admitted[j] /\ seen'[j] = seen[j]
      /\ seen'[i] = now /\ admitted'[i] = Append(admitted[i], a)
    BY <1>1, <1>2 DEF TypeOK
<1>4. /\ DOMAIN admitted'[i] = 1..Len(admitted[i]) + 1
      /\ Len(admitted'[i]) = Len(admitted[i]) + 1 /\ Len(admitted[i]) \in Nat
      /\ admitted'[i][Len(admitted[i]) + 1] = a
      /\ \A k \in 1..Len(admitted[i]) : k \in DOMAIN admitted[i] /\ admitted'[i][k] = admitted[i][k]
    <2>1. admitted[i] \in Seq(Admissions) /\ a \in Admissions
        BY <1>1 DEF TypeOK, Admissions
    <2>2. QED  BY <1>3, <2>1
<1>5. procKnew[s] <= Len(admitted[i])
      /\ \A k \in 1..procKnew[s] : now - admitted[i][k].at > TTL
    <2>1. /\ procKnew[s] <= Len(admitted[i])
          /\ \A k \in 1..procKnew[s] : Covered(admitted[i][k], procLast[s])
        BY <1>1 DEF DedupInv, ReadCovers
    <2>2. ASSUME NEW k \in 1..procKnew[s] PROVE now - admitted[i][k].at > TTL
        <3>1. k \in DOMAIN admitted[i]
            BY <1>1, <2>1, AdmissionTypes
        <3>2. admitted[i][k].at \in Int /\ admitted[i][k].at > NotSeen
            BY <1>1, <3>1, AdmissionTypes
        <3>3. Covered(admitted[i][k], procLast[s])
            BY <2>1
        <3>4. QED  BY <1>1, <3>2, <3>3, AdmissionTypes DEF IsNew, Covered, NotSeen
    <2>3. QED  BY <2>1, <2>2
<1>6. SeenCovers'
    <2> SUFFICES ASSUME NEW j \in Ids, NEW k \in DOMAIN admitted'[j]
                 PROVE  /\ admitted'[j][k].at <= now /\ admitted'[j][k].knew < k
                        /\ Covered(admitted'[j][k], seen'[j])
        BY <1>2 DEF SeenCovers, Covered
    <2>1. CASE j # i
        BY <1>3, <2>1 DEF DedupInv, SeenCovers
    <2>2. CASE j = i /\ k = Len(admitted[i]) + 1
        <3>1. admitted'[j][k] = a /\ seen'[j] = now
            BY <1>3, <1>4, <2>2
        <3>2. a.at = now /\ a.knew = procKnew[s] /\ now \in Int /\ procKnew[s] \in Nat
            BY AdmissionTypes
        <3>3. a.at <= now /\ a.knew < k
            BY <1>4, <1>5, <2>2, <3>2
        <3>4. admitted'[j][k].at <= seen'[j]
            BY <3>1, <3>3
        <3>5. QED  BY <3>1, <3>3, <3>4 DEF Covered
    <2>3. CASE j = i /\ k # Len(admitted[i]) + 1
        <3>1. k \in DOMAIN admitted[i] /\ admitted'[j][k] = admitted[i][k]
            <4>1. k \in 1..Len(admitted[i])
                BY <1>4, <2>3
            <4>2. QED  BY <1>4, <2>3, <4>1
        <3>2. admitted[i][k].at <= now /\ admitted[i][k].knew < k
            BY <1>1, <3>1 DEF DedupInv, SeenCovers
        <3>3. QED  BY <1>3, <2>3, <3>1, <3>2 DEF Covered
    <2>4. QED  BY <2>1, <2>2, <2>3
<1>7. ReadCovers'
    <2> SUFFICES ASSUME NEW r \in Sources, procPc[r] = "decide"
                 PROVE  /\ procKnew[r] <= Len(admitted'[procEv[r].id])
                        /\ \A k \in 1..procKnew[r] :
                               Covered(admitted'[procEv[r].id][k], procLast[r])
        BY <1>2 DEF ReadCovers, Covered
    <2>1. procEv[r].id \in Ids
        BY EventIds DEF OwnEvents
    <2>2. /\ procKnew[r] <= Len(admitted[procEv[r].id])
          /\ \A k \in 1..procKnew[r] : Covered(admitted[procEv[r].id][k], procLast[r])
        BY DEF DedupInv, ReadCovers
    <2>3. CASE procEv[r].id # i
        BY <1>3, <2>1, <2>2, <2>3
    <2>4. CASE procEv[r].id = i
        <3>1. \A k \in 1..procKnew[r] : k \in 1..Len(admitted[i])
            BY <1>4, <2>2, <2>4, AdmissionTypes
        <3>2. procKnew[r] <= Len(admitted'[i])
            BY <1>4, <2>2, <2>4, AdmissionTypes
        <3>3. QED  BY <1>4, <2>2, <2>4, <3>1, <3>2
    <2>5. QED  BY <2>3, <2>4
<1>8. OncePerTTL'
    <2> SUFFICES ASSUME NEW j \in Ids, NEW k \in DOMAIN admitted'[j],
                        NEW l \in 1..admitted'[j][k].knew
                 PROVE  admitted'[j][k].at - admitted'[j][l].at > TTL
        BY DEF OncePerTTL
    <2>1. CASE j # i
        BY <1>3, <2>1 DEF DedupInv, OncePerTTL
    <2>2. CASE j = i /\ k = Len(admitted[i]) + 1
        <3>1. l \in 1..procKnew[s] /\ l \in 1..Len(admitted[i])
            BY <1>4, <1>5, <2>2, AdmissionTypes
        <3>2. QED  BY <1>4, <1>5, <2>2, <3>1
    <2>3. CASE j = i /\ k # Len(admitted[i]) + 1
        <3>1. k \in DOMAIN admitted[i] /\ k \in 1..Len(admitted[i])
              /\ admitted'[i][k] = admitted[i][k]
            BY <1>4, <2>3
        <3>2. admitted[i][k].knew < k /\ admitted[i][k].knew \in Nat
            BY <1>1, <3>1, AdmissionTypes DEF DedupInv, SeenCovers
        <3>3. l \in 1..admitted[i][k].knew /\ l \in 1..Len(admitted[i])
            BY <1>4, <2>3, <3>1, <3>2
        <3>4. QED  BY <1>1, <1>4, <2>3, <3>1, <3>3 DEF DedupInv, OncePerTTL
    <2>4. QED  BY <2>1, <2>2, <2>3
<1>9. QED
    BY <1>6, <1>7, <1>8 DEF DedupInv

\* Every step keeps the deduplicator's invariant.
LEMMA DedupStep ==
    ASSUME TypeOK, OwnEvents, DedupInv, [Next]_vars
    PROVE  DedupInv'
<1> USE DEF sourceVars, routerVars, procVars, poolVars, mainVars
<1>1. CASE Tick \/ CleanupSeen
    BY <1>1, TickKeepsDedup, CleanupKeepsDedup
<1>2. ASSUME NEW s \in Sources, LookupSeen(s) \/ MarkSeen(s) PROVE DedupInv'
    BY <1>2, LookupKeepsDedup, MarkKeepsDedup
<1>3. ASSUME NEW s \in Sources, Receive(s) PROVE DedupInv'
    <2>1. \A r \in Sources : procPc'[r] = "decide" => r # s /\ procPc[r] = "decide"
        BY <1>3 DEF Receive, TypeOK
    <2>2. \A r \in Sources : r # s => procEv'[r] = procEv[r]
        BY <1>3 DEF Receive, TypeOK
    <2>3. UNCHANGED <<now, seen, admitted, procLast, procKnew>>
        BY <1>3 DEF Receive
    <2>4. QED
        BY <2>1, <2>2, <2>3 DEF DedupInv, SeenCovers, ReadCovers, Covered, OncePerTTL
<1>4. ASSUME NEW s \in Sources,
             StopProcessing(s) \/ DropDuplicate(s) \/ Submit(s) \/ SubmitPanics(s)
      PROVE  DedupInv'
    BY <1>4, DedupUnchanged DEF StopProcessing, DropDuplicate, Submit, SubmitPanics, TypeOK
<1>5. CASE AlertmanagerWebhook \/ CustomWebhook
    BY <1>5, DedupUnchanged DEF AlertmanagerWebhook, CustomWebhook, TrySend
<1>6. CASE (\E w \in Workers : WorkerStep(w)) \/ LogResult
    BY <1>6, DedupUnchanged
    DEF WorkerStep, TakeEvent, StopWorker, Investigate, SendResult, LogResult
<1>7. CASE Signal \/ ShutdownStep
    BY <1>7, DedupUnchanged
    DEF Signal, ShutdownStep, StopSource, CloseStopCh, CloseEventQueue, CloseResultQueue,
        Exit, Goto, OnlyMain
<1>8. CASE Terminated \/ UNCHANGED vars
    BY <1>8, DedupUnchanged DEF Terminated, vars
<1>9. QED
    BY <1>1, <1>2, <1>3, <1>4, <1>5, <1>6, <1>7, <1>8 DEF Next, ProcessorStep

\* The deduplicator lets an event through only if all admissions of its id that
\* its look-up could see are older than TTL, though it decides on a value read
\* before it took the write lock, though the other source's goroutine may be at
\* the same id, and though the cleanup runs in between.
THEOREM DedupOncePerTTL == Spec => []OncePerTTL
<1>1. Init => DedupInv
    BY DEF Init, DedupInv, SeenCovers, ReadCovers, OncePerTTL
<1>2. TypeOK /\ OwnEvents /\ DedupInv /\ [Next]_vars => DedupInv'
    BY DedupStep
<1>3. DedupInv => OncePerTTL
    BY DEF DedupInv
<1>4. QED
    BY <1>1, <1>2, <1>3, TypeCorrect, PTL DEF Spec

(***************************************************************************)
(* Shutdown.                                                               *)
(***************************************************************************)

\* A worker that left its loop never comes back to send a result, so closing
\* resultQueue after wg.Wait() closes it after the last send.
THEOREM ResultsSafe == Spec => []NoSendOnClosedResults
<1>1. Init => NoSendOnClosedResults
    BY DEF Init, NoSendOnClosedResults
<1>2. TypeOK /\ NoSendOnClosedResults /\ [Next]_vars => NoSendOnClosedResults'
    <2> SUFFICES ASSUME TypeOK, NoSendOnClosedResults, [Next]_vars
                 PROVE  NoSendOnClosedResults'
        OBVIOUS
    <2> USE DEF sourceVars, routerVars, procVars, poolVars, mainVars, NoSendOnClosedResults
    <2>1. ASSUME NEW w \in Workers, WorkerStep(w) PROVE NoSendOnClosedResults'
        BY <2>1
        DEF WorkerStep, TakeEvent, StopWorker, Investigate, SendResult, TypeOK
    <2>2. CASE CloseResultQueue
        BY <2>2 DEF CloseResultQueue, OnlyMain
    <2>3. CASE Signal \/ StopSource \/ CloseStopCh \/ CloseEventQueue \/ Exit
        BY <2>3
        DEF Signal, StopSource, CloseStopCh, CloseEventQueue, Exit, Goto, OnlyMain
    <2>4. CASE Tick \/ AlertmanagerWebhook \/ CustomWebhook \/ CleanupSeen \/ LogResult
        BY <2>4 DEF Tick, AlertmanagerWebhook, CustomWebhook, TrySend, CleanupSeen, LogResult
    <2>5. ASSUME NEW s \in Sources, ProcessorStep(s) PROVE NoSendOnClosedResults'
        BY <2>5
        DEF ProcessorStep, Receive, StopProcessing, LookupSeen, MarkSeen, DropDuplicate,
            Submit, SubmitPanics
    <2>6. CASE Terminated \/ UNCHANGED vars
        BY <2>6 DEF Terminated, vars
    <2>7. QED
        BY <2>1, <2>2, <2>3, <2>4, <2>5, <2>6 DEF Next, ShutdownStep
<1>3. QED
    BY <1>1, <1>2, TypeCorrect, PTL DEF Spec

(***************************************************************************)
(* Every accepted event is in one place.                                   *)
(*                                                                         *)
(* Accounted is inductive together with the types. Its sum is over sets of *)
(* goroutines and of queue positions, so the proof is about how one step   *)
(* changes the size of each of them.                                       *)
(***************************************************************************)

\* The terms of the sum: the goroutines about to submit an event of an id, the
\* positions such events have in a queue, the workers that investigate one.
Submitters(i) == {s \in Sources : procPc[s] = "submit" /\ procEv[s].id = i}
Positions(q, i) == {k \in 1..Len(q) : q[k].id = i}
Investigators(i) == {w \in Workers : workerPc[w] = "investigate" /\ workerEv[w].id = i}

Counts(i) ==
    /\ IsFiniteSet(Submitters(i)) /\ Cardinality(Submitters(i)) \in Nat
    /\ IsFiniteSet(Investigators(i)) /\ Cardinality(Investigators(i)) \in Nat
    /\ CountIn(queue, i) \in Nat

\* How often an event counts towards an id.
One(e, i) == IF e.id = i THEN 1 ELSE 0

LEMMA FinitePositions ==
    ASSUME NEW S, NEW q \in Seq(S), NEW i
    PROVE  IsFiniteSet(Positions(q, i)) /\ CountIn(q, i) \in Nat
           /\ CountIn(q, i) = Cardinality(Positions(q, i))
<1>1. IsFiniteSet(1..Len(q))
    BY FS_Interval
<1>2. Positions(q, i) \in SUBSET (1..Len(q))
    BY DEF Positions
<1>3. IsFiniteSet(Positions(q, i))
    BY <1>1, <1>2, FS_Subset
<1>4. QED
    BY <1>3, FS_CardinalityType DEF CountIn, Positions

\* All the sets of the sum are finite.
LEMMA FiniteCounts == ASSUME TypeOK, NEW i PROVE Counts(i)
<1>1. IsFiniteSet(Sources)
    <2>1. Sources = {Prometheus} \union {Custom}
        BY DEF Sources
    <2>2. QED  BY <2>1, FS_Singleton, FS_AddElement
<1>2. Submitters(i) \in SUBSET Sources /\ Investigators(i) \in SUBSET Workers
    BY DEF Submitters, Investigators
<1>3. IsFiniteSet(Submitters(i)) /\ IsFiniteSet(Investigators(i))
    BY <1>1, <1>2, FS_Subset, PipelineAssumption
<1>4. CountIn(queue, i) \in Nat
    BY FinitePositions DEF TypeOK
<1>5. QED
    BY <1>3, <1>4, FS_CardinalityType DEF Counts

\* Enqueueing an event adds it once.
LEMMA CountAppend ==
    ASSUME NEW S, NEW q \in Seq(S), NEW e \in S, NEW i
    PROVE  CountIn(Append(q, e), i) = CountIn(q, i) + One(e, i)
<1> DEFINE n == Len(q) + 1
<1>1. Append(q, e) \in Seq(S) /\ Len(Append(q, e)) = n /\ Len(q) \in Nat
      /\ Append(q, e)[n] = e /\ \A k \in 1..Len(q) : Append(q, e)[k] = q[k]
    OBVIOUS
<1>2. CASE e.id = i
    <2>1. Positions(Append(q, e), i) = Positions(q, i) \union {n}
        BY <1>1, <1>2 DEF Positions
    <2>2. n \notin Positions(q, i)
        BY <1>1 DEF Positions
    <2>3. QED
        <3>1. IsFiniteSet(Positions(q, i)) /\ CountIn(q, i) = Cardinality(Positions(q, i))
            BY FinitePositions
        <3>2. CountIn(Append(q, e), i) = Cardinality(Positions(Append(q, e), i))
            BY <1>1, FinitePositions
        <3>3. Cardinality(Positions(q, i) \union {n}) = Cardinality(Positions(q, i)) + 1
            BY <2>2, <3>1, FS_AddElement
        <3>4. QED
            BY <1>2, <2>1, <3>1, <3>2, <3>3 DEF One
<1>3. CASE e.id # i
    <2>1. Positions(Append(q, e), i) = Positions(q, i)
        BY <1>1, <1>3 DEF Positions
    <2>2. QED
        <3>1. CountIn(q, i) \in Nat /\ CountIn(q, i) = Cardinality(Positions(q, i))
            BY FinitePositions
        <3>2. CountIn(Append(q, e), i) = Cardinality(Positions(Append(q, e), i))
            BY <1>1, FinitePositions
        <3>3. QED
            BY <1>3, <2>1, <3>1, <3>2 DEF One
<1>4. QED  BY <1>2, <1>3

\* Dequeueing takes the head away once and shifts the others.
LEMMA CountTail ==
    ASSUME NEW S, NEW q \in Seq(S), q # <<>>, NEW i
    PROVE  CountIn(q, i) = CountIn(Tail(q), i) + One(Head(q), i)
<1> DEFINE P == Positions(q, i) \ {1}
           T == Positions(Tail(q), i)
           f == [k \in P |-> k - 1]
<1>1. Tail(q) \in Seq(S) /\ Len(Tail(q)) = Len(q) - 1 /\ Len(q) \in Nat /\ Len(q) >= 1
      /\ Head(q) = q[1] /\ \A k \in 1..Len(q) - 1 : Tail(q)[k] = q[k + 1]
    BY HeadTailProperties
<1>2. IsFiniteSet(Positions(q, i)) /\ IsFiniteSet(P)
    BY FinitePositions, FS_RemoveElement
<1>3. f \in Bijection(P, T)
    <2>1. P \subseteq Int /\ T \subseteq Int
        BY DEF Positions
    <2>2. \A k \in P : k - 1 \in T
        BY <1>1 DEF Positions
    <2>3. f \in [P -> T]
        BY <2>2
    <2>4. \A a, b \in P : f[a] = f[b] => a = b
        BY <2>1
    <2>5. \A t \in T : \E k \in P : f[k] = t
        <3> SUFFICES ASSUME NEW t \in T PROVE t + 1 \in P /\ (t + 1) - 1 = t
            OBVIOUS
        <3> QED  BY <1>1, <2>1 DEF Positions
    <2>6. QED
        BY <2>3, <2>4, <2>5, Fun_IsBij
<1>4. Cardinality(T) = Cardinality(P)
    BY <1>2, <1>3, FS_Bijection, Fun_ExistsBij
<1>5. Cardinality(P) = IF 1 \in Positions(q, i) THEN Cardinality(Positions(q, i)) - 1
                       ELSE Cardinality(Positions(q, i))
    BY <1>2, FS_RemoveElement
<1>6. 1 \in Positions(q, i) <=> Head(q).id = i
    BY <1>1 DEF Positions
<1> HIDE DEF P, T, f
<1>7. CountIn(q, i) = Cardinality(Positions(q, i)) /\ CountIn(q, i) \in Nat
    BY FinitePositions
<1>8. CountIn(Tail(q), i) = Cardinality(T)
    BY <1>1, FinitePositions DEF T
<1>9. QED
    BY <1>4, <1>5, <1>6, <1>7, <1>8 DEF One

\* The sum of one id.
AccountedAt(i) ==
    accepted[i] = Cardinality(Submitters(i)) + CountIn(queue, i)
                  + Cardinality(Investigators(i)) + investigated[i] + rejected[i]

EventOrNone == Events \union {NoEvent}

\* The types the sum needs.
LEMMA SumTypes ==
    TypeOK => /\ procPc \in [Sources -> ProcPCs] /\ workerPc \in [Workers -> WorkerPCs]
              /\ workerEv \in [Workers -> EventOrNone]
              /\ accepted \in [Ids -> Nat] /\ rejected \in [Ids -> Nat]
              /\ investigated \in [Ids -> Nat] /\ queue \in Seq(Events)
BY DEF TypeOK, EventOrNone

LEMMA AccountedForm == Accounted <=> \A i \in Ids : AccountedAt(i)
BY DEF Accounted, AccountedAt, Submitters, Investigators

\* A step that changes no term of the sum.
LEMMA AccountedUnchanged ==
    ASSUME NEW i \in Ids, AccountedAt(i),
           UNCHANGED <<accepted, queue, investigated, rejected>>,
           Submitters(i)' = Submitters(i), Investigators(i)' = Investigators(i)
    PROVE  AccountedAt(i)'
BY DEF AccountedAt, CountIn

\* Process accepts an event, and its goroutine is about to submit it.
LEMMA AccountedMark ==
    ASSUME TypeOK, OwnEvents, NEW i \in Ids, AccountedAt(i), NEW s \in Sources, MarkSeen(s)
    PROVE  AccountedAt(i)'
<1> USE DEF sourceVars, poolVars, mainVars
<1>0. /\ procPc \in [Sources -> ProcPCs] /\ workerPc \in [Workers -> WorkerPCs]
      /\ workerEv \in [Workers -> EventOrNone]
      /\ accepted \in [Ids -> Nat] /\ rejected \in [Ids -> Nat]
      /\ investigated \in [Ids -> Nat] /\ queue \in Seq(Events)
    BY SumTypes
<1>1. UNCHANGED <<procEv, queue, workerPc, workerEv, investigated, rejected>>
      /\ procPc[s] = "decide" /\ procEv[s].id \in Ids
      /\ \/ /\ accepted' = [accepted EXCEPT ![procEv[s].id] = @ + 1]
            /\ procPc' = [procPc EXCEPT ![s] = "submit"]
         \/ UNCHANGED accepted /\ procPc' = [procPc EXCEPT ![s] = "recv"]
    <2>1. procPc[s] = "decide"
        BY DEF MarkSeen
    <2>2. procEv[s].id \in Ids
        BY <2>1, EventIds DEF OwnEvents
    <2>3. CASE Filters(procEv[s])
        BY <2>1, <2>2, <2>3 DEF MarkSeen
    <2>4. CASE ~Filters(procEv[s])
        BY <2>1, <2>2, <2>4 DEF MarkSeen
    <2>5. QED  BY <2>3, <2>4
<1>2. Investigators(i)' = Investigators(i) /\ CountIn(queue, i)' = CountIn(queue, i)
    BY <1>0, <1>1 DEF Investigators, CountIn
<1>3. Counts(i) /\ s \notin Submitters(i)
    BY <1>0, <1>1, FiniteCounts DEF Submitters
<1>4. CASE /\ accepted' = [accepted EXCEPT ![procEv[s].id] = @ + 1]
           /\ procPc' = [procPc EXCEPT ![s] = "submit"]
           /\ procEv[s].id = i
    <2>1. Submitters(i)' = Submitters(i) \union {s}
        BY <1>0, <1>1, <1>4 DEF Submitters
    <2>2. Cardinality(Submitters(i)') = Cardinality(Submitters(i)) + 1
        BY <1>0, <1>3, <2>1, FS_AddElement DEF Counts
    <2>3. accepted'[i] = accepted[i] + 1
        BY <1>0, <1>1, <1>4
    <2>4. QED
        <3>1. investigated' = investigated /\ rejected' = rejected
            BY <1>1
        <3>2. QED
            BY <1>0, <1>2, <1>3, <2>2, <2>3, <3>1, SMTT(30) DEF AccountedAt, Counts
<1>5. CASE \/ /\ accepted' = [accepted EXCEPT ![procEv[s].id] = @ + 1]
              /\ procPc' = [procPc EXCEPT ![s] = "submit"]
              /\ procEv[s].id # i
           \/ UNCHANGED accepted /\ procPc' = [procPc EXCEPT ![s] = "recv"]
    <2>1. Submitters(i)' = Submitters(i)
        BY <1>0, <1>1, <1>5 DEF Submitters
    <2>2. accepted'[i] = accepted[i]
        BY <1>0, <1>1, <1>5
    <2>3. QED
        BY <1>0, <1>1, <1>2, <2>1, <2>2 DEF AccountedAt
<1>6. QED  BY <1>1, <1>4, <1>5

\* The goroutine enqueues its event, or counts it as refused.
LEMMA AccountedSubmit ==
    ASSUME TypeOK, OwnEvents, NEW i \in Ids, AccountedAt(i), NEW s \in Sources, Submit(s)
    PROVE  AccountedAt(i)'
<1> USE DEF sourceVars, routerVars, mainVars
<1> DEFINE e == procEv[s]
<1>0. /\ procPc \in [Sources -> ProcPCs] /\ workerPc \in [Workers -> WorkerPCs]
      /\ workerEv \in [Workers -> EventOrNone]
      /\ accepted \in [Ids -> Nat] /\ rejected \in [Ids -> Nat]
      /\ investigated \in [Ids -> Nat] /\ queue \in Seq(Events)
    BY SumTypes
<1>1. /\ UNCHANGED <<procEv, accepted, workerPc, workerEv, investigated>>
      /\ procPc[s] = "submit" /\ e \in Events /\ e.id \in Ids
      /\ procPc' = [procPc EXCEPT ![s] = "recv"]
      /\ \/ queue' = Append(queue, e) /\ UNCHANGED rejected
         \/ rejected' = [rejected EXCEPT ![e.id] = @ + 1] /\ UNCHANGED queue
    BY EventIds DEF Submit, OwnEvents
<1>2. Investigators(i)' = Investigators(i)
    BY <1>0, <1>1 DEF Investigators
<1>3. Counts(i)
    BY FiniteCounts
<1>4. Cardinality(Submitters(i)') = Cardinality(Submitters(i)) - One(e, i)
    <2>1. CASE e.id = i
        <3>1. Submitters(i)' = Submitters(i) \ {s} /\ s \in Submitters(i)
            BY <1>0, <1>1, <2>1 DEF Submitters
        <3>2. Cardinality(Submitters(i)') = Cardinality(Submitters(i)) - 1
            BY <1>3, <3>1, FS_RemoveElement DEF Counts
        <3>3. One(e, i) = 1
            BY <2>1 DEF One
        <3>4. QED  BY <3>2, <3>3
    <2>2. CASE e.id # i
        <3>1. Submitters(i)' = Submitters(i)
            BY <1>0, <1>1, <2>2 DEF Submitters
        <3>2. QED  BY <1>0, <1>3, <2>2, <3>1 DEF Counts, One
    <2>3. QED  BY <1>0, <2>1, <2>2
<1>5. One(e, i) \in {0, 1}
    BY DEF One
<1>6. CountIn(queue', i) \in Nat /\ rejected'[i] \in Nat
      /\ CountIn(queue', i) + rejected'[i] = CountIn(queue, i) + rejected[i] + One(e, i)
    <2>1. CountIn(queue, i) \in Nat /\ rejected[i] \in Nat
        BY <1>0, <1>3 DEF Counts
    <2>2. CASE queue' = Append(queue, e) /\ UNCHANGED rejected
        <3>1. CountIn(queue', i) = CountIn(queue, i) + One(e, i)
            BY <1>0, <1>1, <2>2, CountAppend
        <3>2. QED  BY <1>5, <2>1, <2>2, <3>1
    <2>3. CASE rejected' = [rejected EXCEPT ![e.id] = @ + 1] /\ UNCHANGED queue
        <3>1. rejected'[i] = rejected[i] + One(e, i) /\ queue' = queue
            BY <1>0, <2>3 DEF One
        <3>2. QED  BY <1>5, <2>1, <3>1
    <2>4. QED  BY <1>1, <2>2, <2>3
<1>7. CountIn(queue, i)' = CountIn(queue', i) /\ accepted' = accepted
      /\ investigated' = investigated
    BY <1>1 DEF CountIn
<1>8. Cardinality(Submitters(i)) \in Nat /\ Cardinality(Investigators(i)) \in Nat
      /\ CountIn(queue, i) \in Nat /\ investigated[i] \in Nat /\ rejected[i] \in Nat
      /\ accepted[i] \in Nat
    BY <1>0, <1>3 DEF Counts
<1> HIDE DEF e
<1>9. Cardinality(Submitters(i)') + CountIn(queue', i) + rejected'[i]
        = Cardinality(Submitters(i)) + CountIn(queue, i) + rejected[i]
    BY <1>4, <1>5, <1>6, <1>8
<1>10. Cardinality(Submitters(i)') \in Int
    BY <1>4, <1>5, <1>8
<1>11. QED
    BY <1>2, <1>6, <1>7, <1>8, <1>9, <1>10 DEF AccountedAt

\* A worker takes the head of the queue.
LEMMA AccountedTake ==
    ASSUME TypeOK, NEW i \in Ids, AccountedAt(i), NEW w \in Workers, TakeEvent(w)
    PROVE  AccountedAt(i)'
<1> USE DEF sourceVars, routerVars, procVars, mainVars
<1> DEFINE e == Head(queue)
<1>0. /\ procPc \in [Sources -> ProcPCs] /\ workerPc \in [Workers -> WorkerPCs]
      /\ workerEv \in [Workers -> EventOrNone]
      /\ accepted \in [Ids -> Nat] /\ rejected \in [Ids -> Nat]
      /\ investigated \in [Ids -> Nat] /\ queue \in Seq(Events)
    BY SumTypes
<1>1. /\ UNCHANGED <<procPc, procEv, accepted, rejected, investigated>>
      /\ workerPc[w] = "recv" /\ queue # <<>> /\ queue' = Tail(queue)
      /\ workerPc' = [workerPc EXCEPT ![w] = "investigate"]
      /\ workerEv' = [workerEv EXCEPT ![w] = e]
    BY DEF TakeEvent
<1>2. Submitters(i)' = Submitters(i)
    BY <1>0, <1>1 DEF Submitters
<1>3. Counts(i)
    BY FiniteCounts
<1>4. Cardinality(Investigators(i)') = Cardinality(Investigators(i)) + One(e, i)
    <2>1. CASE e.id = i
        <3>1. Investigators(i)' = Investigators(i) \union {w} /\ w \notin Investigators(i)
            BY <1>0, <1>1, <2>1 DEF Investigators
        <3>2. Cardinality(Investigators(i)') = Cardinality(Investigators(i)) + 1
            BY <1>3, <3>1, FS_AddElement DEF Counts
        <3>3. QED  BY <2>1, <3>2 DEF One
    <2>2. CASE e.id # i
        <3>1. Investigators(i)' = Investigators(i)
            BY <1>0, <1>1, <2>2 DEF Investigators
        <3>2. QED  BY <1>0, <1>3, <2>2, <3>1 DEF Counts, One
    <2>3. QED  BY <1>0, <2>1, <2>2
<1>5. CountIn(queue, i) = CountIn(Tail(queue), i) + One(e, i)
    BY <1>0, <1>1, CountTail
<1>6. CountIn(queue, i)' = CountIn(Tail(queue), i) /\ CountIn(Tail(queue), i) \in Nat
    <2>1. Tail(queue) \in Seq(Events)
        BY <1>0, <1>1, SeqOps
    <2>2. CountIn(queue, i)' = CountIn(Tail(queue), i)
        BY <1>1 DEF CountIn
    <2>3. QED  BY <2>1, <2>2, FinitePositions
<1>7. One(e, i) \in {0, 1} /\ accepted' = accepted /\ rejected' = rejected
      /\ investigated' = investigated
    BY <1>1 DEF One
<1> HIDE DEF e
<1>8. QED
    BY <1>0, <1>2, <1>3, <1>4, <1>5, <1>6, <1>7, SMTT(30) DEF AccountedAt, Counts

\* The agent has finished the event.
LEMMA AccountedInvestigate ==
    ASSUME TypeOK, OwnEvents, NEW i \in Ids, AccountedAt(i), NEW w \in Workers, Investigate(w)
    PROVE  AccountedAt(i)'
<1> USE DEF sourceVars, routerVars, procVars, mainVars
<1> DEFINE e == workerEv[w]
<1>0. /\ procPc \in [Sources -> ProcPCs] /\ workerPc \in [Workers -> WorkerPCs]
      /\ workerEv \in [Workers -> EventOrNone]
      /\ accepted \in [Ids -> Nat] /\ rejected \in [Ids -> Nat]
      /\ investigated \in [Ids -> Nat] /\ queue \in Seq(Events)
    BY SumTypes
<1>1. /\ UNCHANGED <<procPc, procEv, accepted, rejected, queue, workerEv>>
      /\ workerPc[w] = "investigate" /\ e.id \in Ids
      /\ workerPc' = [workerPc EXCEPT ![w] = "report"]
      /\ investigated' = [investigated EXCEPT ![e.id] = @ + 1]
    BY EventIds DEF Investigate, OwnEvents
<1>2. Submitters(i)' = Submitters(i) /\ CountIn(queue, i)' = CountIn(queue, i)
    BY <1>0, <1>1 DEF Submitters, CountIn
<1>3. Counts(i)
    BY FiniteCounts
<1>4. Cardinality(Investigators(i)') = Cardinality(Investigators(i)) - One(e, i)
    <2>1. CASE e.id = i
        <3>1. Investigators(i)' = Investigators(i) \ {w} /\ w \in Investigators(i)
            BY <1>0, <1>1, <2>1 DEF Investigators
        <3>2. Cardinality(Investigators(i)') = Cardinality(Investigators(i)) - 1
            BY <1>3, <3>1, FS_RemoveElement DEF Counts
        <3>3. One(e, i) = 1
            BY <2>1 DEF One
        <3>4. QED  BY <3>2, <3>3
    <2>2. CASE e.id # i
        <3>1. Investigators(i)' = Investigators(i)
            BY <1>0, <1>1, <2>2 DEF Investigators
        <3>2. QED  BY <1>0, <1>3, <2>2, <3>1 DEF Counts, One
    <2>3. QED  BY <1>0, <2>1, <2>2
<1>5. investigated'[i] = investigated[i] + One(e, i) /\ One(e, i) \in {0, 1}
    BY <1>0, <1>1 DEF One
<1> HIDE DEF e
<1>6. QED
    BY <1>0, <1>1, <1>2, <1>3, <1>4, <1>5, SMTT(30) DEF AccountedAt, Counts

\* Every step keeps the sum of every id.
LEMMA AccountedStep ==
    ASSUME TypeOK, OwnEvents, [Next]_vars, NEW i \in Ids, AccountedAt(i)
    PROVE  AccountedAt(i)'
<1> USE DEF sourceVars, routerVars, procVars, poolVars, mainVars
<1>1. ASSUME UNCHANGED <<procPc, procEv, workerPc, workerEv, accepted, queue, investigated,
                         rejected>>
      PROVE  AccountedAt(i)'
    BY <1>1, AccountedUnchanged DEF Submitters, Investigators
<1>2. CASE Tick \/ AlertmanagerWebhook \/ CustomWebhook \/ CleanupSeen \/ LogResult
    BY <1>1, <1>2
    DEF Tick, AlertmanagerWebhook, CustomWebhook, TrySend, CleanupSeen, LogResult
<1>3. CASE Signal \/ ShutdownStep \/ Terminated \/ UNCHANGED vars
    BY <1>1, <1>3
    DEF Signal, ShutdownStep, StopSource, CloseStopCh, CloseEventQueue, CloseResultQueue,
        Exit, Goto, OnlyMain, Terminated, vars
<1>4. ASSUME NEW s \in Sources, ProcessorStep(s) PROVE AccountedAt(i)'
    <2>1. CASE MarkSeen(s)
        BY <2>1, AccountedMark
    <2>2. CASE Submit(s)
        BY <2>2, AccountedSubmit
    <2>3. CASE SubmitPanics(s)
        BY <1>1, <2>3 DEF SubmitPanics
    <2>4. CASE Receive(s) \/ StopProcessing(s) \/ LookupSeen(s) \/ DropDuplicate(s)
        <3>1. Submitters(i)' = Submitters(i)
            BY <2>4
            DEF Receive, StopProcessing, LookupSeen, DropDuplicate, Submitters, TypeOK
        <3>2. UNCHANGED <<workerPc, workerEv, accepted, queue, investigated, rejected>>
            BY <2>4 DEF Receive, StopProcessing, LookupSeen, DropDuplicate
        <3>3. Investigators(i)' = Investigators(i)
            BY <3>2 DEF Investigators
        <3>4. QED  BY <3>1, <3>2, <3>3, AccountedUnchanged
    <2>5. QED  BY <1>4, <2>1, <2>2, <2>3, <2>4 DEF ProcessorStep
<1>5. ASSUME NEW w \in Workers, WorkerStep(w) PROVE AccountedAt(i)'
    <2>1. CASE TakeEvent(w)
        BY <2>1, AccountedTake
    <2>2. CASE Investigate(w)
        BY <2>2, AccountedInvestigate
    <2>3. CASE StopWorker(w) \/ SendResult(w)
        <3>1. Investigators(i)' = Investigators(i)
            BY <2>3 DEF StopWorker, SendResult, Investigators, TypeOK
        <3>2. UNCHANGED <<procPc, procEv, accepted, queue, investigated, rejected>>
            BY <2>3 DEF StopWorker, SendResult
        <3>3. Submitters(i)' = Submitters(i)
            BY <3>2 DEF Submitters
        <3>4. QED  BY <3>1, <3>2, <3>3, AccountedUnchanged
    <2>4. QED  BY <1>5, <2>1, <2>2, <2>3 DEF WorkerStep
<1>6. QED
    BY <1>2, <1>3, <1>4, <1>5 DEF Next

\* No accepted event is lost, duplicated or handed to two workers, whatever the
\* requests, the capacities, the number of workers and the moment of the signal.
THEOREM EventsAccounted == Spec => []Accounted
<1>1. Init => Accounted
    <2> SUFFICES ASSUME Init, NEW i \in Ids PROVE AccountedAt(i)
        BY AccountedForm
    <2>1. Submitters(i) = {} /\ Investigators(i) = {} /\ Positions(queue, i) = {}
        BY DEF Init, Submitters, Investigators, Positions
    <2>2. queue \in Seq(Events)
        BY DEF Init
    <2>3. CountIn(queue, i) = 0
        BY <2>1, <2>2, FinitePositions, FS_EmptySet
    <2>4. QED
        BY <2>1, <2>3, FS_EmptySet DEF Init, AccountedAt
<1>2. TypeOK /\ OwnEvents /\ Accounted /\ [Next]_vars => Accounted'
    <2> SUFFICES ASSUME TypeOK, OwnEvents, Accounted, [Next]_vars PROVE Accounted'
        OBVIOUS
    <2>1. \A i \in Ids : AccountedAt(i)'
        BY AccountedForm, AccountedStep
    <2>2. QED
        BY <2>1 DEF Accounted, AccountedAt, Submitters, Investigators
<1>3. QED
    BY <1>1, <1>2, TypeCorrect, PTL DEF Spec
=============================================================================
