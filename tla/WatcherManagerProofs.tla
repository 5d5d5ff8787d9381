------------------------- MODULE WatcherManagerProofs -------------------------
(***************************************************************************)
(* RunsOnce holds for any kinds and versions and any history of the CRDs.  *)
(*                                                                         *)
(* The argument: an informer that was run is either one that somebody      *)
(* still waits for under the BaseWatcher's lock or one marked as started;  *)
(* and it is run only under the lock, when it is not so marked.            *)
(***************************************************************************)
EXTENDS WatcherManager, FiniteSetTheorems, TLAPS

RunInv ==
    /\ lock \in [Kinds -> Callers \union {None}]
    /\ runs \in [Kinds -> Nat]
    /\ \A k \in Kinds : lock[k] = None /\ k \notin begun => runs[k] = 0
    /\ RunsOnce

LEMMA InitRunInv == Init => RunInv
BY DEF Init, RunInv, RunsOnce

LEMMA StepRunInv == RunInv /\ [Next]_vars => RunInv'
<1> SUFFICES ASSUME RunInv, [Next]_vars PROVE RunInv'
  OBVIOUS
<1> USE DEF RunInv, RunsOnce
<1>1. CASE UNCHANGED baseVars
  BY <1>1 DEF baseVars
<1>2. ASSUME NEW k \in Kinds, Sync(k) PROVE RunInv'
  BY <1>2 DEF Sync
<1>3. ASSUME NEW k \in Kinds, NEW who \in Callers, BeginStart(who, k) PROVE RunInv'
  <2>1. runs[k] = 0
    BY <1>3 DEF BeginStart
  <2>2. who # None
    BY DEF Callers, None
  <2> QED
    BY <1>3, <2>1, <2>2 DEF BeginStart
<1>4. ASSUME NEW k \in Kinds, NEW who \in Callers, EndStart(who, k) PROVE RunInv'
  BY <1>4 DEF EndStart
<1>5. ASSUME NEW k \in Kinds, NEW who \in Callers, AlreadyStarted(who, k) PROVE RunInv'
  BY <1>1, <1>5 DEF AlreadyStarted
<1>6. CASE ListenerStep
  BY <1>1, <1>6 DEF ListenerStep, HandleCRD, RegisterHandlerOnly, ReadStarted
<1>7. CASE ManagerStep
  BY <1>1, <1>7 DEF ManagerStep, StartFactory, CachesSynced, ExtensionHandlers, Done, OnlyManager
<1>8. ASSUME NEW k \in Kinds, ChangeCRD(k) PROVE RunInv'
  BY <1>1, <1>8 DEF ChangeCRD
<1>9. CASE UNCHANGED vars
  BY <1>1, <1>9 DEF vars, baseVars
<1> QED
  BY <1>2, <1>3, <1>4, <1>5, <1>6, <1>7, <1>8, <1>9 DEF Next, StartStep

\* No informer is run a second time, whoever starts its handler (watcher.go,
\* BaseWatcher.Start).
THEOREM InformersRunOnce == Spec => []RunsOnce
<1>1. Spec => []RunInv
  BY InitRunInv, StepRunInv, PTL DEF Spec
<1>2. RunInv => RunsOnce
  BY DEF RunInv
<1> QED
  BY <1>1, <1>2, PTL

-----------------------------------------------------------------------------
(***************************************************************************)
(* The types, for any finite set of kinds.                                 *)
(***************************************************************************)

LEMMA InitTypes == Init => TypeOK
<1> SUFFICES ASSUME Init PROVE TypeOK
  OBVIOUS
<1>1. crd \in [Kinds -> States]
  BY DEF Init, States
<1>2. events \in Seq(Notifications)
  BY DEF Init
<1>3. listener \in Places
  BY DEF Init, Places
<1>4. /\ version \in [Kinds -> Supported \union {None}]
      /\ lock \in [Kinds -> Callers \union {None}]
      /\ runs \in [Kinds -> Nat]
  BY DEF Init
<1>5. changes \in 0..MaxChanges
  BY ManagerAssumption DEF Init
<1> QED
  BY <1>1, <1>2, <1>3, <1>4, <1>5 DEF Init, TypeOK

\* A notification tells its kind and state; a place that is not idle, its kind.
LEMMA Fields ==
    /\ \A k \in Kinds, st \in States : Notification(k, st) \in Notifications
    /\ \A n \in Notifications : n.kind \in Kinds /\ n.state \in States
    /\ \A k \in Kinds, pc \in {"register", "registered", "start"} : [pc |-> pc, kind |-> k] \in Places
    /\ \A l \in Places : l.pc \in {"register", "registered", "start"} => l.kind \in Kinds
    /\ Idle \in Places
BY DEF Notifications, Notification, Places, Idle

\* The list of the CRDs is a sequence of notifications.
LEMMA ListTypes ==
    ASSUME TypeOK, NEW s \in SetToSeqs({Notification(k, crd[k]) :
                                            k \in {j \in Kinds : crd[j] # Absent}})
    PROVE  s \in Seq(Notifications)
<1> DEFINE there == {j \in Kinds : crd[j] # Absent}
           notes == {Notification(k, crd[k]) : k \in there}
           note  == [k \in there |-> Notification(k, crd[k])]
<1>1. IsFiniteSet(there)
  BY ManagerAssumption, FS_Subset
<1>2. note \in Surjection(there, notes)
  BY DEF Surjection
<1>3. notes \in SUBSET Notifications
  BY Fields DEF TypeOK
<1>4. s \in SetToSeqs(notes)
  OBVIOUS
<1> HIDE DEF there, notes, note
<1>5. Cardinality(notes) \in Nat
  BY <1>1, <1>2, FS_Surjection, FS_CardinalityType
<1>6. s \in [1 .. Cardinality(notes) -> notes]
  BY <1>4 DEF SetToSeqs
<1>7. s \in Seq(notes)
  BY <1>5, <1>6
<1> QED
  BY <1>3, <1>7

LEMMA StepTypes == TypeOK /\ [Next]_vars => TypeOK'
<1> SUFFICES ASSUME TypeOK, [Next]_vars PROVE TypeOK'
  OBVIOUS
<1> USE ManagerAssumption DEF TypeOK
<1>1. ASSUME NEW k \in Kinds, ChangeCRD(k) PROVE TypeOK'
  <2>1. PICK st \in States :
            /\ crd' = [crd EXCEPT ![k] = st]
            /\ events' = IF manager = "new" THEN events ELSE Append(events, Notification(k, st))
    BY <1>1 DEF ChangeCRD, States
  <2>2. crd' \in [Kinds -> States]
    BY <2>1
  <2>3. events' \in Seq(Notifications)
    BY <2>1, Fields
  <2>4. changes' \in 0..MaxChanges
    BY <1>1 DEF ChangeCRD
  <2> QED
    BY <1>1, <2>2, <2>3, <2>4 DEF ChangeCRD, registry, managerVars, baseVars
<1>2. ASSUME NEW k \in Kinds, Sync(k) PROVE TypeOK'
  BY <1>2 DEF Sync, crdVars, registry, managerVars
<1>3. CASE HandleCRD
  <2> DEFINE n == Head(events)
  <2>1. n \in Notifications /\ Tail(events) \in Seq(Notifications)
    BY <1>3 DEF HandleCRD
  <2>2. n.kind \in Kinds
    BY <2>1, Fields
  <2>3. available' \subseteq Kinds
    BY <1>3, <2>2 DEF HandleCRD
  <2>4. version' \in [Kinds -> Supported \union {None}] /\ listener' \in Places
    BY <1>3, <2>2, Fields, ZenonT(40) DEF HandleCRD
  <2> QED
    BY <1>3, <2>1, <2>3, <2>4 DEF HandleCRD, crdVars, managerVars, baseVars
<1>4. CASE RegisterHandlerOnly
  <2>1. listener.kind \in Kinds /\ listener' \in Places
    BY <1>4, Fields DEF RegisterHandlerOnly
  <2> QED
    BY <1>4, <2>1 DEF RegisterHandlerOnly, crdVars, managerVars, baseVars
<1>5. CASE ReadStarted
  <2>1. listener' \in Places
    BY <1>5, Fields DEF ReadStarted
  <2> QED
    BY <1>5, <2>1 DEF ReadStarted, crdVars, registry, managerVars, baseVars
<1>6. ASSUME NEW k \in Kinds, NEW who \in Callers, BeginStart(who, k) PROVE TypeOK'
  BY <1>6 DEF BeginStart, crdVars, registry, managerVars
<1>7. ASSUME NEW k \in Kinds, NEW who \in Callers, AlreadyStarted(who, k) PROVE TypeOK'
  <2>1. listener' \in Places /\ todo' \subseteq handlers
    BY <1>7, Fields DEF AlreadyStarted, Return
  <2> QED
    BY <1>7, <2>1 DEF AlreadyStarted, crdVars, registry, baseVars
<1>8. ASSUME NEW k \in Kinds, NEW who \in Callers, EndStart(who, k) PROVE TypeOK'
  <2>1. listener' \in Places /\ todo' \subseteq handlers
    BY <1>8, Fields DEF EndStart, Return
  <2> QED
    BY <1>8, <2>1 DEF EndStart, crdVars, registry
<1>9. CASE StartFactory
  <2>1. events' \in Seq(Notifications)
    BY <1>9, ListTypes DEF StartFactory
  <2> QED
    BY <1>9, <2>1 DEF StartFactory, OnlyManager, crdVars, registry, baseVars
<1>10. CASE CachesSynced \/ ExtensionHandlers \/ Done
  BY <1>10 DEF CachesSynced, ExtensionHandlers, Done, OnlyManager, crdVars, registry, baseVars
<1>11. CASE UNCHANGED vars
  BY <1>11 DEF vars
<1> QED
  BY <1>1, <1>2, <1>3, <1>4, <1>5, <1>6, <1>7, <1>8, <1>9, <1>10, <1>11
     DEF Next, StartStep, ListenerStep, ManagerStep

\* The registry and the base watchers stay in their types: core handlers are
\* handlers, and a started one has synced.
THEOREM TypeCorrect == Spec => []TypeOK
BY InitTypes, StepTypes, PTL DEF Spec
===============================================================================
