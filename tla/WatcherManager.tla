---------------------------- MODULE WatcherManager ----------------------------
(***************************************************************************)
(* The watcher's manager bringing up the handlers of extension kinds: the  *)
(* CRD watcher registers a handler when it learns of an established CRD,   *)
(* in the listener goroutine of the CRD informer, while Manager.Start, in  *)
(* a goroutine of its own, waits for the caches and then starts the        *)
(* informers of handlers that came meanwhile.                              *)
(*                                                                         *)
(* The core handlers are registered before Start, and their informers are  *)
(* started by the factory; here they are only what the wait is for. No     *)
(* factory is registered once the CRD watcher runs.                        *)
(***************************************************************************)
EXTENDS Naturals, Sequences, FiniteSets, SequencesExt

CONSTANTS
    Kinds,       \* the kinds that have a handler factory
    Versions,    \* versions a CRD may have
    Supported,   \* those for which the factory makes a handler
    MaxChanges   \* bound: changes of CRDs

ASSUME ManagerAssumption ==
    /\ IsFiniteSet(Kinds)
    /\ Supported \subseteq Versions
    /\ MaxChanges \in Nat

Absent  == "absent"
Pending == "pending"   \* the CRD is there and not yet established
None    == "none"

VARIABLES
    crd,        \* kind -> its CRD at the API server: Absent, Pending or its version
    events,     \* CRD notifications the listener has not handled: [kind, state]
    available,  \* availableCRDs, by kind
    handlers,   \* the extension kinds in handlers
    core,       \* the extension kinds in coreHandlers
    version,    \* kind -> the version its handler was made for, or None
    listener,   \* where the CRD callback is: [pc, kind]
    manager,    \* where Start is
    started,    \* Manager.started
    todo,       \* the handlers Start's loop has still to start
    lock,       \* kind -> who is in BaseWatcher.Start of its handler, or None
    begun,      \* the kinds whose BaseWatcher is started
    runs,       \* kind -> times its informer was run
    synced,     \* the kinds whose informer has synced
    changes     \* bounds the model

vars == <<crd, events, available, handlers, core, version, listener, manager, started,
          todo, lock, begun, runs, synced, changes>>

crdVars     == <<crd, changes>>
registry    == <<handlers, core, version>>
managerVars == <<manager, started, todo>>
baseVars    == <<lock, begun, runs, synced>>

Idle == [pc |-> "idle", kind |-> None]

Init ==
    /\ crd \in [Kinds -> {Absent, Pending} \union Versions]
    /\ events = <<>> /\ available = {}
    /\ handlers = {} /\ core = {}
    /\ version = [k \in Kinds |-> None]
    /\ listener = Idle
    /\ manager = "new" /\ started = FALSE /\ todo = {}
    /\ lock = [k \in Kinds |-> None]
    /\ begun = {} /\ synced = {}
    /\ runs = [k \in Kinds |-> 0]
    /\ changes = 0

-----------------------------------------------------------------------------
(* The API server. *)

Notification(k, state) == [kind |-> k, state |-> state]

\* A CRD is created, established, given another version or deleted.
ChangeCRD(k) ==
    /\ changes < MaxChanges
    /\ changes' = changes + 1
    /\ \E state \in {Absent, Pending} \union Versions :
        /\ IF crd[k] = Absent THEN state = Pending ELSE state \notin {crd[k], Pending}
        /\ crd' = [crd EXCEPT ![k] = state]
        /\ events' = IF manager = "new" THEN events ELSE Append(events, Notification(k, state))
    /\ UNCHANGED <<available, registry, listener, managerVars, baseVars>>

\* The list of a kind's informer succeeds, which takes a CRD.
Sync(k) ==
    /\ runs[k] > 0 /\ k \notin synced
    /\ crd[k] \in Versions
    /\ synced' = synced \union {k}
    /\ UNCHANGED <<crdVars, events, available, registry, listener, managerVars, lock, begun,
                   runs>>

-----------------------------------------------------------------------------
(* The CRD watcher, and the callback RegisterHandlerFactory gives it. *)

\* Mutant: the callback does not look at what the factory returned.
HandleCRDAnyVersion ==
    LET n == Head(events) IN
    /\ listener = Idle /\ events # <<>>
    /\ events' = Tail(events)
    /\ available' = IF n.state = Absent THEN available \ {n.kind}
                    ELSE IF n.state = Pending THEN available
                    ELSE available \union {n.kind}
    /\ IF n.state \in Versions /\ n.kind \notin handlers
       THEN /\ listener' = [pc |-> "register", kind |-> n.kind]
            /\ version' = [version EXCEPT ![n.kind] = n.state]
       ELSE UNCHANGED <<listener, version>>
    /\ UNCHANGED <<crdVars, handlers, core, managerVars, baseVars>>

\* handleCRDAdd, which serves updates too, and handleCRDDelete. An established CRD
\* of a kind without a handler gets one, if the factory knows its version; only
\* the listener adds handlers now, so what it looks up stays so.
HandleCRD ==
    LET n == Head(events) IN
    /\ listener = Idle /\ events # <<>>
    /\ events' = Tail(events)
    /\ available' = IF n.state = Absent THEN available \ {n.kind}
                    ELSE IF n.state = Pending THEN available
                    ELSE available \union {n.kind}
    /\ IF n.state \in Supported /\ n.kind \notin handlers
       THEN /\ listener' = [pc |-> "register", kind |-> n.kind]
            /\ version' = [version EXCEPT ![n.kind] = n.state]
       ELSE UNCHANGED <<listener, version>>
    /\ UNCHANGED <<crdVars, handlers, core, managerVars, baseVars>>

\* registerHandlerOnly, under handlersMu.
RegisterHandlerOnly ==
    /\ listener.pc = "register"
    /\ handlers' = handlers \union {listener.kind}
    /\ core' = IF started THEN core ELSE core \union {listener.kind}
    /\ listener' = [pc |-> "registered", kind |-> listener.kind]
    /\ UNCHANGED <<crdVars, events, available, version, managerVars, baseVars>>

\* Mutant: a handler that is registered at run time is left to Start's loop.
ReadStartedOnly ==
    /\ listener.pc = "registered"
    /\ listener' = Idle
    /\ UNCHANGED <<crdVars, events, available, registry, managerVars, baseVars>>

\* if m.started, read after the lock is gone.
ReadStarted ==
    /\ listener.pc = "registered"
    /\ listener' = IF started THEN [pc |-> "start", kind |-> listener.kind] ELSE Idle
    /\ UNCHANGED <<crdVars, events, available, registry, managerVars, baseVars>>

-----------------------------------------------------------------------------
(* BaseWatcher.Start, called by the listener and by Start's loop. *)

\* Who may be in BaseWatcher.Start of kind k, and what follows its return.
Starting(who, k) ==
    IF who = "listener" THEN listener = [pc |-> "start", kind |-> k]
    ELSE manager = "loop" /\ k \in todo

Return(who, k) ==
    IF who = "listener" THEN listener' = Idle /\ UNCHANGED todo
    ELSE todo' = todo \ {k} /\ UNCHANGED listener

\* The loop takes the handlers one after another.
LoopIsFree == \A k \in Kinds : lock[k] # "manager"

\* Mutant: the second caller runs the informer again.
BeginStartAgain(who, k) ==
    /\ Starting(who, k) /\ lock[k] = None
    /\ who = "manager" => LoopIsFree
    /\ lock' = [lock EXCEPT ![k] = who]
    /\ runs' = [runs EXCEPT ![k] = @ + 1]
    /\ UNCHANGED <<crdVars, events, available, registry, listener, managerVars, begun, synced>>

\* The lock is taken, and the informer run in a goroutine.
BeginStart(who, k) ==
    /\ Starting(who, k) /\ lock[k] = None
    /\ who = "manager" => LoopIsFree
    /\ k \notin begun
    /\ lock' = [lock EXCEPT ![k] = who]
    /\ runs' = [runs EXCEPT ![k] = @ + 1]
    /\ UNCHANGED <<crdVars, events, available, registry, listener, managerVars, begun, synced>>

AlreadyStarted(who, k) ==
    /\ Starting(who, k) /\ lock[k] = None
    /\ who = "manager" => LoopIsFree
    /\ k \in begun
    /\ Return(who, k)
    /\ UNCHANGED <<crdVars, events, available, registry, manager, started, baseVars>>

\* WaitForCacheSync returns, under the lock.
EndStart(who, k) ==
    /\ lock[k] = who /\ k \in synced
    /\ lock' = [lock EXCEPT ![k] = None]
    /\ begun' = begun \union {k}
    /\ Return(who, k)
    /\ UNCHANGED <<crdVars, events, available, registry, manager, started, runs, synced>>

-----------------------------------------------------------------------------
(* Manager.Start. *)

OnlyManager == UNCHANGED <<crdVars, available, registry, listener, baseVars>>

\* The CRD watcher's and the factory's Start: the CRD informer lists the CRDs, in
\* an order the watcher does not know.
StartFactory ==
    /\ manager = "new"
    /\ manager' = "sync"
    /\ events' \in SetToSeqs({Notification(k, crd[k]) : k \in {j \in Kinds : crd[j] # Absent}})
    /\ OnlyManager /\ UNCHANGED <<started, todo>>

\* WaitForCacheSync returns: the core informers and the CRD informer have handed
\* their lists to the listeners.
CachesSynced ==
    /\ manager = "sync"
    /\ manager' = "snapshot"
    /\ started' = TRUE
    /\ OnlyManager /\ UNCHANGED <<events, todo>>

ExtensionHandlers ==
    /\ manager = "snapshot"
    /\ manager' = "loop"
    /\ todo' = handlers \ core
    /\ OnlyManager /\ UNCHANGED <<events, started>>

Done ==
    /\ manager = "loop" /\ todo = {}
    /\ manager' = "done"
    /\ OnlyManager /\ UNCHANGED <<events, started, todo>>

-----------------------------------------------------------------------------
Callers == {"listener", "manager"}

StartStep(who, k) == BeginStart(who, k) \/ AlreadyStarted(who, k) \/ EndStart(who, k)

ListenerStep == HandleCRD \/ RegisterHandlerOnly \/ ReadStarted

ManagerStep == StartFactory \/ CachesSynced \/ ExtensionHandlers \/ Done

Next ==
    \/ ListenerStep \/ ManagerStep
    \/ \E k \in Kinds : ChangeCRD(k) \/ Sync(k) \/ \E who \in Callers : StartStep(who, k)

\* The goroutines run, and a list that can succeed is retried until it does.
Fairness ==
    /\ WF_vars(ListenerStep) /\ WF_vars(ManagerStep)
    /\ \A k \in Kinds :
           WF_vars(Sync(k)) /\ \A who \in Callers : WF_vars(StartStep(who, k))

Spec == Init /\ [][Next]_vars

FairSpec == Spec /\ Fairness

-----------------------------------------------------------------------------
(* Properties. *)

States == {Absent, Pending} \union Versions

Notifications == [kind : Kinds, state : States]
Places        == [pc : {"register", "registered", "start"}, kind : Kinds] \union {Idle}

TypeOK ==
    /\ crd \in [Kinds -> States]
    /\ events \in Seq(Notifications)
    /\ available \subseteq Kinds
    /\ handlers \subseteq Kinds /\ core \subseteq handlers
    /\ version \in [Kinds -> Supported \union {None}]
    /\ listener \in Places
    /\ manager \in {"new", "sync", "snapshot", "loop", "done"}
    /\ started \in BOOLEAN
    /\ todo \subseteq handlers
    /\ lock \in [Kinds -> Callers \union {None}]
    /\ begun \subseteq synced /\ synced \subseteq Kinds
    /\ runs \in [Kinds -> Nat]
    /\ changes \in 0..MaxChanges

\* No informer is run twice, though the CRD callback and Start's loop may both
\* start one handler: a handler registered between the two reads of the registry.
RunsOnce == \A k \in Kinds : runs[k] <= 1

\* The CRD of an informer that somebody waits for is gone.
Stuck == \E k \in Kinds : lock[k] # None /\ k \notin synced /\ crd[k] \notin Versions

\* A handler that came too late to count as a core handler has its informer run,
\* by the callback or by Start's loop, unless one waits for a CRD that is gone.
LateHandlersRun ==
    []<>~Stuck => \A k \in Kinds : (k \in handlers \ core) ~> runs[k] = 1

\* "Start informers for any handlers that were registered during cache sync": when
\* Start has returned and the callback too, each handler's informer was run.
HandlersRun == manager = "done" /\ listener = Idle => \A k \in handlers : runs[k] = 1
===============================================================================
