-------------------------- MODULE SSEBroadcastProofs --------------------------
(***************************************************************************)
(* ClosedOnce and NoWriteAfterReturn hold for any clients, emitters and    *)
(* assignment of connection ids, even one that gives two clients one id.   *)
(*                                                                         *)
(* The argument: a connection that is in the map is there under its own id *)
(* only, is open, and its handler has neither to be added nor returned; so *)
(* whoever closes it takes it out for good. A goroutine of a broadcast     *)
(* exists only while its emitter has the read lock; so none does while a   *)
(* handler is in RemoveConnection, and later ones do not find it.          *)
(***************************************************************************)
EXTENDS SSEBroadcast, TLAPS

\* What the map says of the connections in it.
MapInv ==
    \A i \in Ids : connections[i] # None =>
        /\ ConnId[connections[i]] = i
        /\ closes[connections[i]] = 0
        /\ pc[connections[i]] \notin {"add", "returned"}

\* A connection that is still to be added is open.
AddInv == \A c \in Clients : pc[c] = "add" => closes[c] = 0

\* The goroutines of a broadcast live under its read lock.
SendsInv == \A e \in Emitters : sends[e] # {} => e \in readers /\ phase[e] = "sending"

\* Whoever holds a connection's mutex is in SendEvent.
HolderInv ==
    \A c \in Clients :
        /\ holder[c] = Handler => pc[c] \in {"greet", "heartbeat"}
        /\ \A e \in Emitters : holder[c] = e => c \in sends[e]

Inv ==
    /\ TypeOK /\ MapInv /\ AddInv /\ ClosedOnce
    /\ SendsInv /\ HolderInv /\ NoWriteAfterReturn

LEMMA InitInv == Init => Inv
<1> SUFFICES ASSUME Init PROVE Inv
  OBVIOUS
<1> USE BroadcastAssumption DEF Init, None, Handler, Cleaner, Writers, Senders
<1>1. TypeOK
  BY DEF TypeOK
<1>2. MapInv /\ AddInv /\ ClosedOnce
  BY DEF MapInv, AddInv, ClosedOnce
<1>3. SendsInv /\ HolderInv /\ NoWriteAfterReturn
  BY DEF SendsInv, HolderInv, NoWriteAfterReturn
<1> QED
  BY <1>1, <1>2, <1>3 DEF Inv

LEMMA StepInv == Inv /\ [Next]_vars => Inv'
<1> SUFFICES ASSUME Inv, [Next]_vars PROVE Inv'
  OBVIOUS
<1> USE BroadcastAssumption DEF None, Handler, Cleaner
<1>1. CASE UNCHANGED vars
  BY <1>1 DEF vars, Inv, TypeOK, MapInv, AddInv, ClosedOnce, SendsInv, HolderInv,
              NoWriteAfterReturn, Writers, Senders
<1>2. ASSUME NEW w \in Writers, Lock(w) PROVE Inv'
  BY <1>2 DEF Lock, emitVars, Inv, TypeOK, MapInv, AddInv, ClosedOnce, SendsInv, HolderInv,
              NoWriteAfterReturn
<1>3. ASSUME NEW e \in Emitters, RLock(e) PROVE Inv'
  BY <1>3 DEF RLock, emitVars, Inv, TypeOK, MapInv, AddInv, ClosedOnce, SendsInv, HolderInv,
              NoWriteAfterReturn
<1>4. ASSUME NEW s \in Senders, NEW c \in Clients, BeginSend(s, c) PROVE Inv'
  BY <1>4 DEF BeginSend, Sending, lockVars, emitVars, Senders, Inv, TypeOK, MapInv, AddInv,
              ClosedOnce, SendsInv, HolderInv, NoWriteAfterReturn
<1>5. ASSUME NEW s \in Senders, NEW c \in Clients, RefuseSend(s, c) PROVE Inv'
  BY <1>5 DEF RefuseSend, Return, Sending, lockVars, Senders, Inv, TypeOK, MapInv, AddInv,
              ClosedOnce, SendsInv, HolderInv, NoWriteAfterReturn
<1>6. ASSUME NEW s \in Senders, NEW c \in Clients, EndSend(s, c) PROVE Inv'
  BY <1>6 DEF EndSend, Return, lockVars, Senders, Inv, TypeOK, MapInv, AddInv,
              ClosedOnce, SendsInv, HolderInv, NoWriteAfterReturn
<1>7. ASSUME NEW e \in Emitters, Emit(e) PROVE Inv'
  BY <1>7 DEF Emit, lockVars, Inv, TypeOK, MapInv, AddInv, ClosedOnce, SendsInv, HolderInv,
              NoWriteAfterReturn
<1>8. ASSUME NEW e \in Emitters, Spawn(e) PROVE Inv'
  BY <1>8 DEF Spawn, Registered, lockVars, Inv, TypeOK, MapInv, AddInv, ClosedOnce, SendsInv,
              HolderInv, NoWriteAfterReturn
<1>9. ASSUME NEW e \in Emitters, EndBroadcast(e) PROVE Inv'
  BY <1>9 DEF EndBroadcast, Inv, TypeOK, MapInv, AddInv, ClosedOnce, SendsInv, HolderInv,
              NoWriteAfterReturn
<1>10. ASSUME NEW e \in Emitters, EndCount(e) PROVE Inv'
  BY <1>10 DEF EndCount, Inv, TypeOK, MapInv, AddInv, ClosedOnce, SendsInv, HolderInv,
               NoWriteAfterReturn
<1>11. ASSUME NEW c \in Clients, AddConnection(c) PROVE Inv'
  BY <1>11 DEF AddConnection, Holds, Goto, Unlock, emitVars, Inv, TypeOK, MapInv, AddInv,
               ClosedOnce, SendsInv, HolderInv, NoWriteAfterReturn
<1>12. ASSUME NEW c \in Clients, LeaveLoop(c) PROVE Inv'
  BY <1>12 DEF LeaveLoop, Goto, lockVars, emitVars, Inv, TypeOK, MapInv, AddInv,
               ClosedOnce, SendsInv, HolderInv, NoWriteAfterReturn
<1>13. ASSUME NEW c \in Clients, Heartbeat(c) PROVE Inv'
  BY <1>13 DEF Heartbeat, Goto, lockVars, emitVars, Inv, TypeOK, MapInv, AddInv,
               ClosedOnce, SendsInv, HolderInv, NoWriteAfterReturn
<1>14. ASSUME NEW c \in Clients, RemoveConnection(c) PROVE Inv'
  <2> USE <1>14 DEF RemoveConnection, Holds, Goto, Unlock, emitVars
  <2>1. /\ closes' = [d \in Clients |-> IF d = connections[ConnId[c]] THEN closes[d] + 1
                                       ELSE closes[d]]
        /\ connections' = [connections EXCEPT ![ConnId[c]] = None]
    <3>1. ConnId[c] \in Ids /\ connections \in [Ids -> Clients \union {None}]
      BY DEF Inv, TypeOK
    <3>2. \A d \in Clients :
              d \in {connections[i] : i \in {ConnId[c]}} \ {None} <=> d = connections[ConnId[c]]
      BY <3>1
    <3>3. closes' = [d \in Clients |-> IF d = connections[ConnId[c]] THEN closes[d] + 1
                                       ELSE closes[d]]
      BY <3>2 DEF CloseAt
    <3>4. connections' = [connections EXCEPT ![ConnId[c]] = None]
      BY <3>1 DEF CloseAt
    <3> QED
      BY <3>3, <3>4
  <2>2. TypeOK'
    BY <2>1 DEF Inv, TypeOK
  <2>3. MapInv' /\ AddInv' /\ ClosedOnce'
    BY <2>1 DEF Inv, TypeOK, MapInv, AddInv, ClosedOnce
  <2>4. \A e \in Emitters : sends[e] = {}
    BY DEF Inv, TypeOK, SendsInv
  <2>5. holder[c] = None
    BY <2>4 DEF Inv, TypeOK, HolderInv, Senders
  <2>6. SendsInv' /\ HolderInv' /\ NoWriteAfterReturn'
    BY <2>4, <2>5 DEF Inv, TypeOK, SendsInv, HolderInv, NoWriteAfterReturn
  <2> QED
    BY <2>2, <2>3, <2>6 DEF Inv
<1>15. ASSUME NEW c \in Clients, Disconnect(c) PROVE Inv'
  BY <1>15 DEF Disconnect, lockVars, emitVars, Inv, TypeOK, MapInv, AddInv, ClosedOnce,
               SendsInv, HolderInv, NoWriteAfterReturn
<1>16. CASE CleanupStale
  BY <1>16 DEF CleanupStale, Holds, CloseAt, Unlock, emitVars, Inv, TypeOK, MapInv, AddInv,
               ClosedOnce, SendsInv, HolderInv, NoWriteAfterReturn
<1> QED
  BY <1>1, <1>2, <1>3, <1>4, <1>5, <1>6, <1>7, <1>8, <1>9, <1>10, <1>11, <1>12, <1>13,
     <1>14, <1>15, <1>16
     DEF Next, EmitStep, SendStep, HandlerStep

THEOREM InvHolds == Spec => []Inv
BY InitInv, StepInv, PTL DEF Spec

\* The broadcaster's state stays in its types, the map to clients among them.
THEOREM TypeCorrect == Spec => []TypeOK
BY InvHolds, PTL DEF Inv

\* No done channel is closed a second time, which would panic (sse_transport.go,
\* RemoveConnection and cleanupStaleConnections).
THEOREM ClosesOnce == Spec => []ClosedOnce
BY InvHolds, PTL DEF Inv

\* After HandleSSE has returned nothing writes to its ResponseWriter
\* (sse_transport.go, Broadcast waits for its goroutines under the read lock).
THEOREM WritesEnd == Spec => []NoWriteAfterReturn
BY InvHolds, PTL DEF Inv
===============================================================================
