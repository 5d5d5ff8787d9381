----------------------------- MODULE SSEBroadcast -----------------------------
(***************************************************************************)
(* The MCP server's SSE broadcaster: one HandleSSE goroutine per client,   *)
(* tool handlers that call Emit, a goroutine per connection for each       *)
(* broadcast, and the cleanup of stale connections.                        *)
(*                                                                         *)
(* They meet at the broadcaster's RWMutex, at each connection's mutex and  *)
(* at its done channel. As in sync.RWMutex, a writer that waits keeps new  *)
(* readers out, and its unlocking lets in those that came meanwhile. What  *)
(* a writer does between the two is one action: nobody else sees the map.  *)
(***************************************************************************)
EXTENDS Naturals, FiniteSets

CONSTANTS
    Clients,   \* the requests to /events, one connection each
    Emitters,  \* the goroutines that call Emit
    Ids,       \* connection ids
    ConnId     \* client -> its id: two requests of one nanosecond share theirs

None    == "none"
Handler == "handler"   \* who holds a connection's mutex for the handler itself
Cleaner == "cleaner"

ASSUME BroadcastAssumption ==
    /\ ConnId \in [Clients -> Ids]
    /\ None \notin Clients \union Emitters /\ Handler \notin Emitters
    /\ Cleaner \notin Clients

Writers == Clients \union {Cleaner}
Senders == Emitters \union {Handler}

VARIABLES
    connections,  \* id -> the client registered under it, or None
    writer,       \* who has called sb.mu.Lock() and not unlocked, or None
    readers,      \* the emitters that hold the read lock
    blocked,      \* the emitters that wait for it
    closes,       \* client -> times its done channel was closed
    holder,       \* client -> which sender holds its mutex, or None
    phase,        \* emitter -> "idle", "broadcast", "sending" or "count"
    sends,        \* emitter -> the clients its goroutines have still to serve
    pc,           \* client -> where its HandleSSE is
    cancelled     \* the clients whose request context is done

vars == <<connections, writer, readers, blocked, closes, holder, phase, sends, pc,
          cancelled>>

lockVars == <<writer, readers, blocked>>
emitVars == <<phase, sends>>

Init ==
    /\ connections = [i \in Ids |-> None]
    /\ writer = None /\ readers = {} /\ blocked = {}
    /\ closes = [c \in Clients |-> 0]
    /\ holder = [c \in Clients |-> None]
    /\ phase = [e \in Emitters |-> "idle"]
    /\ sends = [e \in Emitters |-> {}]
    /\ pc = [c \in Clients |-> "add"]
    /\ cancelled = {}

\* Mutant: entries that were set to nil are sent to as well.
RegisteredOrNil == {connections[i] : i \in Ids}

Registered == {connections[i] : i \in Ids} \ {None}

Closed(c) == closes[c] > 0

-----------------------------------------------------------------------------
(* The read-write lock. *)

\* A request may come, and the cleanup's ticker fire, at any time.
Wants(w) == w # Cleaner => pc[w] \in {"add", "remove"}

\* Lock() announces the writer, and returns when the readers have left.
Lock(w) ==
    /\ writer = None /\ Wants(w)
    /\ writer' = w
    /\ UNCHANGED <<connections, readers, blocked, closes, holder, emitVars, pc, cancelled>>

Holds(w) == writer = w /\ readers = {}

Unlock ==
    /\ writer' = None
    /\ readers' = blocked
    /\ blocked' = {}

RLock(e) ==
    /\ phase[e] \in {"broadcast", "count"}
    /\ e \notin readers \union blocked
    /\ IF writer = None THEN readers' = readers \union {e} /\ UNCHANGED blocked
       ELSE blocked' = blocked \union {e} /\ UNCHANGED readers
    /\ UNCHANGED <<connections, writer, closes, holder, emitVars, pc, cancelled>>

-----------------------------------------------------------------------------
(* SendEvent, called by an emitter's goroutine and by the handler itself. *)

Sending(s, c) ==
    IF s = Handler THEN pc[c] \in {"greet", "heartbeat"} ELSE c \in sends[s]

\* SendEvent returns; the handler leaves its loop on an error of a heartbeat.
Return(s, c, failed) ==
    IF s = Handler
    THEN /\ pc' = [pc EXCEPT ![c] =
                      IF @ = "heartbeat" /\ failed THEN "remove" ELSE "select"]
         /\ UNCHANGED sends
    ELSE /\ sends' = [sends EXCEPT ![s] = @ \ {c}]
         /\ UNCHANGED pc

\* c.mu is taken and done is not closed: the write begins.
BeginSend(s, c) ==
    /\ Sending(s, c) /\ holder[c] = None
    /\ ~Closed(c)
    /\ holder' = [holder EXCEPT ![c] = s]
    /\ UNCHANGED <<connections, lockVars, closes, emitVars, pc, cancelled>>

RefuseSend(s, c) ==
    /\ Sending(s, c) /\ holder[c] = None
    /\ Closed(c)
    /\ Return(s, c, TRUE)
    /\ UNCHANGED <<connections, lockVars, closes, holder, phase, cancelled>>

\* Mutant: the error path leaves the connection's mutex locked.
EndSendKeepsLock(s, c) ==
    /\ holder[c] = s
    /\ \E failed \in BOOLEAN :
        /\ Return(s, c, failed)
        /\ holder' = IF failed THEN holder ELSE [holder EXCEPT ![c] = None]
    /\ cancelled' \in {cancelled, cancelled \union {c}}
    /\ UNCHANGED <<connections, lockVars, closes, phase>>

\* The write ends, at the latest when the server's WriteTimeout expires. A write
\* that fails ends the request's context; SendEvent may return nil all the same,
\* for Flush returns no error.
EndSend(s, c) ==
    /\ holder[c] = s
    /\ holder' = [holder EXCEPT ![c] = None]
    /\ \E failed \in BOOLEAN : Return(s, c, failed)
    /\ cancelled' \in {cancelled, cancelled \union {c}}
    /\ UNCHANGED <<connections, lockVars, closes, phase>>

-----------------------------------------------------------------------------
(* Emit: Broadcast, then ConnectionCount. *)

Emit(e) ==
    /\ phase[e] = "idle"
    /\ phase' = [phase EXCEPT ![e] = "broadcast"]
    /\ UNCHANGED <<connections, lockVars, closes, holder, sends, pc, cancelled>>

\* A goroutine for each connection in the map.
Spawn(e) ==
    /\ phase[e] = "broadcast" /\ e \in readers
    /\ phase' = [phase EXCEPT ![e] = "sending"]
    /\ sends' = [sends EXCEPT ![e] = Registered]
    /\ UNCHANGED <<connections, lockVars, closes, holder, pc, cancelled>>

\* Mutant: Broadcast does not wait for its goroutines.
EndBroadcastAtOnce(e) ==
    /\ phase[e] = "sending"
    /\ phase' = [phase EXCEPT ![e] = "count"]
    /\ readers' = readers \ {e}
    /\ UNCHANGED <<connections, writer, blocked, closes, holder, sends, pc, cancelled>>

\* wg.Wait() returns, and with it the read lock goes.
EndBroadcast(e) ==
    /\ phase[e] = "sending" /\ sends[e] = {}
    /\ phase' = [phase EXCEPT ![e] = "count"]
    /\ readers' = readers \ {e}
    /\ UNCHANGED <<connections, writer, blocked, closes, holder, sends, pc, cancelled>>

EndCount(e) ==
    /\ phase[e] = "count" /\ e \in readers
    /\ phase' = [phase EXCEPT ![e] = "idle"]
    /\ readers' = readers \ {e}
    /\ UNCHANGED <<connections, writer, blocked, closes, holder, sends, pc, cancelled>>

-----------------------------------------------------------------------------
(* HandleSSE. *)

Goto(c, from, to) == pc[c] = from /\ pc' = [pc EXCEPT ![c] = to]

\* AddConnection: a connection that has the same id is overwritten.
AddConnection(c) ==
    /\ Holds(c) /\ Goto(c, "add", "greet")
    /\ connections' = [connections EXCEPT ![ConnId[c]] = c]
    /\ Unlock
    /\ UNCHANGED <<closes, holder, emitVars, cancelled>>

\* Mutant: the loop watches done and the heartbeat only.
LeaveLoopOnDone(c) ==
    /\ Closed(c)
    /\ Goto(c, "select", "remove")
    /\ UNCHANGED <<connections, lockVars, closes, holder, emitVars, cancelled>>

\* The select of HandleSSE: the context, done, or the heartbeat's ticker.
LeaveLoop(c) ==
    /\ c \in cancelled \/ Closed(c)
    /\ Goto(c, "select", "remove")
    /\ UNCHANGED <<connections, lockVars, closes, holder, emitVars, cancelled>>

Heartbeat(c) ==
    /\ Goto(c, "select", "heartbeat")
    /\ UNCHANGED <<connections, lockVars, closes, holder, emitVars, cancelled>>

\* Mutant: the done channels are closed and the entries left to RemoveConnection.
CloseAtOnly(ids) ==
    LET gone == {connections[i] : i \in ids} \ {None} IN
    /\ closes' = [c \in Clients |-> IF c \in gone THEN closes[c] + 1 ELSE closes[c]]
    /\ UNCHANGED connections

\* Closing the connections registered under the ids, which leave the map.
CloseAt(ids) ==
    LET gone == {connections[i] : i \in ids} \ {None} IN
    /\ closes' = [c \in Clients |-> IF c \in gone THEN closes[c] + 1 ELSE closes[c]]
    /\ connections' = [i \in Ids |-> IF i \in ids THEN None ELSE connections[i]]

RemoveConnection(c) ==
    /\ Holds(c) /\ Goto(c, "remove", "returned")
    /\ CloseAt({ConnId[c]})
    /\ Unlock
    /\ UNCHANGED <<holder, emitVars, cancelled>>

-----------------------------------------------------------------------------
(* The cleanup, and the clients. *)

\* lastActive may be five minutes old when the handler has been busy for so long:
\* an idle one sends a heartbeat every 15 seconds.
MayBeStale(i) ==
    connections[i] # None /\ pc[connections[i]] \in {"greet", "heartbeat", "remove"}

CleanupStale ==
    /\ Holds(Cleaner)
    /\ \E ids \in SUBSET {i \in Ids : MayBeStale(i)} : CloseAt(ids)
    /\ Unlock
    /\ UNCHANGED <<holder, emitVars, pc, cancelled>>

\* The client goes away.
Disconnect(c) ==
    /\ c \notin cancelled
    /\ cancelled' = cancelled \union {c}
    /\ UNCHANGED <<connections, lockVars, closes, holder, emitVars, pc>>

-----------------------------------------------------------------------------
EmitStep(e) == RLock(e) \/ Spawn(e) \/ EndBroadcast(e) \/ EndCount(e)

SendStep(s, c) == BeginSend(s, c) \/ RefuseSend(s, c)

HandlerStep(c) == AddConnection(c) \/ LeaveLoop(c) \/ RemoveConnection(c)

Next ==
    \/ \E e \in Emitters : Emit(e) \/ EmitStep(e)
    \/ \E c \in Clients, s \in Senders : SendStep(s, c) \/ EndSend(s, c)
    \/ \E c \in Clients :
           HandlerStep(c) \/ Heartbeat(c) \/ Disconnect(c)
    \/ \E w \in Writers : Lock(w)
    \/ CleanupStale

\* Goroutines run, and the runtime's mutexes starve no one that waits: Mutex hands
\* over to a waiter of more than 1 ms. Writes end by WriteTimeout. The select takes
\* a ready case with even odds, so a heartbeat does not win for ever.
Fairness ==
    /\ \A e \in Emitters : WF_vars(EmitStep(e))
    /\ \A c \in Clients :
           /\ \A s \in Senders : SF_vars(SendStep(s, c))
           /\ WF_vars(\E s \in Senders : EndSend(s, c))
           /\ SF_vars(HandlerStep(c))
           /\ SF_vars(pc[c] = "remove" /\ Lock(c))
    /\ WF_vars(CleanupStale)

Spec == Init /\ [][Next]_vars

FairSpec == Spec /\ Fairness

-----------------------------------------------------------------------------
(* Properties. *)

TypeOK ==
    /\ connections \in [Ids -> Clients \union {None}]
    /\ writer \in Writers \union {None}
    /\ readers \subseteq Emitters /\ blocked \subseteq Emitters
    /\ closes \in [Clients -> Nat]
    /\ holder \in [Clients -> Senders \union {None}]
    /\ phase \in [Emitters -> {"idle", "broadcast", "sending", "count"}]
    /\ sends \in [Emitters -> SUBSET Clients]
    /\ pc \in [Clients -> {"add", "greet", "select", "heartbeat", "remove", "returned"}]
    /\ cancelled \subseteq Clients

\* A done channel is closed at most once, though the cleanup, the connection's own
\* handler and that of a connection of the same id may all close it: a second
\* close would panic.
ClosedOnce == \A c \in Clients : closes[c] <= 1

\* Once HandleSSE has returned, net/http owns the ResponseWriter again, and no
\* goroutine of a broadcast is or will be writing to it.
NoWriteAfterReturn ==
    \A c \in Clients : pc[c] = "returned" =>
        holder[c] = None /\ \A e \in Emitters : c \notin sends[e]

\* A tool handler that emits a notification goes on: whatever the clients do, no
\* wait on a lock or on a client lasts for ever.
EmitReturns == \A e \in Emitters : phase[e] = "broadcast" ~> phase[e] = "idle"

\* The handler of a client that has gone, or that the cleanup has closed, returns.
HandlerReturns ==
    \A c \in Clients : (pc[c] = "select" /\ (c \in cancelled \/ Closed(c))) ~> pc[c] = "returned"
===============================================================================
