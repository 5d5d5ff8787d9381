---------------------------- MODULE SessionLedger ----------------------------
(***************************************************************************)
(* What the session tools promise, without statements, retries or callers: *)
(* a session is opened once, and from then on its status is only ever one  *)
(* that a completion of it has asked for; a call leaves its records only   *)
(* in a session that exists, they stay there, and what a call announces it *)
(* has recorded. A completion may ask for any status, "active" too.        *)
(***************************************************************************)

CONSTANTS
    Calls,      \* tool calls; a session is known by the call that opens it
    Statuses    \* what a completion may ask for

VARIABLES
    status,     \* session -> "none", "active", or what a completion made it
    asked,      \* session -> the statuses that its completions have asked for
    log,        \* session -> the calls that left a record in it
    announced   \* the calls that were announced

ledgerVars == <<status, asked, log, announced>>

Init ==
    /\ status = [s \in Calls |-> "none"]
    /\ asked = [s \in Calls |-> {}]
    /\ log = [s \in Calls |-> {}]
    /\ announced = {}

Open(s) ==
    /\ status[s] = "none"
    /\ status' = [status EXCEPT ![s] = "active"]
    /\ log' = [log EXCEPT ![s] = {s}]
    /\ UNCHANGED <<asked, announced>>

Record(s, c) ==
    /\ status[s] # "none"
    /\ log' = [log EXCEPT ![s] = @ \union {c}]
    /\ UNCHANGED <<status, asked, announced>>

Ask(s, how) ==
    /\ status[s] # "none"
    /\ asked' = [asked EXCEPT ![s] = @ \union {how}]
    /\ UNCHANGED <<status, log, announced>>

Complete(s, c, how) ==
    /\ how \in asked[s]
    /\ status' = [status EXCEPT ![s] = how]
    /\ log' = [log EXCEPT ![s] = @ \union {c}]
    /\ UNCHANGED <<asked, announced>>

Announce(s, c) ==
    /\ c \in log[s]
    /\ announced' = announced \union {c}
    /\ UNCHANGED <<status, asked, log>>

Next ==
    \E s \in Calls :
        \/ Open(s)
        \/ \E c \in Calls : Record(s, c) \/ Announce(s, c)
        \/ \E how \in Statuses : Ask(s, how) \/ \E c \in Calls : Complete(s, c, how)

Spec == Init /\ [][Next]_ledgerVars
=============================================================================
