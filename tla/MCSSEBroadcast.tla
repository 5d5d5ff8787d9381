---------------------------- MODULE MCSSEBroadcast ----------------------------
(* Clients that were given one id: two requests in the same nanosecond. *)
EXTENDS SSEBroadcast

CONSTANT id

MCConnId == [c \in Clients |-> id]
===============================================================================
