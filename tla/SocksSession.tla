---------------------------- MODULE SocksSession ----------------------------
(***************************************************************************)
(* What a BSocksClient promises to its user (socksclient/BSocksClient.h):   *)
(* after Init the handler is called with EVENT_UP at most once, and with an *)
(* error at most once and last; in between the user may free it.  The       *)
(* session is "none" before Init and after an error or Free.                *)
(***************************************************************************)
VARIABLE session

TypeOK == session \in {"none", "connecting", "up"}

Init == session = "none"

Open == session = "none" /\ session' = "connecting"

Up == session = "connecting" /\ session' = "up"

(* An error is reported, and the user frees the client, or just frees it.   *)
Close == session # "none" /\ session' = "none"

Next == Open \/ Up \/ Close

Spec == Init /\ [][Next]_session
=============================================================================
