---------------------------- MODULE SocksClient ----------------------------
(***************************************************************************)
(* BSocksClient (jni/badvpn/socksclient): the SOCKS5 handshake of one       *)
(* connection of tun2socks.                                                 *)
(*                                                                         *)
(* `o' is struct BSocksClient.  The objects it owns are counted, so that a  *)
(* release too many or too few shows; a buffer is its size (0: NULL).  A C  *)
(* function on the struct is an operator that returns the changed struct.   *)
(* The messages of the server are abstracted to what the handler finds in   *)
(* them; their bytes are counted, as they may arrive in any pieces.         *)
(***************************************************************************)
EXTENDS Integers

CONSTANTS AuthInfo,     \* methods offered, of "none" and "password"
          DestType,     \* "ipv4" or "ipv6"
          UsernameLen, PasswordLen

ASSUME SocksAssumption ==
  /\ AuthInfo \subseteq {"none", "password"}
  /\ DestType \in {"ipv4", "ipv6"}
  /\ UsernameLen \in Nat /\ PasswordLen \in Nat

VARIABLE o

-----------------------------------------------------------------------------
(* Sizes of misc/socks_proto.h.                                            *)
AddrLen == [ipv4 |-> 6, ipv6 |-> 18]
HelloReplyLen == 2
PasswordReplyLen == 2
ReplyHeaderLen == 4

num_auth_info == (IF "none" \in AuthInfo THEN 1 ELSE 0)
                 + (IF "password" \in AuthInfo THEN 1 ELSE 0)

Sending == {"SENDING_HELLO", "SENDING_PASSWORD", "SENDING_REQUEST"}
Receiving == {"SENT_HELLO", "SENT_PASSWORD", "SENT_REQUEST", "RECEIVED_REPLY_HEADER"}
State == {"FREED", "CONNECTING", "UP"} \cup Sending \cup Receiving

(* What the handler finds in a complete message of the server.              *)
Answer == {"none", "password", "accepted", "ipv4", "ipv6", "bad"}

Struct ==
  [ state : State,
    connector : Int, con : Int, control_io : Int, up_io : Int,   \* owned objects
    buffer : Nat,
    send_len : Nat, send_left : Nat,      \* the packet being sent (0: none)
    recv_off : Nat, recv_len : Nat, recv_total : Nat ]

TypeOK == o \in Struct

-----------------------------------------------------------------------------
(* Objects.                                                                *)

(* Freeing the interfaces drops a transfer that is under way.               *)
free_control_io(p) ==
  [p EXCEPT !.control_io = @ - 1, !.send_len = 0, !.send_left = 0, !.recv_total = 0]
free_up_io(p) == [p EXCEPT !.up_io = @ - 1]
BConnection_Free(p) == [p EXCEPT !.con = @ - 1]

BSocksClient_Free(p) ==
  LET q == IF p.state = "CONNECTING" THEN p
           ELSE BConnection_Free(IF p.state = "UP" THEN free_up_io(p)
                                 ELSE free_control_io(p))
  IN  [q EXCEPT !.connector = @ - 1, !.buffer = 0, !.state = "FREED"]

(* report_error: the user frees the client before the handler returns.      *)
report_error(p) == BSocksClient_Free(p)

start_send(p, len, state) ==
  [p EXCEPT !.buffer = len, !.send_len = len, !.send_left = len, !.state = state]

start_receive(p, size, off, total, state) ==
  [p EXCEPT !.buffer = size, !.recv_off = off, !.recv_len = 0,
            !.recv_total = total, !.state = state]

-----------------------------------------------------------------------------
(* The handlers.  `mem' says whether reserve_buffer succeeds.               *)

(* Mutant of connector_handler: the failure path forgets the control I/O.    *)
Mut_connector_leaks_io(p, connected, inited, mem) ==
  LET q == [p EXCEPT !.con = @ + 1, !.control_io = @ + 1]
  IN  IF ~connected \/ ~inited THEN report_error(p)
      ELSE IF num_auth_info = 0 \/ ~mem
           THEN report_error(BConnection_Free(q))
      ELSE start_send(q, 2 + num_auth_info, "SENDING_HELLO")

connector_handler(p, connected, inited, mem) ==
  LET q == [p EXCEPT !.con = @ + 1, !.control_io = @ + 1]
  IN  IF ~connected \/ ~inited THEN report_error(p)
      ELSE IF num_auth_info = 0 \/ ~mem
           THEN report_error(BConnection_Free(free_control_io(q)))
      ELSE start_send(q, 2 + num_auth_info, "SENDING_HELLO")

auth_finished(p, mem) ==
  IF ~mem THEN report_error(p)
  ELSE start_send(p, 4 + AddrLen[DestType], "SENDING_REQUEST")

PasswordOk == UsernameLen \in 1 .. 255 /\ PasswordLen \in 1 .. 255

(* A packet was sent; its answer is waited for.                             *)
send_handler_done(p, mem) ==
  LET q == [p EXCEPT !.send_len = 0]
  IN  IF ~mem THEN report_error(q)
      ELSE CASE q.state = "SENDING_HELLO" ->
                  start_receive(q, HelloReplyLen, 0, HelloReplyLen, "SENT_HELLO")
             [] q.state = "SENDING_PASSWORD" ->
                  start_receive(q, PasswordReplyLen, 0, PasswordReplyLen, "SENT_PASSWORD")
             [] q.state = "SENDING_REQUEST" ->
                  start_receive(q, ReplyHeaderLen + AddrLen.ipv6,
                                0, ReplyHeaderLen, "SENT_REQUEST")

(* A message was received; `a' is what it says.                             *)
recv_handler_done(p, a, mem) ==
  LET q == [p EXCEPT !.recv_total = 0]
  IN  CASE q.state = "SENT_HELLO" ->
             IF a = "none" /\ a \in AuthInfo THEN auth_finished(q, mem)
             ELSE IF a = "password" /\ a \in AuthInfo /\ PasswordOk /\ mem
                  THEN start_send(q, 3 + UsernameLen + PasswordLen, "SENDING_PASSWORD")
             ELSE report_error(q)
        [] q.state = "SENT_PASSWORD" ->
             IF a = "accepted" THEN auth_finished(q, mem) ELSE report_error(q)
        [] q.state = "SENT_REQUEST" ->
             IF a \in {"ipv4", "ipv6"}
             THEN start_receive(q, q.buffer, ReplyHeaderLen, AddrLen[a],
                                "RECEIVED_REPLY_HEADER")
             ELSE report_error(q)
        [] q.state = "RECEIVED_REPLY_HEADER" ->
             [free_control_io(q) EXCEPT !.buffer = 0, !.up_io = @ + 1, !.state = "UP"]

-----------------------------------------------------------------------------
Nothing == [ state |-> "FREED", connector |-> 0, con |-> 0, control_io |-> 0,
             up_io |-> 0, buffer |-> 0, send_len |-> 0, send_left |-> 0,
             recv_off |-> 0, recv_len |-> 0, recv_total |-> 0 ]

Init == o = Nothing

(* BSocksClient_Init; it fails, and changes nothing, if BConnector_Init does. *)
Open ==
  /\ o.state = "FREED"
  /\ o' = [o EXCEPT !.connector = @ + 1, !.state = "CONNECTING", !.buffer = 0]

Connected(connected, inited, mem) ==
  /\ o.state = "CONNECTING"
  /\ o' = connector_handler(o, connected, inited, mem)

(* PacketStreamSender: the packet goes out in pieces ...                    *)
SendBytes(n) ==
  /\ o.send_len > 0 /\ 0 < n /\ n <= o.send_left
  /\ o' = [o EXCEPT !.send_left = @ - n]

(* ... and the job of its end runs.                                         *)
SendDone(mem) ==
  /\ o.send_len > 0 /\ o.send_left = 0
  /\ o' = send_handler_done(o, mem)

(* do_receive asks for what is missing of the message.                      *)
RecvBytes(n) ==
  /\ 0 < n /\ n <= o.recv_total - o.recv_len
  /\ o' = [o EXCEPT !.recv_len = @ + n]

RecvDone(a, mem) ==
  /\ o.recv_total > 0 /\ o.recv_len = o.recv_total
  /\ o' = recv_handler_done(o, a, mem)

(* Mutant of ConnectionFails: the client connects again by itself.           *)
Mut_ConnectionFails_reconnects ==
  /\ o.state \notin {"FREED", "CONNECTING"}
  /\ o' = [report_error(o) EXCEPT !.state = "CONNECTING", !.connector = @ + 1]

(* connection_handler: the connection failed or was closed.                 *)
ConnectionFails ==
  /\ o.state \notin {"FREED", "CONNECTING"}
  /\ o' = report_error(o)

(* The user frees the client for a reason of its own.                       *)
Free ==
  /\ o.state # "FREED"
  /\ o' = BSocksClient_Free(o)

Next == \/ Open \/ ConnectionFails \/ Free
        \/ \E connected, inited, mem \in BOOLEAN : Connected(connected, inited, mem)
        \/ \E n \in 1 .. o.send_left : SendBytes(n)
        \/ \E n \in 1 .. o.recv_total - o.recv_len : RecvBytes(n)
        \/ \E mem \in BOOLEAN : SendDone(mem)
        \/ \E a \in Answer, mem \in BOOLEAN : RecvDone(a, mem)

Spec == Init /\ [][Next]_o

-----------------------------------------------------------------------------
(* Every object is owned exactly while the state says so, so that Free       *)
(* releases each once: neither the failure path of connector_handler (state  *)
(* still CONNECTING) nor the change from control to up I/O leaks or releases *)
(* twice, and nothing is left after Free.                                    *)
ResourcesAgree ==
  /\ o.connector = (IF o.state = "FREED" THEN 0 ELSE 1)
  /\ o.con = (IF o.state \in {"FREED", "CONNECTING"} THEN 0 ELSE 1)
  /\ o.control_io = (IF o.state \in Sending \cup Receiving THEN 1 ELSE 0)
  /\ o.up_io = (IF o.state = "UP" THEN 1 ELSE 0)
  /\ o.buffer > 0 <=> o.state \in Sending \cup Receiving

(* The switches of the done handlers never meet a state they have no case    *)
(* for: a packet is under way exactly in a sending state, a message exactly  *)
(* in a receiving one, and what is under way lies inside the buffer.         *)
HandlersExpected ==
  /\ o.send_len > 0 <=> o.state \in Sending
  /\ o.recv_total > 0 <=> o.state \in Receiving
  /\ o.send_left <= o.send_len /\ o.send_len <= o.buffer
  /\ o.recv_total > 0 =>
       o.recv_len <= o.recv_total /\ o.recv_off + o.recv_total <= o.buffer

(* Part of the inductive invariant: the reply's buffer has room for the      *)
(* longest address.                                                          *)
ReplyRoom ==
  o.state = "SENT_REQUEST" => o.buffer = ReplyHeaderLen + AddrLen.ipv6

(* The inductive invariant of BSocksClient: owned objects, transfers and     *)
(* buffer always agree with the state.                                       *)
IInv == TypeOK /\ ResourcesAgree /\ HandlersExpected /\ ReplyRoom

(* The session the user sees.                                                *)
session == CASE o.state = "FREED" -> "none"
             [] o.state = "UP" -> "up"
             [] OTHER -> "connecting"

Session == INSTANCE SocksSession

(* BSocksClient implements SocksSession: whatever the server sends and       *)
(* however the connection fails, UP is reported at most once after Init, and *)
(* every end of the session goes through Free.                               *)
SessionSpec == Session!Spec
=============================================================================
