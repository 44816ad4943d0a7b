------------------------- MODULE SocksClientProofs -------------------------
(***************************************************************************)
(* Proofs about SocksClient: its inductive invariant, and that it           *)
(* implements SocksSession; and about SocksDialogue: that the client and    *)
(* the relay agree on the bytes between them, however they are cut.         *)
(***************************************************************************)
EXTENDS SocksDialogue, SequenceTheorems, TLAPS

(* IInv of a given struct, so that the handlers can be reasoned about one by *)
(* one.                                                                      *)
Good(p) ==
  /\ p \in Struct
  /\ p.connector = (IF p.state = "FREED" THEN 0 ELSE 1)
  /\ p.con = (IF p.state \in {"FREED", "CONNECTING"} THEN 0 ELSE 1)
  /\ p.control_io = (IF p.state \in Sending \cup Receiving THEN 1 ELSE 0)
  /\ p.up_io = (IF p.state = "UP" THEN 1 ELSE 0)
  /\ p.buffer > 0 <=> p.state \in Sending \cup Receiving
  /\ p.send_len > 0 <=> p.state \in Sending
  /\ p.recv_total > 0 <=> p.state \in Receiving
  /\ p.send_left <= p.send_len /\ p.send_len <= p.buffer
  /\ p.recv_total > 0 =>
       p.recv_len <= p.recv_total /\ p.recv_off + p.recv_total <= p.buffer
  /\ p.state = "SENT_REQUEST" => p.buffer = ReplyHeaderLen + AddrLen.ipv6

(* Good restates IInv.                                                       *)
LEMMA GoodIsIInv == Good(o) <=> IInv
  BY DEF Good, IInv, TypeOK, ResourcesAgree, HandlersExpected, ReplyRoom

(* A struct between a done handler's entry and its call of the next           *)
(* operation: nothing is under way, the state is still the old one.           *)
Idle(p) ==
  /\ p \in Struct
  /\ p.state \in Sending \cup Receiving
  /\ p.connector = 1 /\ p.con = 1 /\ p.control_io = 1 /\ p.up_io = 0
  /\ p.send_len = 0 /\ p.send_left = 0 /\ p.recv_total = 0

(* The struct after BSocksClient_Free.                                       *)
Released(p) ==
  /\ p \in Struct
  /\ p.state = "FREED" /\ p.connector = 0 /\ p.con = 0 /\ p.control_io = 0 /\ p.up_io = 0
  /\ p.buffer = 0 /\ p.send_len = 0 /\ p.send_left = 0 /\ p.recv_total = 0

LEMMA ReleasedGood ==
  ASSUME NEW p, Released(p)
  PROVE  Good(p)
  BY DEF Released, Good, Struct, Sending, Receiving

(* What BSocksClient_Free needs of the struct: it owns what its state says,   *)
(* and a transfer is under way only if there is control I/O.                  *)
Owned(p) ==
  /\ p \in Struct
  /\ p.state # "FREED" /\ p.connector = 1
  /\ p.con = (IF p.state = "CONNECTING" THEN 0 ELSE 1)
  /\ p.control_io = (IF p.state \in Sending \cup Receiving THEN 1 ELSE 0)
  /\ p.up_io = (IF p.state = "UP" THEN 1 ELSE 0)
  /\ p.state \in {"CONNECTING", "UP"} =>
       p.send_len = 0 /\ p.send_left = 0 /\ p.recv_total = 0

(* BSocksClient_Free leaves nothing owned, from any state.                   *)
LEMMA FreeOwned ==
  ASSUME NEW p, Owned(p)
  PROVE  Released(BSocksClient_Free(p)) /\ Released(report_error(p))
<1> DEFINE r == BSocksClient_Free(p)
<1>1. /\ p.connector - 1 \in Int /\ p.con - 1 \in Int /\ p.control_io - 1 \in Int
      /\ p.up_io - 1 \in Int /\ 0 \in Nat
  BY DEF Owned, Struct
<1>2. r \in Struct
  <2>1. CASE p.state = "CONNECTING"
    BY <1>1, <2>1, Zenon DEF Owned, BSocksClient_Free, Struct, State
  <2>2. CASE p.state = "UP"
    <3> DEFINE q == BConnection_Free(free_up_io(p))
    <3>1. q \in Struct /\ q.connector = p.connector
      BY <1>1, Zenon DEF Owned, free_up_io, BConnection_Free, Struct
    <3>2. r = [q EXCEPT !.connector = @ - 1, !.buffer = 0, !.state = "FREED"]
      BY <2>2, Zenon DEF BSocksClient_Free
    <3> HIDE DEF q, r
    <3>3. QED BY <1>1, <3>1, <3>2, Zenon DEF Struct, State
  <2>3. CASE p.state \notin {"CONNECTING", "UP"}
    <3> DEFINE q == BConnection_Free(free_control_io(p))
    <3>1. q \in Struct /\ q.connector = p.connector
      BY <1>1, Zenon DEF Owned, free_control_io, BConnection_Free, Struct
    <3>2. r = [q EXCEPT !.connector = @ - 1, !.buffer = 0, !.state = "FREED"]
      BY <2>3, Zenon DEF BSocksClient_Free
    <3> HIDE DEF q, r
    <3>3. QED BY <1>1, <3>1, <3>2, Zenon DEF Struct, State
  <2>4. QED BY <2>1, <2>2, <2>3
<1>3. /\ r.state = "FREED" /\ r.connector = 0 /\ r.con = 0 /\ r.control_io = 0
      /\ r.up_io = 0 /\ r.buffer = 0 /\ r.send_len = 0 /\ r.send_left = 0
      /\ r.recv_total = 0
  BY DEF Owned, BSocksClient_Free, BConnection_Free, free_up_io, free_control_io,
         Struct, State, Sending, Receiving
<1>4. QED BY <1>2, <1>3 DEF Released, report_error

(* A packet is handed to the sender.                                         *)
LEMMA StartSend ==
  ASSUME NEW p, Idle(p), NEW len \in Nat, len > 0, NEW s \in Sending
  PROVE  /\ Good(start_send(p, len, s))
         /\ start_send(p, len, s).state = s
<1> DEFINE r == start_send(p, len, s)
<1>1. r \in Struct
  BY Zenon DEF Idle, start_send, Struct, State
<1>2. /\ r.state = s /\ r.connector = 1 /\ r.con = 1 /\ r.control_io = 1 /\ r.up_io = 0
      /\ r.buffer = len /\ r.send_len = len /\ r.send_left = len /\ r.recv_total = 0
  BY DEF Idle, start_send, Struct
<1>3. QED BY <1>1, <1>2 DEF Good, Sending, Receiving

(* A message is waited for, in a buffer with room for it.                    *)
LEMMA StartReceive ==
  ASSUME NEW p, Idle(p), NEW size \in Nat, NEW off \in Nat, NEW total \in Nat,
         NEW s \in Receiving, total > 0, off + total <= size,
         s = "SENT_REQUEST" => size = ReplyHeaderLen + AddrLen.ipv6
  PROVE  /\ Good(start_receive(p, size, off, total, s))
         /\ start_receive(p, size, off, total, s).state = s
<1> DEFINE r == start_receive(p, size, off, total, s)
<1>0. 0 \in Nat OBVIOUS
<1>1. r \in Struct
  BY <1>0, Zenon DEF Idle, start_receive, Struct, State
<1>2. /\ r.state = s /\ r.connector = 1 /\ r.con = 1 /\ r.control_io = 1 /\ r.up_io = 0
      /\ r.buffer = size /\ r.send_len = 0 /\ r.send_left = 0 /\ r.recv_total = total
      /\ r.recv_len = 0 /\ r.recv_off = off
  BY DEF Idle, start_receive, Struct
<1>3. QED BY <1>1, <1>2 DEF Good, Sending, Receiving

(* The states a struct of the invariant can be in.                           *)
LEMMA GoodOwned ==
  ASSUME NEW p, Good(p), p.state # "FREED"
  PROVE  Owned(p)
  BY DEF Good, Owned, Struct, Sending, Receiving

LEMMA IdleOwned ==
  ASSUME NEW p, Idle(p)
  PROVE  Owned(p)
  BY DEF Idle, Owned, Struct, Sending, Receiving

-----------------------------------------------------------------------------
(* The contracts of the handlers.                                            *)

LEMMA ConnectorHandler ==
  ASSUME NEW p, Good(p), p.state = "CONNECTING",
         NEW connected, NEW inited, NEW mem
  PROVE  LET r == connector_handler(p, connected, inited, mem)
         IN  Good(r) /\ r.state \in {"FREED", "SENDING_HELLO"}
<1> DEFINE q == [p EXCEPT !.con = @ + 1, !.control_io = @ + 1]
           f == BConnection_Free(free_control_io(q))
           len == 2 + num_auth_info
<1>1. Owned(p)
  BY GoodOwned
<1>2. q \in Struct
  <2>1. p.con + 1 \in Int /\ p.control_io + 1 \in Int
    BY DEF Good, Struct
  <2>2. QED BY <2>1, Zenon DEF Good, Struct
<1>3. /\ q.state = "CONNECTING" /\ q.connector = 1 /\ q.con = 1 /\ q.control_io = 1
      /\ q.up_io = 0 /\ q.send_len = 0 /\ q.send_left = 0 /\ q.recv_total = 0
  BY DEF Good, Struct, Sending, Receiving
<1>4. Owned(f)
  <2> HIDE DEF q
  <2>1. q.con - 1 \in Int /\ q.control_io - 1 \in Int /\ 0 \in Nat
    BY <1>2 DEF Struct
  <2>2. f \in Struct
    BY <1>2, <2>1, Zenon DEF free_control_io, BConnection_Free, Struct
  <2>3. /\ f.state = "CONNECTING" /\ f.connector = 1 /\ f.con = 0 /\ f.control_io = 0
        /\ f.up_io = 0 /\ f.send_len = 0 /\ f.send_left = 0 /\ f.recv_total = 0
    BY <1>2, <1>3 DEF free_control_io, BConnection_Free, Struct
  <2>4. QED BY <2>2, <2>3 DEF Owned, Sending, Receiving
<1>5. Good(start_send(q, len, "SENDING_HELLO"))
      /\ start_send(q, len, "SENDING_HELLO").state = "SENDING_HELLO"
  <2> DEFINE r == start_send(q, len, "SENDING_HELLO")
  <2>1. len \in Nat /\ len > 0
    BY DEF num_auth_info
  <2> HIDE DEF q, len
  <2>2. r \in Struct
    BY <1>2, <2>1, Zenon DEF start_send, Struct, State, Sending
  <2>3. /\ r.state = "SENDING_HELLO" /\ r.connector = 1 /\ r.con = 1 /\ r.control_io = 1
        /\ r.up_io = 0 /\ r.buffer = len /\ r.send_len = len /\ r.send_left = len
        /\ r.recv_total = 0
    BY <1>2, <1>3 DEF start_send, Struct
  <2>4. QED BY <2>1, <2>2, <2>3 DEF Good, Sending, Receiving
<1>6. Good(report_error(p)) /\ report_error(p).state = "FREED"
  BY <1>1, FreeOwned, ReleasedGood DEF Released
<1>7. Good(report_error(f)) /\ report_error(f).state = "FREED"
  BY <1>4, FreeOwned, ReleasedGood DEF Released
<1> HIDE DEF f, len
<1>8. connector_handler(p, connected, inited, mem)
        = IF ~connected \/ ~inited THEN report_error(p)
          ELSE IF num_auth_info = 0 \/ ~mem THEN report_error(f)
          ELSE start_send(q, len, "SENDING_HELLO")
  BY Zenon DEF connector_handler, f, len
<1> HIDE DEF q
<1>9. QED BY <1>5, <1>6, <1>7, <1>8, Zenon

LEMMA AuthFinished ==
  ASSUME NEW p, Idle(p), NEW mem
  PROVE  /\ Good(auth_finished(p, mem))
         /\ auth_finished(p, mem).state \in {"FREED", "SENDING_REQUEST"}
<1>1. 4 + AddrLen[DestType] \in Nat /\ 4 + AddrLen[DestType] > 0
  BY SocksAssumption DEF AddrLen
<1>2. CASE mem
  BY <1>1, <1>2, StartSend DEF auth_finished, Sending
<1>3. CASE ~mem
  BY <1>3, IdleOwned, FreeOwned, ReleasedGood DEF auth_finished, Released
<1>4. QED BY <1>2, <1>3

LEMMA SendHandlerDone ==
  ASSUME NEW p, Good(p), p.state \in Sending, p.send_left = 0, NEW mem
  PROVE  LET r == send_handler_done(p, mem)
         IN  Good(r) /\ r.state \in {"FREED"} \cup Receiving
<1> DEFINE q == [p EXCEPT !.send_len = 0]
<1>1. Idle(q)
  <2>1. 0 \in Nat OBVIOUS
  <2>2. q \in Struct
    BY <2>1, Zenon DEF Good, Struct
  <2>3. /\ q.state = p.state /\ q.connector = 1 /\ q.con = 1 /\ q.control_io = 1
        /\ q.up_io = 0 /\ q.send_len = 0 /\ q.send_left = 0 /\ q.recv_total = 0
    BY DEF Good, Struct, Sending, Receiving
  <2>4. QED BY <2>2, <2>3 DEF Idle
<1>2. q.state = p.state
  BY DEF Good, Struct
<1> HIDE DEF q
<1>3. CASE ~mem
  <2>1. send_handler_done(p, mem) = report_error(q)
    BY <1>3 DEF send_handler_done, q
  <2>2. QED BY <1>1, <2>1, IdleOwned, FreeOwned, ReleasedGood DEF Released
<1>4. CASE mem /\ p.state = "SENDING_HELLO"
  <2>1. send_handler_done(p, mem) = start_receive(q, 2, 0, 2, "SENT_HELLO")
    BY <1>2, <1>4 DEF send_handler_done, q, HelloReplyLen
  <2>2. QED BY <1>1, <2>1, StartReceive DEF Receiving
<1>5. CASE mem /\ p.state = "SENDING_PASSWORD"
  <2>1. send_handler_done(p, mem) = start_receive(q, 2, 0, 2, "SENT_PASSWORD")
    BY <1>2, <1>5 DEF send_handler_done, q, PasswordReplyLen
  <2>2. QED BY <1>1, <2>1, StartReceive DEF Receiving
<1>6. CASE mem /\ p.state = "SENDING_REQUEST"
  <2>1. send_handler_done(p, mem)
          = start_receive(q, ReplyHeaderLen + AddrLen.ipv6, 0, 4, "SENT_REQUEST")
    BY <1>2, <1>6 DEF send_handler_done, q, ReplyHeaderLen
  <2>2. ReplyHeaderLen + AddrLen.ipv6 = 22
    BY DEF ReplyHeaderLen, AddrLen
  <2>3. QED BY <1>1, <2>1, <2>2, StartReceive DEF Receiving
<1>7. QED BY <1>3, <1>4, <1>5, <1>6 DEF Sending

LEMMA RecvHandlerDone ==
  ASSUME NEW p, Good(p), p.state \in Receiving, NEW a, NEW mem
  PROVE  LET r == recv_handler_done(p, a, mem)
         IN  Good(r) /\ r.state \in {"FREED", "UP"} \cup Sending \cup Receiving
<1> DEFINE q == [p EXCEPT !.recv_total = 0]
           r == recv_handler_done(p, a, mem)
<1>1. Idle(q)
  <2>1. 0 \in Nat OBVIOUS
  <2>2. q \in Struct
    BY <2>1, Zenon DEF Good, Struct
  <2>3. /\ q.state = p.state /\ q.connector = 1 /\ q.con = 1 /\ q.control_io = 1
        /\ q.up_io = 0 /\ q.send_len = 0 /\ q.send_left = 0 /\ q.recv_total = 0
    BY DEF Good, Struct, Sending, Receiving
  <2>4. QED BY <2>2, <2>3 DEF Idle
<1>2. q.state = p.state /\ q.buffer = p.buffer
  BY DEF Good, Struct
<1>3. Good(report_error(q)) /\ report_error(q).state = "FREED"
  BY <1>1, IdleOwned, FreeOwned, ReleasedGood DEF Released
<1>4. Good(auth_finished(q, mem))
      /\ auth_finished(q, mem).state \in {"FREED", "SENDING_REQUEST"}
  BY <1>1, AuthFinished
<1> HIDE DEF q
<1>5. CASE p.state = "SENT_HELLO"
  <2> DEFINE len == 3 + UsernameLen + PasswordLen
  <2>1. len \in Nat /\ len > 0
    BY SocksAssumption
  <2>2. Good(start_send(q, len, "SENDING_PASSWORD"))
        /\ start_send(q, len, "SENDING_PASSWORD").state = "SENDING_PASSWORD"
    BY <1>1, <2>1, StartSend DEF Sending
  <2> HIDE DEF len
  <2>3. r \in {auth_finished(q, mem), start_send(q, len, "SENDING_PASSWORD"), report_error(q)}
    BY <1>2, <1>5 DEF recv_handler_done, q, len
  <2>4. QED BY <1>3, <1>4, <2>2, <2>3 DEF Sending
<1>6. CASE p.state = "SENT_PASSWORD"
  <2>1. r \in {auth_finished(q, mem), report_error(q)}
    BY <1>2, <1>6 DEF recv_handler_done, q
  <2>2. QED BY <1>3, <1>4, <2>1 DEF Sending
<1>7. CASE p.state = "SENT_REQUEST" /\ a \in {"ipv4", "ipv6"}
  <2>1. r = start_receive(q, q.buffer, ReplyHeaderLen, AddrLen[a], "RECEIVED_REPLY_HEADER")
    BY <1>2, <1>7 DEF recv_handler_done, q
  <2>2. q.buffer = 22
    BY <1>2, <1>7 DEF Good, ReplyHeaderLen, AddrLen
  <2>3. AddrLen[a] \in {6, 18} /\ ReplyHeaderLen = 4
    BY <1>7 DEF AddrLen, ReplyHeaderLen
  <2>4. QED BY <1>1, <2>1, <2>2, <2>3, StartReceive DEF Receiving
<1>8. CASE p.state = "SENT_REQUEST" /\ a \notin {"ipv4", "ipv6"}
  <2>1. r = report_error(q)
    BY <1>2, <1>8 DEF recv_handler_done, q
  <2>2. QED BY <1>3, <2>1
<1>9. CASE p.state = "RECEIVED_REPLY_HEADER"
  <2> DEFINE f == free_control_io(q)
  <2>1. r = [f EXCEPT !.buffer = 0, !.up_io = @ + 1, !.state = "UP"]
    BY <1>2, <1>9 DEF recv_handler_done, q
  <2>2. q.control_io - 1 \in Int /\ q.up_io + 1 \in Int /\ 0 \in Nat
    BY <1>1 DEF Idle, Struct
  <2>3. f \in Struct /\ f.up_io = q.up_io
    BY <1>1, <2>2, Zenon DEF Idle, free_control_io, Struct
  <2>4. /\ f.connector = 1 /\ f.con = 1 /\ f.control_io = 0 /\ f.up_io = 0
        /\ f.send_len = 0 /\ f.send_left = 0 /\ f.recv_total = 0
    BY <1>1 DEF Idle, free_control_io, Struct
  <2> HIDE DEF f, r
  <2>5. r \in Struct
    BY <2>1, <2>2, <2>3, Zenon DEF Struct, State
  <2>6. /\ r.state = "UP" /\ r.connector = 1 /\ r.con = 1 /\ r.control_io = 0 /\ r.up_io = 1
        /\ r.buffer = 0 /\ r.send_len = 0 /\ r.send_left = 0 /\ r.recv_total = 0
    BY <2>1, <2>3, <2>4 DEF Struct
  <2>7. Good(r)
    BY <2>5, <2>6 DEF Good, Sending, Receiving
  <2>8. QED BY <2>6, <2>7 DEF r
<1>10. QED BY <1>5, <1>6, <1>7, <1>8, <1>9 DEF Receiving

-----------------------------------------------------------------------------
(* Every step of SocksClient keeps the invariant, and is a step of            *)
(* SocksSession or leaves the session unchanged.                              *)

LEMMA SessionOf ==
  ASSUME IInv
  PROVE  /\ session = "none" <=> o.state = "FREED"
         /\ session = "up" <=> o.state = "UP"
         /\ session = "connecting" <=> o.state \in {"CONNECTING"} \cup Sending \cup Receiving
  BY DEF IInv, TypeOK, Struct, State, Sending, Receiving, session

LEMMA SessionOfNext ==
  ASSUME IInv'
  PROVE  /\ session' = "none" <=> o'.state = "FREED"
         /\ session' = "up" <=> o'.state = "UP"
         /\ session' = "connecting" <=> o'.state \in {"CONNECTING"} \cup Sending \cup Receiving
  BY DEF IInv, TypeOK, Struct, State, Sending, Receiving, session

LEMMA GoodIsIInvNext == Good(o') <=> IInv'
  BY DEF Good, IInv, TypeOK, ResourcesAgree, HandlersExpected, ReplyRoom

LEMMA InitStep == Init => IInv /\ session = "none"
<1> SUFFICES ASSUME Init PROVE IInv /\ session = "none"
  OBVIOUS
<1>1. o = Nothing
  BY DEF Init
<1>2. 0 \in Nat /\ 0 \in Int
  OBVIOUS
<1>3. o \in Struct
  BY <1>1, <1>2, Zenon DEF Nothing, Struct, State
<1>4. /\ o.state = "FREED" /\ o.connector = 0 /\ o.con = 0 /\ o.control_io = 0 /\ o.up_io = 0
      /\ o.buffer = 0 /\ o.send_len = 0 /\ o.send_left = 0 /\ o.recv_total = 0
  BY <1>1 DEF Nothing
<1>5. QED BY <1>3, <1>4, ReleasedGood, GoodIsIInv, SessionOf DEF Released

LEMMA NextStep ==
  ASSUME IInv, [Next]_o
  PROVE  IInv' /\ [Session!Next]_session
<1> USE GoodIsIInv, GoodIsIInvNext, SessionOf, SessionOfNext
<1>0. Good(o) /\ o \in Struct
  BY DEF Good
<1>1. CASE Open
  <2>1. o.connector + 1 \in Int /\ 0 \in Nat
    BY <1>0 DEF Struct
  <2>2. o' \in Struct
    BY <1>0, <1>1, <2>1, Zenon DEF Open, Struct, State
  <2>3. /\ o'.state = "CONNECTING" /\ o'.connector = 1 /\ o'.con = 0 /\ o'.control_io = 0
        /\ o'.up_io = 0 /\ o'.buffer = 0 /\ o'.send_len = 0 /\ o'.send_left = 0
        /\ o'.recv_total = 0
    BY <1>0, <1>1 DEF Open, Good, Struct, Sending, Receiving
  <2>4. Good(o')
    BY <2>2, <2>3 DEF Good, Sending, Receiving
  <2>5. Session!Open
    BY <1>1, <2>3, <2>4 DEF Open, Session!Open
  <2>6. QED BY <2>4, <2>5 DEF Session!Next
<1>2. CASE ConnectionFails \/ Free
  <2>1. o.state # "FREED" /\ (o' = report_error(o) \/ o' = BSocksClient_Free(o))
    BY <1>2 DEF ConnectionFails, Free
  <2>2. Released(o')
    BY <1>0, <2>1, GoodOwned, FreeOwned
  <2>3. Good(o') /\ o'.state = "FREED"
    BY <2>2, ReleasedGood DEF Released
  <2>4. Session!Close
    BY <2>1, <2>3 DEF Session!Close
  <2>5. QED BY <2>3, <2>4 DEF Session!Next
<1>3. ASSUME NEW connected \in BOOLEAN, NEW inited \in BOOLEAN, NEW mem \in BOOLEAN,
             Connected(connected, inited, mem)
      PROVE  IInv' /\ [Session!Next]_session
  <2>1. o.state = "CONNECTING" /\ o' = connector_handler(o, connected, inited, mem)
    BY <1>3 DEF Connected
  <2>2. Good(o') /\ o'.state \in {"FREED", "SENDING_HELLO"}
    BY <1>0, <2>1, ConnectorHandler
  <2>3. CASE o'.state = "FREED"
    BY <2>1, <2>2, <2>3 DEF Session!Next, Session!Close
  <2>4. CASE o'.state = "SENDING_HELLO"
    BY <2>1, <2>2, <2>4 DEF Sending
  <2>5. QED BY <2>2, <2>3, <2>4
<1>4. ASSUME NEW n \in 1 .. o.send_left, SendBytes(n)
      PROVE  IInv' /\ [Session!Next]_session
  <2>1. o.send_left - n \in Nat
    BY <1>0, <1>4 DEF SendBytes, Struct
  <2>2. o' \in Struct
    BY <1>0, <1>4, <2>1, Zenon DEF SendBytes, Struct
  <2>3. /\ o'.state = o.state /\ o'.connector = o.connector /\ o'.con = o.con
        /\ o'.control_io = o.control_io /\ o'.up_io = o.up_io /\ o'.buffer = o.buffer
        /\ o'.send_len = o.send_len /\ o'.send_left = o.send_left - n
        /\ o'.recv_total = o.recv_total /\ o'.recv_len = o.recv_len
        /\ o'.recv_off = o.recv_off
    BY <1>0, <1>4 DEF SendBytes, Struct
  <2>4. o'.send_left <= o'.send_len
    BY <1>0, <2>1, <2>3 DEF Good, Struct
  <2>5. Good(o')
    BY <1>0, <2>2, <2>3, <2>4 DEF Good
  <2>6. QED BY <2>3, <2>5, SMT DEF session
<1>5. ASSUME NEW n \in 1 .. o.recv_total - o.recv_len, RecvBytes(n)
      PROVE  IInv' /\ [Session!Next]_session
  <2>1. o.recv_len + n \in Nat /\ o.recv_len + n <= o.recv_total
    BY <1>0, <1>5 DEF RecvBytes, Struct
  <2>2. o' \in Struct
    BY <1>0, <1>5, <2>1, Zenon DEF RecvBytes, Struct
  <2>3. /\ o'.state = o.state /\ o'.connector = o.connector /\ o'.con = o.con
        /\ o'.control_io = o.control_io /\ o'.up_io = o.up_io /\ o'.buffer = o.buffer
        /\ o'.send_len = o.send_len /\ o'.send_left = o.send_left
        /\ o'.recv_total = o.recv_total /\ o'.recv_len = o.recv_len + n
        /\ o'.recv_off = o.recv_off
    BY <1>0, <1>5 DEF RecvBytes, Struct
  <2>4. Good(o')
    BY <1>0, <2>1, <2>2, <2>3 DEF Good
  <2>5. QED BY <2>3, <2>4, SMT DEF session
<1>6. ASSUME NEW mem \in BOOLEAN, SendDone(mem)
      PROVE  IInv' /\ [Session!Next]_session
  <2>1. o.state \in Sending /\ o.send_left = 0 /\ o' = send_handler_done(o, mem)
    BY <1>0, <1>6 DEF SendDone, Good
  <2>2. Good(o') /\ o'.state \in {"FREED"} \cup Receiving
    BY <1>0, <2>1, SendHandlerDone
  <2>3. CASE o'.state = "FREED"
    BY <2>1, <2>2, <2>3 DEF Session!Next, Session!Close, Sending
  <2>4. CASE o'.state \in Receiving
    BY <2>1, <2>2, <2>4
  <2>5. QED BY <2>2, <2>3, <2>4
<1>7. ASSUME NEW a \in Answer, NEW mem \in BOOLEAN, RecvDone(a, mem)
      PROVE  IInv' /\ [Session!Next]_session
  <2>1. o.state \in Receiving /\ o' = recv_handler_done(o, a, mem)
    BY <1>0, <1>7 DEF RecvDone, Good
  <2>2. Good(o') /\ o'.state \in {"FREED", "UP"} \cup Sending \cup Receiving
    BY <1>0, <2>1, RecvHandlerDone
  <2>3. CASE o'.state = "FREED"
    BY <2>1, <2>2, <2>3 DEF Session!Next, Session!Close, Receiving
  <2>4. CASE o'.state = "UP"
    BY <2>1, <2>2, <2>4 DEF Session!Next, Session!Up
  <2>5. CASE o'.state \in Sending \cup Receiving
    BY <2>1, <2>2, <2>5
  <2>6. QED BY <2>2, <2>3, <2>4, <2>5
<1>8. CASE UNCHANGED o
  BY <1>8 DEF IInv, TypeOK, ResourcesAgree, HandlersExpected, ReplyRoom, session
<1>9. QED BY <1>1, <1>2, <1>3, <1>4, <1>5, <1>6, <1>7, <1>8 DEF Next

(* The inductive invariant of BSocksClient holds for every set of methods,    *)
(* destination type and length of user name and password.                     *)
THEOREM InvariantHolds == Spec => []IInv
<1>1. Init => IInv
  BY InitStep
<1>2. IInv /\ [Next]_o => IInv'
  BY NextStep
<1>3. QED BY <1>1, <1>2, PTL DEF Spec

(* The struct keeps its type: no counter of a transfer goes below zero.       *)
THEOREM TypeCorrect == Spec => []TypeOK
<1>1. IInv => TypeOK
  BY DEF IInv
<1>2. QED BY <1>1, InvariantHolds, PTL

(* Connector, connection, control I/O, up I/O and buffer are released exactly *)
(* once on every path, also where a handler fails half-way.                   *)
THEOREM ResourcesSafe == Spec => []ResourcesAgree
<1>1. IInv => ResourcesAgree
  BY DEF IInv
<1>2. QED BY <1>1, InvariantHolds, PTL

(* No done handler runs in a state it has no case for, and no transfer reaches *)
(* outside the buffer.                                                         *)
THEOREM HandlersSafe == Spec => []HandlersExpected
<1>1. IInv => HandlersExpected
  BY DEF IInv
<1>2. QED BY <1>1, InvariantHolds, PTL

(* BSocksClient implements SocksSession: UP at most once per Init, the error  *)
(* last.                                                                      *)
THEOREM ImplementsSession == Spec => SessionSpec
<1>1. Init => Session!Init
  BY InitStep DEF Session!Init
<1>2. IInv /\ [Next]_o => [Session!Next]_session
  BY NextStep
<1>3. QED BY <1>1, <1>2, InvariantHolds, PTL DEF Spec, SessionSpec, Session!Spec

-----------------------------------------------------------------------------
(* SocksDialogue: the bytes between the two ends.                            *)

Byte == 0 .. 255
Symbol == Byte \cup {Payload}

Conn == [ dest : Addresses, toServer : Seq(Symbol), toClient : Seq(Symbol), got : Seq(Symbol),
          handler : {"bufferHandler", "raw"}, mapped : BOOLEAN,
          asked : [host : Seq(Symbol), port : Int], closed : BOOLEAN, split : BOOLEAN ]

(* The request for a given destination.                                      *)
RequestTo(d) == <<5, 1, 0>> \o (IF DestType = "ipv4" THEN <<1>> \o d
                                ELSE <<4>> \o [i \in 1 .. 16 |-> d[1]]) \o PortBytes

HelloLen == 2 + num_auth_info
RequestLen == 4 + AddrLen[DestType]

(* What is left of a sequence and what is taken of it are the sequence.        *)
LEMMA TakeCut ==
  ASSUME NEW S, NEW t \in Seq(S), NEW n \in 0 .. Len(t)
  PROVE  /\ SubSeq(t, 1, n) \in Seq(S) /\ Len(SubSeq(t, 1, n)) = n
         /\ \A k \in 1 .. n : SubSeq(t, 1, n)[k] = t[k]
         /\ Cut(t, n) \in Seq(S) /\ Len(Cut(t, n)) = Len(t) - n
         /\ \A k \in 1 .. Len(t) - n : Cut(t, n)[k] = t[n + k]
         /\ SubSeq(t, 1, n) \o Cut(t, n) = t
<1>1. Len(t) \in Nat /\ \A k \in 1 .. Len(t) : t[k] \in S
  BY LenProperties, ElementOfSeq
<1>2. \A k \in 1 .. n : t[k] \in S
  BY <1>1
<1>3. \A k \in n + 1 .. Len(t) : t[k] \in S
  BY <1>1
<1>4. /\ SubSeq(t, 1, n) \in Seq(S) /\ Len(SubSeq(t, 1, n)) = n
      /\ \A k \in 1 .. n : SubSeq(t, 1, n)[k] = t[k]
  BY <1>1, <1>2, SubSeqProperties
<1>5. /\ Cut(t, n) \in Seq(S) /\ Len(Cut(t, n)) = Len(t) - n
      /\ \A k \in 1 .. Len(t) - n : Cut(t, n)[k] = t[n + k]
  BY <1>1, <1>3, SubSeqProperties DEF Cut
<1>6. SubSeq(t, 1, n) \o SubSeq(t, n + 1, Len(t)) = SubSeq(t, 1, Len(t))
  <2>1. 1 \in 1 .. Len(t) + 1 /\ n \in 1 - 1 .. Len(t) /\ Len(t) \in n .. Len(t)
    BY <1>1
  <2>2. QED BY <2>1, ConcatAdjacentSubSeq
<1>7. QED BY <1>4, <1>5, <1>6, SubSeqFull DEF Cut

(* The elements of a concatenation.                                          *)
LEMMA Joined ==
  ASSUME NEW S, NEW s \in Seq(S), NEW t \in Seq(S)
  PROVE  /\ s \o t \in Seq(S) /\ Len(s \o t) = Len(s) + Len(t)
         /\ \A i \in 1 .. Len(s) + Len(t) :
              (s \o t)[i] = IF i <= Len(s) THEN s[i] ELSE t[i - Len(s)]
  BY ConcatProperties, Zenon

(* Reading moves bytes: what was read and what is to be read stay the same.    *)
LEMMA ReadMoves ==
  ASSUME NEW S, NEW g \in Seq(S), NEW t \in Seq(S), NEW n \in 0 .. Len(t)
  PROVE  /\ (g \o SubSeq(t, 1, n)) \o Cut(t, n) = g \o t
         /\ g \o SubSeq(t, 1, n) \in Seq(S) /\ Len(g \o SubSeq(t, 1, n)) = Len(g) + n
<1> DEFINE h == SubSeq(t, 1, n)
           c == Cut(t, n)
<1>1. Len(h) = n /\ h \o c = t
  BY TakeCut, Zenon
<1>2. h \in Seq(S) /\ c \in Seq(S)
  BY TakeCut, Zenon
<1> HIDE DEF h, c
<1>3. (g \o h) \o c = g \o (h \o c)
  <2>1. \A x, y, z \in Seq(S) : (x \o y) \o z = x \o (y \o z)
    BY ConcatAssociative, SMTT(30)
  <2>2. QED BY <1>2, <2>1, Zenon
<1>4. g \o h \in Seq(S) /\ Len(g \o h) = Len(g) + Len(h)
  BY <1>2, Joined, Zenon
<1>5. QED BY <1>1, <1>3, <1>4, Zenon DEF h, c

LEMMA FunctionIsSeq ==
  ASSUME NEW S, NEW n \in Nat, NEW d \in [1 .. n -> S]
  PROVE  d \in Seq(S) /\ Len(d) = n
<1>1. d \in Seq(S)
  BY SeqDef
<1>2. QED BY <1>1

LEMMA DestBytes ==
  ASSUME NEW d \in Addresses
  PROVE  /\ d \in Seq(Byte) /\ Len(d) = 4
         /\ d[1] \in Byte /\ d[2] \in Byte /\ d[3] \in Byte /\ d[4] \in Byte
<1>1. d \in [1 .. 4 -> Byte]
  BY AddressAssumption DEF Byte
<1>2. d \in Seq(Byte) /\ Len(d) = 4
  <2>1. 4 \in Nat
    OBVIOUS
  <2>2. QED BY <1>1, <2>1, FunctionIsSeq, ZenonT(60)
<1>3. QED BY <1>1, <1>2

LEMMA PortRange == Port \in Int /\ 0 <= Port /\ Port <= 65535
  BY DialogueAssumption

LEMMA PortParts ==
  /\ Port \div 256 \in Byte /\ Port % 256 \in Byte
  /\ 256 * (Port \div 256) + (Port % 256) = Port
<1>1. Port \in Int /\ 0 <= Port /\ Port <= 65535
  BY PortRange
<1>2. /\ Port = 256 * (Port \div 256) + (Port % 256) /\ Port \div 256 \in Int
      /\ Port % 256 \in Int /\ 0 <= Port % 256 /\ Port % 256 <= 255
  BY <1>1
<1> DEFINE q == Port \div 256
           r == Port % 256
<1> HIDE DEF q, r
<1>3. Port = 256 * q + r /\ q \in Int /\ r \in Int /\ 0 <= r /\ r <= 255
  BY <1>2 DEF q, r
<1>4. 0 <= q /\ q <= 255
  BY <1>1, <1>3
<1>5. q \in Byte /\ r \in Byte
  BY <1>3, <1>4 DEF Byte
<1>6. QED BY <1>3, <1>5 DEF q, r

(* The bytes of a hello.                                                     *)
LEMMA HelloBytes ==
  /\ HelloLen \in 2 .. 4 /\ Hello \in Seq(Byte) /\ Len(Hello) = HelloLen
  /\ Hello[1] = 5 /\ Hello[2] = HelloLen - 2
  /\ \A k \in 2 .. HelloLen : Hello[k] \in {0, 1, 2}
<1> DEFINE first == <<5, num_auth_info>>
           none == IF "none" \in AuthInfo THEN <<0>> ELSE <<>>
           pass == IF "password" \in AuthInfo THEN <<2>> ELSE <<>>
<1>1. /\ num_auth_info \in 0 .. 2
      /\ first \in Seq(Byte) /\ Len(first) = 2 /\ first[1] = 5 /\ first[2] = num_auth_info
  BY DEF num_auth_info, Byte
<1>2. none \in Seq(Byte) /\ Len(none) \in 0 .. 1 /\ \A k \in 1 .. Len(none) : none[k] = 0
  <2>1. CASE "none" \in AuthInfo
    BY <2>1 DEF Byte
  <2>2. CASE "none" \notin AuthInfo
    BY <2>2
  <2>3. QED BY <2>1, <2>2
<1>3. pass \in Seq(Byte) /\ Len(pass) \in 0 .. 1 /\ \A k \in 1 .. Len(pass) : pass[k] = 2
  <2>1. CASE "password" \in AuthInfo
    BY <2>1 DEF Byte
  <2>2. CASE "password" \notin AuthInfo
    BY <2>2
  <2>3. QED BY <2>1, <2>2
<1>4. Len(none) + Len(pass) = num_auth_info
  BY DEF num_auth_info
<1>5. Hello = (first \o none) \o pass
  BY DEF Hello
<1> HIDE DEF first, none, pass
<1> DEFINE both == first \o none
<1>6. both \in Seq(Byte)
  BY <1>1, <1>2, Joined, Zenon
<1>6a. /\ Len(both) = Len(first) + Len(none)
      /\ \A i \in 1 .. Len(first) + Len(none) :
           both[i] = IF i <= Len(first) THEN first[i] ELSE none[i - Len(first)]
  BY <1>1, <1>2, Joined, Zenon
<1>7. Hello = both \o pass
  BY <1>5
<1> HIDE DEF both
<1>8. /\ Hello \in Seq(Byte) /\ Len(Hello) = Len(both) + Len(pass)
      /\ \A i \in 1 .. Len(both) + Len(pass) :
           Hello[i] = IF i <= Len(both) THEN both[i] ELSE pass[i - Len(both)]
  <2>1. both \o pass \in Seq(Byte) /\ Len(both \o pass) = Len(both) + Len(pass)
        /\ \A i \in 1 .. Len(both) + Len(pass) :
             (both \o pass)[i] = IF i <= Len(both) THEN both[i] ELSE pass[i - Len(both)]
    BY <1>3, <1>6, Joined, Zenon
  <2>2. QED BY <1>7, <2>1, Zenon
<1>9. Len(Hello) = HelloLen /\ HelloLen \in 2 .. 4
  BY <1>1, <1>2, <1>3, <1>4, <1>6a, <1>8 DEF HelloLen
<1>10. Hello[1] = 5 /\ Hello[2] = HelloLen - 2
  BY <1>1, <1>2, <1>3, <1>6a, <1>8 DEF HelloLen
<1>11. ASSUME NEW k \in 2 .. HelloLen PROVE Hello[k] \in {0, 1, 2}
  <2>1. CASE k = 2
    BY <1>1, <1>10, <2>1 DEF HelloLen
  <2>2. CASE k > 2 /\ k <= Len(both)
    <3>1. Hello[k] = both[k] /\ both[k] = none[k - 2] /\ k - 2 \in 1 .. Len(none)
      BY <1>1, <1>2, <1>3, <1>6a, <1>8, <2>2, SMTT(30)
    <3>2. QED BY <1>2, <3>1
  <2>3. CASE k > Len(both)
    BY <1>1, <1>2, <1>3, <1>6a, <1>8, <1>9, <2>3
  <2>4. QED BY <1>1, <1>2, <1>6a, <2>1, <2>2, <2>3
<1>12. QED BY <1>8, <1>9, <1>10, <1>11

(* The bytes of a request.                                                   *)
LEMMA RequestBytes ==
  ASSUME NEW d \in Addresses
  PROVE  /\ RequestTo(d) \in Seq(Byte) /\ Len(RequestTo(d)) = RequestLen
         /\ RequestTo(d)[1] = 5 /\ RequestTo(d)[2] = 1 /\ RequestTo(d)[3] = 0
         /\ RequestTo(d)[4] = (IF DestType = "ipv4" THEN 1 ELSE 4)
         /\ RequestLen = (IF DestType = "ipv4" THEN 10 ELSE 22)
         /\ DestType = "ipv4" => \A k \in 1 .. 4 : RequestTo(d)[4 + k] = d[k]
         /\ DestType = "ipv6" => \A k \in 5 .. 20 : RequestTo(d)[k] = d[1]
         /\ RequestTo(d)[RequestLen - 1] = Port \div 256
         /\ RequestTo(d)[RequestLen] = Port % 256
<1> DEFINE m == RequestTo(d)
           P == <<5, 1, 0>>
           Q == PortBytes
           T == IF DestType = "ipv4" THEN <<1>> ELSE <<4>>
           D == IF DestType = "ipv4" THEN d ELSE [i \in 1 .. 16 |-> d[1]]
           L == IF DestType = "ipv4" THEN 4 ELSE 16
<1>0. /\ d \in Seq(Byte) /\ Len(d) = 4 /\ d[1] \in Byte
      /\ Port \div 256 \in Byte /\ Port % 256 \in Byte
  BY DestBytes, PortParts
<1>1. /\ P \in Seq(Byte) /\ Len(P) = 3 /\ P[1] = 5 /\ P[2] = 1 /\ P[3] = 0
      /\ Q \in Seq(Byte) /\ Len(Q) = 2 /\ Q[1] = Port \div 256 /\ Q[2] = Port % 256
  BY <1>0 DEF PortBytes, Byte
<1>2. /\ T \in Seq(Byte) /\ Len(T) = 1 /\ T[1] = (IF DestType = "ipv4" THEN 1 ELSE 4)
  <2>1. CASE DestType = "ipv4"
    BY <2>1 DEF Byte
  <2>2. CASE DestType # "ipv4"
    BY <2>2 DEF Byte
  <2>3. QED BY <2>1, <2>2
<1>3. /\ D \in Seq(Byte) /\ Len(D) = L /\ L \in Nat
      /\ DestType = "ipv4" => L = 4 /\ \A k \in 1 .. 4 : D[k] = d[k]
      /\ DestType # "ipv4" => L = 16 /\ \A k \in 1 .. 16 : D[k] = d[1]
  <2>1. CASE DestType = "ipv4"
    BY <1>0, <2>1
  <2>2. CASE DestType # "ipv4"
    <3> DEFINE e == [i \in 1 .. 16 |-> d[1]]
    <3>1. e \in [1 .. 16 -> Byte] /\ \A k \in 1 .. 16 : e[k] = d[1]
      BY <1>0
    <3> HIDE DEF e
    <3>2. e \in Seq(Byte)
      BY <3>1, SeqDef
    <3>3. Len(e) = 16
      BY <3>1, <3>2
    <3>4. D = e /\ L = 16
      BY <2>2 DEF e
    <3> HIDE DEF D, L
    <3>5. QED BY <2>2, <3>1, <3>2, <3>3, <3>4
  <2>3. QED BY <2>1, <2>2
<1>4. m = (P \o (T \o D)) \o Q
  BY DEF RequestTo
<1>5. RequestLen = 6 + L /\ DestType \in {"ipv4", "ipv6"}
  BY SocksAssumption DEF RequestLen, AddrLen
<1> HIDE DEF P, Q, T, D, L, m
<1> DEFINE A == T \o D
<1>6. A \in Seq(Byte)
  BY <1>2, <1>3, Joined, Zenon
<1>6a. /\ Len(A) = Len(T) + Len(D)
      /\ \A i \in 1 .. Len(T) + Len(D) : A[i] = IF i <= Len(T) THEN T[i] ELSE D[i - Len(T)]
  BY <1>2, <1>3, Joined, ZenonT(60)
<1>7. m = (P \o A) \o Q
  BY <1>4
<1> HIDE DEF A
<1> DEFINE B == P \o A
<1>p. P \in Seq(Byte)
  BY <1>1
<1>8. B \in Seq(Byte)
  BY <1>p, <1>6, Joined, Zenon
<1>8b. Len(B) = Len(P) + Len(A)
  BY <1>p, <1>6, Joined, Zenon
<1>8c. \A i \in 1 .. Len(P) + Len(A) : B[i] = IF i <= Len(P) THEN P[i] ELSE A[i - Len(P)]
  BY <1>p, <1>6, Joined, Zenon
<1>8a. /\ Len(B) = Len(P) + Len(A)
      /\ \A i \in 1 .. Len(P) + Len(A) : B[i] = IF i <= Len(P) THEN P[i] ELSE A[i - Len(P)]
  BY <1>8b, <1>8c, Zenon
<1>9. m = B \o Q
  BY <1>7
<1> HIDE DEF B
<1>10. /\ m \in Seq(Byte) /\ Len(m) = Len(B) + Len(Q)
       /\ \A i \in 1 .. Len(B) + Len(Q) : m[i] = IF i <= Len(B) THEN B[i] ELSE Q[i - Len(B)]
  <2>1. /\ B \o Q \in Seq(Byte) /\ Len(B \o Q) = Len(B) + Len(Q)
        /\ \A i \in 1 .. Len(B) + Len(Q) :
             (B \o Q)[i] = IF i <= Len(B) THEN B[i] ELSE Q[i - Len(B)]
    BY <1>1, <1>8, Joined, ZenonT(60)
  <2>2. QED BY <1>9, <2>1, Zenon
<1>11. Len(A) = 1 + L /\ Len(B) = 4 + L /\ Len(m) = 6 + L
  BY <1>1, <1>2, <1>3, <1>6a, <1>8a, <1>10
<1>12. \A i \in 1 .. 1 + L : A[i] = IF i <= 1 THEN T[i] ELSE D[i - 1]
  BY <1>2, <1>3, <1>6a
<1>13. \A i \in 1 .. 4 + L : B[i] = IF i <= 3 THEN P[i] ELSE A[i - 3]
  <2>1. Len(P) + Len(A) = 4 + L /\ Len(P) = 3
    BY <1>1, <1>3, <1>11
  <2>2. QED BY <1>8a, <2>1
<1>14. \A i \in 1 .. 6 + L : m[i] = IF i <= 4 + L THEN B[i] ELSE Q[i - (4 + L)]
  BY <1>1, <1>3, <1>10, <1>11
<1>15. m[1] = 5 /\ m[2] = 1 /\ m[3] = 0 /\ m[4] = (IF DestType = "ipv4" THEN 1 ELSE 4)
  BY <1>1, <1>2, <1>3, <1>12, <1>13, <1>14, SMTT(30)
<1>16. \A k \in 1 .. L : m[4 + k] = D[k]
  BY <1>3, <1>12, <1>13, <1>14
<1>17. m[5 + L] = Port \div 256 /\ m[6 + L] = Port % 256
  BY <1>1, <1>3, <1>14
<1>18. DestType = "ipv4" => \A k \in 1 .. 4 : m[4 + k] = d[k]
  BY <1>3, <1>16
<1>19. ASSUME DestType = "ipv6", NEW k \in 5 .. 20 PROVE m[k] = d[1]
  <2>1. L = 16 /\ k - 4 \in 1 .. L /\ D[k - 4] = d[1]
    BY <1>3, <1>19
  <2>2. m[4 + (k - 4)] = D[k - 4]
    BY <1>16, <2>1
  <2>3. QED BY <2>1, <2>2
<1>20. /\ RequestLen = (IF DestType = "ipv4" THEN 10 ELSE 22)
       /\ RequestLen - 1 = 5 + L /\ RequestLen = 6 + L
  BY <1>3, <1>5
<1>21. QED BY <1>10, <1>11, <1>15, <1>17, <1>18, <1>19, <1>20 DEF m

-----------------------------------------------------------------------------
(* The relay's parser, on any chunk.                                         *)

(* What the parser never changes.                                            *)
Kept(r, v) ==
  /\ r.dest = v.dest /\ r.toServer = v.toServer /\ r.got = v.got
  /\ r.handler = v.handler /\ r.split = v.split

(* The chunks whose command is carried out.                                  *)
Commands(c) == Len(c) >= 4 /\ ((c[4] = 1 /\ Len(c) >= 10) \/ (c[4] = 3 /\ Len(c) >= 7))

LEMMA ConnFields ==
  ASSUME NEW v \in Conn
  PROVE  /\ v.dest \in Addresses /\ v.toServer \in Seq(Symbol) /\ v.toClient \in Seq(Symbol)
         /\ v.got \in Seq(Symbol) /\ v.handler \in {"bufferHandler", "raw"}
         /\ v.mapped \in BOOLEAN /\ v.asked \in [host : Seq(Symbol), port : Int]
         /\ v.closed \in BOOLEAN /\ v.split \in BOOLEAN
  BY Zenon DEF Conn

LEMMA WriteDone ==
  ASSUME NEW v \in Conn, NEW b \in Seq(Symbol)
  PROVE  /\ write(v, b) \in Conn /\ Kept(write(v, b), v)
         /\ write(v, b).toClient = IF v.closed THEN v.toClient ELSE v.toClient \o b
         /\ write(v, b).asked = v.asked /\ write(v, b).mapped = v.mapped
         /\ write(v, b).closed = v.closed
<1>1. CASE v.closed
  BY <1>1, Zenon DEF write, Kept
<1>2. CASE ~v.closed
  <2> DEFINE z == v.toClient \o b
  <2>1. z \in Seq(Symbol)
    BY ConnFields, Joined, Zenon
  <2>2. write(v, b) = [v EXCEPT !.toClient = z]
    BY <1>2, Zenon DEF write
  <2> HIDE DEF z
  <2>3. write(v, b) \in Conn
    BY <2>1, <2>2, Zenon DEF Conn
  <2>4. Kept(write(v, b), v) /\ write(v, b).toClient = z
        /\ write(v, b).asked = v.asked /\ write(v, b).mapped = v.mapped
        /\ write(v, b).closed = v.closed
    BY <2>2 DEF Conn, Kept
  <2>5. QED BY <1>2, <2>3, <2>4, Zenon DEF z
<1>3. QED BY <1>1, <1>2

LEMMA TryConnectDone ==
  ASSUME NEW v \in Conn, NEW host \in Seq(Symbol), NEW port \in Int
  PROVE  LET r == tryConnect(v, host, port)
         IN  /\ r \in Conn /\ Kept(r, v) /\ r.toClient = v.toClient /\ r.closed = v.closed
             /\ r.asked = [host |-> host, port |-> port] /\ r.mapped
<1> DEFINE r == tryConnect(v, host, port)
           k == [host |-> host, port |-> port]
<1>1. k \in [host : Seq(Symbol), port : Int]
  BY Zenon
<1>2. r = [v EXCEPT !.mapped = TRUE, !.asked = k]
  BY Zenon DEF tryConnect
<1> HIDE DEF k
<1>3. TRUE \in BOOLEAN
  BY Zenon
<1>4. r \in Conn
  BY <1>1, <1>2, <1>3, Zenon DEF Conn
<1>5. Kept(r, v) /\ r.toClient = v.toClient /\ r.closed = v.closed /\ r.asked = k /\ r.mapped
  BY <1>2 DEF Conn, Kept
<1>6. QED BY <1>4, <1>5, Zenon DEF k

(* The same for a result that has a name.                                      *)
LEMMA Wrote ==
  ASSUME NEW v \in Conn, NEW b \in Seq(Symbol), NEW r, r = write(v, b)
  PROVE  /\ r \in Conn /\ Kept(r, v)
         /\ r.toClient = IF v.closed THEN v.toClient ELSE v.toClient \o b
         /\ r.asked = v.asked /\ r.mapped = v.mapped /\ r.closed = v.closed
  BY WriteDone, Zenon

LEMMA TryConnected ==
  ASSUME NEW v \in Conn, NEW host \in Seq(Symbol), NEW port \in Int, NEW r,
         r = tryConnect(v, host, port)
  PROVE  /\ r \in Conn /\ Kept(r, v) /\ r.toClient = v.toClient /\ r.closed = v.closed
         /\ r.asked = [host |-> host, port |-> port] /\ r.mapped
  BY TryConnectDone, ZenonT(60)

LEMMA ChunkByte ==
  ASSUME NEW c \in Seq(Symbol), NEW i \in 1 .. Len(c)
  PROVE  c[i] \in Int /\ 0 <= c[i] /\ c[i] <= 256
<1>1. c[i] \in Symbol
  BY ElementOfSeq
<1>2. \A x \in Symbol : x \in Int /\ 0 <= x /\ x <= 256
  BY DEF Symbol, Byte, Payload
<1>3. QED BY <1>1, <1>2, Zenon

LEMMA ShortInt ==
  ASSUME NEW c \in Seq(Symbol), NEW i \in Nat, i + 2 <= Len(c)
  PROVE  getShort(c, i) \in Int
<1>1. Len(c) \in Nat /\ i + 1 \in 1 .. Len(c) /\ i + 2 \in 1 .. Len(c)
  OBVIOUS
<1>2. c[i + 1] \in Int /\ c[i + 2] \in Int
  BY <1>1, ChunkByte
<1> DEFINE x == c[i + 1]
           y == c[i + 2]
<1> HIDE DEF x, y
<1>3. x \in Int /\ y \in Int
  BY <1>2 DEF x, y
<1>4. getShort(c, i) = LET u == 256 * x + y IN IF u >= 32768 THEN u - 65536 ELSE u
  BY DEF getShort, x, y
<1>5. QED BY <1>3, <1>4

LEMMA InfixSeq ==
  ASSUME NEW c \in Seq(Symbol), NEW i \in Nat, NEW j \in Nat, 1 <= i, j <= Len(c)
  PROVE  SubSeq(c, i, j) \in Seq(Symbol)
<1>1. \A k \in i .. j : c[k] \in Symbol
  OBVIOUS
<1>2. QED BY <1>1, SubSeqProperties

(* requestHandler changes nothing, says "address type not supported", or       *)
(* carries out a command.                                                    *)
LEMMA RequestHandled ==
  ASSUME NEW v \in Conn, NEW c \in Seq(Symbol)
  PROVE  LET r == requestHandler(v, c)
         IN  \/ r = v
             \/ Len(c) >= 4 /\ r = write(v, <<5, 8>>)
             \/ /\ Commands(c)
                /\ \E host \in Seq(Symbol), port \in Int :
                     r \in { tryConnect(v, host, port), write(v, <<5, 7>>),
                             write(v, <<5, 0, 0, 1, 127, 0, 0, 1, 103, 116>>) }
<1> DEFINE r == requestHandler(v, c)
           n == Len(c)
           command(host, port) ==
             CASE c[1 + 1] = 1 -> tryConnect(v, host, port)
               [] c[1 + 1] = 3 -> write(v, <<5, 0, 0, 1, 127, 0, 0, 1, 103, 116>>)
               [] OTHER -> write(v, <<5, 7>>)
<1>0. n \in Nat
  BY LenProperties
<1>1. ASSUME NEW host \in Seq(Symbol), NEW port \in Int
      PROVE  command(host, port) \in { tryConnect(v, host, port), write(v, <<5, 7>>),
                             write(v, <<5, 0, 0, 1, 127, 0, 0, 1, 103, 116>>) }
  OBVIOUS
<1>2. r = CASE n < 4 -> v
            [] n >= 4 /\ c[3 + 1] = 1 ->
                 IF n < 10 THEN v ELSE command(SubSeq(c, 5, 8), getShort(c, 8))
            [] n >= 4 /\ c[3 + 1] = 3 ->
                 IF n < 5 \/ n < 7 + c[4 + 1] THEN v
                 ELSE command(SubSeq(c, 6, 5 + c[4 + 1]), getShort(c, 5 + c[4 + 1]))
            [] OTHER -> write(v, <<5, 8>>)
  BY Zenon DEF requestHandler
<1> HIDE DEF command, n, r
<1>3. CASE n < 4
  <2>1. r = v
    BY <1>0, <1>2, <1>3
  <2>2. QED BY <2>1 DEF r
<1>4. CASE n >= 4 /\ c[4] = 1
  <2>1. CASE n < 10
    <3>1. r = v
      BY <1>0, <1>2, <1>4, <2>1
    <3>2. QED BY <3>1 DEF r
  <2>2. CASE n >= 10
    <3>1. r = command(SubSeq(c, 5, 8), getShort(c, 8))
      BY <1>0, <1>2, <1>4, <2>2
    <3>2. SubSeq(c, 5, 8) \in Seq(Symbol)
      BY <1>0, <2>2, InfixSeq DEF n
    <3>3. getShort(c, 8) \in Int
      BY <1>0, <2>2, ShortInt DEF n
    <3>4. Commands(c)
      BY <1>4, <2>2 DEF Commands, n
    <3>5. QED BY <1>1, <3>1, <3>2, <3>3, <3>4, ZenonT(60) DEF r
  <2>3. QED BY <1>0, <2>1, <2>2
<1>5. CASE n >= 4 /\ c[4] = 3
  <2> DEFINE b == c[5]
  <2>1. CASE n < 5 \/ n < 7 + b
    <3>1. r = v
      BY <1>0, <1>2, <1>5, <2>1
    <3>2. QED BY <3>1 DEF r
  <2>2. CASE ~(n < 5 \/ n < 7 + b)
    <3>0. b \in Int /\ 0 <= b
      BY <1>0, <2>2, ChunkByte DEF n
    <3>1. r = command(SubSeq(c, 6, 5 + b), getShort(c, 5 + b))
      BY <1>0, <1>2, <1>5, <2>2
    <3> HIDE DEF b
    <3>2. SubSeq(c, 6, 5 + b) \in Seq(Symbol)
      <4>1. 6 \in Nat /\ 5 + b \in Nat /\ 1 <= 6 /\ 5 + b <= Len(c)
        BY <1>0, <2>2, <3>0 DEF n
      <4>2. QED BY <4>1, InfixSeq
    <3>3. getShort(c, 5 + b) \in Int
      <4>1. 5 + b \in Nat /\ (5 + b) + 2 <= Len(c)
        BY <1>0, <2>2, <3>0 DEF n
      <4>2. QED BY <4>1, ShortInt
    <3>4. Commands(c)
      BY <1>0, <1>5, <2>2, <3>0 DEF Commands, n
    <3>5. QED BY <1>1, <3>1, <3>2, <3>3, <3>4, ZenonT(60) DEF r
  <2>3. QED BY <2>1, <2>2
<1>6. CASE n >= 4 /\ c[4] # 1 /\ c[4] # 3
  BY <1>0, <1>2, <1>6 DEF n, r
<1>7. QED BY <1>0, <1>3, <1>4, <1>5, <1>6 DEF r

AskedFor(v) == v.asked.host = v.dest /\ v.asked.port % 65536 = Port

(* bufferHandler: a wrong version ends the connection without an answer; a      *)
(* chunk without a command is answered by two bytes at most.                    *)
Parses(v, c, r) ==
  v \in Conn /\ ~v.closed /\ c \in Seq(Symbol) /\ Len(c) >= 1 /\ r = bufferHandler(v, c)

Outcome(v, c, r) ==
  /\ r \in Conn /\ Kept(r, v)
  /\ c[1] # 5 => r.closed /\ r.toClient = v.toClient
  /\ c[1] = 5 /\ ~Commands(c) =>
       /\ ~r.closed /\ r.asked = v.asked /\ r.mapped = v.mapped
       /\ \/ r.toClient = v.toClient
          \/ \E x \in {0, 8} : r.toClient = v.toClient \o <<5, x>>
  /\ c[1] = 5 /\ Len(c) >= 2 /\ c[2] + 2 = Len(c) =>
       /\ ~r.closed /\ r.asked = v.asked /\ r.mapped = v.mapped
       /\ r.toClient = v.toClient \o <<5, 0>>
  /\ c[1] = 5 /\ Len(c) < 4 /\ ~(Len(c) >= 2 /\ c[2] + 2 = Len(c)) =>
       /\ ~r.closed /\ r.asked = v.asked /\ r.mapped = v.mapped
       /\ r.toClient = v.toClient

LEMMA Parsed ==
  ASSUME NEW v, NEW c, NEW r, Parses(v, c, r)
  PROVE  Outcome(v, c, r)
<1> SUFFICES ASSUME v \in Conn, ~v.closed, c \in Seq(Symbol), Len(c) >= 1,
                    r = bufferHandler(v, c)
             PROVE  Outcome(v, c, r)
  BY DEF Parses
<1> USE DEF Outcome
<1> DEFINE q == [v EXCEPT !.closed = @ \/ c[1] # 5]
<1>0. Len(c) \in Nat
  BY LenProperties
<1>1. (v.closed \/ c[1] # 5) \in BOOLEAN
  BY Zenon
<1>2. q \in Conn
  BY <1>1, Zenon DEF Conn
<1>3. /\ Kept(q, v) /\ q.toClient = v.toClient /\ q.asked = v.asked /\ q.mapped = v.mapped
      /\ q.closed <=> c[1] # 5
  BY DEF Conn, Kept
<1>4. r = IF Len(c) < 2 THEN q ELSE IF c[2] + 2 = Len(c) THEN write(q, <<5, 0>>)
          ELSE requestHandler(q, c)
  BY DEF bufferHandler, handshakeHandler
<1> HIDE DEF q
<1>5. ASSUME NEW x, NEW y, NEW z, Kept(x, y), Kept(y, z) PROVE Kept(x, z)
  BY <1>5 DEF Kept
<1> DEFINE ok == <<5, 0>>
           no == <<5, 7>>
           type == <<5, 8>>
           udp == <<5, 0, 0, 1, 127, 0, 0, 1, 103, 116>>
<1>6. ok \in Seq(Symbol)
  BY DEF Symbol, Byte
<1>6a. no \in Seq(Symbol)
  BY DEF Symbol, Byte
<1>6b. type \in Seq(Symbol)
  BY DEF Symbol, Byte
<1>6c. udp \in Seq(Symbol)
  BY DEF Symbol, Byte
<1> HIDE DEF ok, no, type, udp
<1>7. CASE r = q /\ (Len(c) < 4 => ~(Len(c) >= 2 /\ c[2] + 2 = Len(c)))
           /\ ~(Len(c) >= 2 /\ c[2] + 2 = Len(c))
  BY <1>2, <1>3, <1>7
<1>8. CASE Len(c) >= 2 /\ c[2] + 2 = Len(c)
  <2>1. r = write(q, ok)
    BY <1>0, <1>4, <1>8 DEF ok
  <2>2. /\ r \in Conn /\ Kept(r, q) /\ r.asked = q.asked /\ r.mapped = q.mapped
        /\ r.closed = q.closed
        /\ r.toClient = IF q.closed THEN q.toClient ELSE q.toClient \o ok
    BY <1>2, <1>6, <2>1, Wrote, ZenonT(60)
  <2>3. Kept(r, v)
    BY <1>3, <1>5, <2>2
  <2>4. QED BY <1>3, <1>8, <2>2, <2>3 DEF ok
<1>9. CASE Len(c) >= 2 /\ c[2] + 2 # Len(c)
  <2>1. r = requestHandler(q, c)
    BY <1>0, <1>4, <1>9
  <2>2. CASE r = q
    BY <1>7, <1>9, <2>2
  <2>3. CASE Len(c) >= 4 /\ r = write(q, type)
    <3>1. /\ r \in Conn /\ Kept(r, q) /\ r.asked = q.asked /\ r.mapped = q.mapped
          /\ r.closed = q.closed
          /\ r.toClient = IF q.closed THEN q.toClient ELSE q.toClient \o type
      BY <1>2, <1>6b, <2>3, Wrote, ZenonT(60)
    <3>2. Kept(r, v)
      BY <1>3, <1>5, <3>1
    <3>3. /\ c[1] # 5 => r.closed /\ r.toClient = v.toClient
          /\ c[1] = 5 => ~r.closed /\ r.toClient = v.toClient \o <<5, 8>>
      BY <1>3, <3>1 DEF type
    <3>4. c[1] = 5 => \E x \in {0, 8} : r.toClient = v.toClient \o <<5, x>>
      <4>1. 8 \in {0, 8}
        OBVIOUS
      <4>2. QED BY <3>3, <4>1, Zenon
    <3>5. Len(c) >= 4 => ~(Len(c) < 4)
      BY <1>0
    <3>6. QED BY <1>3, <1>9, <2>3, <3>1, <3>2, <3>3, <3>4, <3>5, Zenon
  <2> DEFINE Silent == r \in Conn /\ Kept(r, v)
                       /\ (c[1] # 5 => r.closed /\ r.toClient = v.toClient)
  <2>4. ASSUME NEW host \in Seq(Symbol), NEW port \in Int, r = tryConnect(q, host, port)
        PROVE  Silent
    <3>1. r \in Conn /\ Kept(r, q) /\ r.toClient = q.toClient /\ r.closed = q.closed
      <4>1. tryConnect(q, host, port) \in Conn /\ Kept(tryConnect(q, host, port), q)
            /\ tryConnect(q, host, port).toClient = q.toClient
            /\ tryConnect(q, host, port).closed = q.closed
        BY <1>2, TryConnectDone, ZenonT(60)
      <4>2. QED BY <2>4, <4>1
    <3>2. QED BY <1>3, <1>5, <3>1
  <2>4a. ASSUME r = write(q, no) PROVE Silent
    <3>1. /\ r \in Conn /\ Kept(r, q) /\ r.closed = q.closed
          /\ r.toClient = IF q.closed THEN q.toClient ELSE q.toClient \o no
      BY <1>2, <1>6a, <2>4a, Wrote, ZenonT(60)
    <3>2. QED BY <1>3, <1>5, <3>1
  <2>4b. ASSUME r = write(q, udp) PROVE Silent
    <3>1. /\ r \in Conn /\ Kept(r, q) /\ r.closed = q.closed
          /\ r.toClient = IF q.closed THEN q.toClient ELSE q.toClient \o udp
      BY <1>2, <1>6c, <2>4b, Wrote, ZenonT(60)
    <3>2. QED BY <1>3, <1>5, <3>1
  <2>5. Commands(c) => Len(c) >= 4
    BY DEF Commands
  <2>6. QED
    <3>1. CASE Commands(c) /\ \E host \in Seq(Symbol), port \in Int :
                 r \in { tryConnect(q, host, port), write(q, no),
                         write(q, udp) }
      <4>1. Silent
        BY <2>4, <2>4a, <2>4b, <3>1
      <4>2. QED BY <1>0, <1>9, <2>5, <3>1, <4>1
    <3>2. \/ r = q
          \/ Len(c) >= 4 /\ r = write(q, type)
          \/ /\ Commands(c)
             /\ \E host \in Seq(Symbol), port \in Int :
                  r \in { tryConnect(q, host, port), write(q, no),
                          write(q, udp) }
      BY <1>2, <2>1, RequestHandled DEF no, type, udp
    <3>3. QED BY <2>2, <2>3, <3>1, <3>2, Zenon
<1> HIDE DEF Outcome
<1>10. CASE Len(c) < 2
  <2>1. r = q
    BY <1>4, <1>10, Zenon
  <2>2. ~(Len(c) >= 2)
    BY <1>0, <1>10
  <2>3. QED BY <1>7, <2>1, <2>2, Zenon
<1>11. Len(c) < 2 \/ Len(c) >= 2
  BY <1>0
<1>12. QED BY <1>8, <1>9, <1>10, <1>11, Zenon

LEMMA ModSame ==
  ASSUME NEW p \in Int, 0 <= p, p <= 65535
  PROVE  p % 65536 = p
  OBVIOUS

LEMMA ModWraps ==
  ASSUME NEW p \in Int, 0 <= p, p <= 65535
  PROVE  (p - 65536) % 65536 = p
  OBVIOUS

LEMMA PortWraps ==
  ASSUME NEW p, p = IF Port >= 32768 THEN Port - 65536 ELSE Port
  PROVE  p % 65536 = Port
<1>1. Port \in Int /\ 0 <= Port /\ Port <= 65535
  BY PortRange
<1>2. Port % 65536 = Port
  BY <1>1, ModSame
<1>3. (Port - 65536) % 65536 = Port
  BY <1>1, ModWraps
<1>4. p = Port - 65536 \/ p = Port
  BY <1>1
<1>5. CASE p = Port
  BY <1>2, <1>5
<1>6. CASE p = Port - 65536
  BY <1>3, <1>6
<1>7. QED BY <1>4, <1>5, <1>6

(* The whole request for an IPv4 address: the server is asked for it.           *)
ParsesRequest(v, c, r) ==
  /\ Parses(v, c, r) /\ DestType = "ipv4"
  /\ Len(c) = 10 /\ \A k \in 1 .. 10 : c[k] = RequestTo(v.dest)[k]

LEMMA ParsedRequest ==
  ASSUME NEW v, NEW c, NEW r, ParsesRequest(v, c, r)
  PROVE  /\ r \in Conn /\ Kept(r, v) /\ r.toClient = v.toClient /\ ~r.closed /\ r.mapped
         /\ AskedFor(r)
<1> SUFFICES ASSUME v \in Conn, ~v.closed, c \in Seq(Symbol), r = bufferHandler(v, c),
                    DestType = "ipv4", Len(c) = 10,
                    \A k \in 1 .. 10 : c[k] = RequestTo(v.dest)[k]
             PROVE  /\ r \in Conn /\ Kept(r, v) /\ r.toClient = v.toClient /\ ~r.closed
                    /\ r.mapped /\ r.asked.host = v.dest /\ r.asked.port % 65536 = Port
  BY DEF ParsesRequest, Parses, AskedFor, Kept
<1> DEFINE q == [v EXCEPT !.closed = @ \/ c[1] # 5]
           m == RequestTo(v.dest)
<1>0. v.dest \in Addresses
  BY ConnFields
<1>1. /\ m[1] = 5 /\ m[2] = 1 /\ m[4] = 1 /\ \A k \in 1 .. 4 : m[4 + k] = v.dest[k]
      /\ m[9] = Port \div 256 /\ m[10] = Port % 256
  <2>1. /\ m[1] = 5 /\ m[2] = 1 /\ m[4] = (IF DestType = "ipv4" THEN 1 ELSE 4)
        /\ RequestLen = (IF DestType = "ipv4" THEN 10 ELSE 22)
        /\ \A k \in 1 .. 4 : m[4 + k] = v.dest[k]
        /\ m[RequestLen - 1] = Port \div 256 /\ m[RequestLen] = Port % 256
    BY <1>0, RequestBytes, ZenonT(60)
  <2> HIDE DEF m
  <2>2. RequestLen = 10 /\ RequestLen - 1 = 9
    BY <2>1
  <2>3. QED BY <2>1, <2>2
<1> HIDE DEF m
<1>2. /\ c[1] = 5 /\ c[2] = 1 /\ c[4] = 1 /\ \A k \in 1 .. 4 : c[4 + k] = v.dest[k]
      /\ c[9] = Port \div 256 /\ c[10] = Port % 256
  BY <1>1 DEF m
<1>3. (v.closed \/ c[1] # 5) \in BOOLEAN
  BY Zenon
<1>4. q \in Conn
  BY <1>3, Zenon DEF Conn
<1>5. /\ Kept(q, v) /\ q.toClient = v.toClient /\ ~q.closed
  BY <1>2 DEF Conn, Kept
<1>6. r = requestHandler(q, c)
  BY <1>2 DEF bufferHandler
<1> HIDE DEF q
<1> DEFINE host == SubSeq(c, 5, 8)
           port == getShort(c, 8)
<1>7. r = tryConnect(q, host, port)
  BY <1>2, <1>6 DEF requestHandler
<1>8. host \in Seq(Symbol)
  <2>1. 5 \in Nat /\ 8 \in Nat /\ 1 <= 5 /\ 8 <= Len(c)
    OBVIOUS
  <2>2. QED BY <2>1, InfixSeq, Zenon
<1>9. port \in Int
  <2>1. 8 \in Nat /\ 8 + 2 <= Len(c)
    OBVIOUS
  <2>2. QED BY <2>1, ShortInt, Zenon
<1>10. host = v.dest
  <2>1. \A k \in 5 .. 8 : c[k] \in Symbol
    <3>1. \A k \in 1 .. Len(c) : c[k] \in Symbol
      BY ElementOfSeq, Zenon
    <3>2. QED BY <3>1
  <2>2. Len(host) = 4 /\ \A i \in 1 .. 4 : host[i] = c[4 + i]
    BY <2>1, SubSeqProperties
  <2> HIDE DEF host
  <2>3. v.dest \in Seq(Byte) /\ Len(v.dest) = 4
    BY <1>0, DestBytes, Zenon
  <2>4. v.dest \in Seq(Symbol)
    BY <2>3, SeqMonotonic DEF Symbol
  <2>5. \A i \in 1 .. Len(host) : host[i] = v.dest[i]
    BY <1>2, <2>2
  <2>6. Len(host) = Len(v.dest)
    BY <2>2, <2>3
  <2>7. QED BY <1>8, <2>4, <2>5, <2>6, SeqEqual, Zenon DEF host
<1>11. port % 65536 = Port
  <2>1. port = LET u == 256 * (Port \div 256) + (Port % 256)
               IN  IF u >= 32768 THEN u - 65536 ELSE u
    BY <1>2 DEF getShort
  <2>2. port = IF Port >= 32768 THEN Port - 65536 ELSE Port
    BY <2>1, PortParts
  <2> HIDE DEF port
  <2>3. QED BY <2>2, PortWraps
<1> HIDE DEF host, port
<1>12. /\ r \in Conn /\ Kept(r, q) /\ r.toClient = q.toClient /\ r.closed = q.closed
       /\ r.asked = [host |-> host, port |-> port] /\ r.mapped
  BY <1>4, <1>7, <1>8, <1>9, TryConnected
<1>13. r.asked.host = host /\ r.asked.port = port
  BY <1>12
<1>14. Kept(r, v)
  BY <1>5, <1>12 DEF Kept
<1>15. QED BY <1>5, <1>10, <1>11, <1>12, <1>13, <1>14

-----------------------------------------------------------------------------
(* What the two ends agree on, as a predicate of the client's state st, the   *)
(* number n of bytes it has sent of the message of this phase, and the        *)
(* connection v.                                                              *)

Helloing == {"SENDING_HELLO", "SENT_HELLO"}
Requesting == {"SENDING_REQUEST", "SENT_REQUEST", "RECEIVED_REPLY_HEADER"}

(* Of the first n bytes of m, t is on its way and the relay has read the rest.  *)
Travels(m, n, t) ==
  /\ n \in Nat /\ n <= Len(m) /\ Len(t) <= n
  /\ \A k \in 1 .. Len(t) : t[k] = m[(n - Len(t)) + k]

(* What the client has to receive, or has read of an unfinished message.        *)
StreamOf(v) == v.got \o v.toClient

(* Answers of two bytes to pieces of a request: not the header of a reply.      *)
Pairs(z) ==
  /\ z \in Seq(Byte) /\ \E h \in Nat : Len(z) = 2 * h
  /\ Len(z) >= 4 => z[4] \notin {1, 4}

(* The reply without its first j bytes, and then payload.                       *)
RestOfReply(z, j) ==
  /\ Len(z) >= 10 - j
  /\ \A k \in 1 .. Len(z) : z[k] = IF k + j <= 10 THEN Reply[k + j] ELSE Payload

Greeted(n, v) ==
  /\ v.handler = "bufferHandler" /\ (v.asked = NotAsked \/ v.closed)
  /\ \/ Travels(Hello, n, v.toServer) /\ StreamOf(v) = <<>>
     \/ n = HelloLen /\ v.toServer = <<>> /\ ~v.closed /\ StreamOf(v) = <<5, 0>>

(* No request was understood, whatever was answered to its pieces.              *)
Unheard(st, n, v) ==
  /\ v.handler = "bufferHandler" /\ (v.asked = NotAsked \/ v.closed)
  /\ st # "RECEIVED_REPLY_HEADER"
  /\ Travels(RequestTo(v.dest), n, v.toServer) /\ Pairs(StreamOf(v))
  /\ Len(v.toServer) = n => StreamOf(v) = <<>>

(* The whole request was read at once.                                          *)
Heard(st, n, v) ==
  /\ DestType = "ipv4" /\ n = RequestLen /\ v.toServer = <<>> /\ AskedFor(v)
  /\ \/ v.handler = "bufferHandler" /\ StreamOf(v) = <<>> /\ st # "RECEIVED_REPLY_HEADER"
     \/ /\ v.handler = "raw"
        /\ RestOfReply(StreamOf(v), IF st = "RECEIVED_REPLY_HEADER" THEN 4 ELSE 0)

(* Holds in every state, also of a connection the client has given up.          *)
Sound(v) ==
  /\ v \in Conn /\ v.got \in Seq(Byte)
  /\ v.handler # "raw" => v.toServer \in Seq(Byte)
  /\ v.asked # NotAsked /\ ~v.closed => AskedFor(v)

Talk(st, n, v) ==
  /\ Sound(v)
  /\ st \notin {"SENDING_PASSWORD", "SENT_PASSWORD"}
  /\ st = "CONNECTING" => v = Fresh(v.dest)
  /\ st \in Helloing => Greeted(n, v)
  /\ st \in Requesting => Unheard(st, n, v) \/ Heard(st, n, v)
  /\ st = "UP" => /\ AskedFor(v) /\ v.handler = "raw" /\ v.got = <<>>
                  /\ RestOfReply(v.toClient, 10)

-----------------------------------------------------------------------------
LEMMA ReplyBytes ==
  /\ Reply \in Seq(Byte) /\ Len(Reply) = 10
  /\ Reply[1] = 5 /\ Reply[2] = 0 /\ Reply[3] = 0 /\ Reply[4] = 1
<1> DEFINE h == <<5, 0, 0, 1>>
           z == [i \in 1 .. 6 |-> 0]
<1>1. h \in Seq(Byte) /\ Len(h) = 4 /\ h[1] = 5 /\ h[2] = 0 /\ h[3] = 0 /\ h[4] = 1
  BY DEF Byte
<1>2. z \in [1 .. 6 -> Byte]
  BY DEF Byte
<1>3. Reply = h \o z
  BY DEF Reply
<1> HIDE DEF h, z
<1>4. 6 \in Nat
  OBVIOUS
<1>5. z \in Seq(Byte) /\ Len(z) = 6
  BY <1>2, <1>4, FunctionIsSeq, ZenonT(60)
<1>6. /\ h \o z \in Seq(Byte) /\ Len(h \o z) = Len(h) + Len(z)
      /\ \A i \in 1 .. Len(h) + Len(z) :
           (h \o z)[i] = IF i <= Len(h) THEN h[i] ELSE z[i - Len(h)]
  BY <1>1, <1>5, Joined, Zenon
<1>7. QED BY <1>1, <1>3, <1>5, <1>6, SMTT(30)

LEMMA EmptyBytes == <<>> \in Seq(Byte) /\ <<>> \in Seq(Symbol) /\ Len(<<>>) = 0
  OBVIOUS

LEMMA StreamSeq ==
  ASSUME NEW v \in Conn
  PROVE  /\ StreamOf(v) \in Seq(Symbol) /\ Len(StreamOf(v)) = Len(v.got) + Len(v.toClient)
         /\ \A i \in 1 .. Len(v.got) : StreamOf(v)[i] = v.got[i]
         /\ \A i \in 1 .. Len(v.toClient) : StreamOf(v)[Len(v.got) + i] = v.toClient[i]
         /\ Len(v.got) \in Nat /\ Len(v.toClient) \in Nat
<1> DEFINE g == v.got
           t == v.toClient
           z == g \o t
<1>1. g \in Seq(Symbol) /\ t \in Seq(Symbol)
  BY ConnFields
<1> HIDE DEF g, t
<1>2. /\ z \in Seq(Symbol) /\ Len(z) = Len(g) + Len(t)
      /\ \A i \in 1 .. Len(g) + Len(t) : z[i] = IF i <= Len(g) THEN g[i] ELSE t[i - Len(g)]
  BY <1>1, Joined, Zenon
<1> HIDE DEF z
<1>3. Len(g) \in Nat /\ Len(t) \in Nat
  BY <1>1, LenProperties
<1>4. \A i \in 1 .. Len(g) : z[i] = g[i]
  BY <1>2, <1>3
<1>5. \A i \in 1 .. Len(t) : z[Len(g) + i] = t[i]
  BY <1>2, <1>3
<1>6. z = StreamOf(v)
  BY DEF z, g, t, StreamOf
<1>7. QED BY <1>2, <1>3, <1>4, <1>5, <1>6 DEF g, t

(* Nothing to receive: nothing read, nothing to read.                           *)
LEMMA StreamEmpty ==
  ASSUME NEW v \in Conn, StreamOf(v) = <<>>
  PROVE  v.got = <<>> /\ v.toClient = <<>>
<1>1. v.got \in Seq(Symbol) /\ v.toClient \in Seq(Symbol)
  BY ConnFields
<1>2. v.got \o v.toClient = <<>>
  BY DEF StreamOf
<1>3. \A s, t \in Seq(Symbol) : s \o t = <<>> => s = <<>> /\ t = <<>>
  BY ConcatEqualIffEmpty
<1>4. QED BY <1>1, <1>2, <1>3, Zenon

(* Something written to an empty stream.                                        *)
LEMMA StreamBegins ==
  ASSUME NEW b \in Seq(Symbol)
  PROVE  <<>> \o (<<>> \o b) = b /\ <<>> \o b = b
<1>1. \A s \in Seq(Symbol) : <<>> \o s = s
  BY ConcatEmptySeq
<1>2. QED BY <1>1, Zenon

(* What is written comes last.                                                  *)
Written(v, r, b) ==
  v \in Conn /\ b \in Seq(Symbol) /\ r.got = v.got /\ r.toClient = v.toClient \o b

LEMMA StreamGrows ==
  ASSUME NEW v, NEW r, NEW b, Written(v, r, b)
  PROVE  /\ Len(StreamOf(r)) = Len(StreamOf(v)) + Len(b)
         /\ \A i \in 1 .. Len(StreamOf(v)) : StreamOf(r)[i] = StreamOf(v)[i]
         /\ \A i \in 1 .. Len(b) : StreamOf(r)[Len(StreamOf(v)) + i] = b[i]
<1> DEFINE g == v.got
           t == v.toClient
           z == StreamOf(v)
           y == StreamOf(r)
<1>0. v \in Conn /\ b \in Seq(Symbol)
  BY DEF Written
<1>1. g \in Seq(Symbol) /\ t \in Seq(Symbol)
  BY <1>0, ConnFields
<1>2. y = g \o (t \o b) /\ z = g \o t
  BY DEF StreamOf, Written
<1>3. z \in Seq(Symbol)
  BY <1>0, StreamSeq
<1> HIDE DEF g, t, z, y
<1>4. \A x1, x2, x3 \in Seq(Symbol) : (x1 \o x2) \o x3 = x1 \o (x2 \o x3)
  BY ConcatAssociative, SMTT(30)
<1>5. (g \o t) \o b = g \o (t \o b)
  BY <1>0, <1>1, <1>4, Zenon
<1>6. y = z \o b
  BY <1>2, <1>5, Zenon
<1>7. /\ z \o b \in Seq(Symbol) /\ Len(z \o b) = Len(z) + Len(b)
      /\ \A i \in 1 .. Len(z) + Len(b) : (z \o b)[i] = IF i <= Len(z) THEN z[i] ELSE b[i - Len(z)]
  BY <1>0, <1>3, Joined, Zenon
<1> DEFINE x == z \o b
<1> HIDE DEF x
<1>8. /\ Len(x) = Len(z) + Len(b)
      /\ \A i \in 1 .. Len(z) + Len(b) : x[i] = IF i <= Len(z) THEN z[i] ELSE b[i - Len(z)]
  BY <1>7 DEF x
<1>9. Len(z) \in Nat /\ Len(b) \in Nat
  BY <1>0, <1>3, LenProperties
<1>10. \A i \in 1 .. Len(z) : x[i] = z[i]
  BY <1>8, <1>9
<1>11. ASSUME NEW i \in 1 .. Len(b) PROVE x[Len(z) + i] = b[i]
  <2>1. Len(z) + i \in 1 .. Len(z) + Len(b) /\ ~(Len(z) + i <= Len(z)) /\ (Len(z) + i) - Len(z) = i
    BY <1>9
  <2>2. QED BY <1>8, <2>1
<1>12. y = x
  BY <1>6 DEF x
<1>13. QED BY <1>8, <1>10, <1>11, <1>12 DEF y, z

(* The bytes of a stream that are only bytes.                                   *)
LEMMA GotBytes ==
  ASSUME NEW s \in Seq(Symbol), \A k \in 1 .. Len(s) : s[k] \in Byte
  PROVE  s \in Seq(Byte)
<1>1. Len(s) \in Nat /\ s \in [1 .. Len(s) -> Symbol]
  BY LenProperties
<1>2. s \in [1 .. Len(s) -> Byte]
  BY <1>1
<1>3. QED BY <1>1, <1>2, FunctionIsSeq, Zenon

-----------------------------------------------------------------------------
(* The relay reads a chunk.                                                  *)

(* The chunk is a piece of the message, and so is what is still on its way.     *)
Piece(v, m, n, j, b, c, u) ==
  /\ v \in Conn /\ m \in Seq(Byte) /\ Travels(m, n, v.toServer)
  /\ j \in 1 .. Len(v.toServer) /\ b \in BOOLEAN
  /\ c = SubSeq(v.toServer, 1, j)
  /\ u = [v EXCEPT !.toServer = Cut(v.toServer, j), !.split = b]

(* The position of the chunk in the message.                                    *)
Position(n, v) == n - Len(v.toServer)

PieceFacts(v, m, n, j, c, u, a) ==
  /\ c \in Seq(Symbol) /\ Len(c) = j /\ \A k \in 1 .. j : c[k] = m[a + k]
  /\ a \in Nat /\ a + j <= n /\ n <= Len(m) /\ n \in Nat /\ j \in Nat /\ j >= 1
  /\ u \in Conn /\ Travels(m, n, u.toServer) /\ Len(u.toServer) < n
  /\ a + j = Len(m) => u.toServer = <<>>
  /\ v.toServer \in Seq(Byte) => u.toServer \in Seq(Byte)
  /\ u.dest = v.dest /\ u.toClient = v.toClient /\ u.got = v.got
  /\ u.handler = v.handler /\ u.asked = v.asked /\ u.closed = v.closed

LEMMA ChunkOf ==
  ASSUME NEW v, NEW m, NEW n, NEW j, NEW b, NEW c, NEW u, Piece(v, m, n, j, b, c, u)
  PROVE  PieceFacts(v, m, n, j, c, u, Position(n, v))
<1> DEFINE t == v.toServer
           e == Cut(t, j)
           a == Position(n, v)
<1>v. v \in Conn /\ m \in Seq(Byte) /\ Travels(m, n, t) /\ j \in 1 .. Len(t) /\ b \in BOOLEAN
  BY DEF Piece
<1>c. c = SubSeq(t, 1, j) /\ u = [v EXCEPT !.toServer = e, !.split = b]
  BY DEF Piece
<1>0. a = n - Len(t)
  BY DEF Position
<1> HIDE DEF a
<1>1. t \in Seq(Symbol)
  BY <1>v, ConnFields
<1>2. Len(t) \in Nat /\ Len(m) \in Nat /\ n \in Nat /\ n <= Len(m) /\ Len(t) <= n
  BY <1>v, <1>1, LenProperties DEF Travels
<1>3. \A k \in 1 .. Len(t) : t[k] = m[a + k]
  BY <1>v, <1>0 DEF Travels
<1>4. j \in 0 .. Len(t) /\ j \in Nat /\ j >= 1 /\ j <= Len(t)
  BY <1>v, <1>2
<1>5. c \in Seq(Symbol) /\ e \in Seq(Symbol)
  BY <1>c, <1>1, <1>4, TakeCut, Zenon
<1>6. /\ Len(c) = j /\ \A k \in 1 .. j : c[k] = t[k]
      /\ Len(e) = Len(t) - j /\ \A k \in 1 .. Len(t) - j : e[k] = t[j + k]
  BY <1>c, <1>1, <1>4, TakeCut, ZenonT(60)
<1>7. t \in Seq(Byte) => e \in Seq(Byte)
  BY <1>4, TakeCut, Zenon
<1>8. u \in Conn
  BY <1>v, <1>c, <1>5, Zenon DEF Conn
<1>9. /\ u.toServer = e /\ u.dest = v.dest /\ u.toClient = v.toClient /\ u.got = v.got
      /\ u.handler = v.handler /\ u.asked = v.asked /\ u.closed = v.closed
  BY <1>v, <1>c DEF Conn
<1> HIDE DEF e, t
<1>10. a \in Nat /\ a + j <= n
  BY <1>0, <1>2, <1>4
<1>11. ASSUME NEW k \in 1 .. j PROVE c[k] = m[a + k]
  <2>1. k \in 1 .. Len(t)
    BY <1>2, <1>4
  <2>2. QED BY <1>3, <1>6, <2>1
<1>12. Len(e) \in Nat /\ Len(e) < n /\ Len(e) <= n
  BY <1>2, <1>4, <1>6
<1>13. ASSUME NEW k \in 1 .. Len(e) PROVE e[k] = m[(n - Len(e)) + k]
  <2>1. k \in 1 .. Len(t) - j /\ j + k \in 1 .. Len(t) /\ a + (j + k) = (n - Len(e)) + k
    BY <1>0, <1>2, <1>4, <1>6
  <2>2. QED BY <1>3, <1>6, <2>1
<1>14. Travels(m, n, e)
  BY <1>2, <1>12, <1>13 DEF Travels
<1>15. a + j = Len(m) => e = <<>>
  <2>1. a + j = Len(m) => Len(e) = 0
    BY <1>0, <1>2, <1>4, <1>6
  <2>2. QED BY <1>5, <2>1, EmptySeq
<1>16. QED
  BY <1>2, <1>4, <1>5, <1>6, <1>7, <1>8, <1>9, <1>10, <1>11, <1>12, <1>14, <1>15, Zenon
     DEF PieceFacts, t, a

LEMMA StreamSame ==
  ASSUME NEW r, NEW v, r.got = v.got, r.toClient = v.toClient
  PROVE  StreamOf(r) = StreamOf(v)
  BY DEF StreamOf

(* A piece of a hello: only the whole one is answered.                          *)
LEMMA HelloChunk ==
  ASSUME NEW v, NEW n, NEW j, NEW b, NEW c, NEW u, NEW r, ~v.closed, Greeted(n, v),
         v.toServer # <<>>,
         Travels(Hello, n, v.toServer) => Piece(v, Hello, n, j, b, c, u), r = bufferHandler(u, c)
  PROVE  r \in Conn /\ Kept(r, u) /\ Greeted(n, r)
<1> DEFINE a == Position(n, v)
<1>0. Travels(Hello, n, v.toServer) /\ StreamOf(v) = <<>> /\ v.asked = NotAsked
      /\ v.handler = "bufferHandler"
  BY DEF Greeted
<1>1. PieceFacts(v, Hello, n, j, c, u, a)
  BY <1>0, ChunkOf, Zenon
<1> HIDE DEF a
<1>2. /\ c \in Seq(Symbol) /\ Len(c) = j /\ \A k \in 1 .. j : c[k] = Hello[a + k]
      /\ a \in Nat /\ a + j <= n /\ n <= Len(Hello) /\ n \in Nat /\ j \in Nat /\ j >= 1
  BY <1>1 DEF PieceFacts
<1>3. /\ u \in Conn /\ Travels(Hello, n, u.toServer)
      /\ a + j = Len(Hello) => u.toServer = <<>>
  BY <1>1 DEF PieceFacts
<1>4. /\ u.dest = v.dest /\ u.toClient = v.toClient /\ u.got = v.got
      /\ u.handler = v.handler /\ u.asked = v.asked /\ u.closed = v.closed
  BY <1>1 DEF PieceFacts
<1>5. HelloLen \in 2 .. 4 /\ Len(Hello) = HelloLen /\ Hello[1] = 5 /\ Hello[2] = HelloLen - 2
      /\ \A k \in 2 .. HelloLen : Hello[k] \in {0, 1, 2}
  BY HelloBytes
<1>6. /\ r \in Conn /\ Kept(r, u)
      /\ c[1] # 5 => r.closed /\ r.toClient = u.toClient
      /\ c[1] = 5 /\ Len(c) >= 2 /\ c[2] + 2 = Len(c) =>
           /\ ~r.closed /\ r.asked = u.asked /\ r.toClient = u.toClient \o <<5, 0>>
      /\ c[1] = 5 /\ Len(c) < 4 /\ ~(Len(c) >= 2 /\ c[2] + 2 = Len(c)) =>
           /\ r.asked = u.asked /\ r.toClient = u.toClient
  <2>1. ~u.closed /\ Len(c) >= 1
    BY <1>2, <1>4
  <2>2. Outcome(u, c, r)
    BY <1>2, <1>3, <2>1, Parsed DEF Parses
  <2>3. QED BY <2>2 DEF Outcome
<1>7. r.handler = "bufferHandler" /\ r.toServer = u.toServer /\ r.got = v.got
  BY <1>0, <1>4, <1>6 DEF Kept
<1>8. v.got = <<>> /\ v.toClient = <<>>
  <2>1. v \in Conn
    BY <1>0 DEF Piece
  <2>2. QED BY <1>0, <2>1, StreamEmpty
<1>9. CASE c[1] # 5
  BY <1>0, <1>3, <1>4, <1>6, <1>7, <1>9, StreamSame DEF Greeted
<1>10. CASE c[1] = 5
  <2>1. a = 0
    <3>1. c[1] = Hello[a + 1]
      BY <1>2
    <3>2. a + 1 \in 2 .. HelloLen => Hello[a + 1] # 5
      BY <1>5
    <3>3. QED BY <1>2, <1>5, <1>10, <3>1, <3>2
  <2>2. j >= 2 => c[2] = HelloLen - 2
    BY <1>2, <1>5, <2>1
  <2>3. CASE j = HelloLen
    <3>1. Len(c) >= 2 /\ c[2] + 2 = Len(c)
      BY <1>2, <1>5, <2>2, <2>3
    <3>2. ~r.closed /\ r.asked = NotAsked /\ r.toClient = u.toClient \o <<5, 0>>
      BY <1>0, <1>4, <1>6, <1>10, <3>1, Zenon
    <3>3. n = HelloLen /\ r.toServer = <<>>
      BY <1>2, <1>3, <1>5, <1>7, <2>1, <2>3
    <3>4. <<5, 0>> \in Seq(Symbol)
      BY DEF Symbol, Byte
    <3>5. StreamOf(r) = <<>> \o (<<>> \o <<5, 0>>)
      BY <1>4, <1>7, <1>8, <3>2, Zenon DEF StreamOf
    <3>6. StreamOf(r) = <<5, 0>>
      BY <3>4, <3>5, StreamBegins
    <3>7. QED BY <1>6, <1>7, <3>2, <3>3, <3>6 DEF Greeted
  <2>4. CASE j # HelloLen
    <3>1. Len(c) < 4 /\ ~(Len(c) >= 2 /\ c[2] + 2 = Len(c))
      BY <1>2, <1>5, <2>1, <2>2, <2>4
    <3>2. r.asked = NotAsked /\ r.toClient = v.toClient
      BY <1>0, <1>4, <1>6, <1>10, <3>1, Zenon
    <3>3. QED BY <1>0, <1>3, <1>6, <1>7, <3>2, StreamSame DEF Greeted
  <2>5. QED BY <2>3, <2>4
<1>11. QED BY <1>9, <1>10

(* The bytes of two, added to pairs.                                            *)
LEMMA PairAdded ==
  ASSUME NEW v \in Conn, NEW r, NEW x \in {0, 8}, Pairs(StreamOf(v)), r \in Conn,
         r.got = v.got, r.toClient = v.toClient \o <<5, x>>
  PROVE  Pairs(StreamOf(r))
<1> DEFINE b == <<5, x>>
           z == StreamOf(v)
           y == StreamOf(r)
<1>1. b \in Seq(Symbol) /\ Len(b) = 2 /\ b[1] = 5 /\ b[2] = x /\ x \in Int
  BY DEF Symbol, Byte
<1>2. Written(v, r, b)
  BY <1>1 DEF Written
<1>3. z \in Seq(Byte) /\ (\E h \in Nat : Len(z) = 2 * h) /\ (Len(z) >= 4 => z[4] \notin {1, 4})
  BY DEF Pairs
<1>4. y \in Seq(Symbol) /\ z \in Seq(Symbol)
  BY StreamSeq, Zenon
<1> HIDE DEF b
<1>5. /\ Len(y) = Len(z) + Len(b)
      /\ \A i \in 1 .. Len(z) : y[i] = z[i]
      /\ \A i \in 1 .. Len(b) : y[Len(z) + i] = b[i]
  BY <1>2, StreamGrows
<1> HIDE DEF y, z
<1>6. PICK h \in Nat : Len(z) = 2 * h
  BY <1>3
<1>7. Len(y) = 2 * (h + 1)
  BY <1>1, <1>5, <1>6
<1>8. y[Len(z) + 1] = 5 /\ y[Len(z) + 2] = x
  BY <1>1, <1>5
<1>9. ASSUME NEW k \in 1 .. Len(y) PROVE y[k] \in Byte
  <2>1. CASE k <= Len(z)
    <3>1. k \in 1 .. Len(z)
      BY <1>6, <2>1
    <3>2. QED BY <1>3, <1>5, <3>1, ElementOfSeq
  <2>2. CASE k > Len(z)
    <3>1. k = Len(z) + 1 \/ k = Len(z) + 2
      BY <1>6, <1>7, <2>2
    <3>2. y[k] = 5 \/ y[k] = x
      BY <1>8, <3>1
    <3>3. 5 \in Byte /\ x \in Byte
      BY DEF Byte
    <3>4. QED BY <3>2, <3>3, Zenon
  <2>3. QED BY <1>6, <2>1, <2>2
<1>10. y \in Seq(Byte)
  BY <1>4, <1>9, GotBytes
<1>11. ASSUME Len(y) >= 4 PROVE y[4] \notin {1, 4}
  <2>1. CASE Len(z) >= 4
    <3>1. 4 \in 1 .. Len(z)
      BY <1>6, <2>1
    <3>2. QED BY <1>3, <1>5, <2>1, <3>1
  <2>2. CASE ~(Len(z) >= 4)
    <3>1. Len(z) + 2 = 4
      BY <1>6, <1>7, <1>11, <2>2
    <3>2. QED BY <1>8, <3>1
  <2>3. QED BY <2>1, <2>2
<1>12. h + 1 \in Nat
  OBVIOUS
<1>13. QED BY <1>7, <1>10, <1>11, <1>12 DEF Pairs, y

(* Which pieces of a request reach a command: only the whole one.               *)
LEMMA RequestPiece ==
  ASSUME NEW d \in Addresses, NEW c \in Seq(Symbol), NEW a \in Nat, NEW j \in Nat, j >= 1,
         Len(c) = j, a + j <= RequestLen,
         \A k \in 1 .. j : c[k] = RequestTo(d)[a + k], c[1] = 5,
         ~(DestType = "ipv4" /\ a = 0 /\ j = 10)
  PROVE  ~Commands(c)
<1> DEFINE m == RequestTo(d)
<1>1. /\ m[1] = 5 /\ m[2] = 1 /\ m[3] = 0 /\ m[4] = (IF DestType = "ipv4" THEN 1 ELSE 4)
      /\ RequestLen = (IF DestType = "ipv4" THEN 10 ELSE 22)
      /\ DestType = "ipv6" => \A k \in 5 .. 20 : m[k] = d[1]
  BY RequestBytes, ZenonT(60)
<1>2. \A k \in 1 .. j : c[k] = m[a + k]
  OBVIOUS
<1> HIDE DEF m
<1>3. DestType \in {"ipv4", "ipv6"}
  BY SocksAssumption
<1>4. c[1] = m[a + 1] /\ (j >= 4 => c[4] = m[a + 4])
  BY <1>2
<1>5. a \notin 1 .. 3
  <2>1. a # 1 /\ a # 2
    BY <1>1, <1>4
  <2>2. a # 3
    BY <1>1, <1>4
  <2>3. QED BY <2>1, <2>2
<1>6. CASE DestType = "ipv4"
  <2>1. CASE a = 0
    <3>1. j >= 4 => c[4] = 1
      BY <1>1, <1>4, <1>6, <2>1
    <3>2. j < 10
      BY <1>1, <1>6, <2>1
    <3>3. QED BY <3>1, <3>2 DEF Commands
  <2>2. CASE a >= 4
    <3>1. j < 7
      BY <1>1, <1>6, <2>2
    <3>2. QED BY <3>1 DEF Commands
  <2>3. QED BY <1>5, <2>1, <2>2
<1>7. CASE DestType = "ipv6"
  <2>1. CASE a = 0
    <3>1. j >= 4 => c[4] = 4
      BY <1>1, <1>4, <1>7, <2>1
    <3>2. QED BY <3>1 DEF Commands
  <2>2. CASE a >= 4 /\ a <= 16
    <3>1. a + 1 \in 5 .. 20 /\ a + 4 \in 5 .. 20
      BY <2>2
    <3>2. j >= 4 => c[4] = 5
      BY <1>1, <1>4, <1>7, <3>1
    <3>3. QED BY <3>2 DEF Commands
  <2>3. CASE a >= 17
    <3>1. j < 7
      BY <1>1, <1>7, <2>3
    <3>2. QED BY <3>1 DEF Commands
  <2>4. QED BY <1>5, <2>1, <2>2, <2>3
<1>8. QED BY <1>3, <1>6, <1>7

(* A piece of a request.                                                        *)
LEMMA RequestChunk ==
  ASSUME NEW st, NEW v, NEW n, NEW j, NEW b, NEW c, NEW u, NEW r, ~v.closed, Unheard(st, n, v),
         Piece(v, RequestTo(v.dest), n, j, b, c, u), r = bufferHandler(u, c)
  PROVE  /\ r \in Conn /\ Kept(r, u) /\ (Unheard(st, n, r) \/ Heard(st, n, r))
         /\ r.asked # NotAsked /\ ~r.closed => AskedFor(r)
<1> DEFINE a == Position(n, v)
           m == RequestTo(v.dest)
<1>0. /\ v.handler = "bufferHandler" /\ v.asked = NotAsked /\ st # "RECEIVED_REPLY_HEADER"
      /\ Pairs(StreamOf(v)) /\ (Len(v.toServer) = n => StreamOf(v) = <<>>)
  BY DEF Unheard
<1>1. PieceFacts(v, m, n, j, c, u, a)
  BY ChunkOf, Zenon
<1>d. v \in Conn /\ v.dest \in Addresses
  BY ConnFields DEF Piece
<1>m. /\ RequestLen = (IF DestType = "ipv4" THEN 10 ELSE 22) /\ Len(m) = RequestLen
  BY <1>d, RequestBytes, Zenon
<1> HIDE DEF a, m
<1>2. /\ c \in Seq(Symbol) /\ Len(c) = j /\ \A k \in 1 .. j : c[k] = m[a + k]
      /\ a \in Nat /\ a + j <= n /\ n <= Len(m) /\ n \in Nat /\ j \in Nat /\ j >= 1
  BY <1>1 DEF PieceFacts
<1>3. /\ u \in Conn /\ Travels(m, n, u.toServer) /\ Len(u.toServer) < n
      /\ a + j = Len(m) => u.toServer = <<>>
  BY <1>1 DEF PieceFacts
<1>4. /\ u.dest = v.dest /\ u.toClient = v.toClient /\ u.got = v.got
      /\ u.handler = v.handler /\ u.asked = v.asked /\ u.closed = v.closed
  BY <1>1 DEF PieceFacts
<1>5. Parses(u, c, r)
  BY <1>2, <1>3, <1>4 DEF Parses
<1>6. Outcome(u, c, r)
  BY <1>5, Parsed
<1>7. CASE DestType = "ipv4" /\ a = 0 /\ j = 10
  <2>1. ParsesRequest(u, c, r)
    BY <1>2, <1>4, <1>5, <1>7 DEF ParsesRequest, m
  <2>2. /\ r \in Conn /\ Kept(r, u) /\ r.toClient = u.toClient /\ ~r.closed /\ AskedFor(r)
    BY <2>1, ParsedRequest
  <2>3. n = RequestLen /\ Len(v.toServer) = n /\ u.toServer = <<>>
    BY <1>2, <1>3, <1>m, <1>7, LenProperties, <1>d, ConnFields DEF a, Position
  <2>4. r.handler = "bufferHandler" /\ r.toServer = <<>> /\ StreamOf(r) = <<>>
    BY <1>0, <1>4, <2>2, <2>3, StreamSame DEF Kept
  <2>5. QED BY <1>0, <1>7, <2>2, <2>3, <2>4 DEF Heard
<1>8. CASE ~(DestType = "ipv4" /\ a = 0 /\ j = 10) /\ c[1] = 5
  <2>1. ~Commands(c)
    <3>1. a + j <= RequestLen
      BY <1>2, <1>m
    <3>2. QED BY <1>d, <1>2, <1>8, <3>1, RequestPiece DEF m
  <2>2. /\ r \in Conn /\ Kept(r, u) /\ ~r.closed /\ r.asked = NotAsked
        /\ \/ r.toClient = v.toClient
           \/ \E x \in {0, 8} : r.toClient = v.toClient \o <<5, x>>
    BY <1>0, <1>4, <1>6, <1>8, <2>1 DEF Outcome
  <2>3. r.handler = "bufferHandler" /\ r.toServer = u.toServer /\ r.got = v.got /\ r.dest = v.dest
    BY <1>0, <1>4, <2>2 DEF Kept
  <2>4. Pairs(StreamOf(r))
    <3>1. CASE r.toClient = v.toClient
      BY <1>0, <2>3, <3>1, StreamSame
    <3>2. ASSUME NEW x \in {0, 8}, r.toClient = v.toClient \o <<5, x>> PROVE Pairs(StreamOf(r))
      BY <1>d, <1>0, <2>2, <2>3, <3>2, PairAdded
    <3>3. QED BY <2>2, <3>1, <3>2
  <2>5. Len(u.toServer) # n
    BY <1>2, <1>3, LenProperties, ConnFields
  <2>6. QED BY <1>0, <1>3, <2>2, <2>3, <2>4, <2>5 DEF Unheard, m
<1>9. CASE c[1] # 5
  <2>1. r \in Conn /\ Kept(r, u) /\ r.closed /\ r.toClient = v.toClient
    BY <1>4, <1>6, <1>9 DEF Outcome
  <2>2. r.handler = "bufferHandler" /\ r.toServer = u.toServer /\ r.got = v.got /\ r.dest = v.dest
    BY <1>0, <1>4, <2>1 DEF Kept
  <2>3. StreamOf(r) = StreamOf(v)
    BY <2>1, <2>2, StreamSame
  <2>4. Len(u.toServer) # n
    BY <1>2, <1>3, LenProperties, ConnFields
  <2>5. QED BY <1>0, <1>3, <2>1, <2>2, <2>3, <2>4 DEF Unheard, m
<1>10. QED BY <1>7, <1>8, <1>9

-----------------------------------------------------------------------------
(* The steps of the two ends, one by one.                                     *)

(* A predicate of the connection that reads only these fields.                  *)
LEMMA SameTalk ==
  ASSUME NEW st, NEW n, NEW v, NEW r, Talk(st, n, v), Sound(r), st \notin {"CONNECTING", "UP"},
         r.toServer = v.toServer, StreamOf(r) = StreamOf(v), r.handler = v.handler,
         r.asked = v.asked, r.closed = v.closed, r.dest = v.dest
  PROVE  Talk(st, n, r)
<1>1. Greeted(n, v) => Greeted(n, r)
  BY DEF Greeted
<1>2. Unheard(st, n, v) => Unheard(st, n, r)
  BY DEF Unheard
<1>3. Heard(st, n, v) => Heard(st, n, r)
  BY DEF Heard, AskedFor
<1>4. QED BY <1>1, <1>2, <1>3 DEF Talk

(* More of a message is sent.                                                   *)
LEMMA MoreTravels ==
  ASSUME NEW m \in Seq(Byte), NEW n, NEW t \in Seq(Byte), Travels(m, n, t),
         NEW j \in Nat, n + j <= Len(m)
  PROVE  /\ t \o SubSeq(m, n + 1, n + j) \in Seq(Byte)
         /\ Len(t \o SubSeq(m, n + 1, n + j)) = Len(t) + j
         /\ Travels(m, n + j, t \o SubSeq(m, n + 1, n + j))
<1> DEFINE s == SubSeq(m, n + 1, n + j)
           e == t \o s
<1>0. /\ Len(m) \in Nat /\ Len(t) \in Nat /\ n \in Nat /\ Len(t) <= n
      /\ \A k \in 1 .. Len(t) : t[k] = m[(n - Len(t)) + k]
  BY LenProperties DEF Travels
<1>1. \A i \in n + 1 .. n + j : m[i] \in Byte
  BY <1>0, ElementOfSeq
<1>2. n + 1 \in Int /\ n + j \in Int
  BY <1>0
<1>3. /\ s \in Seq(Byte) /\ Len(s) = (IF n + 1 <= n + j THEN (n + j) - (n + 1) + 1 ELSE 0)
      /\ \A i \in 1 .. (n + j) - (n + 1) + 1 : s[i] = m[(n + 1) + i - 1]
  BY <1>1, <1>2, SubSeqProperties
<1> HIDE DEF s
<1>5. Len(s) = j /\ \A i \in 1 .. j : s[i] = m[n + i]
  <2>1. (n + j) - (n + 1) + 1 = j
    BY <1>0
  <2>2. Len(s) = j
    BY <1>0, <1>3, <2>1
  <2>3. ASSUME NEW i \in 1 .. j PROVE s[i] = m[n + i]
    <3>1. (n + 1) + i - 1 = n + i
      BY <1>0
    <3>2. QED BY <1>3, <2>1, <3>1
  <2>4. QED BY <2>2, <2>3
<1>7. /\ e \in Seq(Byte) /\ Len(e) = Len(t) + Len(s)
      /\ \A i \in 1 .. Len(t) + Len(s) : e[i] = IF i <= Len(t) THEN t[i] ELSE s[i - Len(t)]
  BY <1>3, Joined, Zenon
<1> HIDE DEF e
<1>8. Len(e) = Len(t) + j
  BY <1>5, <1>7
<1>9. ASSUME NEW k \in 1 .. Len(e) PROVE e[k] = m[((n + j) - Len(e)) + k]
  <2>0. (n + j) - Len(e) = n - Len(t) /\ k \in 1 .. Len(t) + Len(s) /\ k \in Int
    BY <1>0, <1>5, <1>8
  <2>1. CASE k <= Len(t)
    <3>1. k \in 1 .. Len(t) /\ e[k] = t[k]
      BY <1>0, <1>7, <2>0, <2>1
    <3>2. QED BY <1>0, <2>0, <3>1
  <2>2. CASE ~(k <= Len(t))
    <3>1. e[k] = s[k - Len(t)] /\ k - Len(t) \in 1 .. j
      BY <1>0, <1>5, <1>7, <1>8, <2>0, <2>2
    <3>2. n + (k - Len(t)) = (n - Len(t)) + k
      BY <1>0, <2>0
    <3>3. QED BY <1>5, <2>0, <3>1, <3>2
  <2>3. QED BY <2>1, <2>2
<1>10. n + j \in Nat /\ Len(e) <= n + j
  BY <1>0, <1>8
<1>11. Travels(m, n + j, e)
  BY <1>9, <1>10 DEF Travels
<1>12. QED BY <1>7, <1>8, <1>11, Zenon DEF e, s

MessageOf(st, d) == IF st \in Helloing THEN Hello ELSE RequestTo(d)

SendsMore(st, n, v, j, r) ==
  /\ Talk(st, n, v) /\ st \in {"SENDING_HELLO", "SENDING_REQUEST"} /\ n \in Nat
  /\ j \in Nat /\ j >= 1
  /\ n + j <= (IF st = "SENDING_HELLO" THEN HelloLen ELSE RequestLen)
  /\ r = [v EXCEPT !.toServer = @ \o SubSeq(MessageOf(st, v.dest), n + 1, n + j)]

LEMMA TalkSends ==
  ASSUME NEW st, NEW n, NEW v, NEW j, NEW r, SendsMore(st, n, v, j, r)
  PROVE  Talk(st, n + j, r) /\ r.got = v.got
<1> DEFINE m == MessageOf(st, v.dest)
           t == v.toServer
           e == t \o SubSeq(m, n + 1, n + j)
<1>0. /\ Talk(st, n, v) /\ st \in {"SENDING_HELLO", "SENDING_REQUEST"} /\ n \in Nat
      /\ j \in Nat /\ j >= 1
      /\ n + j <= (IF st = "SENDING_HELLO" THEN HelloLen ELSE RequestLen)
  BY DEF SendsMore
<1>1. r = [v EXCEPT !.toServer = e]
  BY Zenon DEF SendsMore
<1>2. Sound(v) /\ v \in Conn /\ v.dest \in Addresses
  BY <1>0, ConnFields DEF Talk, Sound
<1>3. /\ m \in Seq(Byte)
      /\ Len(m) = (IF st = "SENDING_HELLO" THEN HelloLen ELSE RequestLen)
  BY <1>0, <1>2, HelloBytes, RequestBytes DEF MessageOf, Helloing
<1>4. /\ v.handler = "bufferHandler" /\ (v.asked = NotAsked \/ v.closed)
      /\ Travels(m, n, t)
      /\ st = "SENDING_HELLO" => StreamOf(v) = <<>>
      /\ st = "SENDING_REQUEST" => Unheard(st, n, v)
  <2>1. CASE st = "SENDING_HELLO"
    <3>1. Greeted(n, v) /\ n # HelloLen
      BY <1>0, <2>1, HelloBytes DEF Talk, Helloing
    <3>2. QED BY <2>1, <3>1 DEF Greeted, MessageOf, Helloing
  <2>2. CASE st = "SENDING_REQUEST"
    <3>1. (Unheard(st, n, v) \/ Heard(st, n, v)) /\ n # RequestLen
      BY <1>0, <1>2, <2>2, RequestBytes DEF Talk, Requesting
    <3>2. QED BY <2>2, <3>1 DEF Unheard, Heard, MessageOf, Helloing
  <2>3. QED BY <1>0, <2>1, <2>2
<1>5. t \in Seq(Byte)
  BY <1>2, <1>4 DEF Sound
<1> HIDE DEF m, t
<1>6. e \in Seq(Byte) /\ Len(e) = Len(t) + j /\ Travels(m, n + j, e)
  <2>1. n + j <= Len(m)
    BY <1>0, <1>3
  <2>2. QED BY <1>0, <1>3, <1>4, <1>5, <2>1, MoreTravels, ZenonT(60)
<1> HIDE DEF e
<1>7. e \in Seq(Symbol)
  BY <1>6, SeqMonotonic DEF Symbol
<1>8. r \in Conn
  BY <1>1, <1>2, <1>7, Zenon DEF Conn
<1>9. /\ r.toServer = e /\ r.dest = v.dest /\ r.toClient = v.toClient /\ r.got = v.got
      /\ r.handler = v.handler /\ r.asked = v.asked /\ r.closed = v.closed
  BY <1>1, <1>2 DEF Conn
<1>10. StreamOf(r) = StreamOf(v)
  BY <1>9, StreamSame
<1>11. Sound(r)
  BY <1>2, <1>6, <1>8, <1>9 DEF Sound, AskedFor
<1>12. CASE st = "SENDING_HELLO"
  <2>1. Travels(Hello, n + j, r.toServer)
    BY <1>6, <1>9, <1>12 DEF m, MessageOf, Helloing
  <2>2. Greeted(n + j, r)
    BY <1>4, <1>9, <1>10, <1>12, <2>1 DEF Greeted
  <2>3. QED BY <1>9, <1>11, <1>12, <2>2 DEF Talk, Requesting
<1>13. CASE st = "SENDING_REQUEST"
  <2>1. Travels(RequestTo(r.dest), n + j, r.toServer)
    BY <1>6, <1>9, <1>13 DEF m, MessageOf, Helloing
  <2>2. Len(t) \in Nat
    BY <1>5, LenProperties
  <2>3. Len(r.toServer) = n + j => Len(v.toServer) = n
    BY <1>0, <1>6, <1>9, <2>2 DEF t
  <2>4. Unheard(st, n + j, r)
    BY <1>4, <1>9, <1>10, <1>13, <2>1, <2>3 DEF Unheard
  <2>5. QED BY <1>9, <1>11, <1>13, <2>4 DEF Talk, Helloing
<1>14. QED BY <1>0, <1>12, <1>13

(* The whole message was sent: its answer is waited for.                        *)
LEMMA TalkSent ==
  ASSUME NEW n, NEW v
  PROVE  /\ Talk("SENDING_HELLO", n, v) => Talk("SENT_HELLO", n, v)
         /\ Talk("SENDING_REQUEST", n, v) => Talk("SENT_REQUEST", n, v)
<1>1. Unheard("SENDING_REQUEST", n, v) => Unheard("SENT_REQUEST", n, v)
  BY DEF Unheard
<1>2. Heard("SENDING_REQUEST", n, v) => Heard("SENT_REQUEST", n, v)
  BY DEF Heard
<1>3. QED BY <1>1, <1>2 DEF Talk, Helloing, Requesting

LEMMA TalkFreed ==
  ASSUME NEW st, NEW n, NEW k, NEW v, Talk(st, n, v)
  PROVE  Talk("FREED", k, v)
  BY DEF Talk, Helloing, Requesting

(* A connection begins, and the hello is begun.                                 *)
LEMMA TalkBegins ==
  ASSUME NEW d \in Addresses, NEW n
  PROVE  Talk("CONNECTING", n, Fresh(d)) /\ Talk("FREED", n, Fresh(d))
<1> DEFINE v == Fresh(d)
<1>1. <<>> \in Seq(Symbol) /\ <<>> \in Seq(Byte) /\ FALSE \in BOOLEAN /\ 0 \in Int
  OBVIOUS
<1>2. NotAsked \in [host : Seq(Symbol), port : Int]
  BY <1>1, Zenon DEF NotAsked
<1>3. v \in Conn
  BY <1>1, <1>2, Zenon DEF Fresh, Conn
<1>4. v.got = <<>> /\ v.toServer = <<>> /\ v.asked = NotAsked /\ v.dest = d
  BY DEF Fresh
<1>5. Sound(v)
  BY <1>1, <1>3, <1>4, Zenon DEF Sound
<1>6. QED BY <1>4, <1>5 DEF Talk, Helloing, Requesting

LEMMA TalkConnects ==
  ASSUME NEW n, NEW v, Talk("CONNECTING", n, v)
  PROVE  Talk("SENDING_HELLO", 0, v) /\ v.got = <<>>
<1>1. Sound(v) /\ v = Fresh(v.dest)
  BY DEF Talk
<1>2. /\ v.toServer = <<>> /\ v.got = <<>> /\ v.toClient = <<>> /\ v.asked = NotAsked
      /\ v.handler = "bufferHandler"
  BY <1>1 DEF Fresh
<1>3. StreamOf(v) = <<>>
  <2>1. \A s \in Seq(Symbol) : s \o <<>> = s
    BY ConcatEmptySeq
  <2>2. QED BY <1>2, <2>1, EmptyBytes, Zenon DEF StreamOf
<1>4. Travels(Hello, 0, v.toServer)
  BY <1>2, HelloBytes DEF Travels
<1>5. Greeted(0, v)
  BY <1>2, <1>3, <1>4 DEF Greeted
<1>6. QED BY <1>1, <1>2, <1>5 DEF Talk, Helloing, Requesting

(* The client reads some of what there is.                                      *)
ReadsMore(st, n, v, j, r) ==
  /\ Talk(st, n, v) /\ st \in {"SENT_HELLO", "SENT_REQUEST", "RECEIVED_REPLY_HEADER"}
  /\ j \in Nat /\ j >= 1 /\ j <= Len(v.toClient)
  /\ Len(v.got) + j <= (CASE st = "SENT_HELLO" -> 2 [] st = "SENT_REQUEST" -> 4 [] OTHER -> 6)
  /\ r = [v EXCEPT !.got = v.got \o SubSeq(v.toClient, 1, j), !.toClient = Cut(v.toClient, j)]

LEMMA TalkReads ==
  ASSUME NEW st, NEW n, NEW v, NEW j, NEW r, ReadsMore(st, n, v, j, r)
  PROVE  Talk(st, n, r) /\ Len(r.got) = Len(v.got) + j
<1> DEFINE g == v.got \o SubSeq(v.toClient, 1, j)
           e == Cut(v.toClient, j)
           z == StreamOf(v)
           max == CASE st = "SENT_HELLO" -> 2 [] st = "SENT_REQUEST" -> 4 [] OTHER -> 6
<1>0. /\ Talk(st, n, v) /\ st \in {"SENT_HELLO", "SENT_REQUEST", "RECEIVED_REPLY_HEADER"}
      /\ j \in Nat /\ j >= 1 /\ j <= Len(v.toClient) /\ Len(v.got) + j <= max
  BY DEF ReadsMore
<1>1. r = [v EXCEPT !.got = g, !.toClient = e]
  BY Zenon DEF ReadsMore
<1>2. Sound(v) /\ v \in Conn /\ v.got \in Seq(Symbol) /\ v.toClient \in Seq(Symbol)
  BY <1>0, ConnFields DEF Talk, Sound
<1>3. /\ z \in Seq(Symbol) /\ Len(z) = Len(v.got) + Len(v.toClient)
      /\ Len(v.got) \in Nat /\ Len(v.toClient) \in Nat
  BY <1>2, StreamSeq, Zenon
<1>4. j \in 0 .. Len(v.toClient)
  BY <1>0, <1>3
<1>5. e \in Seq(Symbol)
  BY <1>2, <1>4, TakeCut, Zenon
<1>6. g \in Seq(Symbol) /\ Len(g) = Len(v.got) + j
  BY <1>2, <1>4, ReadMoves, Zenon
<1>7. g \o e = z
  BY <1>2, <1>4, ReadMoves, Zenon DEF StreamOf
<1> HIDE DEF g, e, z, max
<1>8. r \in Conn
  BY <1>1, <1>2, <1>5, <1>6, Zenon DEF Conn
<1>9. /\ r.got = g /\ r.toClient = e /\ r.toServer = v.toServer /\ r.dest = v.dest
      /\ r.handler = v.handler /\ r.asked = v.asked /\ r.closed = v.closed
  BY <1>1, <1>2 DEF Conn
<1>10. StreamOf(r) = z
  BY <1>7, <1>9 DEF StreamOf
<1>11. \A i \in 1 .. Len(g) : g[i] = z[i]
  <2>1. \A i \in 1 .. Len(r.got) : StreamOf(r)[i] = r.got[i]
    BY <1>8, StreamSeq, Zenon
  <2>2. QED BY <1>9, <1>10, <2>1
<1> DEFINE lg == Len(g)
           lz == Len(z)
<1> HIDE DEF lg, lz
<1>m. max \in Nat /\ (st = "SENT_HELLO" => max = 2) /\ (st = "SENT_REQUEST" => max = 4)
      /\ (st = "RECEIVED_REPLY_HEADER" => max = 6)
  BY <1>0 DEF max
<1>12. lg <= lz /\ lg >= 1 /\ lg \in Nat /\ lz \in Nat /\ lg <= max
  <2> DEFINE la == Len(v.got)
             lb == Len(v.toClient)
  <2> HIDE DEF la, lb
  <2>1. lg = la + j /\ lz = la + lb
    BY <1>3, <1>6 DEF lg, lz, la, lb
  <2>2. la \in Nat /\ lb \in Nat
    BY <1>3 DEF la, lb
  <2>3. j \in Nat /\ j >= 1 /\ j <= lb /\ la + j <= max
    BY <1>0 DEF la, lb
  <2>4. QED BY <2>1, <2>2, <2>3
<1>z. z # <<>>
  <2>1. z = <<>> => lz = 0
    BY EmptyBytes DEF lz
  <2>2. QED BY <1>12, <2>1
<1>13. ASSUME NEW i \in 1 .. Len(g) PROVE z[i] \in Byte
  <2>a. i \in 1 .. lg
    BY DEF lg
  <2>b. i \in 1 .. lz /\ i \in Nat /\ i >= 1 /\ i <= max
    BY <1>m, <1>12, <2>a
  <2>0. i \in 1 .. Len(z) /\ i \in Nat /\ i >= 1 /\ i <= max
    BY <2>b DEF lz
  <2>1. CASE st = "SENT_HELLO"
    <3>1. z = <<5, 0>>
      BY <1>0, <1>z, <2>1 DEF Talk, Helloing, Greeted, z
    <3>2. z \in Seq(Byte)
      BY <3>1 DEF Byte
    <3>3. QED BY <2>0, <3>2, ElementOfSeq
  <2>2. CASE Unheard(st, n, v)
    <3>1. z \in Seq(Byte)
      BY <2>2 DEF Unheard, Pairs, z
    <3>2. QED BY <2>0, <3>1, ElementOfSeq
  <2>3. CASE Heard(st, n, v) /\ st # "SENT_HELLO"
    <3> DEFINE s == IF st = "RECEIVED_REPLY_HEADER" THEN 4 ELSE 0
    <3>1. RestOfReply(z, s)
      BY <1>z, <2>3 DEF Heard, z
    <3>2. i + s \in 1 .. 10 /\ i + s <= 10
      <4>1. CASE st = "RECEIVED_REPLY_HEADER"
        <5>1. s = 4 /\ i <= 6
          BY <1>m, <2>0, <4>1
        <5>2. QED BY <2>0, <5>1
      <4>2. CASE st = "SENT_REQUEST"
        <5>1. s = 0 /\ i <= 4
          BY <1>m, <2>0, <4>2
        <5>2. QED BY <2>0, <5>1
      <4>3. QED BY <1>0, <2>3, <4>1, <4>2
    <3> HIDE DEF s
    <3>3. z[i] = Reply[i + s]
      BY <2>0, <3>1, <3>2 DEF RestOfReply
    <3>4. QED BY <3>2, <3>3, ReplyBytes, ElementOfSeq
  <2>4. QED BY <1>0, <2>1, <2>2, <2>3 DEF Talk, Requesting
<1>14. g \in Seq(Byte)
  <2>1. \A i \in 1 .. Len(g) : g[i] \in Byte
    BY <1>11, <1>13
  <2>2. QED BY <1>6, <2>1, GotBytes, Zenon
<1>15. Sound(r)
  BY <1>2, <1>8, <1>9, <1>14 DEF Sound, AskedFor
<1>16. Talk(st, n, r)
  <2>1. st \notin {"CONNECTING", "UP"}
    BY <1>0
  <2>2. StreamOf(r) = StreamOf(v)
    BY <1>10 DEF z
  <2>3. QED BY <1>0, <1>9, <1>15, <2>1, <2>2, SameTalk, Zenon
<1>17. QED BY <1>6, <1>9, <1>16

(* What recv_handler_done finds, of a given state and message.                  *)
AnswerOf(st, g) ==
  CASE st = "SENT_HELLO" /\ g = <<5, 0>> -> "none"
    [] st = "SENT_HELLO" /\ g = <<5, 2>> -> "password"
    [] st = "SENT_REQUEST" /\ g[1] = 5 /\ g[2] = 0 /\ g[4] = 1 -> "ipv4"
    [] st = "SENT_REQUEST" /\ g[1] = 5 /\ g[2] = 0 /\ g[4] = 4 -> "ipv6"
    [] OTHER -> "bad"

(* A whole message was read.                                                    *)
ReadsAll(st, n, v, r) ==
  /\ Talk(st, n, v) /\ r = [v EXCEPT !.got = <<>>]
  /\ Len(v.got) = (CASE st = "SENT_HELLO" -> 2 [] st = "SENT_REQUEST" -> 4 [] OTHER -> 6)

LEMMA MessageRead ==
  ASSUME NEW st, NEW n, NEW v, NEW r, ReadsAll(st, n, v, r)
  PROVE  /\ v \in Conn /\ Sound(r) /\ r.got = <<>> /\ StreamOf(r) = v.toClient
         /\ r.toServer = v.toServer /\ r.dest = v.dest /\ r.handler = v.handler
         /\ r.asked = v.asked /\ r.closed = v.closed /\ r.toClient = v.toClient
<1>1. Sound(v) /\ v \in Conn /\ r = [v EXCEPT !.got = <<>>] /\ v.toClient \in Seq(Symbol)
  BY ConnFields DEF ReadsAll, Talk, Sound
<1>2. r \in Conn
  BY <1>1, EmptyBytes, Zenon DEF Conn
<1>3. /\ r.got = <<>> /\ r.toServer = v.toServer /\ r.dest = v.dest /\ r.handler = v.handler
      /\ r.asked = v.asked /\ r.closed = v.closed /\ r.toClient = v.toClient
  BY <1>1 DEF Conn
<1>4. StreamOf(r) = v.toClient
  BY <1>1, <1>3, StreamBegins DEF StreamOf
<1>5. Sound(r)
  BY <1>1, <1>2, <1>3, EmptyBytes DEF Sound, AskedFor
<1>6. QED BY <1>1, <1>3, <1>4, <1>5

(* The hello is answered by "no authentication", and nothing else.              *)
LEMMA TalkHelloAnswered ==
  ASSUME NEW n, NEW v, NEW r, ReadsAll("SENT_HELLO", n, v, r)
  PROVE  AnswerOf("SENT_HELLO", v.got) = "none" /\ Talk("SENDING_REQUEST", 0, r)
<1> DEFINE z == StreamOf(v)
<1>0. Len(v.got) = 2 /\ Greeted(n, v)
  BY DEF ReadsAll, Talk, Helloing
<1>1. /\ v \in Conn /\ Sound(r) /\ r.got = <<>> /\ StreamOf(r) = v.toClient
      /\ r.toServer = v.toServer /\ r.dest = v.dest /\ r.handler = v.handler
      /\ r.asked = v.asked /\ r.closed = v.closed
  BY MessageRead
<1>2. /\ z \in Seq(Symbol) /\ Len(z) = Len(v.got) + Len(v.toClient)
      /\ Len(v.got) \in Nat /\ Len(v.toClient) \in Nat
  BY <1>1, StreamSeq, Zenon
<1> HIDE DEF z
<1>3. z = <<5, 0>> /\ v.toServer = <<>> /\ ~v.closed
  <2>a. z = <<>> => Len(z) = 0
    BY EmptyBytes
  <2>b. Len(z) # 0
    BY <1>0, <1>2
  <2>1. StreamOf(v) # <<>>
    BY <2>a, <2>b DEF z
  <2>2. QED BY <1>0, <2>1 DEF Greeted, z
<1>4. v.toClient = <<>>
  <2>1. Len(z) = 2
    BY <1>3
  <2>2. Len(v.toClient) = 0
    <3> DEFINE la == Len(v.got)
               lb == Len(v.toClient)
               lz == Len(z)
    <3>1. la = 2 /\ lz = 2 /\ lz = la + lb /\ lb \in Nat
      BY <1>0, <1>2, <2>1
    <3> HIDE DEF la, lb, lz
    <3>2. lb = 0
      BY <3>1
    <3>3. QED BY <3>2 DEF lb
  <2>3. v.toClient \in Seq(Symbol)
    BY <1>1, ConnFields
  <2>4. QED BY <2>2, <2>3, EmptySeq
<1>5. v.got = <<5, 0>>
  <2>1. v.got \in Seq(Symbol)
    BY <1>1, ConnFields
  <2>2. \A s \in Seq(Symbol) : s \o <<>> = s
    BY ConcatEmptySeq
  <2>3. v.got \o <<>> = v.got
    BY <2>1, <2>2, Zenon
  <2>4. QED BY <1>3, <1>4, <2>3, Zenon DEF z, StreamOf
<1>6. AnswerOf("SENT_HELLO", v.got) = "none"
  <2> DEFINE g == v.got
  <2>1. g = <<5, 0>> /\ <<5, 0>> # <<5, 2>>
    BY <1>5
  <2> HIDE DEF g
  <2>2. AnswerOf("SENT_HELLO", g) = "none"
    BY <2>1 DEF AnswerOf
  <2>3. QED BY <2>2 DEF g
<1>7. Unheard("SENDING_REQUEST", 0, r)
  <2>1. r.handler = "bufferHandler" /\ r.asked = NotAsked
    BY <1>0, <1>1, <1>3 DEF Greeted
  <2>2. StreamOf(r) = <<>> /\ r.toServer = <<>>
    BY <1>1, <1>3, <1>4
  <2>3. Pairs(<<>>)
    <3>1. Len(<<>>) = 2 * 0 /\ ~(Len(<<>>) >= 4) /\ 0 \in Nat /\ <<>> \in Seq(Byte)
      BY EmptyBytes
    <3>2. QED BY <3>1, Zenon DEF Pairs
  <2>4. Travels(RequestTo(r.dest), 0, <<>>)
    <3>1. v.dest \in Addresses
      BY <1>1, ConnFields
    <3>2. Len(RequestTo(v.dest)) \in Nat
      BY <3>1, RequestBytes, LenProperties
    <3>3. QED BY <1>1, <3>2, EmptyBytes DEF Travels
  <2>5. QED BY <2>1, <2>2, <2>3, <2>4 DEF Unheard
<1>8. QED BY <1>1, <1>6, <1>7 DEF Talk, Helloing

(* What is left of the reply once a part of it was read.                        *)
LEMMA RestRead ==
  ASSUME NEW v \in Conn, NEW s \in Nat, NEW l \in Nat, s + l <= 10,
         RestOfReply(StreamOf(v), s), Len(v.got) = l
  PROVE  RestOfReply(v.toClient, s + l)
<1> DEFINE z == StreamOf(v)
           t == v.toClient
           lt == Len(t)
<1>1. /\ Len(z) = l + lt /\ lt \in Nat
      /\ \A i \in 1 .. lt : z[l + i] = t[i]
  BY StreamSeq
<1>2. /\ Len(z) >= 10 - s
      /\ \A k \in 1 .. Len(z) : z[k] = IF k + s <= 10 THEN Reply[k + s] ELSE Payload
  BY DEF RestOfReply
<1> HIDE DEF z, t
<1> DEFINE lz == Len(z)
<1>3. /\ lz >= 10 - s /\ lz = l + lt
      /\ \A k \in 1 .. lz : z[k] = IF k + s <= 10 THEN Reply[k + s] ELSE Payload
  BY <1>1, <1>2
<1> HIDE DEF lz
<1>h. lt \in Nat /\ \A i \in 1 .. lt : z[l + i] = t[i]
  BY <1>1
<1> HIDE DEF lt
<1>4. lt >= 10 - (s + l)
  BY <1>3, <1>h
<1>5. ASSUME NEW k \in 1 .. lt
      PROVE  t[k] = IF k + (s + l) <= 10 THEN Reply[k + (s + l)] ELSE Payload
  <2>1. l + k \in 1 .. lz /\ (l + k) + s = k + (s + l)
    BY <1>3, <1>h
  <2>2. z[l + k] = IF (l + k) + s <= 10 THEN Reply[(l + k) + s] ELSE Payload
    BY <1>3, <2>1
  <2>3. t[k] = z[l + k]
    BY <1>h
  <2>4. QED BY <2>1, <2>2, <2>3, Zenon
<1>6. QED BY <1>4, <1>5 DEF RestOfReply, lt, t

(* Payload after the reply, and more of it.                                     *)
LEMMA RestGrows ==
  ASSUME NEW z \in Seq(Symbol), NEW y, NEW s \in Nat, s <= 10, RestOfReply(z, s),
         Len(y) = Len(z) + 1, \A i \in 1 .. Len(z) : y[i] = z[i], y[Len(z) + 1] = Payload
  PROVE  RestOfReply(y, s)
<1> DEFINE lz == Len(z)
           ly == Len(y)
<1>1. lz \in Nat /\ ly = lz + 1
  BY LenProperties
<1>2. /\ lz >= 10 - s
      /\ \A k \in 1 .. lz : z[k] = IF k + s <= 10 THEN Reply[k + s] ELSE Payload
  BY DEF RestOfReply
<1>3. (\A i \in 1 .. lz : y[i] = z[i]) /\ y[lz + 1] = Payload
  OBVIOUS
<1> HIDE DEF lz, ly
<1>4. ly >= 10 - s
  BY <1>1, <1>2
<1>5. ASSUME NEW k \in 1 .. ly PROVE y[k] = IF k + s <= 10 THEN Reply[k + s] ELSE Payload
  <2>1. CASE k <= lz
    <3>1. k \in 1 .. lz
      BY <1>1, <2>1
    <3>2. y[k] = z[k]
      BY <1>3, <3>1, Zenon
    <3>3. z[k] = IF k + s <= 10 THEN Reply[k + s] ELSE Payload
      BY <1>2, <3>1, Zenon
    <3>4. QED BY <3>2, <3>3, Zenon
  <2>2. CASE ~(k <= lz)
    <3>1. k = lz + 1 /\ ~(k + s <= 10)
      BY <1>1, <1>2, <2>2
    <3>2. QED BY <1>3, <3>1, Zenon
  <2>3. QED BY <2>1, <2>2
<1>6. QED BY <1>4, <1>5 DEF RestOfReply, ly

(* Answers to pieces of a request do not read like a reply.                     *)
LEMMA TalkRequestRefused ==
  ASSUME NEW n, NEW v, NEW r, ReadsAll("SENT_REQUEST", n, v, r), Unheard("SENT_REQUEST", n, v)
  PROVE  AnswerOf("SENT_REQUEST", v.got) = "bad"
<1> DEFINE z == StreamOf(v)
           g == v.got
<1>1. Pairs(z) /\ Len(g) = 4
  BY DEF ReadsAll, Unheard
<1>2. v \in Conn
  BY DEF ReadsAll, Talk, Sound
<1>3. /\ Len(z) = Len(g) + Len(v.toClient) /\ Len(v.toClient) \in Nat
      /\ \A i \in 1 .. Len(g) : z[i] = g[i]
  BY <1>2, StreamSeq
<1> HIDE DEF z, g
<1>4. Len(z) >= 4 /\ 4 \in 1 .. Len(g)
  BY <1>1, <1>3
<1>5. g[4] = z[4] /\ z[4] \notin {1, 4}
  BY <1>1, <1>3, <1>4, Zenon DEF Pairs
<1>6. AnswerOf("SENT_REQUEST", g) = "bad"
  BY <1>5 DEF AnswerOf
<1>7. QED BY <1>6 DEF g

(* The header of the reply.                                                     *)
LEMMA TalkRequestAnswered ==
  ASSUME NEW n, NEW v, NEW r, ReadsAll("SENT_REQUEST", n, v, r), Heard("SENT_REQUEST", n, v)
  PROVE  AnswerOf("SENT_REQUEST", v.got) = "ipv4" /\ Talk("RECEIVED_REPLY_HEADER", n, r)
<1> DEFINE z == StreamOf(v)
           g == v.got
<1>0. Len(g) = 4
  BY DEF ReadsAll
<1>1. /\ v \in Conn /\ Sound(r) /\ r.got = <<>> /\ StreamOf(r) = v.toClient
      /\ r.toServer = v.toServer /\ r.dest = v.dest /\ r.handler = v.handler
      /\ r.asked = v.asked /\ r.closed = v.closed
  BY MessageRead
<1>2. /\ z \in Seq(Symbol) /\ Len(z) = Len(g) + Len(v.toClient) /\ Len(v.toClient) \in Nat
      /\ \A i \in 1 .. Len(g) : z[i] = g[i]
  BY <1>1, StreamSeq
<1> HIDE DEF z, g
<1>3. z # <<>>
  <2>1. z = <<>> => Len(z) = 0
    BY EmptyBytes
  <2>2. Len(z) # 0
    BY <1>0, <1>2
  <2>3. QED BY <2>1, <2>2
<1>4. /\ DestType = "ipv4" /\ n = RequestLen /\ v.toServer = <<>> /\ AskedFor(v)
      /\ v.handler = "raw" /\ RestOfReply(z, 0)
  BY <1>3 DEF Heard, z
<1>5. g[1] = 5 /\ g[2] = 0 /\ g[4] = 1
  <2>1. Len(z) >= 4
    BY <1>0, <1>2
  <2>2. z[1] = Reply[1] /\ z[2] = Reply[2] /\ z[4] = Reply[4]
    <3> DEFINE lz == Len(z)
    <3>1. lz \in Nat /\ lz >= 4
      BY <1>2, <2>1, LenProperties
    <3>2. \A k \in 1 .. lz : z[k] = IF k + 0 <= 10 THEN Reply[k + 0] ELSE Payload
      BY <1>4 DEF RestOfReply
    <3> HIDE DEF lz
    <3>3. 1 \in 1 .. lz /\ 2 \in 1 .. lz /\ 4 \in 1 .. lz
      BY <3>1
    <3>4. 1 + 0 = 1 /\ 2 + 0 = 2 /\ 4 + 0 = 4 /\ 1 <= 10 /\ 2 <= 10 /\ 4 <= 10
      OBVIOUS
    <3>5. QED BY <3>2, <3>3, <3>4
  <2>3. 1 \in 1 .. Len(g) /\ 2 \in 1 .. Len(g) /\ 4 \in 1 .. Len(g)
    BY <1>0
  <2>4. g[1] = z[1] /\ g[2] = z[2] /\ g[4] = z[4]
    BY <1>2, <2>3, Zenon
  <2>5. QED BY <2>2, <2>4, ReplyBytes
<1>6. AnswerOf("SENT_REQUEST", g) = "ipv4"
  BY <1>5 DEF AnswerOf
<1>7. RestOfReply(StreamOf(r), 4)
  <2>1. 0 \in Nat /\ 4 \in Nat /\ 0 + 4 <= 10 /\ 0 + 4 = 4
    OBVIOUS
  <2>2. RestOfReply(v.toClient, 0 + 4)
    BY <1>0, <1>1, <1>4, <2>1, RestRead, Zenon DEF z, g
  <2>3. QED BY <1>1, <2>1, <2>2
<1>8. Heard("RECEIVED_REPLY_HEADER", n, r)
  BY <1>1, <1>4, <1>7 DEF Heard, AskedFor
<1>9. Talk("RECEIVED_REPLY_HEADER", n, r)
  BY <1>1, <1>8 DEF Talk, Helloing
<1>10. QED BY <1>6, <1>9 DEF g

(* The rest of the reply: the client is up, and only payload is left.           *)
LEMMA TalkUp ==
  ASSUME NEW n, NEW k, NEW v, NEW r, ReadsAll("RECEIVED_REPLY_HEADER", n, v, r)
  PROVE  Talk("UP", k, r)
<1> DEFINE z == StreamOf(v)
<1>0. Len(v.got) = 6 /\ (Unheard("RECEIVED_REPLY_HEADER", n, v) \/ Heard("RECEIVED_REPLY_HEADER", n, v))
  BY DEF ReadsAll, Talk, Requesting
<1>1. /\ v \in Conn /\ Sound(r) /\ r.got = <<>> /\ r.toClient = v.toClient
      /\ r.dest = v.dest /\ r.handler = v.handler /\ r.asked = v.asked
  BY MessageRead
<1>2. v.handler = "raw" /\ AskedFor(v) /\ RestOfReply(z, 4)
  BY <1>0 DEF Unheard, Heard
<1>3. RestOfReply(v.toClient, 10)
  <2>1. 4 \in Nat /\ 6 \in Nat /\ 4 + 6 <= 10 /\ 4 + 6 = 10
    OBVIOUS
  <2>2. RestOfReply(v.toClient, 4 + 6)
    BY <1>0, <1>1, <1>2, <2>1, RestRead, Zenon
  <2>3. QED BY <2>1, <2>2
<1>4. QED BY <1>1, <1>2, <1>3 DEF Talk, AskedFor, Helloing, Requesting

(* Whatever was read, the client may give up.                                   *)
LEMMA TalkGivenUp ==
  ASSUME NEW st, NEW n, NEW k, NEW v, NEW r, ReadsAll(st, n, v, r)
  PROVE  Talk("FREED", k, r)
<1>1. Sound(r)
  BY MessageRead
<1>2. QED BY <1>1 DEF Talk, Helloing, Requesting

-----------------------------------------------------------------------------
(* The server's steps.                                                       *)

ConnectsServer(st, n, v, r) ==
  /\ Talk(st, n, v) /\ st # "CONNECTING" /\ v.asked # NotAsked /\ ~v.closed
  /\ v.handler # "raw" /\ r = wsConnectedHandler(v)

LEMMA TalkServerConnected ==
  ASSUME NEW st, NEW n, NEW v, NEW r, ConnectsServer(st, n, v, r)
  PROVE  Talk(st, n, r) /\ r.got = v.got
<1> DEFINE q == write(v, Reply)
<1>0. /\ Talk(st, n, v) /\ st # "CONNECTING" /\ v.asked # NotAsked /\ ~v.closed
      /\ v.handler # "raw" /\ Sound(v) /\ v \in Conn
  BY DEF ConnectsServer, Talk, Sound
<1>1. r = [q EXCEPT !.handler = "raw"]
  BY Zenon DEF ConnectsServer, wsConnectedHandler
<1>2. Reply \in Seq(Symbol)
  BY ReplyBytes, SeqMonotonic DEF Symbol
<1>3. /\ q \in Conn /\ Kept(q, v) /\ q.toClient = v.toClient \o Reply
      /\ q.asked = v.asked /\ q.closed = v.closed
  BY <1>0, <1>2, WriteDone
<1> HIDE DEF q
<1>4. r \in Conn
  BY <1>1, <1>3, Zenon DEF Conn
<1>5. /\ r.handler = "raw" /\ r.toClient = v.toClient \o Reply /\ r.got = v.got
      /\ r.dest = v.dest /\ r.toServer = v.toServer /\ r.asked = v.asked
  BY <1>1, <1>3 DEF Conn, Kept
<1>6. Sound(r)
  BY <1>0, <1>4, <1>5 DEF Sound, AskedFor
<1>7. ~Greeted(n, v) /\ ~Unheard(st, n, v) /\ st # "UP"
  BY <1>0 DEF Greeted, Unheard, Talk
<1>8. CASE st \in Requesting
  <2>1. Heard(st, n, v)
    BY <1>0, <1>7, <1>8 DEF Talk
  <2>2. StreamOf(v) = <<>> /\ st # "RECEIVED_REPLY_HEADER"
    BY <1>0, <2>1 DEF Heard
  <2>3. v.got = <<>> /\ v.toClient = <<>>
    BY <1>0, <2>2, StreamEmpty
  <2>4. StreamOf(r) = <<>> \o (<<>> \o Reply)
    BY <1>5, <2>3, Zenon DEF StreamOf
  <2>5. StreamOf(r) = Reply
    BY <1>2, <2>4, StreamBegins
  <2>6. RestOfReply(Reply, 0)
    <3> DEFINE l == Len(Reply)
    <3>1. l = 10
      BY ReplyBytes
    <3> HIDE DEF l
    <3>2. ASSUME NEW i \in 1 .. l
          PROVE  Reply[i] = IF i + 0 <= 10 THEN Reply[i + 0] ELSE Payload
      <4>1. i + 0 = i /\ i <= 10
        BY <3>1
      <4>2. QED BY <4>1
    <3>3. l >= 10 - 0
      BY <3>1
    <3>4. QED BY <3>2, <3>3 DEF RestOfReply, l
  <2>7. RestOfReply(StreamOf(r), IF st = "RECEIVED_REPLY_HEADER" THEN 4 ELSE 0)
    BY <2>2, <2>5, <2>6
  <2>8. Heard(st, n, r)
    BY <1>5, <2>1, <2>7 DEF Heard, AskedFor
  <2>9. QED BY <1>0, <1>5, <1>6, <1>8, <2>8 DEF Talk, Helloing, Requesting
<1>9. CASE st \notin Requesting
  BY <1>0, <1>5, <1>6, <1>7, <1>9 DEF Talk
<1>10. QED BY <1>8, <1>9

FailsServer(st, n, v, r) ==
  /\ Talk(st, n, v) /\ st # "CONNECTING" /\ v.asked # NotAsked /\ ~v.closed
  /\ r = wsExceptionHandler(v)

LEMMA TalkServerFailed ==
  ASSUME NEW st, NEW n, NEW v, NEW r, FailsServer(st, n, v, r)
  PROVE  Talk(st, n, r) /\ r.got = v.got
<1>0. /\ Talk(st, n, v) /\ st # "CONNECTING" /\ v.asked # NotAsked /\ ~v.closed
      /\ Sound(v) /\ v \in Conn
  BY DEF FailsServer, Talk, Sound
<1>1. r = [v EXCEPT !.mapped = FALSE, !.closed = TRUE]
  BY Zenon DEF FailsServer, wsExceptionHandler
<1>2. TRUE \in BOOLEAN /\ FALSE \in BOOLEAN
  BY Zenon
<1>3. r \in Conn
  BY <1>0, <1>1, <1>2, Zenon DEF Conn
<1>4. /\ r.handler = v.handler /\ r.toClient = v.toClient /\ r.got = v.got
      /\ r.dest = v.dest /\ r.toServer = v.toServer /\ r.asked = v.asked /\ r.closed
  BY <1>0, <1>1 DEF Conn
<1>5. Sound(r)
  BY <1>0, <1>3, <1>4 DEF Sound
<1>6. ~Greeted(n, v) /\ ~Unheard(st, n, v)
  BY <1>0 DEF Greeted, Unheard
<1>7. StreamOf(r) = StreamOf(v)
  BY <1>4, StreamSame
<1>8. Heard(st, n, v) => Heard(st, n, r)
  BY <1>4, <1>7 DEF Heard, AskedFor
<1>9. QED BY <1>0, <1>4, <1>5, <1>6, <1>8 DEF Talk, AskedFor

SendsPayload(st, n, v, r) ==
  /\ Talk(st, n, v) /\ st # "CONNECTING" /\ v.asked # NotAsked /\ ~v.closed
  /\ v.handler = "raw" /\ r = write(v, <<Payload>>)

LEMMA TalkServerData ==
  ASSUME NEW st, NEW n, NEW v, NEW r, SendsPayload(st, n, v, r)
  PROVE  Talk(st, n, r) /\ r.got = v.got
<1> DEFINE b == <<Payload>>
<1>0. /\ Talk(st, n, v) /\ st # "CONNECTING" /\ v.asked # NotAsked /\ ~v.closed
      /\ v.handler = "raw" /\ Sound(v) /\ v \in Conn
  BY DEF SendsPayload, Talk, Sound
<1>1. r = write(v, b)
  BY Zenon DEF SendsPayload
<1>2. b \in Seq(Symbol) /\ Len(b) = 1 /\ b[1] = Payload
  BY DEF Symbol
<1> HIDE DEF b
<1>3. /\ r \in Conn /\ Kept(r, v) /\ r.toClient = v.toClient \o b
      /\ r.asked = v.asked /\ r.closed = v.closed
  BY <1>0, <1>1, <1>2, Wrote
<1>4. r.handler = "raw" /\ r.got = v.got /\ r.dest = v.dest /\ r.toServer = v.toServer
  BY <1>0, <1>3 DEF Kept
<1>5. Sound(r)
  BY <1>0, <1>3, <1>4 DEF Sound, AskedFor
<1>6. ~Greeted(n, v) /\ ~Unheard(st, n, v)
  BY <1>0 DEF Greeted, Unheard
<1>7. CASE st \in Requesting
  <2> DEFINE s == IF st = "RECEIVED_REPLY_HEADER" THEN 4 ELSE 0
             z == StreamOf(v)
             y == StreamOf(r)
  <2>1. Heard(st, n, v) /\ RestOfReply(z, s) /\ s \in Nat /\ s <= 10
    BY <1>0, <1>6, <1>7 DEF Talk, Heard
  <2>2. Written(v, r, b)
    BY <1>0, <1>2, <1>3, <1>4 DEF Written
  <2>3. z \in Seq(Symbol)
    BY <1>0, StreamSeq
  <2>4. /\ Len(y) = Len(z) + Len(b)
        /\ \A i \in 1 .. Len(z) : y[i] = z[i]
        /\ \A i \in 1 .. Len(b) : y[Len(z) + i] = b[i]
    BY <2>2, StreamGrows
  <2> HIDE DEF z, y, s
  <2>5. Len(y) = Len(z) + 1 /\ y[Len(z) + 1] = Payload
    BY <1>2, <2>4
  <2>6. RestOfReply(y, s)
    BY <2>1, <2>3, <2>4, <2>5, RestGrows
  <2>7. Heard(st, n, r)
    BY <1>4, <1>3, <2>1, <2>6 DEF Heard, AskedFor, y, s
  <2>8. QED BY <1>0, <1>4, <1>5, <1>7, <2>7 DEF Talk, Helloing, Requesting
<1>8. CASE st = "UP"
  <2> DEFINE z == v.toClient
             y == r.toClient
  <2>1. AskedFor(v) /\ v.got = <<>> /\ RestOfReply(z, 10) /\ z \in Seq(Symbol) /\ y = z \o b
    BY <1>0, <1>3, <1>8, ConnFields DEF Talk
  <2> HIDE DEF z, y
  <2>2. /\ Len(z \o b) = Len(z) + Len(b)
        /\ \A i \in 1 .. Len(z) + Len(b) : (z \o b)[i] = IF i <= Len(z) THEN z[i] ELSE b[i - Len(z)]
    BY <1>2, <2>1, Joined, Zenon
  <2>3. /\ Len(y) = Len(z) + 1
        /\ \A i \in 1 .. Len(z) + 1 : y[i] = IF i <= Len(z) THEN z[i] ELSE b[i - Len(z)]
    BY <1>2, <2>1, <2>2
  <2>4. Len(z) \in Nat
    BY <2>1, LenProperties
  <2>5. \A i \in 1 .. Len(z) : y[i] = z[i]
    BY <2>3, <2>4
  <2>6. y[Len(z) + 1] = Payload
    BY <1>2, <2>3, <2>4
  <2>7. 10 \in Nat /\ 10 <= 10
    OBVIOUS
  <2>8. RestOfReply(y, 10)
    <3>1. Len(y) = Len(z) + 1
      BY <2>3
    <3>2. QED BY <2>1, <2>5, <2>6, <2>7, <3>1, RestGrows, ZenonT(60)
  <2>9. QED BY <1>4, <1>3, <1>5, <1>8, <2>1, <2>8 DEF Talk, AskedFor, Helloing, Requesting, y
<1>9. CASE st \notin Requesting \cup {"UP"}
  <2>1. st \notin Requesting /\ st # "UP"
    BY <1>9
  <2>2. QED BY <1>0, <1>4, <1>5, <1>6, <2>1 DEF Talk
<1>10. QED BY <1>7, <1>8, <1>9

(* The client that is up sends payload.                                         *)
UpSends(n, v, r) == Talk("UP", n, v) /\ r = [v EXCEPT !.toServer = Append(v.toServer, Payload)]

LEMMA TalkClientData ==
  ASSUME NEW n, NEW v, NEW r, UpSends(n, v, r)
  PROVE  Talk("UP", n, r) /\ r.got = v.got
<1> DEFINE e == Append(v.toServer, Payload)
<1>0. /\ Talk("UP", n, v) /\ Sound(v) /\ v \in Conn /\ v.toServer \in Seq(Symbol)
  BY ConnFields DEF UpSends, Talk, Sound
<1>1. r = [v EXCEPT !.toServer = e]
  BY Zenon DEF UpSends
<1>2. e \in Seq(Symbol)
  <2>1. Payload \in Symbol
    BY DEF Symbol
  <2>2. QED BY <1>0, <2>1, AppendProperties
<1> HIDE DEF e
<1>3. r \in Conn
  BY <1>0, <1>1, <1>2, Zenon DEF Conn
<1>4. /\ r.handler = v.handler /\ r.toClient = v.toClient /\ r.got = v.got
      /\ r.dest = v.dest /\ r.asked = v.asked /\ r.closed = v.closed
  BY <1>0, <1>1 DEF Conn
<1>5. v.handler = "raw"
  BY <1>0 DEF Talk
<1>6. Sound(r)
  BY <1>0, <1>3, <1>4, <1>5 DEF Sound, AskedFor
<1>7. QED BY <1>0, <1>4, <1>6 DEF Talk, AskedFor, Helloing, Requesting

-----------------------------------------------------------------------------
(* The relay's step.                                                         *)

ReadsChunk(st, n, v, j, b, c, u, r) ==
  /\ Talk(st, n, v) /\ st \in Helloing \cup Requesting \cup {"UP"} /\ ~v.closed
  /\ j \in 1 .. Len(v.toServer) /\ b \in BOOLEAN
  /\ c = SubSeq(v.toServer, 1, j)
  /\ u = [v EXCEPT !.toServer = Cut(v.toServer, j), !.split = b]
  /\ r = IF v.handler = "raw" THEN u ELSE bufferHandler(u, c)

LEMMA TalkChunk ==
  ASSUME NEW st, NEW n, NEW v, NEW j, NEW b, NEW c, NEW u, NEW r,
         ReadsChunk(st, n, v, j, b, c, u, r)
  PROVE  Talk(st, n, r) /\ r.got = v.got
<1> DEFINE e == Cut(v.toServer, j)
<1>0. /\ Talk(st, n, v) /\ st \in Helloing \cup Requesting \cup {"UP"} /\ ~v.closed
      /\ j \in 1 .. Len(v.toServer) /\ b \in BOOLEAN /\ Sound(v) /\ v \in Conn
  BY DEF ReadsChunk, Talk, Sound
<1>1. v.toServer \in Seq(Symbol) /\ v.toServer # <<>>
  <2>1. v.toServer \in Seq(Symbol)
    BY <1>0, ConnFields
  <2>2. Len(v.toServer) # 0
    BY <1>0, <2>1, LenProperties
  <2>3. QED BY <2>1, <2>2, EmptyBytes
<1>2. ~Heard(st, n, v)
  BY <1>1 DEF Heard
<1>3. CASE st \in Helloing
  <2>1. Greeted(n, v)
    BY <1>0, <1>3 DEF Talk
  <2>2. Travels(Hello, n, v.toServer) /\ v.handler = "bufferHandler"
    BY <1>1, <2>1 DEF Greeted
  <2>3. Piece(v, Hello, n, j, b, c, u)
    <3>1. Hello \in Seq(Byte)
      BY HelloBytes
    <3>2. QED BY <1>0, <2>2, <3>1, Zenon DEF Piece, ReadsChunk
  <2>4. r = bufferHandler(u, c)
    <3>1. v.handler # "raw"
      BY <2>2
    <3>2. QED BY <3>1, Zenon DEF ReadsChunk
  <2>5. r \in Conn /\ Kept(r, u) /\ Greeted(n, r)
    BY <1>0, <1>1, <2>1, <2>3, <2>4, HelloChunk, Zenon
  <2>6. PieceFacts(v, Hello, n, j, c, u, Position(n, v))
    BY <2>3, ChunkOf
  <2>7. /\ r.got = v.got /\ (v.toServer \in Seq(Byte) => r.toServer \in Seq(Byte))
        /\ r.handler = v.handler
    BY <2>5, <2>6, Zenon DEF PieceFacts, Kept
  <2>8. r.asked = NotAsked \/ r.closed
    BY <2>5 DEF Greeted
  <2>9. Sound(r)
    BY <1>0, <2>2, <2>5, <2>7, <2>8 DEF Sound
  <2>10. QED BY <1>0, <1>3, <2>5, <2>7, <2>9 DEF Talk, Helloing, Requesting
<1>4. CASE st \in Requesting
  <2>1. Unheard(st, n, v)
    BY <1>0, <1>2, <1>4 DEF Talk
  <2>2. Travels(RequestTo(v.dest), n, v.toServer) /\ v.handler = "bufferHandler"
    BY <2>1 DEF Unheard
  <2>3. Piece(v, RequestTo(v.dest), n, j, b, c, u)
    <3>1. RequestTo(v.dest) \in Seq(Byte)
      BY <1>0, ConnFields, RequestBytes
    <3>2. QED BY <1>0, <2>2, <3>1, Zenon DEF Piece, ReadsChunk
  <2>4. r = bufferHandler(u, c)
    <3>1. v.handler # "raw"
      BY <2>2
    <3>2. QED BY <3>1, Zenon DEF ReadsChunk
  <2>5. /\ r \in Conn /\ Kept(r, u) /\ (Unheard(st, n, r) \/ Heard(st, n, r))
        /\ (r.asked # NotAsked /\ ~r.closed => AskedFor(r))
    BY <1>0, <2>1, <2>3, <2>4, RequestChunk, Zenon
  <2>6. PieceFacts(v, RequestTo(v.dest), n, j, c, u, Position(n, v))
    BY <2>3, ChunkOf
  <2>7. /\ r.got = v.got /\ (v.toServer \in Seq(Byte) => r.toServer \in Seq(Byte))
        /\ r.handler = v.handler
    BY <2>5, <2>6, Zenon DEF PieceFacts, Kept
  <2>8. Sound(r)
    BY <1>0, <2>2, <2>5, <2>7 DEF Sound
  <2>9. QED BY <1>0, <1>4, <2>5, <2>7, <2>8 DEF Talk, Helloing, Requesting
<1>5. CASE st = "UP"
  <2>1. v.handler = "raw"
    BY <1>0, <1>5 DEF Talk
  <2>2. r = [v EXCEPT !.toServer = e, !.split = b]
    BY <2>1, Zenon DEF ReadsChunk
  <2>3. e \in Seq(Symbol)
    <3>1. j \in 0 .. Len(v.toServer)
      BY <1>0, <1>1, LenProperties
    <3>2. QED BY <1>1, <3>1, TakeCut, Zenon
  <2> HIDE DEF e
  <2>4. r \in Conn
    BY <1>0, <2>2, <2>3, Zenon DEF Conn
  <2>5. /\ r.handler = v.handler /\ r.toClient = v.toClient /\ r.got = v.got
        /\ r.dest = v.dest /\ r.asked = v.asked /\ r.closed = v.closed
    BY <1>0, <2>2 DEF Conn
  <2>6. Sound(r)
    BY <1>0, <2>1, <2>4, <2>5 DEF Sound, AskedFor
  <2>7. QED BY <1>0, <1>5, <2>5, <2>6 DEF Talk, AskedFor, Helloing, Requesting
<1>6. QED BY <1>0, <1>3, <1>4, <1>5

-----------------------------------------------------------------------------
(* The struct and the connection together.                                   *)

(* How much of the message of this phase the client has sent.                   *)
Said(p) == IF p.state \in Sending THEN p.send_len - p.send_left
           ELSE IF p.state \in Helloing THEN HelloLen ELSE RequestLen

(* The sizes of what is sent and received in each state.                        *)
Sizes(p, l) ==
  /\ p.state = "SENDING_HELLO" => p.send_len = HelloLen
  /\ p.state = "SENDING_REQUEST" => p.send_len = RequestLen
  /\ p.state = "SENT_HELLO" => p.recv_total = 2
  /\ p.state = "SENT_REQUEST" => p.recv_total = 4
  /\ p.state = "RECEIVED_REPLY_HEADER" => p.recv_total = 6
  /\ p.state # "FREED" => l = (IF p.state \in Receiving THEN p.recv_len ELSE 0)

Agree(p, v) == Talk(p.state, Said(p), v) /\ Sizes(p, Len(v.got))

(* The handlers once more: what they leave to be sent or received.              *)
Hands(r, s, len) == r.state = s /\ r.send_len = len /\ r.send_left = len
Awaits(r, s, total) == r.state = s /\ r.recv_total = total /\ r.recv_len = 0

LEMMA StartSendSizes ==
  ASSUME NEW p \in Struct, NEW len, NEW s
  PROVE  Hands(start_send(p, len, s), s, len)
  BY DEF Struct, start_send, Hands

LEMMA StartReceiveSizes ==
  ASSUME NEW p \in Struct, NEW size, NEW off, NEW total, NEW s
  PROVE  Awaits(start_receive(p, size, off, total, s), s, total)
  BY DEF Struct, start_receive, Awaits

LEMMA ConnectorOutcome ==
  ASSUME NEW p, Good(p), p.state = "CONNECTING", NEW connected, NEW inited, NEW mem
  PROVE  LET r == connector_handler(p, connected, inited, mem)
         IN  r.state = "FREED" \/ Hands(r, "SENDING_HELLO", HelloLen)
<1> DEFINE q == [p EXCEPT !.con = @ + 1, !.control_io = @ + 1]
           r == connector_handler(p, connected, inited, mem)
           s == start_send(q, HelloLen, "SENDING_HELLO")
<1>1. r.state \in {"FREED", "SENDING_HELLO"}
  BY ConnectorHandler
<1>2. q \in Struct
  <2>1. p.con + 1 \in Int /\ p.control_io + 1 \in Int
    BY DEF Good, Struct
  <2>2. QED BY <2>1, Zenon DEF Good, Struct
<1>3. Hands(s, "SENDING_HELLO", HelloLen)
  BY <1>2, StartSendSizes, Zenon
<1>4. r = s \/ r.state = "FREED"
  <2>1. CASE connected /\ inited /\ num_auth_info # 0 /\ mem
    BY <2>1, Zenon DEF connector_handler, HelloLen
  <2>2. CASE ~(connected /\ inited /\ num_auth_info # 0 /\ mem)
    <3> DEFINE f == BConnection_Free(free_control_io(q))
    <3>1. r = report_error(p) \/ r = report_error(f)
      BY <2>2, Zenon DEF connector_handler
    <3>2. report_error(p).state = "FREED" /\ report_error(f).state = "FREED"
      <4>1. Owned(p)
        BY GoodOwned
      <4>2. report_error(p).state = "FREED"
        BY <4>1, FreeOwned DEF Released
      <4>3. f \in Struct /\ f.state = "CONNECTING"
        <5>0. /\ q.state = "CONNECTING"
          BY DEF Good, Struct
        <5> HIDE DEF q
        <5>1. q.con - 1 \in Int /\ q.control_io - 1 \in Int /\ 0 \in Nat
          BY <1>2 DEF Struct
        <5>2. f \in Struct
          BY <1>2, <5>1, Zenon DEF free_control_io, BConnection_Free, Struct
        <5>3. QED BY <1>2, <5>0, <5>2 DEF free_control_io, BConnection_Free, Struct
      <4> HIDE DEF f
      <4>4. report_error(f).state = "FREED"
        BY <4>3 DEF report_error, BSocksClient_Free, Struct
      <4>5. QED BY <4>2, <4>4
    <3>3. QED BY <3>1, <3>2
  <2>3. QED BY <2>1, <2>2
<1>5. QED BY <1>3, <1>4

LEMMA SendOutcome ==
  ASSUME NEW p, Good(p), p.state \in {"SENDING_HELLO", "SENDING_REQUEST"}, p.send_left = 0, NEW mem
  PROVE  LET r == send_handler_done(p, mem)
         IN  \/ r.state = "FREED"
             \/ p.state = "SENDING_HELLO" /\ Awaits(r, "SENT_HELLO", 2)
             \/ p.state = "SENDING_REQUEST" /\ Awaits(r, "SENT_REQUEST", 4)
<1> DEFINE q == [p EXCEPT !.send_len = 0]
           r == send_handler_done(p, mem)
<1>1. q \in Struct /\ q.state = p.state
  <2>1. 0 \in Nat OBVIOUS
  <2>2. q \in Struct
    BY <2>1, Zenon DEF Good, Struct
  <2>3. QED BY <2>2 DEF Good, Struct
<1> HIDE DEF q
<1>2. CASE ~mem
  <2>1. r = report_error(q)
    BY <1>2 DEF send_handler_done, q
  <2>2. report_error(q).state = "FREED"
    BY <1>1 DEF report_error, BSocksClient_Free, BConnection_Free, free_control_io, free_up_io, Struct
  <2>3. QED BY <2>1, <2>2
<1>3. CASE mem /\ p.state = "SENDING_HELLO"
  <2>1. r = start_receive(q, 2, 0, 2, "SENT_HELLO")
    BY <1>1, <1>3 DEF send_handler_done, q, HelloReplyLen
  <2>2. QED BY <1>1, <1>3, <2>1, StartReceiveSizes
<1>4. CASE mem /\ p.state = "SENDING_REQUEST"
  <2>1. r = start_receive(q, ReplyHeaderLen + AddrLen.ipv6, 0, 4, "SENT_REQUEST")
    BY <1>1, <1>4 DEF send_handler_done, q, ReplyHeaderLen
  <2>2. QED BY <1>1, <1>4, <2>1, StartReceiveSizes
<1>5. QED BY <1>2, <1>3, <1>4

LEMMA RecvOutcome ==
  ASSUME NEW p, Good(p), p.state \in {"SENT_HELLO", "SENT_REQUEST", "RECEIVED_REPLY_HEADER"},
         NEW a, NEW mem
  PROVE  LET r == recv_handler_done(p, a, mem)
         IN  \/ r.state = "FREED"
             \/ /\ p.state = "SENT_HELLO" /\ a = "password"
             \/ /\ p.state = "SENT_HELLO" /\ a = "none"
                /\ Hands(r, "SENDING_REQUEST", RequestLen)
             \/ /\ p.state = "SENT_REQUEST" /\ a \in {"ipv4", "ipv6"}
                /\ Awaits(r, "RECEIVED_REPLY_HEADER", AddrLen[a])
             \/ p.state = "RECEIVED_REPLY_HEADER" /\ r.state = "UP"
<1> DEFINE q == [p EXCEPT !.recv_total = 0]
           r == recv_handler_done(p, a, mem)
<1>1. q \in Struct /\ q.state = p.state
  <2>1. 0 \in Nat OBVIOUS
  <2>2. q \in Struct
    BY <2>1, Zenon DEF Good, Struct
  <2>3. QED BY <2>2 DEF Good, Struct
<1> HIDE DEF q
<1>2. report_error(q).state = "FREED"
  BY <1>1 DEF report_error, BSocksClient_Free, BConnection_Free, free_control_io, free_up_io, Struct
<1>3. CASE p.state = "SENT_HELLO" /\ a # "password"
  <2>1. r = report_error(q) \/ (a = "none" /\ r = start_send(q, RequestLen, "SENDING_REQUEST"))
    BY <1>1, <1>3 DEF recv_handler_done, auth_finished, q, RequestLen
  <2>2. QED BY <1>1, <1>2, <1>3, <2>1, StartSendSizes
<1>4. CASE p.state = "SENT_REQUEST"
  <2>1. \/ r = report_error(q)
        \/ /\ a \in {"ipv4", "ipv6"}
           /\ r = start_receive(q, q.buffer, ReplyHeaderLen, AddrLen[a], "RECEIVED_REPLY_HEADER")
    BY <1>1, <1>4 DEF recv_handler_done, q
  <2>2. QED BY <1>1, <1>2, <1>4, <2>1, StartReceiveSizes
<1>5. CASE p.state = "RECEIVED_REPLY_HEADER"
  <2> DEFINE f == free_control_io(q)
  <2>1. r = [f EXCEPT !.buffer = 0, !.up_io = @ + 1, !.state = "UP"]
    BY <1>1, <1>5 DEF recv_handler_done, q
  <2>2. r.state = "UP"
    BY <1>1, <2>1 DEF free_control_io, Struct
  <2>3. QED BY <1>5, <2>2
<1>6. QED BY <1>3, <1>4, <1>5

-----------------------------------------------------------------------------
(* Every step of the dialogue keeps the agreement, and is a step of the         *)
(* client or leaves it alone.                                                   *)

Dialogue == Agree(o, w)

LEMMA ClientStep == DialogueNext => [Next]_o
<1> SUFFICES ASSUME DialogueNext PROVE [Next]_o
  OBVIOUS
<1>1. CASE Begin \/ Connects \/ Sent \/ Fails \/ MeetsEnd
  BY <1>1 DEF Begin, Connects, Sent, Fails, MeetsEnd, Next
<1>2. CASE ReadDone
  <2>1. AnswerRead \in Answer
    BY DEF AnswerRead, Answer
  <2>2. PICK mem \in BOOLEAN : RecvDone(AnswerRead, mem)
    BY <1>2 DEF ReadDone
  <2> DEFINE a == AnswerRead
  <2> HIDE DEF a
  <2>3. a \in Answer /\ RecvDone(a, mem)
    BY <2>1, <2>2 DEF a
  <2>4. QED BY <2>3 DEF Next
<1>3. CASE ServerConnected \/ ServerFailed \/ ServerData \/ ClientData
  BY <1>3 DEF ServerConnected, ServerFailed, ServerData, ClientData
<1>4. CASE \E n \in 1 .. o.send_left : Sends(n)
  BY <1>4 DEF Sends, Next
<1>5. CASE \E n \in 1 .. o.recv_total - o.recv_len : Reads(n)
  BY <1>5 DEF Reads, Next
<1>6. CASE \E n \in 1 .. Len(w.toServer) : Chunk(n)
  BY <1>6 DEF Chunk
<1>7. QED BY <1>1, <1>2, <1>3, <1>4, <1>5, <1>6 DEF DialogueNext

(* A client that is freed keeps its connection as it was left.                  *)
LEMMA AgreeFreed ==
  ASSUME NEW p, NEW v, p.state = "FREED", Talk("FREED", 0, v)
  PROVE  Agree(p, v)
<1>1. Talk("FREED", Said(p), v)
  BY TalkFreed, Zenon
<1>2. Sizes(p, Len(v.got))
  BY DEF Sizes
<1>3. QED BY <1>1, <1>2 DEF Agree

(* A step of the relay or the server alone.                                     *)
LEMMA AgreeSame ==
  ASSUME NEW p, NEW v, NEW r, Agree(p, v), Talk(p.state, Said(p), r), r.got = v.got
  PROVE  Agree(p, r)
  BY DEF Agree

LEMMA AgreeBegins ==
  ASSUME NEW p, NEW d \in Addresses, p.state = "CONNECTING"
  PROVE  Agree(p, Fresh(d))
<1>1. Talk("CONNECTING", Said(p), Fresh(d))
  BY TalkBegins
<1>2. Len(Fresh(d).got) = 0
  BY DEF Fresh
<1>3. Sizes(p, Len(Fresh(d).got))
  BY <1>2 DEF Sizes, Receiving
<1>4. QED BY <1>1, <1>3 DEF Agree

LEMMA AgreeConnects ==
  ASSUME NEW p, NEW r, NEW v, Agree(p, v), p.state = "CONNECTING",
         r.state = "FREED" \/ Hands(r, "SENDING_HELLO", HelloLen)
  PROVE  Agree(r, v)
<1>1. Talk("CONNECTING", Said(p), v)
  BY DEF Agree
<1>2. CASE r.state = "FREED"
  BY <1>1, <1>2, TalkFreed, AgreeFreed
<1>3. CASE Hands(r, "SENDING_HELLO", HelloLen)
  <2>1. Talk("SENDING_HELLO", 0, v) /\ v.got = <<>>
    BY <1>1, TalkConnects
  <2>2. r.state = "SENDING_HELLO" /\ r.send_len = HelloLen /\ r.send_left = HelloLen
    BY <1>3 DEF Hands
  <2>3. HelloLen \in Nat
    BY HelloBytes
  <2>4. Said(r) = 0
    BY <2>2, <2>3 DEF Said, Sending
  <2>5. Len(v.got) = 0
    BY <2>1
  <2>6. Sizes(r, Len(v.got))
    BY <2>2, <2>5 DEF Sizes, Receiving
  <2>7. QED BY <2>1, <2>2, <2>4, <2>6 DEF Agree
<1>4. QED BY <1>2, <1>3

(* The struct while a message is sent or received.                              *)
LEMMA SendingSizes ==
  ASSUME NEW p, Good(p), NEW l, Sizes(p, l), p.state \in {"SENDING_HELLO", "SENDING_REQUEST"}
  PROVE  /\ p.send_len \in Nat /\ p.send_left \in Nat /\ p.send_left <= p.send_len
         /\ Said(p) = p.send_len - p.send_left /\ Said(p) \in Nat /\ l = 0
         /\ p.send_len = IF p.state = "SENDING_HELLO" THEN HelloLen ELSE RequestLen
<1>1. p.send_len \in Nat /\ p.send_left \in Nat /\ p.send_left <= p.send_len
  BY DEF Good, Struct
<1>2. Said(p) = p.send_len - p.send_left
  BY DEF Said, Sending
<1>3. QED BY <1>1, <1>2 DEF Sizes, Receiving

LEMMA AgreeSends ==
  ASSUME NEW p, NEW q, NEW v, NEW r, NEW j, Good(p), Agree(p, v),
         p.state \in {"SENDING_HELLO", "SENDING_REQUEST"}, j \in Nat, j >= 1, j <= p.send_left,
         q.state = p.state, q.send_len = p.send_len, q.send_left = p.send_left - j,
         SendsMore(p.state, Said(p), v, j, r)
  PROVE  Agree(q, r)
<1>1. /\ p.send_len \in Nat /\ p.send_left \in Nat /\ p.send_left <= p.send_len
      /\ Said(p) = p.send_len - p.send_left /\ Len(v.got) = 0
  BY SendingSizes DEF Agree
<1>2. Said(q) = Said(p) + j
  <2>1. Said(q) = q.send_len - q.send_left
    BY DEF Said, Sending
  <2>2. QED BY <1>1, <2>1
<1>3. Talk(p.state, Said(p) + j, r) /\ r.got = v.got
  BY TalkSends
<1>4. Sizes(q, Len(r.got))
  BY <1>1, <1>3 DEF Agree, Sizes, Receiving
<1>5. QED BY <1>2, <1>3, <1>4 DEF Agree

LEMMA AgreeSent ==
  ASSUME NEW p, NEW r, NEW v, Good(p), Agree(p, v), p.send_left = 0,
         p.state \in {"SENDING_HELLO", "SENDING_REQUEST"},
         \/ r.state = "FREED"
         \/ p.state = "SENDING_HELLO" /\ Awaits(r, "SENT_HELLO", 2)
         \/ p.state = "SENDING_REQUEST" /\ Awaits(r, "SENT_REQUEST", 4)
  PROVE  Agree(r, v)
<1>1. Talk(p.state, Said(p), v) /\ Sizes(p, Len(v.got))
  BY DEF Agree
<1>2. /\ Said(p) = (IF p.state = "SENDING_HELLO" THEN HelloLen ELSE RequestLen)
      /\ Len(v.got) = 0
  BY <1>1, SendingSizes
<1>3. CASE r.state = "FREED"
  BY <1>1, <1>3, TalkFreed, AgreeFreed
<1>4. CASE p.state = "SENDING_HELLO" /\ Awaits(r, "SENT_HELLO", 2)
  <2>1. r.state = "SENT_HELLO" /\ r.recv_total = 2 /\ r.recv_len = 0
    BY <1>4 DEF Awaits
  <2>2. Said(r) = HelloLen
    BY <2>1 DEF Said, Sending, Helloing
  <2>3. Talk("SENT_HELLO", HelloLen, v)
    BY <1>1, <1>2, <1>4, TalkSent
  <2>4. Sizes(r, Len(v.got))
    BY <1>2, <2>1 DEF Sizes, Receiving
  <2>5. QED BY <2>1, <2>2, <2>3, <2>4 DEF Agree
<1>5. CASE p.state = "SENDING_REQUEST" /\ Awaits(r, "SENT_REQUEST", 4)
  <2>1. r.state = "SENT_REQUEST" /\ r.recv_total = 4 /\ r.recv_len = 0
    BY <1>5 DEF Awaits
  <2>2. Said(r) = RequestLen
    BY <2>1 DEF Said, Sending, Helloing
  <2>3. Talk("SENT_REQUEST", RequestLen, v)
    BY <1>1, <1>2, <1>5, TalkSent
  <2>4. Sizes(r, Len(v.got))
    BY <1>2, <2>1 DEF Sizes, Receiving
  <2>5. QED BY <2>1, <2>2, <2>3, <2>4 DEF Agree
<1>6. QED BY <1>3, <1>4, <1>5

LEMMA AgreeReads ==
  ASSUME NEW p, NEW q, NEW v, NEW r, NEW j, Agree(p, v),
         p.state \in {"SENT_HELLO", "SENT_REQUEST", "RECEIVED_REPLY_HEADER"},
         q.state = p.state, q.recv_total = p.recv_total, q.recv_len = p.recv_len + j,
         ReadsMore(p.state, Said(p), v, j, r)
  PROVE  Agree(q, r)
<1>1. Talk(p.state, Said(p), r) /\ Len(r.got) = Len(v.got) + j
  BY TalkReads
<1>2. Said(q) = Said(p)
  BY DEF Said, Sending
<1>3. Len(v.got) = p.recv_len
  BY DEF Agree, Sizes, Receiving
<1>4. Sizes(q, Len(r.got))
  BY <1>1, <1>3 DEF Agree, Sizes, Receiving
<1>5. QED BY <1>1, <1>2, <1>4 DEF Agree

LEMMA AgreeAnswered ==
  ASSUME NEW p, NEW q, NEW v, NEW r, Agree(p, v), ReadsAll(p.state, Said(p), v, r),
         p.state \in {"SENT_HELLO", "SENT_REQUEST", "RECEIVED_REPLY_HEADER"},
         NEW a, a = AnswerOf(p.state, v.got),
         \/ q.state = "FREED"
         \/ /\ p.state = "SENT_HELLO" /\ a = "password"
         \/ /\ p.state = "SENT_HELLO" /\ a = "none"
            /\ Hands(q, "SENDING_REQUEST", RequestLen)
         \/ /\ p.state = "SENT_REQUEST" /\ a \in {"ipv4", "ipv6"}
            /\ Awaits(q, "RECEIVED_REPLY_HEADER", AddrLen[a])
         \/ p.state = "RECEIVED_REPLY_HEADER" /\ q.state = "UP"
  PROVE  Agree(q, r)
<1>0. r.got = <<>> /\ Len(r.got) = 0
  BY MessageRead, EmptyBytes
<1>1. CASE q.state = "FREED"
  BY <1>1, TalkGivenUp, AgreeFreed
<1>2. CASE p.state = "SENT_HELLO" /\ q.state # "FREED"
  <2>1. AnswerOf("SENT_HELLO", v.got) = "none" /\ Talk("SENDING_REQUEST", 0, r)
    BY <1>2, TalkHelloAnswered
  <2>2. Hands(q, "SENDING_REQUEST", RequestLen)
    BY <1>2, <2>1
  <2>3. q.state = "SENDING_REQUEST" /\ q.send_len = RequestLen /\ q.send_left = RequestLen
    BY <2>2 DEF Hands
  <2>4. RequestLen \in Nat
    BY SocksAssumption DEF RequestLen, AddrLen
  <2>5. Said(q) = 0
    BY <2>3, <2>4 DEF Said, Sending
  <2>6. Sizes(q, Len(r.got))
    BY <1>0, <2>3 DEF Sizes, Receiving
  <2>7. QED BY <2>1, <2>3, <2>5, <2>6 DEF Agree
<1>3. CASE p.state = "SENT_REQUEST" /\ q.state # "FREED"
  <2>1. Said(p) = RequestLen /\ Talk("SENT_REQUEST", RequestLen, v)
        /\ ReadsAll("SENT_REQUEST", RequestLen, v, r)
    BY <1>3 DEF Agree, Said, Sending, Helloing
  <2>2. a \in {"ipv4", "ipv6"} /\ Awaits(q, "RECEIVED_REPLY_HEADER", AddrLen[a])
    BY <1>3
  <2>3. ~Unheard("SENT_REQUEST", RequestLen, v)
    BY <1>3, <2>1, <2>2, TalkRequestRefused
  <2>4. Heard("SENT_REQUEST", RequestLen, v)
    BY <2>1, <2>3 DEF Talk, Requesting
  <2>5. a = "ipv4" /\ Talk("RECEIVED_REPLY_HEADER", RequestLen, r)
    BY <1>3, <2>1, <2>4, TalkRequestAnswered
  <2>6. q.state = "RECEIVED_REPLY_HEADER" /\ q.recv_total = 6 /\ q.recv_len = 0
    BY <2>2, <2>5 DEF Awaits, AddrLen
  <2>7. Said(q) = RequestLen
    BY <2>6 DEF Said, Sending, Helloing
  <2>8. Sizes(q, Len(r.got))
    BY <1>0, <2>6 DEF Sizes, Receiving
  <2>9. QED BY <2>5, <2>6, <2>7, <2>8 DEF Agree
<1>4. CASE p.state = "RECEIVED_REPLY_HEADER" /\ q.state # "FREED"
  <2>1. q.state = "UP"
    BY <1>4
  <2>2. Talk("UP", Said(q), r)
    BY <1>4, TalkUp
  <2>3. Sizes(q, Len(r.got))
    BY <1>0, <2>1 DEF Sizes, Receiving
  <2>4. QED BY <2>1, <2>2, <2>3 DEF Agree
<1>5. QED BY <1>1, <1>2, <1>3, <1>4

LEMMA DialogueBegins == DialogueInit => IInv /\ Dialogue
<1> SUFFICES ASSUME DialogueInit PROVE IInv /\ Dialogue
  OBVIOUS
<1>1. Init
  BY DEF DialogueInit
<1>2. IInv
  BY <1>1, InitStep
<1>3. o.state = "FREED"
  BY <1>1 DEF Init, Nothing
<1>4. PICK d \in Addresses : w = Fresh(d)
  BY DEF DialogueInit
<1>5. Talk("FREED", 0, w)
  BY <1>4, TalkBegins
<1>6. QED BY <1>2, <1>3, <1>5, AgreeFreed DEF Dialogue

(* The states in which the connection is in use.                                *)
LEMMA LiveStates ==
  ASSUME IInv, Dialogue, Live
  PROVE  o.state \in Helloing \cup Requesting \cup {"UP"} /\ o.state # "CONNECTING"
<1>1. o.state \in State
  BY DEF IInv, TypeOK, Struct
<1>2. o.state \notin {"SENDING_PASSWORD", "SENT_PASSWORD"}
  BY DEF Dialogue, Agree, Talk
<1>3. QED BY <1>1, <1>2 DEF Live, State, Sending, Receiving, Helloing, Requesting

LEMMA DialogueStep ==
  ASSUME IInv, Dialogue, DialogueNext
  PROVE  Dialogue'
<1> DEFINE st == o.state
           n == Said(o)
<1>0. Good(o) /\ o \in Struct /\ Agree(o, w) /\ Talk(st, n, w) /\ Sizes(o, Len(w.got))
  BY GoodIsIInv DEF Good, Dialogue, Agree
<1>s. st \in State /\ st \notin {"SENDING_PASSWORD", "SENT_PASSWORD"}
  BY <1>0 DEF Struct, Talk
<1>q. ASSUME UNCHANGED o, Talk(st, n, w'), w'.got = w.got PROVE Dialogue'
  <2>1. Agree(o, w')
    BY <1>0, <1>q, AgreeSame
  <2>2. QED BY <1>q, <2>1 DEF Dialogue
<1>1. CASE Begin
  <2>1. PICK d \in Addresses : w' = Fresh(d)
    BY <1>1 DEF Begin
  <2>2. o'.state = "CONNECTING"
    BY <1>0, <1>1 DEF Begin, Open, Struct
  <2>3. QED BY <2>1, <2>2, AgreeBegins DEF Dialogue
<1>2. CASE Connects
  <2>1. PICK c, i, mem \in BOOLEAN : Connected(c, i, mem)
    BY <1>2 DEF Connects
  <2>2. st = "CONNECTING" /\ o' = connector_handler(o, c, i, mem) /\ w' = w
    BY <1>2, <2>1 DEF Connects, Connected
  <2>3. o'.state = "FREED" \/ Hands(o', "SENDING_HELLO", HelloLen)
    BY <1>0, <2>2, ConnectorOutcome
  <2>4. QED BY <1>0, <2>2, <2>3, AgreeConnects DEF Dialogue
<1>3. CASE Sent
  <2>1. PICK mem \in BOOLEAN : SendDone(mem)
    BY <1>3 DEF Sent
  <2>2. /\ o.send_len > 0 /\ o.send_left = 0 /\ o' = send_handler_done(o, mem) /\ w' = w
    BY <1>3, <2>1 DEF Sent, SendDone
  <2>3. st \in {"SENDING_HELLO", "SENDING_REQUEST"}
    BY <1>0, <1>s, <2>2 DEF Good, Sending
  <2>4. \/ o'.state = "FREED"
        \/ o.state = "SENDING_HELLO" /\ Awaits(o', "SENT_HELLO", 2)
        \/ o.state = "SENDING_REQUEST" /\ Awaits(o', "SENT_REQUEST", 4)
    BY <1>0, <2>2, <2>3, SendOutcome
  <2>5. Agree(o', w)
    BY <1>0, <2>2, <2>3, <2>4, AgreeSent
  <2>6. QED BY <2>2, <2>5 DEF Dialogue
<1>4. CASE ReadDone
  <2> DEFINE a == AnswerOf(st, w.got)
  <2>1. PICK mem \in BOOLEAN : RecvDone(AnswerRead, mem)
    BY <1>4 DEF ReadDone
  <2>2. AnswerRead = a
    BY DEF AnswerRead, AnswerOf
  <2>3. o.recv_total > 0 /\ o.recv_len = o.recv_total /\ o' = recv_handler_done(o, a, mem)
    BY <2>1, <2>2 DEF RecvDone
  <2>4. w' = [w EXCEPT !.got = <<>>]
    BY <1>4 DEF ReadDone
  <2>5. st \in {"SENT_HELLO", "SENT_REQUEST", "RECEIVED_REPLY_HEADER"}
    BY <1>0, <1>s, <2>3 DEF Good, Receiving
  <2>6. Len(w.got) = (CASE st = "SENT_HELLO" -> 2 [] st = "SENT_REQUEST" -> 4 [] OTHER -> 6)
    BY <1>0, <2>3, <2>5 DEF Sizes, Receiving
  <2>7. ReadsAll(st, n, w, w')
    BY <1>0, <2>4, <2>6, Zenon DEF ReadsAll
  <2> HIDE DEF a
  <2>8. \/ o'.state = "FREED"
        \/ /\ o.state = "SENT_HELLO" /\ a = "password"
        \/ /\ o.state = "SENT_HELLO" /\ a = "none"
           /\ Hands(o', "SENDING_REQUEST", RequestLen)
        \/ /\ o.state = "SENT_REQUEST" /\ a \in {"ipv4", "ipv6"}
           /\ Awaits(o', "RECEIVED_REPLY_HEADER", AddrLen[a])
        \/ o.state = "RECEIVED_REPLY_HEADER" /\ o'.state = "UP"
    BY <1>0, <2>3, <2>5, RecvOutcome
  <2>9. a = AnswerOf(o.state, w.got)
    BY DEF a
  <2>10. Agree(o', w')
    BY <1>0, <2>5, <2>7, <2>8, <2>9, AgreeAnswered
  <2>11. QED BY <2>10 DEF Dialogue
<1>5. CASE Fails \/ MeetsEnd
  <2>1. st # "FREED" /\ (o' = report_error(o) \/ o' = BSocksClient_Free(o)) /\ w' = w
    BY <1>5 DEF Fails, MeetsEnd, ConnectionFails, Free
  <2>2. o'.state = "FREED"
    BY <1>0, <2>1, GoodOwned, FreeOwned DEF Released
  <2>3. Talk("FREED", 0, w)
    BY <1>0, TalkFreed
  <2>4. QED BY <2>1, <2>2, <2>3, AgreeFreed DEF Dialogue
<1>6. CASE ServerConnected
  <2>1. st # "CONNECTING"
    BY <1>6 DEF ServerConnected, Live
  <2>2. ConnectsServer(st, n, w, w')
    BY <1>0, <1>6, <2>1, Zenon DEF ServerConnected, ConnectsServer
  <2>3. Talk(st, n, w') /\ w'.got = w.got
    BY <2>2, TalkServerConnected
  <2>4. QED BY <1>q, <1>6, <2>3 DEF ServerConnected
<1>7. CASE ServerFailed
  <2>1. st # "CONNECTING"
    BY <1>7 DEF ServerFailed, Live
  <2>2. FailsServer(st, n, w, w')
    BY <1>0, <1>7, <2>1, Zenon DEF ServerFailed, FailsServer
  <2>3. Talk(st, n, w') /\ w'.got = w.got
    BY <2>2, TalkServerFailed
  <2>4. QED BY <1>q, <1>7, <2>3 DEF ServerFailed
<1>8. CASE ServerData
  <2>1. st # "CONNECTING"
    BY <1>8 DEF ServerData, Live
  <2>2. SendsPayload(st, n, w, w')
    BY <1>0, <1>8, <2>1, Zenon DEF ServerData, SendsPayload
  <2>3. Talk(st, n, w') /\ w'.got = w.got
    BY <2>2, TalkServerData
  <2>4. QED BY <1>q, <1>8, <2>3 DEF ServerData
<1>9. CASE ClientData
  <2>1. st = "UP" /\ w' = [w EXCEPT !.toServer = Append(w.toServer, Payload)]
    BY <1>9, Zenon DEF ClientData
  <2>2. UpSends(n, w, w')
    BY <1>0, <2>1, Zenon DEF UpSends
  <2>3. Talk(st, n, w') /\ w'.got = w.got
    BY <2>1, <2>2, TalkClientData
  <2>4. QED BY <1>q, <1>9, <2>3 DEF ClientData
<1>10. ASSUME NEW j \in 1 .. o.send_left, Sends(j) PROVE Dialogue'
  <2>1. /\ o.send_len > 0 /\ 0 < j /\ j <= o.send_left
        /\ o' = [o EXCEPT !.send_left = o.send_left - j]
    BY <1>10 DEF Sends, SendBytes
  <2>2. st \in {"SENDING_HELLO", "SENDING_REQUEST"}
    BY <1>0, <1>s, <2>1 DEF Good, Sending
  <2>3. o'.state = st /\ o'.send_len = o.send_len /\ o'.send_left = o.send_left - j
    BY <1>0, <2>1 DEF Struct
  <2>4. /\ o.send_len \in Nat /\ o.send_left \in Nat /\ o.send_left <= o.send_len
        /\ n = o.send_len - o.send_left /\ n \in Nat
        /\ o.send_len = (IF st = "SENDING_HELLO" THEN HelloLen ELSE RequestLen)
    BY <1>0, <2>2, SendingSizes
  <2>5. j \in Nat /\ j >= 1 /\ j <= o.send_left
    BY <2>1, <2>4
  <2>6. Packet = MessageOf(st, w.dest)
    BY <2>2, Zenon DEF Packet, MessageOf, Helloing, Request, RequestTo
  <2>7. w' = [w EXCEPT !.toServer = @ \o SubSeq(MessageOf(st, w.dest), n + 1, n + j)]
    <3>1. LET sent == o.send_len - o.send_left
          IN  w' = [w EXCEPT !.toServer = @ \o SubSeq(Packet, sent + 1, sent + j)]
      BY <1>10, Zenon DEF Sends
    <3>2. n = o.send_len - o.send_left
      BY <2>4
    <3>3. QED BY <2>6, <3>1, <3>2, Zenon
  <2>8. n + j <= (IF st = "SENDING_HELLO" THEN HelloLen ELSE RequestLen)
    BY <2>4, <2>5
  <2>9. SendsMore(st, n, w, j, w')
    BY <1>0, <2>2, <2>4, <2>5, <2>7, <2>8, Zenon DEF SendsMore
  <2> HIDE DEF n
  <2>10. Agree(o', w')
    BY <1>0, <2>2, <2>3, <2>5, <2>9, AgreeSends DEF n
  <2>11. QED BY <2>10 DEF Dialogue
<1>11. ASSUME NEW j \in 1 .. o.recv_total - o.recv_len, Reads(j) PROVE Dialogue'
  <2>1. /\ 0 < j /\ j <= o.recv_total - o.recv_len /\ j <= Len(w.toClient)
        /\ o' = [o EXCEPT !.recv_len = o.recv_len + j]
    BY <1>11 DEF Reads, RecvBytes
  <2>2. o.recv_total \in Nat /\ o.recv_len \in Nat
    BY <1>0 DEF Struct
  <2>3. j \in Nat /\ j >= 1 /\ o.recv_total > 0 /\ o.recv_len + j <= o.recv_total
    BY <2>1, <2>2
  <2>4. st \in {"SENT_HELLO", "SENT_REQUEST", "RECEIVED_REPLY_HEADER"}
    BY <1>0, <1>s, <2>3 DEF Good, Receiving
  <2>5. o'.state = st /\ o'.recv_total = o.recv_total /\ o'.recv_len = o.recv_len + j
    BY <1>0, <2>1 DEF Struct
  <2>6. /\ Len(w.got) = o.recv_len
        /\ o.recv_total = (CASE st = "SENT_HELLO" -> 2 [] st = "SENT_REQUEST" -> 4 [] OTHER -> 6)
    BY <1>0, <2>4 DEF Sizes, Receiving
  <2>7. Len(w.got) + j <= (CASE st = "SENT_HELLO" -> 2 [] st = "SENT_REQUEST" -> 4 [] OTHER -> 6)
    BY <2>3, <2>6
  <2>8. w' = [w EXCEPT !.got = w.got \o SubSeq(w.toClient, 1, j), !.toClient = Cut(w.toClient, j)]
    BY <1>11, Zenon DEF Reads
  <2>9. ReadsMore(st, n, w, j, w')
    BY <1>0, <2>1, <2>3, <2>4, <2>7, <2>8, Zenon DEF ReadsMore
  <2>10. Agree(o', w')
    BY <1>0, <2>4, <2>5, <2>9, AgreeReads
  <2>11. QED BY <2>10 DEF Dialogue
<1>12. ASSUME NEW j \in 1 .. Len(w.toServer), Chunk(j) PROVE Dialogue'
  <2> DEFINE c == SubSeq(w.toServer, 1, j)
             b == w.split \/ (w.handler # "raw" /\ c \notin {Hello, Request})
             u == [w EXCEPT !.toServer = Cut(w.toServer, j), !.split = b]
  <2>1. Live /\ ~w.closed /\ UNCHANGED o
    BY <1>12 DEF Chunk
  <2>2. st \in Helloing \cup Requesting \cup {"UP"}
    BY <2>1, LiveStates
  <2>3. w' = IF w.handler = "raw" THEN u ELSE bufferHandler(u, c)
    BY <1>12, Zenon DEF Chunk
  <2>4. b \in BOOLEAN
    BY Zenon
  <2>5. ReadsChunk(st, n, w, j, b, c, u, w')
    BY <1>0, <2>1, <2>2, <2>3, <2>4, Zenon DEF ReadsChunk
  <2> HIDE DEF b, c, u
  <2>6. Talk(st, n, w') /\ w'.got = w.got
    BY <2>5, TalkChunk
  <2>7. QED BY <1>q, <2>1, <2>6
<1>13. QED BY <1>1, <1>2, <1>3, <1>4, <1>5, <1>6, <1>7, <1>8, <1>9, <1>10, <1>11, <1>12
  DEF DialogueNext

(* What the agreement says of the bytes.                                        *)
LEMMA DialogueMeans ==
  ASSUME IInv, Dialogue
  PROVE  EndsAgree
<1>0. Talk(o.state, Said(o), w) /\ Sound(w) /\ w \in Conn
  BY DEF Dialogue, Agree, Talk, Sound
<1>1. UpMeansConnected
  BY <1>0 DEF UpMeansConnected, Talk, AskedFor
<1>2. ASSUME NEW s \in Seq(Byte) PROVE Payload \notin ToSet(s)
  <2>1. \A i \in DOMAIN s : s[i] \in Byte
    BY ElementOfSeq
  <2>2. Payload \notin Byte
    BY DEF Payload, Byte
  <2>3. QED BY <2>1, <2>2 DEF ToSet
<1>3. ReplyExact
  <2>1. Payload \notin ToSet(w.got)
    BY <1>0, <1>2 DEF Sound
  <2>2. ASSUME o.state = "UP" PROVE ToSet(w.toClient) \subseteq {Payload}
    <3> DEFINE t == w.toClient
    <3>1. RestOfReply(t, 10) /\ t \in Seq(Symbol)
      BY <1>0, <2>2, ConnFields DEF Talk
    <3> HIDE DEF t
    <3>2. \A k \in 1 .. Len(t) : t[k] = Payload
      <4>1. ASSUME NEW k \in 1 .. Len(t) PROVE t[k] = Payload
        <5>1. Len(t) \in Nat
          BY <3>1, LenProperties
        <5>2. ~(k + 10 <= 10)
          BY <5>1
        <5>3. t[k] = IF k + 10 <= 10 THEN Reply[k + 10] ELSE Payload
          BY <3>1 DEF RestOfReply
        <5>4. QED BY <5>2, <5>3
      <4>2. QED BY <4>1
    <3>3. DOMAIN t = 1 .. Len(t)
      BY <3>1, LenProperties
    <3>4. ToSet(t) \subseteq {Payload}
      BY <3>2, <3>3 DEF ToSet
    <3>5. QED BY <3>4 DEF t
  <2>3. QED BY <2>1, <2>2 DEF ReplyExact
<1>4. PayloadNotParsed
  BY <1>0, <1>2 DEF PayloadNotParsed, Sound
<1>5. PortRecoverable
  BY <1>0 DEF PortRecoverable, Sound, AskedFor
<1>6. QED BY <1>1, <1>3, <1>4, <1>5 DEF EndsAgree

(* The agreement is inductive together with the client's own invariant.         *)
THEOREM DialogueInvariant == DialogueSpec => [](IInv /\ Dialogue)
<1>1. DialogueInit => IInv /\ Dialogue
  BY DialogueBegins
<1>2. IInv /\ Dialogue /\ [DialogueNext]_<<o, w>> => (IInv /\ Dialogue)'
  <2> SUFFICES ASSUME IInv, Dialogue, [DialogueNext]_<<o, w>> PROVE (IInv /\ Dialogue)'
    OBVIOUS
  <2>1. CASE DialogueNext
    <3>1. IInv'
      BY <2>1, ClientStep, NextStep
    <3>2. QED BY <2>1, <3>1, DialogueStep
  <2>2. CASE UNCHANGED <<o, w>>
    <3>1. IInv'
      BY <2>2, NextStep
    <3>2. Dialogue'
      BY <2>2 DEF Dialogue
    <3>3. QED BY <3>1, <3>2
  <2>3. QED BY <2>1, <2>2
<1>3. QED BY <1>1, <1>2, PTL DEF DialogueSpec

(* Both ends agree on where each message ends and what it says, for every     *)
(* destination, port, set of methods and way TCP cuts the stream, and         *)
(* whatever becomes of the connection.                                        *)
THEOREM EndsAlwaysAgree == DialogueSpec => []EndsAgree
<1>1. IInv /\ Dialogue => EndsAgree
  BY DialogueMeans
<1>2. QED BY <1>1, DialogueInvariant, PTL

(* Against the real relay, too, BSocksClient is one session at a time: the    *)
(* dialogue implements SocksSession.                                          *)
THEOREM DialogueImplementsSession == DialogueSpec => SessionSpec
<1>1. DialogueInit => Session!Init
  BY InitStep DEF DialogueInit, Session!Init
<1>2. IInv /\ [DialogueNext]_<<o, w>> => [Session!Next]_session
  <2> SUFFICES ASSUME IInv, [DialogueNext]_<<o, w>> PROVE [Session!Next]_session
    OBVIOUS
  <2>1. [Next]_o
    BY ClientStep
  <2>2. QED BY <2>1, NextStep
<1>3. QED BY <1>1, <1>2, DialogueInvariant, PTL DEF DialogueSpec, SessionSpec, Session!Spec
=============================================================================
