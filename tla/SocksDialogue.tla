--------------------------- MODULE SocksDialogue ---------------------------
(***************************************************************************)
(* The two ends of the local SOCKS connection together: BSocksClient of     *)
(* tun2socks (SocksClient) and the relay's parser in ClientWebSocket.kt,    *)
(* over a byte stream that TCP may cut anywhere.                            *)
(*                                                                         *)
(* The client reassembles messages from the stream; the relay takes every   *)
(* chunk it reads for a whole message.  `w' is the connection: the bytes on *)
(* their way, what the client has read of a message (got), and the relay's  *)
(* side.  A payload byte is marked, so that one that is taken for a part of *)
(* a message shows.                                                         *)
(***************************************************************************)
EXTENDS SocksClient, Sequences, SequencesExt

CONSTANTS Addresses,   \* IPv4 destinations tried, sequences of 4 bytes
          Port,        \* the destination port
          MaxData      \* bound: payload bytes in flight in each direction

ASSUME DialogueAssumption == Port \in Nat /\ Port <= 65535 /\ MaxData \in Nat
ASSUME AddressAssumption == Addresses \subseteq [1 .. 4 -> 0 .. 255]

VARIABLE w

Payload == 256          \* not the value of any byte
NotAsked == [host |-> <<>>, port |-> 0]

Fresh(a) ==
  [ dest |-> a, toServer |-> <<>>, toClient |-> <<>>, got |-> <<>>,
    handler |-> "bufferHandler", mapped |-> FALSE, asked |-> NotAsked,
    closed |-> FALSE, split |-> FALSE ]

-----------------------------------------------------------------------------
(* The client's messages, as its handlers write them.                        *)
Hello == <<5, num_auth_info>>
         \o (IF "none" \in AuthInfo THEN <<0>> ELSE <<>>)
         \o (IF "password" \in AuthInfo THEN <<2>> ELSE <<>>)

PortBytes == <<Port \div 256, Port % 256>>

Request == <<5, 1, 0>> \o (IF DestType = "ipv4" THEN <<1>> \o w.dest
                           ELSE <<4>> \o [i \in 1 .. 16 |-> w.dest[1]]) \o PortBytes

Packet == IF o.state = "SENDING_HELLO" THEN Hello ELSE Request

(* What recv_handler_done finds in the bytes received.                       *)
AnswerRead ==
  LET g == w.got
  IN  CASE o.state = "SENT_HELLO" /\ g = <<5, 0>> -> "none"
        [] o.state = "SENT_HELLO" /\ g = <<5, 2>> -> "password"
        [] o.state = "SENT_REQUEST" /\ g[1] = 5 /\ g[2] = 0 /\ g[4] = 1 -> "ipv4"
        [] o.state = "SENT_REQUEST" /\ g[1] = 5 /\ g[2] = 0 /\ g[4] = 4 -> "ipv6"
        [] OTHER -> "bad"

-----------------------------------------------------------------------------
(* The relay.  An operator returns the changed connection.                   *)

write(v, bytes) == IF v.closed THEN v ELSE [v EXCEPT !.toClient = @ \o bytes]

handshakeHandler(v) == write(v, <<5, 0>>)

(* Buffer.getShort: two bytes, the first the higher one, as a signed number. *)
getShort(chunk, i) ==
  LET u == 256 * chunk[i + 1] + chunk[i + 2]
  IN  IF u >= 32768 THEN u - 65536 ELSE u

(* Mutant of tryConnect: success is reported before the server has answered.  *)
Mut_tryConnect_replies(v, host, port) ==
  write([v EXCEPT !.mapped = TRUE, !.asked = [host |-> host, port |-> port]],
        <<5, 0, 0, 1, 0, 0, 0, 0, 0, 0>>)

(* Mutant of tryConnect: the uuid is not put into connectMap.                 *)
Mut_tryConnect_not_mapped(v, host, port) ==
  [v EXCEPT !.asked = [host |-> host, port |-> port]]

tryConnect(v, host, port) ==
  [v EXCEPT !.mapped = TRUE, !.asked = [host |-> host, port |-> port]]

(* A read outside the chunk throws, and the chunk is lost: v is returned.     *)
requestHandler(v, chunk) ==
  LET n == Len(chunk)
      byte(i) == chunk[i + 1]
      command(host, port) ==
        CASE byte(1) = 1 -> tryConnect(v, host, port)
          [] byte(1) = 3 -> write(v, <<5, 0, 0, 1, 127, 0, 0, 1, 103, 116>>)
          [] OTHER -> write(v, <<5, 7>>)
  IN  CASE n < 4 -> v
        [] n >= 4 /\ byte(3) = 1 ->
             IF n < 10 THEN v ELSE command(SubSeq(chunk, 5, 8), getShort(chunk, 8))
        [] n >= 4 /\ byte(3) = 3 ->
             IF n < 5 \/ n < 7 + byte(4) THEN v
             ELSE command(SubSeq(chunk, 6, 5 + byte(4)), getShort(chunk, 5 + byte(4)))
        [] OTHER -> write(v, <<5, 8>>)

(* A wrong version closes the socket, and the chunk is handled all the same. *)
bufferHandler(v, chunk) ==
  LET c == [v EXCEPT !.closed = @ \/ chunk[1] # 5]
  IN  IF Len(chunk) < 2 THEN c
      ELSE IF chunk[2] + 2 = Len(chunk) THEN handshakeHandler(c)
      ELSE requestHandler(c, chunk)

Reply == <<5, 0, 0, 1>> \o [i \in 1 .. 6 |-> 0]

wsConnectedHandler(v) == [write(v, Reply) EXCEPT !.handler = "raw"]

(* wsExceptionHandler: the server could not connect.                          *)
wsExceptionHandler(v) == [v EXCEPT !.mapped = FALSE, !.closed = TRUE]

-----------------------------------------------------------------------------
Cut(s, n) == SubSeq(s, n + 1, Len(s))
Live == o.state \notin {"FREED", "CONNECTING"}

DialogueInit == Init /\ \E a \in Addresses : w = Fresh(a)

(* A new session has a connection, and a uuid, of its own.                    *)
Begin == Open /\ \E a \in Addresses : w' = Fresh(a)

Connects == (\E c, i, mem \in BOOLEAN : Connected(c, i, mem)) /\ UNCHANGED w

Sends(n) ==
  /\ SendBytes(n)
  /\ LET sent == o.send_len - o.send_left
     IN  w' = [w EXCEPT !.toServer = @ \o SubSeq(Packet, sent + 1, sent + n)]

Sent == (\E mem \in BOOLEAN : SendDone(mem)) /\ UNCHANGED w

Reads(n) ==
  /\ n <= Len(w.toClient)
  /\ RecvBytes(n)
  /\ w' = [w EXCEPT !.got = @ \o SubSeq(w.toClient, 1, n), !.toClient = Cut(@, n)]

ReadDone ==
  /\ \E mem \in BOOLEAN : RecvDone(AnswerRead, mem)
  /\ w' = [w EXCEPT !.got = <<>>]

Fails == (ConnectionFails \/ Free) /\ UNCHANGED w

(* The client has read everything and meets the end of the stream.            *)
MeetsEnd == w.closed /\ w.toClient = <<>> /\ ConnectionFails /\ UNCHANGED w

(* The relay reads a chunk: some of the bytes that have arrived.  A message   *)
(* is split if the chunk is not exactly the packet the client sent.           *)
Chunk(n) ==
  /\ Live /\ ~w.closed
  /\ n <= Len(w.toServer)
  /\ LET chunk == SubSeq(w.toServer, 1, n)
         v == [w EXCEPT !.toServer = Cut(@, n),
                        !.split = @ \/ (w.handler # "raw" /\ chunk \notin {Hello, Request})]
     IN  w' = IF w.handler = "raw" THEN v ELSE bufferHandler(v, chunk)
  /\ UNCHANGED o

(* The server answers the ClientConnect: success ...                         *)
ServerConnected ==
  /\ Live /\ w.asked # NotAsked /\ w.mapped /\ ~w.closed /\ w.handler # "raw"
  /\ w' = wsConnectedHandler(w)
  /\ UNCHANGED o

(* ... or an exception, which may also end a connection later.              *)
ServerFailed ==
  /\ Live /\ w.asked # NotAsked /\ w.mapped /\ ~w.closed
  /\ w' = wsExceptionHandler(w)
  /\ UNCHANGED o

(* Payload from the server, and from the client once it is up.                *)
ServerData ==
  /\ Live /\ w.mapped /\ ~w.closed /\ w.asked # NotAsked /\ w.handler = "raw"
  /\ Len(SelectSeq(w.toClient, LAMBDA b : b = Payload)) < MaxData
  /\ w' = write(w, <<Payload>>)
  /\ UNCHANGED o

ClientData ==
  /\ o.state = "UP" /\ Len(w.toServer) < MaxData
  /\ w' = [w EXCEPT !.toServer = Append(@, Payload)]
  /\ UNCHANGED o

DialogueNext ==
  \/ Begin \/ Connects \/ Sent \/ ReadDone \/ Fails \/ MeetsEnd
  \/ ServerConnected \/ ServerFailed \/ ServerData \/ ClientData
  \/ \E n \in 1 .. o.send_left : Sends(n)
  \/ \E n \in 1 .. o.recv_total - o.recv_len : Reads(n)
  \/ \E n \in 1 .. Len(w.toServer) : Chunk(n)

DialogueSpec == DialogueInit /\ [][DialogueNext]_<<o, w>>

(* The reactor and the event loop serve every descriptor that is ready, and   *)
(* the server answers; nobody is obliged to open, to free or to send payload. *)
DialogueFairness ==
  /\ WF_<<o, w>>(Connects) /\ WF_<<o, w>>(Sent) /\ WF_<<o, w>>(ReadDone)
  /\ WF_<<o, w>>(MeetsEnd) /\ WF_<<o, w>>(w.handler # "raw" /\ (ServerConnected \/ ServerFailed))
  /\ WF_<<o, w>>(\E n \in 1 .. o.send_left : Sends(n))
  /\ WF_<<o, w>>(\E n \in 1 .. o.recv_total - o.recv_len : Reads(n))
  /\ WF_<<o, w>>(\E n \in 1 .. Len(w.toServer) : Chunk(n))

DialogueFairSpec == DialogueSpec /\ DialogueFairness

-----------------------------------------------------------------------------
(* The client is up only if the server was asked for its destination and the  *)
(* relay has changed to raw data, however the stream was cut: no sequence of  *)
(* replies to pieces of messages reads like a successful reply.               *)
UpMeansConnected ==
  o.state = "UP" => w.asked.host = w.dest /\ w.handler = "raw"

(* The reply and the payload after it are told apart exactly: no payload byte *)
(* is read as a part of a message, and nothing of a message is left for the   *)
(* client that is up.                                                         *)
ReplyExact ==
  /\ Payload \notin ToSet(w.got)
  /\ o.state = "UP" => ToSet(w.toClient) \subseteq {Payload}

(* Payload never reaches the parser (wsConnectedHandler installs the raw      *)
(* handler before it replies).                                                *)
PayloadNotParsed == w.handler # "raw" => Payload \notin ToSet(w.toServer)

(* The server is asked for the port of the request up to a multiple of 2^16:   *)
(* getShort makes a port from 32768 on negative, and no cut of the request     *)
(* makes the relay take other bytes for the port.                              *)
PortRecoverable ==
  w.asked # NotAsked /\ ~w.closed => w.asked.port % 65536 = Port

(* Both ends agree on where each message ends and what it says: of the two     *)
(* parsers, one reassembles messages and the other takes chunks for them.      *)
EndsAgree == UpMeansConnected /\ ReplyExact /\ PayloadNotParsed /\ PortRecoverable

(* A handshake ends unless TCP cut a message in two, which the relay does not  *)
(* reassemble: then both sides may wait for ever.                              *)
HandshakeEnds == (session = "connecting") ~> (session # "connecting" \/ w.split)
=============================================================================
