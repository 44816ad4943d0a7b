---------------------------- MODULE WSocksRelay ----------------------------
(***************************************************************************)
(* ClientWebSocket (java/me/wooy/proxy/client): the verticle that accepts  *)
(* SOCKS5 connections from tun2socks and DNS queries from pdnsd, and        *)
(* multiplexes them, by uuid, over one websocket to the WSocks server.      *)
(*                                                                         *)
(* The verticle has one event loop, so a handler is atomic; what interleaves *)
(* are the events: buffers of the local sockets, messages and failures of    *)
(* the websocket, completed logins, close notifications, and undeployment.   *)
(*                                                                         *)
(* A local socket stands for its uuid.  Messages and buffers are abstracted  *)
(* to what the handlers branch on; encryption, compression and the offset    *)
(* padding are not modelled.  The server and Vert.x are external: a message  *)
(* is delivered whole and in order, or lost with its websocket, and a write  *)
(* to a closed websocket or socket throws and does nothing.                  *)
(***************************************************************************)
EXTENDS Naturals, Sequences

CONSTANTS Socket,      \* local SOCKS connections
          Query,       \* local DNS queries
          MaxLogins,   \* bound on calls of login()
          MaxData      \* bound on data buffers per socket and direction

ASSUME RelayAssumption == /\ MaxLogins \in Nat \ {0}
                          /\ MaxData \in Nat
                          /\ Socket \cap Query = {}

VARIABLES vert,         \* the verticle: new, up or stopped
          ws, logins,   \* the current websocket (0: not initialized), logins so far
          link,         \* the state of each websocket
          up, down,     \* messages under way on it, to and from the server
          remote,       \* uuids the server has connected, per websocket
          sock,         \* local sockets; "closing": closeHandler still to run
          handler,      \* which handler is installed on a socket
          inbox,        \* buffers the local client wrote, not yet handled
          sent, rsent,  \* buffers written so far by the client, data by the server
          seen,         \* what the local client was sent
          connectMap, dnsQueryMap,
          dns,          \* local DNS sockets; "lost": open, and its query forgotten
          asked         \* the websocket the CONNECT or DNS of a uuid was written to

wsVars == <<ws, logins, link, up, down, remote>>
sockVars == <<sock, handler, inbox, sent, rsent, seen, connectMap>>
dnsVars == <<dns, dnsQueryMap>>
vars == <<vert, wsVars, sockVars, dnsVars, asked>>

-----------------------------------------------------------------------------
Login == 1 .. MaxLogins

(* The Flag of a message and the uuid it carries.                           *)
Flag == {"CONNECT", "CONNECT_SUCCESS", "EXCEPTION", "RAW", "DNS"}
Message == [flag : Flag, uuid : Socket \cup Query]
Msg(f, u) == [flag |-> f, uuid |-> u]

(* What a local client writes: a greeting, a request by command and address *)
(* type, data; "bad" does not begin with version 5.                         *)
Request == {"connect", "udp", "other"}
FromClient == {"hello", "bad", "data"} \cup Request
ToClient == {"method", "reply", "udpreply", "refused", "data"}

TypeOK ==
  /\ vert \in {"new", "up", "stopped"}
  /\ ws \in 0 .. MaxLogins /\ logins \in 0 .. MaxLogins
  /\ link \in [Login -> {"unused", "connecting", "open", "closed", "dropped", "failed"}]
  /\ up \in [Login -> Seq(Message)] /\ down \in [Login -> Seq(Message)]
  /\ remote \in [Login -> SUBSET Socket]
  /\ sock \in [Socket -> {"none", "open", "closing", "gone"}]
  /\ handler \in [Socket -> {"socks", "raw"}]
  /\ inbox \in [Socket -> Seq(FromClient)] /\ seen \in [Socket -> Seq(ToClient)]
  /\ sent \in [Socket -> 0 .. 2 + MaxData] /\ rsent \in [Socket -> 0 .. MaxData]
  /\ connectMap \subseteq Socket /\ dnsQueryMap \subseteq Query
  /\ dns \in [Query -> {"none", "open", "ended", "lost"}]
  /\ asked \in [Socket \cup Query -> 0 .. MaxLogins]

Init ==
  /\ vert = "new" /\ ws = 0 /\ logins = 0
  /\ link = [w \in Login |-> "unused"]
  /\ up = [w \in Login |-> <<>>] /\ down = [w \in Login |-> <<>>]
  /\ remote = [w \in Login |-> {}]
  /\ sock = [s \in Socket |-> "none"] /\ handler = [s \in Socket |-> "socks"]
  /\ inbox = [s \in Socket |-> <<>>] /\ seen = [s \in Socket |-> <<>>]
  /\ sent = [s \in Socket |-> 0] /\ rsent = [s \in Socket |-> 0]
  /\ connectMap = {} /\ dnsQueryMap = {}
  /\ dns = [q \in Query |-> "none"]
  /\ asked = [u \in Socket \cup Query |-> 0]

-----------------------------------------------------------------------------
(* Writing.                                                                *)

WsOpen == ws # 0 /\ link[ws] = "open"

(* ws.writeBinaryMessage: throws when ws is closed or not initialized.      *)
wsWrite(m) == up' = IF WsOpen THEN [up EXCEPT ![ws] = Append(@, m)] ELSE up

(* netSocket.write and netSocket.close.                                     *)
write(s, t) == seen' = IF sock[s] = "open" THEN [seen EXCEPT ![s] = Append(@, t)] ELSE seen
close(s) == sock' = IF sock[s] = "open" THEN [sock EXCEPT ![s] = "closing"] ELSE sock

(* The websockets of W are closed, and what was under way on them is lost.  *)
CloseLinks(W) ==
  /\ up' = [w \in Login |-> IF w \in W THEN <<>> ELSE up[w]]
  /\ down' = [w \in Login |-> IF w \in W THEN <<>> ELSE down[w]]
  /\ remote' = [w \in Login |-> IF w \in W THEN {} ELSE remote[w]]

-----------------------------------------------------------------------------
(* The websocket.                                                          *)

(* start: login and listen.                                                 *)
start ==
  /\ vert = "new"
  /\ vert' = "up"
  /\ logins' = 1
  /\ link' = [link EXCEPT ![1] = "connecting"]
  /\ UNCHANGED <<ws, up, down, remote, sockVars, dnsVars, asked>>

(* The callback of login.                                                   *)
LoginSucceeds(w) ==
  /\ link[w] = "connecting"
  /\ link' = [link EXCEPT ![w] = "open"]
  /\ ws' = w
  /\ UNCHANGED <<vert, logins, up, down, remote, sockVars, dnsVars, asked>>

(* httpClient.websocket is given no failure handler: nothing happens.       *)
LoginFails(w) ==
  /\ link[w] = "connecting"
  /\ link' = [link EXCEPT ![w] = "failed"]
  /\ UNCHANGED <<vert, ws, logins, up, down, remote, sockVars, dnsVars, asked>>

(* Mutant of the exceptionHandler: no new login.                             *)
Mut_exception_no_login(w) ==
  /\ link[w] = "open"
  /\ logins < MaxLogins
  /\ link' = [link EXCEPT ![w] = "closed", ![ws] = "closed"]
  /\ CloseLinks({w, ws})
  /\ UNCHANGED <<vert, ws, logins, sockVars, dnsVars, asked>>

(* The exceptionHandler of websocket w closes the current websocket and     *)
(* logs in again; Vert.x closes w itself.                                   *)
exceptionHandler(w) ==
  /\ link[w] = "open"
  /\ logins < MaxLogins
  /\ logins' = logins + 1
  /\ link' = [link EXCEPT ![w] = "closed", ![ws] = "closed",
                          ![logins + 1] = "connecting"]
  /\ CloseLinks({w, ws})
  /\ UNCHANGED <<vert, ws, sockVars, dnsVars, asked>>

(* The server closes the websocket in an orderly way: it is "dropped", and  *)
(* as there is no closeHandler nothing happens.                             *)
RemoteCloses(w) ==
  /\ link[w] = "open"
  /\ link' = [link EXCEPT ![w] = "dropped"]
  /\ CloseLinks({w})
  /\ UNCHANGED <<vert, ws, logins, sockVars, dnsVars, asked>>

-----------------------------------------------------------------------------
(* Local SOCKS connections.                                                *)

(* The connectHandler of initSocksServer.                                   *)
connectHandler(s) ==
  /\ vert = "up"
  /\ sock[s] = "none"
  /\ sock' = [sock EXCEPT ![s] = IF ws = 0 THEN "closing" ELSE "open"]
  /\ UNCHANGED <<vert, wsVars, handler, inbox, sent, rsent, seen, connectMap,
                 dnsVars, asked>>

(* tun2socks waits for each answer before it goes on.                       *)
ClientWrites(s, b) ==
  /\ sock[s] = "open"
  /\ \/ sent[s] = 0 /\ b \in {"hello", "bad"}
     \/ sent[s] = 1 /\ seen[s] = <<"method">> /\ b \in Request
     \/ /\ sent[s] \in 2 .. 1 + MaxData
        /\ Len(seen[s]) > 1 /\ seen[s][2] = "reply" /\ b = "data"
  /\ inbox' = [inbox EXCEPT ![s] = Append(@, b)]
  /\ sent' = [sent EXCEPT ![s] = @ + 1]
  /\ UNCHANGED <<vert, wsVars, sock, handler, rsent, seen, connectMap, dnsVars, asked>>

ClientCloses(s) ==
  /\ close(s) /\ sock[s] = "open"
  /\ inbox' = [inbox EXCEPT ![s] = <<>>]
  /\ UNCHANGED <<vert, wsVars, handler, sent, rsent, seen, connectMap, dnsVars, asked>>

(* Mutant of closeHandler: the entry stays.                                  *)
Mut_closeHandler_keeps(s) ==
  /\ sock[s] = "closing"
  /\ sock' = [sock EXCEPT ![s] = "gone"]
  /\ UNCHANGED <<vert, wsVars, handler, inbox, sent, rsent, seen, connectMap,
                 dnsVars, asked>>

closeHandler(s) ==
  /\ sock[s] = "closing"
  /\ sock' = [sock EXCEPT ![s] = "gone"]
  /\ connectMap' = connectMap \ {s}
  /\ UNCHANGED <<vert, wsVars, handler, inbox, sent, rsent, seen, dnsVars, asked>>

(* Mutant of tryConnect: the socket is not entered into connectMap.          *)
Mut_tryConnect_not_mapped(s) ==
  /\ connectMap' = connectMap
  /\ wsWrite(Msg("CONNECT", s))
  /\ asked' = IF WsOpen THEN [asked EXCEPT ![s] = ws] ELSE asked

tryConnect(s) ==
  /\ connectMap' = connectMap \cup {s}
  /\ wsWrite(Msg("CONNECT", s))
  /\ asked' = IF WsOpen THEN [asked EXCEPT ![s] = ws] ELSE asked

(* An address type or command that is not supported gets a two-byte answer, *)
(* and the socket stays open.                                               *)
requestHandler(s, b) ==
  \/ b = "connect" /\ tryConnect(s) /\ UNCHANGED seen
  \/ /\ b = "udp" /\ write(s, "udpreply")
     /\ UNCHANGED <<connectMap, up, asked>>
  \/ /\ b = "other" /\ write(s, "refused")
     /\ UNCHANGED <<connectMap, up, asked>>

(* bufferHandler closes the socket of another version and goes on with the  *)
(* buffer all the same: its other bytes decide what it is taken for, and    *)
(* nothing can be written any more.                                         *)
bufferHandler(s, b) ==
  \/ b = "hello" /\ write(s, "method") /\ UNCHANGED <<sock, connectMap, up, asked>>
  \/ b \in Request /\ requestHandler(s, b) /\ UNCHANGED sock
  \/ /\ b \in {"bad", "data"}
     /\ close(s)
     /\ UNCHANGED seen
     /\ tryConnect(s) \/ UNCHANGED <<connectMap, up, asked>>

(* The handler of a local socket.                                           *)
SocketData(s) ==
  /\ sock[s] = "open" /\ inbox[s] # <<>>
  /\ inbox' = [inbox EXCEPT ![s] = Tail(@)]
  /\ \/ handler[s] = "socks" /\ bufferHandler(s, Head(inbox[s]))
     \/ /\ handler[s] = "raw" /\ wsWrite(Msg("RAW", s))
        /\ UNCHANGED <<sock, seen, connectMap, asked>>
  /\ UNCHANGED <<vert, ws, logins, link, down, remote, handler, sent, rsent, dnsVars>>

-----------------------------------------------------------------------------
(* Local DNS queries.                                                      *)

(* A query on a new connection to port 5553 is put into dnsQueryMap before  *)
(* ws is used.                                                              *)
handleQuery(q) ==
  /\ vert = "up"
  /\ dns[q] = "none"
  /\ dns' = [dns EXCEPT ![q] = "open"]
  /\ dnsQueryMap' = dnsQueryMap \cup {q}
  /\ wsWrite(Msg("DNS", q))
  /\ asked' = IF WsOpen THEN [asked EXCEPT ![q] = ws] ELSE asked
  /\ UNCHANGED <<vert, ws, logins, link, down, remote, sockVars>>

-----------------------------------------------------------------------------
(* Messages of the server.                                                 *)

(* Mutant of wsConnectedHandler: a raw handler is installed, and the client  *)
(* is not told before its first data.                                        *)
Mut_connected_no_reply(s) ==
  /\ s \in connectMap
  /\ handler' = [handler EXCEPT ![s] = "raw"]
  /\ UNCHANGED <<sock, connectMap, seen>>

wsConnectedHandler(s) ==
  /\ s \in connectMap
  /\ handler' = [handler EXCEPT ![s] = "raw"]
  /\ write(s, "reply")
  /\ UNCHANGED <<sock, connectMap>>

wsReceivedRawHandler(s) ==
  /\ s \in connectMap
  /\ write(s, "data")
  /\ UNCHANGED <<sock, connectMap, handler>>

wsExceptionHandler(s) ==
  /\ s \in connectMap
  /\ connectMap' = connectMap \ {s}
  /\ close(s)
  /\ UNCHANGED <<seen, handler>>

(* The entry is removed first.  Then response() hands the string that came   *)
(* as the address to Inet4Address.getByName, which throws when it does not   *)
(* resolve: nothing is written and the socket is not ended.                  *)
wsReceivedDNSHandler(q) ==
  /\ q \in dnsQueryMap
  /\ dnsQueryMap' = dnsQueryMap \ {q}
  /\ \E r \in {"ended", "lost"} : dns' = [dns EXCEPT ![q] = r]

(* The binaryMessageHandler; a uuid that is not mapped is ignored.          *)
binaryMessageHandler(w) ==
  /\ link[w] = "open" /\ down[w] # <<>>
  /\ down' = [down EXCEPT ![w] = Tail(@)]
  /\ LET m == Head(down[w])
     IN  \/ /\ \/ m.flag = "CONNECT_SUCCESS" /\ wsConnectedHandler(m.uuid)
               \/ m.flag = "RAW" /\ wsReceivedRawHandler(m.uuid)
               \/ m.flag = "EXCEPTION" /\ wsExceptionHandler(m.uuid)
            /\ UNCHANGED dnsVars
         \/ /\ m.flag = "DNS" /\ wsReceivedDNSHandler(m.uuid)
            /\ UNCHANGED <<sock, seen, handler, connectMap>>
         \/ /\ m.uuid \notin connectMap \cup dnsQueryMap
            /\ UNCHANGED <<sock, seen, handler, connectMap, dnsVars>>
  /\ UNCHANGED <<vert, ws, logins, link, up, remote, inbox, sent, rsent, asked>>

(* The server answers a CONNECT with success or an exception, and a DNS     *)
(* query with an address; it takes in RAW data.                             *)
RemoteReceives(w) ==
  /\ link[w] = "open" /\ up[w] # <<>>
  /\ up' = [up EXCEPT ![w] = Tail(@)]
  /\ LET m == Head(up[w])
     IN  \/ /\ m.flag = "CONNECT"
            /\ remote' = [remote EXCEPT ![w] = @ \cup {m.uuid}]
            /\ down' = [down EXCEPT ![w] = Append(@, Msg("CONNECT_SUCCESS", m.uuid))]
         \/ /\ m.flag = "CONNECT"
            /\ down' = [down EXCEPT ![w] = Append(@, Msg("EXCEPTION", m.uuid))]
            /\ UNCHANGED remote
         \/ /\ m.flag = "DNS"
            /\ down' = [down EXCEPT ![w] = Append(@, m)]
            /\ UNCHANGED remote
         \/ m.flag = "RAW" /\ UNCHANGED <<down, remote>>
  /\ UNCHANGED <<vert, ws, logins, link, sockVars, dnsVars, asked>>

(* A connected uuid has data, or fails.                                     *)
RemoteSends(w, s) ==
  /\ s \in remote[w]
  /\ \/ /\ rsent[s] < MaxData
        /\ down' = [down EXCEPT ![w] = Append(@, Msg("RAW", s))]
        /\ rsent' = [rsent EXCEPT ![s] = @ + 1]
        /\ UNCHANGED remote
     \/ /\ down' = [down EXCEPT ![w] = Append(@, Msg("EXCEPTION", s))]
        /\ remote' = [remote EXCEPT ![w] = @ \ {s}]
        /\ UNCHANGED rsent
  /\ UNCHANGED <<vert, ws, logins, link, up, sock, handler, inbox, sent, seen,
                 connectMap, dnsVars, asked>>

-----------------------------------------------------------------------------
(* Undeployment.                                                           *)

(* Mutant of stop: the SOCKS server, and with it its sockets, stays.         *)
Mut_stop_keeps_server ==
  /\ vert = "up"
  /\ vert' = "stopped"
  /\ link' = [w \in Login |-> IF link[w] \in {"open", "connecting"}
                              THEN "closed" ELSE link[w]]
  /\ CloseLinks(Login)
  /\ dns' = [q \in Query |-> IF dns[q] \in {"open", "lost"} THEN "ended" ELSE dns[q]]
  /\ UNCHANGED <<ws, logins, sockVars, dnsQueryMap, asked>>

(* stop closes the SOCKS server with its sockets; ws.close() throws when    *)
(* ws is not open, and then connectMap is not cleared.  Vert.x closes the   *)
(* other clients and servers of the verticle.                               *)
stop ==
  /\ vert = "up"
  /\ vert' = "stopped"
  /\ sock' = [s \in Socket |-> IF sock[s] = "open" THEN "closing" ELSE sock[s]]
  /\ inbox' = [s \in Socket |-> <<>>]
  /\ link' = [w \in Login |-> IF link[w] \in {"open", "connecting"}
                              THEN "closed" ELSE link[w]]
  /\ CloseLinks(Login)
  /\ connectMap' = IF WsOpen THEN {} ELSE connectMap
  /\ dns' = [q \in Query |-> IF dns[q] \in {"open", "lost"} THEN "ended" ELSE dns[q]]
  /\ UNCHANGED <<ws, logins, handler, sent, rsent, seen, dnsQueryMap, asked>>

(* Nothing happens to an undeployed verticle.                               *)
Undeployed == vert = "stopped" /\ UNCHANGED vars

-----------------------------------------------------------------------------
ServerStep(w) == \/ RemoteReceives(w) \/ RemoteCloses(w)
                 \/ \E s \in Socket : RemoteSends(w, s)

LinkStep(w) == \/ LoginSucceeds(w) \/ LoginFails(w) \/ exceptionHandler(w)
               \/ binaryMessageHandler(w)

SocketStep(s) == \/ connectHandler(s) \/ ClientCloses(s) \/ closeHandler(s)
                 \/ SocketData(s)
                 \/ \E b \in FromClient : ClientWrites(s, b)

Next == \/ start \/ stop \/ Undeployed
        \/ \E w \in Login : ServerStep(w) \/ LinkStep(w)
        \/ \E s \in Socket : SocketStep(s)
        \/ \E q \in Query : handleQuery(q)

Spec == Init /\ [][Next]_vars

-----------------------------------------------------------------------------
(* Safety.                                                                 *)

(* The client of a socket sees a SOCKS5 dialogue: the answer to its          *)
(* greeting, one answer to its request, and data only after a success, which *)
(* is sent only to a connection that asked for one.  And its data never      *)
(* reaches the SOCKS parser: wsConnectedHandler swaps the handler before the *)
(* client can know that it may send.                                         *)
SocksDialogue ==
  \A s \in Socket :
    /\ \A i \in 1 .. Len(seen[s]) :
         CASE i = 1 -> seen[s][i] = "method"
           [] i = 2 -> seen[s][i] \in {"reply", "udpreply", "refused"}
           [] OTHER -> seen[s][i] = "data" /\ seen[s][2] = "reply"
    /\ Len(seen[s]) > 1 /\ seen[s][2] = "reply" => asked[s] # 0
    /\ handler[s] = "socks" => \A i \in 1 .. Len(inbox[s]) : inbox[s][i] # "data"

(* connectMap has no socket whose closeHandler has already run (a request on *)
(* a socket being closed is mapped after close()), and a socket in relay     *)
(* mode stays mapped, so that the server's data and exceptions reach it.     *)
MapAgrees ==
  \A s \in Socket :
    /\ s \in connectMap => sock[s] \in {"open", "closing"}
    /\ sock[s] = "open" /\ handler[s] = "raw" => s \in connectMap

(* There is one session: at most one websocket is open or being opened, and  *)
(* an open one is ws.  Otherwise the exceptionHandler of a forgotten         *)
(* websocket would close the current one.                                    *)
OneSession ==
  /\ \A w \in Login : link[w] = "open" => w = ws
  /\ \A v, w \in Login : link[v] \in {"open", "connecting"}
                         /\ link[w] \in {"open", "connecting"} => v = w

(* The maps and the websockets agree with what is open: MapAgrees and        *)
(* OneSession, and every variable has its type.                              *)
Consistent == TypeOK /\ MapAgrees /\ OneSession

(* An exception always leads to a new login: when the exceptionHandler has   *)
(* closed ws, a later login is under way or has failed.  So the relay is     *)
(* without a websocket for good only after a login failed, or the server     *)
(* closed the websocket.                                                     *)
ReloginPending ==
  vert = "up" /\ ws # 0 /\ link[ws] = "closed" =>
    logins > ws /\ link[logins] \in {"connecting", "failed"}

Under(u, queue) == \E i \in 1 .. Len(queue) : queue[i].uuid = u

(* As long as the websocket it was written to is open, a CONNECT or a DNS    *)
(* query that waits for its answer is mapped, so that the answer will find   *)
(* it, and it or its answer is under way.  A CONNECT is never lost inside    *)
(* the verticle; a DNS query is lost there in one way only, by its own       *)
(* answer: wsReceivedDNSHandler removes the entry and then throws, and the   *)
(* socket stays open without an entry.  And dnsQueryMap keeps no query that  *)
(* was dealt with; the entries that stay for ever came without an open       *)
(* websocket, or lost theirs.                                                *)
RequestUnderWay ==
  /\ \A u \in Socket \cup Query :
       LET w == asked[u]
           waits == IF u \in Socket THEN sock[u] = "open" /\ Len(seen[u]) = 1
                    ELSE dns[u] = "open" \/ u \in dnsQueryMap
       IN  w # 0 /\ link[w] = "open" /\ waits =>
             /\ u \in connectMap \cup dnsQueryMap
             /\ Under(u, up[w]) \/ Under(u, down[w])
  /\ \A q \in Query :
       /\ dns[q] = "open" => q \in dnsQueryMap
       /\ dns[q] = "lost" => asked[q] # 0 /\ q \notin dnsQueryMap

(* Undeployment leaves nothing open, also when stop() fails at ws.close():   *)
(* no local socket, no DNS socket and no websocket, and every entry that     *)
(* stays in connectMap is of a socket whose closeHandler will remove it.     *)
StopReleases ==
  vert = "stopped" =>
    /\ \A s \in Socket : sock[s] # "open" /\ (s \in connectMap => sock[s] = "closing")
    /\ \A q \in Query : dns[q] \notin {"open", "lost"}
    /\ \A w \in Login : link[w] \notin {"open", "connecting"}
=============================================================================
