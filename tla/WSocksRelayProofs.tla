------------------------- MODULE WSocksRelayProofs -------------------------
(***************************************************************************)
(* Proofs about WSocksRelay, for any sockets, queries and bounds: what the  *)
(* local clients see, the maps and the single session, the requests under   *)
(* way and the release at undeployment.                                     *)
(***************************************************************************)
EXTENDS WSocksRelay, TLAPS

(* Messages in a queue: m is there, at most once; every n comes after an m.  *)
Has(q, m) == \E i \in 1 .. Len(q) : q[i] = m
Once(q, m) == \A i, j \in 1 .. Len(q) : q[i] = m /\ q[j] = m => i = j
Preceded(q, n, m) == \A i \in 1 .. Len(q) : q[i] = n => \E j \in 1 .. i - 1 : q[j] = m

(* What really travels: local sockets connect, queries ask for a name.       *)
SocketMsg == [flag : Flag \ {"DNS"}, uuid : Socket]
QueryMsg == [flag : {"DNS"}, uuid : Query]
Travels == SocketMsg \cup QueryMsg

(* The websockets: one after the other, in the order of the logins, and a     *)
(* request was written to one that was the current one.                      *)
Links ==
  /\ ws <= logins
  /\ \A w \in Login : w > logins => link[w] = "unused"
  /\ \A w \in Login : link[w] = "open" => w = ws /\ vert = "up"
  /\ \A w \in Login : link[w] = "connecting" =>
       w = logins /\ ws < w /\ vert = "up" /\ \A v \in Login : link[v] # "open"
  /\ vert = "new" => logins = 0
  /\ \A u \in Socket \cup Query : asked[u] <= ws

(* Only an open websocket has messages under way.                            *)
Queues ==
  /\ up \in [Login -> Seq(Travels)] /\ down \in [Login -> Seq(Travels)]
  /\ \A w \in Login : link[w] # "open" =>
       up[w] = <<>> /\ down[w] = <<>> /\ remote[w] = {}

(* The client was told that it is connected, and since then got data only.    *)
Replied(s) ==
  /\ Len(seen[s]) > 1 /\ seen[s][1] = "method" /\ seen[s][2] = "reply"
  /\ \A i \in 3 .. Len(seen[s]) : seen[s][i] = "data"

(* How far the dialogue of an open socket is, by what its client has sent.    *)
Asking(s) ==
  \/ /\ sent[s] = 0 /\ inbox[s] = <<>> /\ seen[s] = <<>> /\ asked[s] = 0
  \/ /\ sent[s] = 1 /\ inbox[s] \in {<<"hello">>, <<"bad">>} /\ seen[s] = <<>>
     /\ asked[s] = 0
  \/ /\ sent[s] = 1 /\ inbox[s] = <<>> /\ seen[s] = <<"method">> /\ asked[s] = 0
  \/ /\ sent[s] = 2 /\ inbox[s] \in {<<b>> : b \in Request} /\ seen[s] = <<"method">>
     /\ asked[s] = 0
  \/ /\ sent[s] = 2 /\ inbox[s] = <<>> /\ seen[s] = <<"method">>
  \/ /\ sent[s] = 2 /\ inbox[s] = <<>> /\ asked[s] = 0
     /\ seen[s] \in {<<"method", "udpreply">>, <<"method", "refused">>}

Relaying(s) ==
  /\ sent[s] >= 2 /\ Replied(s) /\ asked[s] # 0
  /\ \A i \in 1 .. Len(inbox[s]) : inbox[s][i] = "data"

Stage(s) ==
  /\ sock[s] = "none" =>
       /\ sent[s] = 0 /\ inbox[s] = <<>> /\ seen[s] = <<>> /\ asked[s] = 0
       /\ handler[s] = "socks"
  /\ sock[s] = "open" =>
       /\ vert = "up"
       /\ asked[s] # 0 => s \in connectMap
       /\ \/ handler[s] = "socks" /\ Asking(s)
          \/ handler[s] = "raw" /\ Relaying(s)

(* SocksDialogue and MapAgrees, for one socket.                                *)
Dialogue(s) ==
  /\ Len(seen[s]) > 0 => seen[s][1] = "method"
  /\ Len(seen[s]) > 1 => seen[s][2] \in {"reply", "udpreply", "refused"}
  /\ \A i \in 3 .. Len(seen[s]) : seen[s][i] = "data" /\ seen[s][2] = "reply"
  /\ Len(seen[s]) > 1 /\ seen[s][2] = "reply" => asked[s] # 0
  /\ handler[s] = "socks" => \A i \in 1 .. Len(inbox[s]) : inbox[s][i] # "data"

Mapped(s) ==
  /\ s \in connectMap => sock[s] \in {"open", "closing"}
  /\ sock[s] = "open" /\ handler[s] = "raw" => s \in connectMap

(* What is under way on websocket w for a socket that is not closed.            *)
Flow(s, w) ==
  LET C == Msg("CONNECT", s)
      S == Msg("CONNECT_SUCCESS", s)
  IN  sock[s] \in {"none", "open"} =>
        /\ Has(up[w], C) \/ Has(down[w], S) => asked[s] = w /\ seen[s] = <<"method">>
        /\ Once(up[w], C) /\ Once(down[w], S) /\ ~(Has(up[w], C) /\ Has(down[w], S))
        /\ s \in remote[w] => handler[s] = "raw" \/ Has(down[w], S)
        /\ handler[s] = "raw" \/ Preceded(down[w], Msg("RAW", s), S)
        /\ asked[s] = w /\ link[w] = "open" /\ handler[s] = "socks" =>
             Has(up[w], C) \/ Has(down[w], S) \/ Has(down[w], Msg("EXCEPTION", s))

(* A query, or the answer to it: what is under way was written to w, and what    *)
(* waits for its answer is under way.  A lost query was answered.                *)
DnsUnderWay(q, w) == Has(up[w], Msg("DNS", q)) \/ Has(down[w], Msg("DNS", q))

QueryFlow(q) ==
  /\ dns[q] = "none" => asked[q] = 0 /\ q \notin dnsQueryMap
  /\ dns[q] = "open" => vert = "up" /\ q \in dnsQueryMap
  /\ dns[q] = "lost" => vert = "up" /\ q \notin dnsQueryMap /\ asked[q] # 0
  /\ \A w \in Login : DnsUnderWay(q, w) => asked[q] = w
  /\ \A w \in Login : asked[q] = w /\ link[w] = "open" /\ q \in dnsQueryMap =>
       DnsUnderWay(q, w)

(* The inductive invariant: the websockets, every socket with what is under    *)
(* way for it, and every query.                                                *)
IInv ==
  /\ TypeOK /\ Links /\ Queues /\ ReloginPending
  /\ \A s \in Socket : Stage(s) /\ Dialogue(s) /\ Mapped(s)
  /\ \A s \in Socket, w \in Login : Flow(s, w)
  /\ \A q \in Query : QueryFlow(q)

-----------------------------------------------------------------------------
(* Messages in queues.                                                     *)

(* Appending a message, and taking the first one.                            *)
LEMMA AppendHas ==
  ASSUME NEW T, NEW q \in Seq(T), NEW m \in T, NEW x
  PROVE  Has(Append(q, m), x) <=> Has(q, x) \/ x = m
<1> DEFINE a == Append(q, m)
<1>1. a \in Seq(T) /\ Len(a) = Len(q) + 1 /\ a[Len(q) + 1] = m
      /\ \A i \in 1 .. Len(q) : a[i] = q[i]
  OBVIOUS
<1>2. Len(q) \in Nat
  OBVIOUS
<1> HIDE DEF a
<1>3. Has(a, x) => Has(q, x) \/ x = m
  BY <1>1, <1>2 DEF Has
<1>4. Has(q, x) => Has(a, x)
  BY <1>1, <1>2 DEF Has
<1>5. x = m => Has(a, x)
  BY <1>1, <1>2 DEF Has
<1> QED
  BY <1>3, <1>4, <1>5 DEF a

LEMMA TailElements ==
  ASSUME NEW T, NEW q \in Seq(T), q # <<>>
  PROVE  /\ Tail(q) \in Seq(T) /\ Head(q) \in T /\ Head(q) = q[1]
         /\ Len(q) \in Nat \ {0} /\ Len(Tail(q)) = Len(q) - 1
         /\ \A i \in 1 .. Len(q) - 1 : Tail(q)[i] = q[i + 1]
OBVIOUS

LEMMA TailHas ==
  ASSUME NEW T, NEW q \in Seq(T), q # <<>>, NEW x
  PROVE  Has(q, x) <=> Head(q) = x \/ Has(Tail(q), x)
<1> DEFINE t == Tail(q)  h == Head(q)
<1>1. /\ h = q[1] /\ Len(q) \in Nat \ {0} /\ Len(t) = Len(q) - 1
      /\ \A i \in 1 .. Len(q) - 1 : t[i] = q[i + 1]
  BY TailElements
<1> HIDE DEF t, h
<1>2. ASSUME Has(q, x) PROVE h = x \/ Has(t, x)
  <2>1. PICK i \in 1 .. Len(q) : q[i] = x
    BY <1>2 DEF Has
  <2>2. CASE i = 1
    BY <2>1, <2>2, <1>1
  <2>3. CASE i # 1
    <3>1. i - 1 \in 1 .. Len(q) - 1 /\ (i - 1) + 1 = i
      BY <2>3, <1>1
    <3> QED
      BY <3>1, <2>1, <1>1 DEF Has
  <2> QED
    BY <2>2, <2>3
<1>3. h = x => Has(q, x)
  <2>1. 1 \in 1 .. Len(q)
    BY <1>1
  <2> QED
    BY <2>1, <1>1 DEF Has
<1>4. Has(t, x) => Has(q, x)
  <2> SUFFICES ASSUME Has(t, x) PROVE Has(q, x)
    OBVIOUS
  <2>1. PICK i \in 1 .. Len(t) : t[i] = x
    BY DEF Has
  <2>2. i + 1 \in 1 .. Len(q) /\ q[i + 1] = x
    BY <2>1, <1>1
  <2> QED
    BY <2>2 DEF Has
<1> QED
  BY <1>2, <1>3, <1>4 DEF t, h

LEMMA EmptyHas ==
  ASSUME NEW m, NEW n PROVE ~Has(<<>>, m) /\ Once(<<>>, m) /\ Preceded(<<>>, n, m)
BY DEF Has, Once, Preceded

LEMMA AppendOnce ==
  ASSUME NEW T, NEW q \in Seq(T), NEW m \in T, NEW x, Once(q, x), x # m \/ ~Has(q, x)
  PROVE  Once(Append(q, m), x)
<1> DEFINE a == Append(q, m)
<1>1. a \in Seq(T) /\ Len(a) = Len(q) + 1 /\ a[Len(q) + 1] = m
      /\ \A i \in 1 .. Len(q) : a[i] = q[i]
  OBVIOUS
<1>2. Len(q) \in Nat
  OBVIOUS
<1> HIDE DEF a
<1>3. \A i \in 1 .. Len(a) : i \in 1 .. Len(q) \/ i = Len(q) + 1
  BY <1>1, <1>2
<1>4. Once(a, x)
  <2> SUFFICES ASSUME NEW i \in 1 .. Len(a), NEW j \in 1 .. Len(a), a[i] = x, a[j] = x
               PROVE  i = j
    BY DEF Once
  <2>1. CASE x # m
    <3>1. i \in 1 .. Len(q) /\ j \in 1 .. Len(q)
      BY <1>1, <1>3, <2>1
    <3> QED
      BY <3>1, <1>1 DEF Once
  <2>2. CASE ~Has(q, x)
    BY <1>1, <1>3, <2>2 DEF Has
  <2> QED
    BY <2>1, <2>2
<1> QED
  BY <1>4 DEF a

LEMMA TailOnce ==
  ASSUME NEW T, NEW q \in Seq(T), q # <<>>, NEW x, Once(q, x)
  PROVE  Once(Tail(q), x) /\ (Head(q) = x => ~Has(Tail(q), x))
<1> DEFINE t == Tail(q)  h == Head(q)
<1>1. /\ h = q[1] /\ Len(q) \in Nat \ {0} /\ Len(t) = Len(q) - 1
      /\ \A i \in 1 .. Len(q) - 1 : t[i] = q[i + 1]
  BY TailElements
<1> HIDE DEF t, h
<1>2. \A i \in 1 .. Len(t) : i + 1 \in 1 .. Len(q) /\ t[i] = q[i + 1]
  BY <1>1
<1>3. Once(t, x)
  <2> SUFFICES ASSUME NEW i \in 1 .. Len(t), NEW j \in 1 .. Len(t), t[i] = x, t[j] = x
               PROVE  i = j
    BY DEF Once
  <2>1. i + 1 = j + 1
    BY <1>2 DEF Once
  <2> QED
    BY <2>1
<1>4. ASSUME h = x, Has(t, x) PROVE FALSE
  <2>1. PICK i \in 1 .. Len(t) : t[i] = x
    BY <1>4 DEF Has
  <2>2. i + 1 \in 1 .. Len(q) /\ q[i + 1] = x /\ 1 \in 1 .. Len(q) /\ q[1] = x
    BY <1>1, <1>2, <1>4, <2>1
  <2>3. i + 1 = 1
    BY <2>2 DEF Once
  <2> QED
    BY <2>3
<1> QED
  BY <1>3, <1>4 DEF t, h

LEMMA AppendPreceded ==
  ASSUME NEW T, NEW q \in Seq(T), NEW k \in T, NEW n, NEW m,
         Preceded(q, n, m), k # n \/ Has(q, m)
  PROVE  Preceded(Append(q, k), n, m)
<1> DEFINE a == Append(q, k)
<1>1. a \in Seq(T) /\ Len(a) = Len(q) + 1 /\ a[Len(q) + 1] = k
      /\ \A i \in 1 .. Len(q) : a[i] = q[i]
  OBVIOUS
<1>2. Len(q) \in Nat
  OBVIOUS
<1> HIDE DEF a
<1>3. Preceded(a, n, m)
  <2> SUFFICES ASSUME NEW i \in 1 .. Len(a), a[i] = n
               PROVE  \E j \in 1 .. i - 1 : a[j] = m
    BY DEF Preceded
  <2>1. CASE i \in 1 .. Len(q)
    <3>1. q[i] = n
      BY <2>1, <1>1
    <3>2. PICK j \in 1 .. i - 1 : q[j] = m
      BY <2>1, <3>1 DEF Preceded
    <3>3. j \in 1 .. Len(q)
      BY <2>1, <1>2
    <3> QED
      BY <3>2, <3>3, <1>1
  <2>2. CASE i = Len(q) + 1
    <3>1. Has(q, m)
      BY <2>2, <1>1
    <3>2. PICK j \in 1 .. Len(q) : q[j] = m
      BY <3>1 DEF Has
    <3>3. j \in 1 .. i - 1
      BY <2>2, <1>2
    <3> QED
      BY <3>2, <3>3, <1>1
  <2> QED
    BY <2>1, <2>2, <1>1, <1>2
<1> QED
  BY <1>3 DEF a

LEMMA TailPreceded ==
  ASSUME NEW T, NEW q \in Seq(T), q # <<>>, NEW n, NEW m, Preceded(q, n, m)
  PROVE  Head(q) # n /\ (Head(q) # m => Preceded(Tail(q), n, m))
<1> DEFINE t == Tail(q)  h == Head(q)
<1>1. /\ h = q[1] /\ Len(q) \in Nat \ {0} /\ Len(t) = Len(q) - 1
      /\ \A i \in 1 .. Len(q) - 1 : t[i] = q[i + 1]
  BY TailElements
<1> HIDE DEF t, h
<1>2. h # n
  BY <1>1 DEF Preceded
<1>3. ASSUME h # m PROVE Preceded(t, n, m)
  <2> SUFFICES ASSUME NEW i \in 1 .. Len(t), t[i] = n
               PROVE  \E j \in 1 .. i - 1 : t[j] = m
    BY DEF Preceded
  <2>1. i + 1 \in 1 .. Len(q) /\ q[i + 1] = n
    BY <1>1
  <2>2. PICK j \in 1 .. (i + 1) - 1 : q[j] = m
    BY <2>1 DEF Preceded
  <2>3. j # 1
    BY <2>2, <1>1, <1>3
  <2>4. j - 1 \in 1 .. i - 1 /\ j - 1 \in 1 .. Len(q) - 1 /\ (j - 1) + 1 = j
    BY <2>2, <2>3, <1>1
  <2> QED
    BY <2>2, <2>4, <1>1
<1> QED
  BY <1>2, <1>3 DEF t, h

-----------------------------------------------------------------------------
(* What a step that leaves a part alone preserves.                         *)

LEMMA MsgFacts ==
  ASSUME NEW s \in Socket, NEW q \in Query, NEW f \in Flag \ {"DNS"}
  PROVE  /\ Msg(f, s) \in Travels /\ Msg("DNS", q) \in Travels /\ Msg(f, s) # Msg("DNS", q)
         /\ Msg(f, s).flag = f /\ Msg(f, s).uuid = s
BY DEF Msg, Travels, SocketMsg, QueryMsg, Flag

LEMMA TravelsAreMessages == Travels \subseteq Message
BY DEF Travels, SocketMsg, QueryMsg, Message, Flag

(* A message that travels is one of a socket or a query, by its flag.         *)
LEMMA TravelFacts ==
  ASSUME NEW m \in Travels
  PROVE  /\ m.flag = "DNS" => m.uuid \in Query /\ m = Msg("DNS", m.uuid)
         /\ m.flag # "DNS" => m.uuid \in Socket /\ m.flag \in Flag /\ m = Msg(m.flag, m.uuid)
BY DEF Travels, SocketMsg, QueryMsg, Msg

LEMMA LinksFrame ==
  ASSUME Links, ReloginPending, UNCHANGED <<vert, ws, logins, link, asked>>
  PROVE  Links' /\ ReloginPending'
BY DEF Links, ReloginPending

LEMMA SocketFrame ==
  ASSUME NEW s \in Socket, Stage(s), Dialogue(s), Mapped(s),
         sock'[s] = sock[s], handler'[s] = handler[s], inbox'[s] = inbox[s],
         sent'[s] = sent[s], seen'[s] = seen[s], asked'[s] = asked[s],
         s \in connectMap' <=> s \in connectMap, vert' = vert \/ sock[s] # "open"
  PROVE  Stage(s)' /\ Dialogue(s)' /\ Mapped(s)'
<1>1. Dialogue(s)' /\ Mapped(s)'
  BY DEF Dialogue, Mapped
<1>2. (Asking(s) => Asking(s)') /\ (Relaying(s) => Relaying(s)')
  BY DEF Asking, Relaying, Replied
<1>3. Stage(s)'
  BY <1>2 DEF Stage
<1> QED
  BY <1>1, <1>3

LEMMA FlowFrame ==
  ASSUME NEW s \in Socket, NEW w \in Login, Flow(s, w),
         up'[w] = up[w], down'[w] = down[w], remote'[w] = remote[w],
         link'[w] = "open" => link[w] = "open",
         sock'[s] \in {"none", "open"} =>
           /\ sock'[s] = sock[s] /\ handler'[s] = handler[s]
           /\ seen'[s] = seen[s] /\ asked'[s] = asked[s]
  PROVE  Flow(s, w)'
BY DEF Flow

(* Nothing is under way on a websocket that is not open.                       *)
LEMMA FlowClosed ==
  ASSUME NEW s \in Socket, NEW w \in Login, Queues, link[w] # "open"
  PROVE  Flow(s, w)
BY EmptyHas DEF Flow, Queues

LEMMA QueryFrame ==
  ASSUME NEW q \in Query, QueryFlow(q), dns'[q] = dns[q], asked'[q] = asked[q],
         q \in dnsQueryMap' <=> q \in dnsQueryMap, 
         vert' = vert \/ dns[q] \notin {"open", "lost"},
         \A w \in Login :
           /\ DnsUnderWay(q, w)' => DnsUnderWay(q, w)
           /\ link'[w] = "open" => link[w] = "open" /\ (DnsUnderWay(q, w) => DnsUnderWay(q, w)')
  PROVE  QueryFlow(q)'
BY DEF QueryFlow

-----------------------------------------------------------------------------
(* The websocket.                                                          *)

LEMMA InitIInv == Init => IInv
<1> SUFFICES ASSUME Init PROVE IInv
  OBVIOUS
<1> USE RelayAssumption
<1>1. TypeOK
  BY DEF Init, TypeOK, Login
<1>2. Links /\ ReloginPending
  BY DEF Init, Links, ReloginPending, Login
<1>3. Queues
  BY DEF Init, Queues
<1>4. ASSUME NEW s \in Socket PROVE Stage(s) /\ Dialogue(s) /\ Mapped(s)
  BY DEF Init, Stage, Dialogue, Mapped
<1>5. ASSUME NEW s \in Socket, NEW w \in Login PROVE Flow(s, w)
  BY <1>3, FlowClosed DEF Init
<1>6. ASSUME NEW q \in Query PROVE QueryFlow(q)
  <2>1. \A w \in Login : ~DnsUnderWay(q, w)
    BY EmptyHas DEF Init, DnsUnderWay
  <2> QED
    BY <2>1 DEF Init, QueryFlow
<1> QED
  BY <1>1, <1>2, <1>3, <1>4, <1>5, <1>6 DEF IInv

LEMMA StartStep ==
  ASSUME IInv, start PROVE IInv'
<1> USE RelayAssumption
<1>1. 1 \in Login /\ ws = 0 /\ logins = 0 /\ (\A w \in Login : link[w] = "unused")
  BY DEF IInv, TypeOK, Links, start, Login
<1>2. /\ vert' = "up" /\ logins' = 1 /\ link' = [link EXCEPT ![1] = "connecting"]
      /\ UNCHANGED <<ws, up, down, remote, sock, handler, inbox, sent, rsent, seen,
                     connectMap, dns, dnsQueryMap, asked>>
  BY DEF start, sockVars, dnsVars
<1>3. TypeOK'
  BY <1>1, <1>2 DEF IInv, TypeOK
<1>4. Links' /\ ReloginPending'
  BY <1>1, <1>2 DEF IInv, Links, ReloginPending, TypeOK, Login
<1>5. Queues'
  BY <1>1, <1>2 DEF IInv, Queues
<1>6. ASSUME NEW s \in Socket PROVE Stage(s)' /\ Dialogue(s)' /\ Mapped(s)'
  <2>1. sock[s] # "open"
    BY DEF IInv, Stage, start
  <2> QED
    BY <2>1, <1>2, SocketFrame DEF IInv
<1>7. ASSUME NEW s \in Socket, NEW w \in Login PROVE Flow(s, w)'
  BY <1>1, <1>2, FlowFrame DEF IInv, TypeOK
<1>8. ASSUME NEW q \in Query PROVE QueryFlow(q)'
  <2>1. dns[q] \notin {"open", "lost"}
    BY DEF IInv, QueryFlow, start
  <2>2. \A w \in Login : link'[w] # "open" /\ (DnsUnderWay(q, w)' <=> DnsUnderWay(q, w))
    BY <1>1, <1>2 DEF IInv, TypeOK, DnsUnderWay
  <2> QED
    BY <2>1, <2>2, <1>2, QueryFrame DEF IInv
<1> QED
  BY <1>3, <1>4, <1>5, <1>6, <1>7, <1>8 DEF IInv

LEMMA LoginSucceedsStep ==
  ASSUME IInv, NEW w \in Login, LoginSucceeds(w) PROVE IInv'
<1> USE RelayAssumption
<1>1. /\ w = logins /\ ws < w /\ vert = "up" /\ \A v \in Login : link[v] # "open"
      /\ \A u \in Socket \cup Query : asked[u] # w /\ asked[u] <= ws
  BY DEF IInv, Links, LoginSucceeds, TypeOK, Login
<1>2. /\ link' = [link EXCEPT ![w] = "open"] /\ ws' = w
      /\ UNCHANGED <<vert, logins, up, down, remote, sock, handler, inbox, sent, rsent,
                     seen, connectMap, dns, dnsQueryMap, asked>>
  BY DEF LoginSucceeds, sockVars, dnsVars
<1>3. TypeOK'
  BY <1>2 DEF IInv, TypeOK, Login
<1>4. Links' /\ ReloginPending'
  <2>1. /\ \A v \in Login : link'[v] = "open" => v = w
        /\ \A v \in Login : link'[v] # "connecting" /\ (v > logins => link'[v] = "unused")
        /\ link'[w] = "open"
    BY <1>1, <1>2 DEF IInv, TypeOK, Links, Login
  <2>2. \A u \in Socket \cup Query : asked[u] <= w
    BY <1>1 DEF IInv, TypeOK, Login
  <2> QED
    BY <1>1, <1>2, <2>1, <2>2 DEF IInv, Links, ReloginPending, TypeOK, Login
<1>5. Queues'
  BY <1>1, <1>2 DEF IInv, Queues, TypeOK
<1>6. ASSUME NEW s \in Socket PROVE Stage(s)' /\ Dialogue(s)' /\ Mapped(s)'
  BY <1>2, SocketFrame DEF IInv
<1>7. ASSUME NEW s \in Socket, NEW v \in Login PROVE Flow(s, v)'
  <2>1. CASE v = w
    <3>1. up'[v] = <<>> /\ down'[v] = <<>> /\ remote'[v] = {} /\ asked'[s] # v
      BY <2>1, <1>1, <1>2 DEF IInv, Queues
    <3> QED
      BY <3>1, EmptyHas DEF Flow
  <2>2. CASE v # w
    <3>1. link'[v] = link[v]
      BY <2>2, <1>2 DEF IInv, TypeOK
    <3> QED
      BY <3>1, <1>2, FlowFrame DEF IInv
  <2> QED
    BY <2>1, <2>2
<1>8. ASSUME NEW q \in Query PROVE QueryFlow(q)'
  <2>1. \A v \in Login : DnsUnderWay(q, v)' <=> DnsUnderWay(q, v)
    BY <1>2 DEF DnsUnderWay
  <2> QED
    BY <2>1, <1>1, <1>2 DEF IInv, QueryFlow, TypeOK
<1> QED
  BY <1>3, <1>4, <1>5, <1>6, <1>7, <1>8 DEF IInv

LEMMA LoginFailsStep ==
  ASSUME IInv, NEW w \in Login, LoginFails(w) PROVE IInv'
<1>1. w = logins /\ ws < w /\ \A v \in Login : link[v] # "open"
  BY DEF IInv, Links, LoginFails
<1>2. /\ link' = [link EXCEPT ![w] = "failed"]
      /\ UNCHANGED <<vert, ws, logins, up, down, remote, sock, handler, inbox, sent, rsent,
                     seen, connectMap, dns, dnsQueryMap, asked>>
  BY DEF LoginFails, sockVars, dnsVars
<1>3. /\ link'[w] = "failed" /\ \A v \in Login : v # w => link'[v] = link[v]
      /\ \A v \in Login : link'[v] # "open"
  BY <1>1, <1>2 DEF IInv, TypeOK
<1>4. TypeOK'
  BY <1>2 DEF IInv, TypeOK
<1>5. Links' /\ ReloginPending'
  BY <1>1, <1>2, <1>3 DEF IInv, Links, ReloginPending, TypeOK, Login
<1>6. Queues'
  BY <1>1, <1>2, <1>3 DEF IInv, Queues
<1>7. ASSUME NEW s \in Socket PROVE Stage(s)' /\ Dialogue(s)' /\ Mapped(s)'
  BY <1>2, SocketFrame DEF IInv
<1>8. ASSUME NEW s \in Socket, NEW v \in Login PROVE Flow(s, v)'
  BY <1>2, <1>3, FlowFrame DEF IInv
<1>9. ASSUME NEW q \in Query PROVE QueryFlow(q)'
  BY <1>2, <1>3, QueryFrame DEF IInv, DnsUnderWay
<1> QED
  BY <1>4, <1>5, <1>6, <1>7, <1>8, <1>9 DEF IInv

(* A step that closes the one open websocket loses all that was under way.     *)
LEMMA ClosedFlows ==
  ASSUME IInv, Queues', \A v \in Login : link'[v] # "open",
         UNCHANGED <<vert, sockVars, dnsVars, asked>>
  PROVE  /\ \A s \in Socket : Stage(s)' /\ Dialogue(s)' /\ Mapped(s)'
         /\ \A s \in Socket, v \in Login : Flow(s, v)'
         /\ \A q \in Query : QueryFlow(q)'
<1>1. UNCHANGED <<vert, sock, handler, inbox, sent, rsent, seen, connectMap, dns,
                  dnsQueryMap, asked>>
  BY DEF sockVars, dnsVars
<1>2. ASSUME NEW s \in Socket PROVE Stage(s)' /\ Dialogue(s)' /\ Mapped(s)'
  BY <1>1, SocketFrame DEF IInv
<1>3. ASSUME NEW s \in Socket, NEW v \in Login PROVE Flow(s, v)'
  <2>1. up'[v] = <<>> /\ down'[v] = <<>> /\ remote'[v] = {} /\ link'[v] # "open"
    BY DEF Queues
  <2> QED
    BY <2>1, EmptyHas DEF Flow
<1>4. ASSUME NEW q \in Query PROVE QueryFlow(q)'
  <2>1. \A v \in Login : ~DnsUnderWay(q, v)'
    BY EmptyHas DEF Queues, DnsUnderWay
  <2> QED
    BY <2>1, <1>1, QueryFrame DEF IInv
<1> QED
  BY <1>2, <1>3, <1>4

LEMMA ExceptionStep ==
  ASSUME IInv, NEW w \in Login, exceptionHandler(w) PROVE IInv'
<1> USE RelayAssumption
<1>1. /\ w = ws /\ vert = "up" /\ logins < MaxLogins
      /\ \A v \in Login : link[v] = "open" => v = w
      /\ \A v \in Login : link[v] # "connecting"
  BY DEF IInv, Links, exceptionHandler
<1>2. logins + 1 \in Login /\ logins + 1 # w /\ logins' = logins + 1
  BY <1>1 DEF IInv, Links, TypeOK, Login, exceptionHandler
<1>3. UNCHANGED <<vert, ws, sockVars, dnsVars, asked>>
  BY DEF exceptionHandler
<1>4. /\ link'[w] = "closed" /\ link'[logins + 1] = "connecting"
      /\ \A v \in Login : v # w /\ v # logins + 1 => link'[v] = link[v]
      /\ link' \in [Login -> {"unused", "connecting", "open", "closed", "dropped", "failed"}]
  BY <1>1, <1>2 DEF IInv, TypeOK, exceptionHandler
<1>5. \A v \in Login : /\ link'[v] # "open"
                       /\ up'[v] = <<>> /\ down'[v] = <<>> /\ remote'[v] = {}
  BY <1>1, <1>2, <1>4 DEF IInv, Queues, exceptionHandler, CloseLinks
<1>6. /\ up' \in [Login -> Seq(Travels)] /\ down' \in [Login -> Seq(Travels)]
      /\ up' \in [Login -> Seq(Message)] /\ down' \in [Login -> Seq(Message)]
      /\ remote' \in [Login -> SUBSET Socket]
  BY DEF IInv, Queues, TypeOK, exceptionHandler, CloseLinks
<1>7. TypeOK'
  <2>1. logins' \in 0 .. MaxLogins
    BY <1>2 DEF Login
  <2> QED
    BY <2>1, <1>3, <1>4, <1>6 DEF IInv, TypeOK, sockVars, dnsVars
<1>8. Links' /\ ReloginPending'
  BY <1>1, <1>2, <1>3, <1>4, <1>5 DEF IInv, Links, ReloginPending, TypeOK, Login
<1>9. Queues'
  BY <1>5, <1>6 DEF Queues
<1> QED
  BY <1>3, <1>5, <1>7, <1>8, <1>9, ClosedFlows DEF IInv

LEMMA RemoteClosesStep ==
  ASSUME IInv, NEW w \in Login, RemoteCloses(w) PROVE IInv'
<1>1. /\ w = ws /\ \A v \in Login : link[v] = "open" => v = w
      /\ \A v \in Login : link[v] # "connecting"
  BY DEF IInv, Links, RemoteCloses
<1>2. UNCHANGED <<vert, ws, logins, sockVars, dnsVars, asked>>
  BY DEF RemoteCloses
<1>3. /\ link'[w] = "dropped" /\ \A v \in Login : v # w => link'[v] = link[v]
      /\ link' \in [Login -> {"unused", "connecting", "open", "closed", "dropped", "failed"}]
  BY DEF IInv, TypeOK, RemoteCloses
<1>4. \A v \in Login : /\ link'[v] # "open"
                       /\ up'[v] = <<>> /\ down'[v] = <<>> /\ remote'[v] = {}
  BY <1>1, <1>3 DEF IInv, Queues, RemoteCloses, CloseLinks
<1>5. /\ up' \in [Login -> Seq(Travels)] /\ down' \in [Login -> Seq(Travels)]
      /\ up' \in [Login -> Seq(Message)] /\ down' \in [Login -> Seq(Message)]
      /\ remote' \in [Login -> SUBSET Socket]
  BY DEF IInv, Queues, TypeOK, RemoteCloses, CloseLinks
<1>6. TypeOK'
  BY <1>2, <1>3, <1>5 DEF IInv, TypeOK, sockVars, dnsVars
<1>7. Links' /\ ReloginPending'
  <2>1. vert' = vert /\ ws' = ws /\ logins' = logins /\ asked' = asked
    BY <1>2
  <2>2. ReloginPending'
    BY <2>1, <1>1, <1>3 DEF ReloginPending
  <2>3. ws <= logins /\ \A v \in Login : v > logins => link'[v] = "unused"
    BY <1>1, <1>3 DEF IInv, Links, RemoteCloses, TypeOK, Login
  <2>4. \A v \in Login : link'[v] # "connecting"
    BY <1>1, <1>3
  <2>5. Links'
    BY <2>1, <2>3, <2>4, <1>4 DEF IInv, Links
  <2> QED
    BY <2>2, <2>5
<1>8. Queues'
  BY <1>4, <1>5 DEF Queues
<1> QED
  BY <1>2, <1>4, <1>6, <1>7, <1>8, ClosedFlows DEF IInv

-----------------------------------------------------------------------------
(* Local connections.                                                      *)

(* A step of the socket s that touches no websocket: what is left to show.     *)
LEMMA LocalStep ==
  ASSUME IInv, NEW s \in Socket, TypeOK',
         UNCHANGED <<vert, wsVars, dnsVars, asked>>,
         \A t \in Socket : t # s =>
           /\ sock'[t] = sock[t] /\ handler'[t] = handler[t] /\ inbox'[t] = inbox[t]
           /\ sent'[t] = sent[t] /\ seen'[t] = seen[t]
           /\ t \in connectMap' <=> t \in connectMap,
         Stage(s)' /\ Dialogue(s)' /\ Mapped(s)',
         \A w \in Login : Flow(s, w)'
  PROVE  IInv'
<1>1. UNCHANGED <<vert, ws, logins, link, up, down, remote, dns, dnsQueryMap, asked>>
  BY DEF wsVars, dnsVars
<1>2. Links' /\ ReloginPending'
  BY <1>1, LinksFrame DEF IInv
<1>3. Queues'
  BY <1>1 DEF IInv, Queues
<1>4. ASSUME NEW t \in Socket PROVE Stage(t)' /\ Dialogue(t)' /\ Mapped(t)'
  <2>1. CASE t # s
    BY <2>1, <1>1, SocketFrame DEF IInv
  <2> QED
    BY <2>1
<1>5. ASSUME NEW t \in Socket, NEW w \in Login PROVE Flow(t, w)'
  <2>1. CASE t # s
    BY <2>1, <1>1, FlowFrame DEF IInv
  <2> QED
    BY <2>1
<1>6. ASSUME NEW q \in Query PROVE QueryFlow(q)'
  BY <1>1, QueryFrame DEF IInv, DnsUnderWay
<1> QED
  BY <1>2, <1>3, <1>4, <1>5, <1>6 DEF IInv

LEMMA ConnectStep ==
  ASSUME IInv, NEW s \in Socket, connectHandler(s) PROVE IInv'
<1>1. /\ vert = "up" /\ sock[s] = "none"
      /\ sock' = [sock EXCEPT ![s] = IF ws = 0 THEN "closing" ELSE "open"]
      /\ UNCHANGED <<vert, wsVars, handler, inbox, sent, rsent, seen, connectMap,
                     dnsVars, asked>>
  BY DEF connectHandler
<1>2. sock'[s] \in {"open", "closing"} /\ \A t \in Socket : t # s => sock'[t] = sock[t]
  BY <1>1 DEF IInv, TypeOK
<1>3. TypeOK'
  BY <1>1 DEF IInv, TypeOK, wsVars, dnsVars
<1>4. /\ sent[s] = 0 /\ inbox[s] = <<>> /\ seen[s] = <<>> /\ asked[s] = 0
      /\ handler[s] = "socks" /\ s \notin connectMap
  BY <1>1 DEF IInv, Stage, Mapped
<1>5. Stage(s)' /\ Dialogue(s)' /\ Mapped(s)'
  BY <1>1, <1>2, <1>4 DEF IInv, Stage, Asking, Dialogue, Mapped
<1>6. ASSUME NEW w \in Login PROVE Flow(s, w)'
  <2>1. Flow(s, w)
    BY DEF IInv
  <2>2. up' = up /\ down' = down /\ remote' = remote /\ link' = link
    BY <1>1 DEF wsVars
  <2> QED
    BY <2>1, <2>2, <1>1 DEF Flow
<1> QED
  BY <1>1, <1>2, <1>3, <1>5, <1>6, LocalStep

(* Short sequences.                                                            *)
LEMMA ShortSeq ==
  ASSUME NEW T, NEW a \in T, NEW b \in T
  PROVE  /\ Append(<<>>, a) = <<a>> /\ Append(<<a>>, b) = <<a, b>>
         /\ Head(<<a>>) = a /\ Tail(<<a>>) = <<>> /\ <<a>> # <<>>
         /\ Len(<<>>) = 0 /\ Len(<<a>>) = 1 /\ Len(<<a, b>>) = 2
         /\ <<a>>[1] = a /\ <<a, b>>[1] = a /\ <<a, b>>[2] = b
<1>1. Append(<<>>, a) = <<a>>
  OBVIOUS
<1>2. Append(<<a>>, b) = <<a, b>>
  <2> DEFINE x == Append(<<a>>, b)  y == <<a, b>>
  <2>1. x \in Seq(T) /\ Len(x) = 2 /\ x[1] = a /\ x[2] = b
    OBVIOUS
  <2>2. y \in Seq(T) /\ Len(y) = 2 /\ y[1] = a /\ y[2] = b
    OBVIOUS
  <2>3. x = [i \in 1 .. 2 |-> x[i]] /\ y = [i \in 1 .. 2 |-> y[i]]
    BY <2>1, <2>2
  <2> HIDE DEF x, y
  <2>4. \A i \in 1 .. 2 : x[i] = y[i]
    BY <2>1, <2>2
  <2>5. x = y
    BY <2>3, <2>4
  <2> QED
    BY <2>5 DEF x, y
<1>3. Head(<<a>>) = a /\ Tail(<<a>>) = <<>>
  OBVIOUS
<1>4. <<a>> # <<>> /\ Len(<<>>) = 0 /\ Len(<<a>>) = 1 /\ Len(<<a, b>>) = 2
  OBVIOUS
<1>5. <<a>>[1] = a /\ <<a, b>>[1] = a /\ <<a, b>>[2] = b
  OBVIOUS
<1> QED
  BY <1>1, <1>2, <1>3, <1>4, <1>5

(* What an open socket has seen, by its handler.                                *)
LEMMA OpenSeen ==
  ASSUME NEW s \in Socket, Stage(s), sock[s] = "open"
  PROVE  /\ handler[s] = "socks" => seen[s] \in {<<>>, <<"method">>,
                                  <<"method", "udpreply">>, <<"method", "refused">>}
         /\ handler[s] = "raw" => Relaying(s) /\ Len(seen[s]) > 1 /\ seen[s][2] = "reply"
         /\ handler[s] = "socks" => Asking(s)
         /\ vert = "up" /\ handler[s] \in {"socks", "raw"}
BY DEF Stage, Asking, Relaying, Replied

LEMMA ClientWritesStep ==
  ASSUME IInv, NEW s \in Socket, NEW b \in FromClient, ClientWrites(s, b) PROVE IInv'
<1>1. /\ sock[s] = "open" /\ inbox' = [inbox EXCEPT ![s] = Append(@, b)]
      /\ sent' = [sent EXCEPT ![s] = @ + 1]
      /\ UNCHANGED <<vert, wsVars, sock, handler, rsent, seen, connectMap, dnsVars, asked>>
  BY DEF ClientWrites
<1>2. /\ inbox[s] \in Seq(FromClient) /\ inbox'[s] = Append(inbox[s], b)
      /\ sent[s] \in Nat /\ sent'[s] = sent[s] + 1
      /\ \A t \in Socket : t # s => inbox'[t] = inbox[t] /\ sent'[t] = sent[t]
  BY <1>1 DEF IInv, TypeOK
<1>3. TypeOK'
  <2>1. sent[s] + 1 \in 0 .. 2 + MaxData
    BY RelayAssumption, <1>2 DEF ClientWrites
  <2>2. inbox' \in [Socket -> Seq(FromClient)] /\ sent' \in [Socket -> 0 .. 2 + MaxData]
    BY <2>1, <1>1, <1>2 DEF IInv, TypeOK
  <2> QED
    BY <2>2, <1>1 DEF IInv, TypeOK, wsVars, dnsVars
<1>4. Stage(s) /\ Dialogue(s) /\ Mapped(s)
  BY DEF IInv
<1>5. vert = "up" /\ (asked[s] # 0 => s \in connectMap)
  BY <1>1, <1>4 DEF Stage
<1>6. ASSUME handler[s] = "socks" PROVE Stage(s)' /\ Dialogue(s)' /\ Mapped(s)'
  <2>1. Asking(s)
    BY <1>1, <1>4, <1>6, OpenSeen
  <2>2. CASE sent[s] = 0 /\ b \in {"hello", "bad"}
    <3>1. inbox[s] = <<>> /\ seen[s] = <<>> /\ asked[s] = 0
      BY <2>1, <2>2 DEF Asking
    <3>2. inbox'[s] = <<b>> /\ sent'[s] = 1
      BY <3>1, <2>2, <1>2, ShortSeq
    <3>3. Stage(s)'
      BY <3>1, <3>2, <2>2, <1>1, <1>5, <1>6 DEF Stage, Asking
    <3>4. \A i \in 1 .. Len(inbox'[s]) : inbox'[s][i] # "data"
      BY <3>2, <2>2
    <3> QED
      BY <3>3, <3>4, <1>1, <1>4 DEF Dialogue, Mapped
  <2>3. CASE sent[s] = 1 /\ seen[s] = <<"method">> /\ b \in Request
    <3>1. inbox[s] = <<>> /\ asked[s] = 0
      BY <2>1, <2>3 DEF Asking
    <3>2. inbox'[s] = <<b>> /\ sent'[s] = 2
      BY <3>1, <2>3, <1>2, ShortSeq
    <3>3. Asking(s)'
      BY <3>1, <3>2, <2>3, <1>1 DEF Asking
    <3>4. Stage(s)'
      BY <3>3, <1>1, <1>5, <1>6 DEF Stage
    <3>5. \A i \in 1 .. Len(inbox'[s]) : inbox'[s][i] # "data"
      BY <3>2, <2>3 DEF Request
    <3> QED
      BY <3>4, <3>5, <1>1, <1>4 DEF Dialogue, Mapped
  <2>4. CASE Len(seen[s]) > 1 /\ seen[s][2] = "reply"
    BY <2>4, <1>1, <1>4, <1>6, OpenSeen
  <2> QED
    BY <2>2, <2>3, <2>4 DEF ClientWrites, Stage, Dialogue, Mapped
<1>7. ASSUME handler[s] = "raw" PROVE Stage(s)' /\ Dialogue(s)' /\ Mapped(s)'
  <2>1. Relaying(s) /\ Len(seen[s]) > 1
    BY <1>1, <1>4, <1>7, OpenSeen
  <2>2. sent[s] >= 2 /\ b = "data"
    <3>1. sent[s] >= 2
      BY <2>1 DEF Relaying
    <3> QED
      BY <3>1, <1>2 DEF ClientWrites
  <2>3. \A i \in 1 .. Len(inbox'[s]) : inbox'[s][i] = "data"
    <3> DEFINE q == inbox[s]
    <3>1. Len(inbox'[s]) = Len(q) + 1 /\ inbox'[s][Len(q) + 1] = b
          /\ \A i \in 1 .. Len(q) : inbox'[s][i] = q[i]
      BY <1>2
    <3>2. Len(q) \in Nat /\ \A i \in 1 .. Len(q) : q[i] = "data"
      BY <1>2, <2>1 DEF Relaying
    <3> QED
      BY <3>1, <3>2, <2>2
  <2>4. Relaying(s)'
    BY <2>1, <2>3, <1>1, <1>2 DEF Relaying, Replied
  <2> QED
    BY <2>4, <1>1, <1>4, <1>5, <1>7 DEF Stage, Dialogue, Mapped
<1>8. Stage(s)' /\ Dialogue(s)' /\ Mapped(s)'
  BY <1>1, <1>4, <1>6, <1>7, OpenSeen
<1>9. ASSUME NEW w \in Login PROVE Flow(s, w)'
  BY <1>1, FlowFrame DEF IInv, wsVars
<1> QED
  BY <1>1, <1>2, <1>3, <1>8, <1>9, LocalStep

LEMMA ClientClosesStep ==
  ASSUME IInv, NEW s \in Socket, ClientCloses(s) PROVE IInv'
<1>1. /\ sock' = [sock EXCEPT ![s] = "closing"] /\ inbox' = [inbox EXCEPT ![s] = <<>>]
      /\ UNCHANGED <<vert, wsVars, handler, sent, rsent, seen, connectMap, dnsVars, asked>>
  BY DEF ClientCloses, close
<1>2. /\ sock'[s] = "closing" /\ inbox'[s] = <<>>
      /\ \A t \in Socket : t # s => sock'[t] = sock[t] /\ inbox'[t] = inbox[t]
  BY <1>1 DEF IInv, TypeOK
<1>3. TypeOK'
  BY <1>1 DEF IInv, TypeOK, wsVars, dnsVars
<1>4. Stage(s)' /\ Dialogue(s)' /\ Mapped(s)'
  BY <1>1, <1>2 DEF IInv, Stage, Dialogue, Mapped
<1>5. ASSUME NEW w \in Login PROVE Flow(s, w)'
  BY <1>2 DEF Flow
<1> QED
  BY <1>1, <1>2, <1>3, <1>4, <1>5, LocalStep

LEMMA CloseHandlerStep ==
  ASSUME IInv, NEW s \in Socket, closeHandler(s) PROVE IInv'
<1>1. /\ sock' = [sock EXCEPT ![s] = "gone"] /\ connectMap' = connectMap \ {s}
      /\ UNCHANGED <<vert, wsVars, handler, inbox, sent, rsent, seen, dnsVars, asked>>
  BY DEF closeHandler
<1>2. sock'[s] = "gone" /\ \A t \in Socket : t # s => sock'[t] = sock[t]
  BY <1>1 DEF IInv, TypeOK
<1>3. TypeOK'
  BY <1>1 DEF IInv, TypeOK, wsVars, dnsVars
<1>4. Stage(s)' /\ Dialogue(s)' /\ Mapped(s)'
  BY <1>1, <1>2 DEF IInv, Stage, Dialogue, Mapped
<1>5. ASSUME NEW w \in Login PROVE Flow(s, w)'
  BY <1>2 DEF Flow
<1> QED
  BY <1>1, <1>2, <1>3, <1>4, <1>5, LocalStep

(* Writing m to the current websocket, or not at all.                           *)
LEMMA WsWrite ==
  ASSUME IInv, NEW m \in Travels, wsWrite(m) \/ UNCHANGED up
  PROVE  /\ up' \in [Login -> Seq(Travels)] /\ up' \in [Login -> Seq(Message)]
         /\ \A w \in Login : link[w] # "open" => up'[w] = <<>>
         /\ \A w \in Login : \/ up'[w] = up[w]
                             \/ wsWrite(m) /\ WsOpen /\ w = ws /\ up'[w] = Append(up[w], m)
         /\ WsOpen /\ wsWrite(m) => ws \in Login /\ up'[ws] = Append(up[ws], m)
<1>1. m \in Message
  BY TravelsAreMessages
<1>2. WsOpen => ws \in Login
  BY DEF WsOpen, IInv, TypeOK, Login
<1>3. CASE up' = up
  BY <1>1, <1>2, <1>3 DEF IInv, TypeOK, Queues, wsWrite
<1>4. CASE WsOpen /\ up' = [up EXCEPT ![ws] = Append(@, m)] /\ wsWrite(m)
  <2>1. /\ up[ws] \in Seq(Travels) /\ up[ws] \in Seq(Message)
        /\ up'[ws] = Append(up[ws], m) /\ \A w \in Login : w # ws => up'[w] = up[w]
    BY <1>2, <1>4 DEF IInv, TypeOK, Queues
  <2>2. up' \in [Login -> Seq(Travels)] /\ up' \in [Login -> Seq(Message)]
    BY <1>1, <1>2, <1>4, <2>1 DEF IInv, TypeOK, Queues
  <2> QED
    BY <1>2, <1>4, <2>1, <2>2 DEF IInv, Queues, WsOpen
<1> QED
  BY <1>3, <1>4 DEF wsWrite

LEMMA WsWriteHas ==
  ASSUME IInv, NEW m \in Travels, wsWrite(m) \/ UNCHANGED up, NEW w \in Login, NEW x
  PROVE  /\ Has(up'[w], x) => Has(up[w], x) \/ (x = m /\ w = ws /\ WsOpen)
         /\ Has(up[w], x) => Has(up'[w], x)
         /\ x = m /\ WsOpen /\ w = ws /\ wsWrite(m) => Has(up'[w], x)
         /\ Once(up[w], x) /\ (x # m \/ ~Has(up[w], x)) => Once(up'[w], x)
<1>1. up[w] \in Seq(Travels)
  BY DEF IInv, Queues
<1>2. CASE w = ws /\ WsOpen /\ up'[w] = Append(up[w], m)
  BY <1>1, <1>2, AppendHas, AppendOnce
<1>3. CASE up'[w] = up[w] /\ ~(WsOpen /\ w = ws /\ wsWrite(m))
  BY <1>3
<1> QED
  BY <1>2, <1>3, WsWrite

(* A step of the socket s that writes at most one message of its own: what is   *)
(* left to show.                                                                *)
LEMMA SocketWriteStep ==
  ASSUME IInv, NEW s \in Socket, NEW f \in Flag \ {"DNS"},
         wsWrite(Msg(f, s)) \/ UNCHANGED up,
         UNCHANGED <<vert, ws, logins, link, down, remote, handler, sent, rsent, dnsVars>>,
         \A t \in Socket : t # s =>
           /\ sock'[t] = sock[t] /\ inbox'[t] = inbox[t] /\ seen'[t] = seen[t]
           /\ t \in connectMap' <=> t \in connectMap,
         asked' = asked \/ (WsOpen /\ asked' = [asked EXCEPT ![s] = ws]),
         sock' \in [Socket -> {"none", "open", "closing", "gone"}],
         inbox' \in [Socket -> Seq(FromClient)], seen' \in [Socket -> Seq(ToClient)],
         connectMap' \subseteq Socket,
         Stage(s)' /\ Dialogue(s)' /\ Mapped(s)',
         \A w \in Login : Flow(s, w)'
  PROVE  IInv'
<1> DEFINE m == Msg(f, s)
<1>1. m \in Travels
  BY DEF Travels, SocketMsg, Msg
<1> HIDE DEF m
<1>2. UNCHANGED <<dns, dnsQueryMap>>
  BY DEF dnsVars
<1>3. /\ asked' \in [Socket \cup Query -> 0 .. MaxLogins]
      /\ \A u \in Socket \cup Query : asked'[u] <= ws
      /\ \A u \in Socket \cup Query : u # s => asked'[u] = asked[u]
  <2>1. /\ asked \in [Socket \cup Query -> 0 .. MaxLogins] /\ ws \in 0 .. MaxLogins
        /\ \A u \in Socket \cup Query : asked[u] <= ws
    BY DEF IInv, Links, TypeOK
  <2>2. CASE asked' = [asked EXCEPT ![s] = ws]
    <3>1. asked'[s] = ws /\ ws <= ws
      BY <2>1, <2>2, RelayAssumption
    <3> QED
      BY <3>1, <2>1, <2>2
  <2> QED
    BY <2>1, <2>2
<1>4. wsWrite(m) \/ UNCHANGED up
  BY DEF m
<1>5. TypeOK'
  BY <1>1, <1>2, <1>3, <1>4, WsWrite DEF IInv, TypeOK
<1>6. Links' /\ ReloginPending'
  BY <1>3 DEF IInv, Links, ReloginPending
<1>7. Queues'
  BY <1>1, <1>4, WsWrite DEF IInv, Queues
<1>8. ASSUME NEW t \in Socket PROVE Stage(t)' /\ Dialogue(t)' /\ Mapped(t)'
  <2>1. CASE t # s
    BY <2>1, <1>3, SocketFrame DEF IInv
  <2> QED
    BY <2>1
<1>9. ASSUME NEW t \in Socket, NEW w \in Login PROVE Flow(t, w)'
  <2>1. CASE t # s
    <3> DEFINE C == Msg("CONNECT", t)
    <3>1. C # m
      BY <2>1 DEF m, Msg
    <3>2. /\ Has(up'[w], C) <=> Has(up[w], C)
          /\ Once(up[w], C) => Once(up'[w], C)
      BY <3>1, <1>1, <1>4, WsWriteHas
    <3>3. Flow(t, w)
      BY DEF IInv
    <3>4. asked'[t] = asked[t]
      BY <1>3, <2>1
    <3>5. sock'[t] = sock[t] /\ seen'[t] = seen[t]
      BY <2>1
    <3> QED
      BY <3>2, <3>3, <3>4, <3>5 DEF Flow
  <2> QED
    BY <2>1
<1>10. ASSUME NEW q \in Query PROVE QueryFlow(q)'
  <2>1. asked'[q] = asked[q]
    BY <1>3, RelayAssumption
  <2>2. m # Msg("DNS", q)
    BY DEF m, Msg
  <2>3. \A w \in Login : Has(up[w], Msg("DNS", q)) <=> Has(up'[w], Msg("DNS", q))
    BY <2>2, <1>1, <1>4, WsWriteHas
  <2>4. \A w \in Login : DnsUnderWay(q, w)' <=> DnsUnderWay(q, w)
    BY <2>3 DEF DnsUnderWay
  <2> QED
    BY <2>1, <2>4, <1>2, QueryFrame DEF IInv
<1> QED
  BY <1>5, <1>6, <1>7, <1>8, <1>9, <1>10 DEF IInv

(* The client's greeting or request is the one buffer the SOCKS parser has.      *)
LEMMA ParserInput ==
  ASSUME NEW s \in Socket, Asking(s), inbox[s] # <<>>
  PROVE  /\ inbox[s] = <<Head(inbox[s])>> /\ Tail(inbox[s]) = <<>> /\ asked[s] = 0
         /\ \/ Head(inbox[s]) \in {"hello", "bad"} /\ sent[s] = 1 /\ seen[s] = <<>>
            \/ Head(inbox[s]) \in Request /\ sent[s] = 2 /\ seen[s] = <<"method">>
<1>1. CASE inbox[s] \in {<<"hello">>, <<"bad">>}
  <2>1. sent[s] = 1 /\ seen[s] = <<>> /\ asked[s] = 0
    BY <1>1 DEF Asking, Request
  <2>2. PICK b \in {"hello", "bad"} : inbox[s] = <<b>>
    BY <1>1
  <2> QED
    BY <2>1, <2>2
<1>2. CASE inbox[s] \in {<<b>> : b \in Request}
  <2>1. PICK b \in Request : inbox[s] = <<b>>
    BY <1>2
  <2>2. sent[s] = 2 /\ seen[s] = <<"method">> /\ asked[s] = 0
    BY <2>1 DEF Asking, Request
  <2> QED
    BY <2>1, <2>2
<1> QED
  BY <1>1, <1>2 DEF Asking

(* Nothing is under way for a socket that has not asked.                         *)
LEMMA NotAsked ==
  ASSUME NEW s \in Socket, NEW w \in Login, Flow(s, w), sock[s] = "open", asked[s] = 0
  PROVE  ~Has(up[w], Msg("CONNECT", s)) /\ ~Has(down[w], Msg("CONNECT_SUCCESS", s))
<1>1. w # 0
  BY DEF Login
<1> QED
  BY <1>1 DEF Flow

LEMMA RelayedStep ==
  ASSUME IInv, NEW s \in Socket, SocketData(s), handler[s] = "raw" PROVE IInv'
<1>1. /\ sock[s] = "open" /\ inbox[s] # <<>> /\ wsWrite(Msg("RAW", s))
      /\ inbox' = [inbox EXCEPT ![s] = Tail(@)] /\ UNCHANGED <<sock, seen, connectMap, asked>>
      /\ UNCHANGED <<vert, ws, logins, link, down, remote, handler, sent, rsent, dnsVars>>
  BY DEF SocketData
<1>2. Stage(s) /\ Dialogue(s) /\ Mapped(s) /\ inbox[s] \in Seq(FromClient)
  BY DEF IInv, TypeOK
<1>3. /\ inbox' \in [Socket -> Seq(FromClient)] /\ inbox'[s] = Tail(inbox[s])
      /\ \A t \in Socket : t # s => inbox'[t] = inbox[t]
  BY <1>1, <1>2 DEF IInv, TypeOK
<1>4. /\ sock' \in [Socket -> {"none", "open", "closing", "gone"}]
      /\ seen' \in [Socket -> Seq(ToClient)] /\ connectMap' \subseteq Socket
  BY <1>1 DEF IInv, TypeOK
<1>5. Relaying(s)'
  <2>1. Relaying(s)
    BY <1>1, <1>2, OpenSeen
  <2>2. \A i \in 1 .. Len(inbox'[s]) : inbox'[s][i] = "data"
    <3>1. /\ Len(inbox[s]) \in Nat /\ Len(inbox'[s]) = Len(inbox[s]) - 1
          /\ \A i \in 1 .. Len(inbox[s]) - 1 : inbox'[s][i] = inbox[s][i + 1]
      BY <1>1, <1>2, <1>3, TailElements
    <3>2. \A i \in 1 .. Len(inbox[s]) : inbox[s][i] = "data"
      BY <2>1 DEF Relaying
    <3> QED
      BY <3>1, <3>2
  <2> QED
    BY <2>1, <2>2, <1>1 DEF Relaying, Replied
<1>6. Stage(s)' /\ Dialogue(s)' /\ Mapped(s)'
  BY <1>1, <1>2, <1>5 DEF Stage, Dialogue, Mapped
<1>7. "RAW" \in Flag \ {"DNS"} /\ Msg("RAW", s) \in Travels
  BY DEF Flag, Travels, SocketMsg, Msg
<1>8. ASSUME NEW w \in Login PROVE Flow(s, w)'
  <2> DEFINE C == Msg("CONNECT", s)
  <2>1. C # Msg("RAW", s)
    BY DEF Msg
  <2>2. (Has(up'[w], C) <=> Has(up[w], C)) /\ (Once(up[w], C) => Once(up'[w], C))
    BY <2>1, <1>1, <1>7, WsWriteHas
  <2>3. Flow(s, w)
    BY DEF IInv
  <2> QED
    BY <2>2, <2>3, <1>1 DEF Flow
<1> QED
  BY <1>1, <1>3, <1>4, <1>6, <1>7, <1>8, SocketWriteStep

(* The SOCKS parser.                                                             *)
LEMMA ParsedStep ==
  ASSUME IInv, NEW s \in Socket, SocketData(s), handler[s] = "socks" PROVE IInv'
<1> DEFINE b == Head(inbox[s])
<1>1. /\ sock[s] = "open" /\ inbox[s] # <<>> /\ bufferHandler(s, b)
      /\ inbox' = [inbox EXCEPT ![s] = Tail(@)]
      /\ UNCHANGED <<vert, ws, logins, link, down, remote, handler, sent, rsent, dnsVars>>
  BY DEF SocketData
<1>2. Stage(s) /\ Dialogue(s) /\ Mapped(s) /\ inbox[s] \in Seq(FromClient)
  BY DEF IInv, TypeOK
<1>3. /\ inbox' \in [Socket -> Seq(FromClient)] /\ inbox'[s] = Tail(inbox[s])
      /\ \A t \in Socket : t # s => inbox'[t] = inbox[t]
  BY <1>1, <1>2 DEF IInv, TypeOK
<1>4. /\ inbox'[s] = <<>> /\ asked[s] = 0
      /\ \/ b \in {"hello", "bad"} /\ sent[s] = 1 /\ seen[s] = <<>>
         \/ b \in Request /\ sent[s] = 2 /\ seen[s] = <<"method">>
  BY <1>1, <1>2, <1>3, OpenSeen, ParserInput
<1>5. /\ sock \in [Socket -> {"none", "open", "closing", "gone"}]
      /\ seen \in [Socket -> Seq(ToClient)] /\ connectMap \subseteq Socket
      /\ asked \in [Socket \cup Query -> 0 .. MaxLogins]
  BY DEF IInv, TypeOK
<1>6. "CONNECT" \in Flag \ {"DNS"} /\ Msg("CONNECT", s) \in Travels
  BY DEF Flag, Travels, SocketMsg, Msg
<1>7. ASSUME NEW w \in Login
      PROVE  /\ Flow(s, w) /\ w # 0
             /\ ~Has(up[w], Msg("CONNECT", s)) /\ ~Has(down[w], Msg("CONNECT_SUCCESS", s))
  BY <1>1, <1>4, NotAsked DEF IInv, Login
<1>8. vert = "up"
  BY <1>1, <1>2 DEF Stage
<1> HIDE DEF b
<1>9. ASSUME NEW r \in ToClient, seen' = [seen EXCEPT ![s] = Append(@, r)],
             UNCHANGED <<sock, connectMap, up, asked>>,
             \/ seen[s] = <<>> /\ sent[s] = 1 /\ r = "method"
             \/ seen[s] = <<"method">> /\ sent[s] = 2 /\ r \in {"udpreply", "refused"}
      PROVE  IInv'
  <2>1. /\ seen' \in [Socket -> Seq(ToClient)] /\ seen'[s] = Append(seen[s], r)
        /\ \A t \in Socket : t # s => seen'[t] = seen[t]
    BY <1>5, <1>9
  <2>2. \/ seen'[s] = <<"method">> /\ sent[s] = 1
        \/ seen'[s] \in {<<"method", "udpreply">>, <<"method", "refused">>} /\ sent[s] = 2
    <3>1. "method" \in ToClient
      BY DEF ToClient
    <3>2. CASE seen[s] = <<>> /\ sent[s] = 1 /\ r = "method"
      <4>1. Append(<<>>, r) = <<r>>
        BY ShortSeq
      <4> QED
        BY <4>1, <3>2, <2>1
    <3>3. CASE seen[s] = <<"method">> /\ sent[s] = 2 /\ r \in {"udpreply", "refused"}
      <4>1. Append(<<"method">>, r) = <<"method", r>>
        BY <3>1, ShortSeq
      <4> QED
        BY <4>1, <3>3, <2>1
    <3> QED
      BY <3>2, <3>3, <1>9
  <2>3. Asking(s)'
    BY <2>2, <1>1, <1>4, <1>9 DEF Asking
  <2>4. Stage(s)' /\ Mapped(s)'
    BY <2>3, <1>1, <1>2, <1>4, <1>8, <1>9 DEF Stage, Mapped
  <2>5. Dialogue(s)'
    <3>1. Len(inbox'[s]) = 0
      BY <1>4
    <3>2. CASE seen'[s] = <<"method">>
      BY <3>1, <3>2 DEF Dialogue
    <3>3. CASE seen'[s] = <<"method", "udpreply">>
      BY <3>1, <3>3 DEF Dialogue
    <3>4. CASE seen'[s] = <<"method", "refused">>
      BY <3>1, <3>4 DEF Dialogue
    <3> QED
      BY <2>2, <3>2, <3>3, <3>4
  <2>6. ASSUME NEW w \in Login PROVE Flow(s, w)'
    BY <1>1, <1>7, <1>9 DEF Flow
  <2> QED
    BY <2>1, <2>4, <2>5, <2>6, <1>1, <1>3, <1>5, <1>6, <1>9, SocketWriteStep
<1>10. CASE b = "hello"
  <2>1. write(s, "method") /\ UNCHANGED <<sock, connectMap, up, asked>>
    BY <1>1, <1>10 DEF bufferHandler, Request
  <2> QED
    BY <2>1, <1>1, <1>4, <1>9, <1>10 DEF write, ToClient, Request
<1>11. CASE b \in {"udp", "other"}
  <2>1. \/ write(s, "udpreply") /\ UNCHANGED <<sock, connectMap, up, asked>>
        \/ write(s, "refused") /\ UNCHANGED <<sock, connectMap, up, asked>>
    BY <1>1, <1>11 DEF bufferHandler, requestHandler, Request
  <2> QED
    BY <2>1, <1>1, <1>4, <1>9, <1>11 DEF write, ToClient, Request
<1>12. CASE b = "connect"
  <2>1. tryConnect(s) /\ UNCHANGED <<sock, seen>>
    BY <1>1, <1>12 DEF bufferHandler, requestHandler, Request
  <2>2. /\ connectMap' = connectMap \cup {s} /\ wsWrite(Msg("CONNECT", s))
        /\ asked' = IF WsOpen THEN [asked EXCEPT ![s] = ws] ELSE asked
    BY <2>1 DEF tryConnect
  <2>3. sent[s] = 2 /\ seen[s] = <<"method">>
    BY <1>4, <1>12 DEF Request
  <2>4. Stage(s)' /\ Mapped(s)'
    BY <2>1, <2>2, <2>3, <1>1, <1>4, <1>8 DEF Stage, Asking, Mapped
  <2>5. Dialogue(s)'
    BY <2>1, <2>3, <1>4 DEF Dialogue
  <2>6. s \in Socket \cup Query
    OBVIOUS
  <2>7. ASSUME NEW w \in Login PROVE Flow(s, w)'
    <3> DEFINE C == Msg("CONNECT", s)
    <3>1. /\ Has(up'[w], C) => w = ws /\ WsOpen
          /\ w = ws /\ WsOpen => Has(up'[w], C)
          /\ Once(up[w], C) => Once(up'[w], C)
      BY <2>2, <1>6, <1>7, WsWriteHas
    <3>2. asked'[s] = IF WsOpen THEN ws ELSE 0
      BY <2>2, <2>6, <1>4, <1>5
    <3>3. Has(up'[w], C) => asked'[s] = w
      BY <3>1, <3>2
    <3>4. asked'[s] = w => Has(up'[w], C)
      BY <3>1, <3>2, <1>7
    <3> QED
      BY <3>1, <3>3, <3>4, <2>1, <2>3, <1>1, <1>7 DEF Flow
  <2> QED
    BY <2>1, <2>2, <2>4, <2>5, <2>7, <1>1, <1>3, <1>5, <1>6, SocketWriteStep
<1>13. CASE b = "bad"
  <2>1. /\ close(s) /\ UNCHANGED seen
        /\ tryConnect(s) \/ UNCHANGED <<connectMap, up, asked>>
    BY <1>1, <1>13 DEF bufferHandler, Request
  <2>2. /\ sock' \in [Socket -> {"none", "open", "closing", "gone"}] /\ sock'[s] = "closing"
        /\ \A t \in Socket : t # s => sock'[t] = sock[t]
    BY <2>1, <1>1, <1>5 DEF close
  <2>3. /\ wsWrite(Msg("CONNECT", s)) \/ UNCHANGED up
        /\ asked' = asked \/ (WsOpen /\ asked' = [asked EXCEPT ![s] = ws])
        /\ connectMap' \subseteq connectMap \cup {s} /\ connectMap \subseteq connectMap'
    BY <2>1 DEF tryConnect
  <2>4. Stage(s)' /\ Mapped(s)'
    BY <2>2 DEF Stage, Mapped
  <2>5. Dialogue(s)'
    BY <2>1, <1>4, <1>13 DEF Dialogue, Request
  <2>6. ASSUME NEW w \in Login PROVE Flow(s, w)'
    BY <2>2 DEF Flow
  <2>7. connectMap' \subseteq Socket /\ seen' \in [Socket -> Seq(ToClient)]
    BY <2>1, <2>3, <1>5
  <2> QED
    BY <2>1, <2>2, <2>3, <2>4, <2>5, <2>6, <2>7, <1>1, <1>3, <1>6, SocketWriteStep
<1> QED
  BY <1>4, <1>10, <1>11, <1>12, <1>13 DEF Request

-----------------------------------------------------------------------------
(* Queries, the server and undeployment.                                   *)

LEMMA HandleQueryStep ==
  ASSUME IInv, NEW q \in Query, handleQuery(q) PROVE IInv'
<1> DEFINE m == Msg("DNS", q)
<1>1. /\ vert = "up" /\ dns[q] = "none" /\ dns' = [dns EXCEPT ![q] = "open"]
      /\ dnsQueryMap' = dnsQueryMap \cup {q} /\ wsWrite(m)
      /\ asked' = IF WsOpen THEN [asked EXCEPT ![q] = ws] ELSE asked
      /\ UNCHANGED <<vert, ws, logins, link, down, remote, sock, handler, inbox, sent, rsent,
                     seen, connectMap>>
  BY DEF handleQuery, sockVars
<1>2. m \in Travels
  BY DEF Travels, QueryMsg, Msg
<1>3. /\ asked' \in [Socket \cup Query -> 0 .. MaxLogins]
      /\ \A u \in Socket \cup Query : asked'[u] <= ws
      /\ \A u \in Socket \cup Query : u # q => asked'[u] = asked[u]
      /\ asked'[q] = IF WsOpen THEN ws ELSE asked[q]
  <2>1. /\ asked \in [Socket \cup Query -> 0 .. MaxLogins] /\ ws \in 0 .. MaxLogins
        /\ \A u \in Socket \cup Query : asked[u] <= ws
    BY DEF IInv, Links, TypeOK
  <2>2. CASE asked' = [asked EXCEPT ![q] = ws] /\ WsOpen
    <3>1. asked'[q] = ws /\ ws <= ws
      BY <2>1, <2>2, RelayAssumption
    <3> QED
      BY <3>1, <2>1, <2>2
  <2>3. CASE asked' = asked /\ ~WsOpen
    BY <2>1, <2>3
  <2> QED
    BY <1>1, <2>2, <2>3
<1>4. /\ dns' \in [Query -> {"none", "open", "ended", "lost"}] /\ dns'[q] = "open"
      /\ \A p \in Query : p # q => dns'[p] = dns[p]
  BY <1>1 DEF IInv, TypeOK
<1> HIDE DEF m
<1>5. TypeOK'
  BY <1>1, <1>2, <1>3, <1>4, WsWrite DEF IInv, TypeOK
<1>6. Links' /\ ReloginPending'
  BY <1>1, <1>3 DEF IInv, Links, ReloginPending
<1>7. Queues'
  BY <1>1, <1>2, WsWrite DEF IInv, Queues
<1>8. ASSUME NEW s \in Socket PROVE Stage(s)' /\ Dialogue(s)' /\ Mapped(s)'
  <2>1. asked'[s] = asked[s]
    BY <1>3, RelayAssumption
  <2> QED
    BY <2>1, <1>1, SocketFrame DEF IInv
<1>9. ASSUME NEW s \in Socket, NEW w \in Login PROVE Flow(s, w)'
  <2> DEFINE C == Msg("CONNECT", s)
  <2>1. C # m
    BY DEF m, Msg
  <2>2. (Has(up'[w], C) <=> Has(up[w], C)) /\ (Once(up[w], C) => Once(up'[w], C))
    BY <2>1, <1>1, <1>2, WsWriteHas
  <2>3. Flow(s, w) /\ asked'[s] = asked[s]
    BY <1>3, RelayAssumption DEF IInv
  <2> QED
    BY <2>2, <2>3, <1>1 DEF Flow
<1>10. ASSUME NEW p \in Query PROVE QueryFlow(p)'
  <2>1. CASE p = q
    <3>1. asked[q] = 0 /\ \A w \in Login : ~DnsUnderWay(q, w) /\ w # 0
      BY <1>1 DEF IInv, QueryFlow, Login
    <3>2. ASSUME NEW w \in Login, asked'[q] = w PROVE DnsUnderWay(q, w)'
      <4>1. WsOpen /\ w = ws
        BY <3>1, <3>2, <1>3
      <4> QED
        BY <4>1, <1>1, <1>2, WsWriteHas DEF DnsUnderWay, m
    <3>3. ASSUME NEW w \in Login, DnsUnderWay(q, w)' PROVE asked'[q] = w
      <4>1. WsOpen /\ w = ws
        BY <3>1, <3>3, <1>1, <1>2, WsWriteHas DEF DnsUnderWay, m
      <4> QED
        BY <4>1, <1>3
    <3> QED
      BY <3>2, <3>3, <2>1, <1>1, <1>4 DEF QueryFlow
  <2>2. CASE p # q
    <3>1. m # Msg("DNS", p)
      BY <2>2 DEF m, Msg
    <3>2. \A w \in Login : Has(up[w], Msg("DNS", p)) <=> Has(up'[w], Msg("DNS", p))
      BY <3>1, <1>1, <1>2, WsWriteHas
    <3>3. \A w \in Login : DnsUnderWay(p, w)' <=> DnsUnderWay(p, w)
      BY <3>2, <1>1 DEF DnsUnderWay
    <3> QED
      BY <3>3, <2>2, <1>1, <1>3, <1>4, QueryFrame DEF IInv
  <2> QED
    BY <2>1, <2>2
<1> QED
  BY <1>5, <1>6, <1>7, <1>8, <1>9, <1>10 DEF IInv

(* Taking the first message off the queue of a websocket.                        *)
LEMMA TakeFirst ==
  ASSUME NEW Q \in [Login -> Seq(Travels)], NEW R, NEW w \in Login, Q[w] # <<>>,
         R = [Q EXCEPT ![w] = Tail(@)]
  PROVE  /\ R \in [Login -> Seq(Travels)] /\ R[w] = Tail(Q[w])
         /\ \A v \in Login : v # w => R[v] = Q[v]
         /\ Head(Q[w]) \in Travels
<1>1. Q[w] \in Seq(Travels)
  OBVIOUS
<1>2. Tail(Q[w]) \in Seq(Travels) /\ Head(Q[w]) \in Travels
  BY <1>1, TailElements
<1> QED
  BY <1>2

(* Adding a message to the queue of a websocket.                                 *)
LEMMA AddLast ==
  ASSUME NEW Q \in [Login -> Seq(Travels)], NEW R, NEW w \in Login, NEW m \in Travels,
         R = [Q EXCEPT ![w] = Append(@, m)]
  PROVE  /\ R \in [Login -> Seq(Travels)] /\ R[w] = Append(Q[w], m)
         /\ \A v \in Login : v # w => R[v] = Q[v]
<1>1. Append(Q[w], m) \in Seq(Travels)
  OBVIOUS
<1> QED
  BY <1>1

LEMMA TravelQueues ==
  ASSUME NEW Q \in [Login -> Seq(Travels)] PROVE Q \in [Login -> Seq(Message)]
<1>1. \A q \in Seq(Travels) : q \in Seq(Message)
  BY TravelsAreMessages
<1> QED
  BY <1>1

(* Which messages are then under way.                                            *)
LEMMA TakenHas ==
  ASSUME NEW q \in Seq(Travels), q # <<>>, NEW x
  PROVE  /\ Has(q, x) <=> Head(q) = x \/ Has(Tail(q), x)
         /\ Once(q, x) => Once(Tail(q), x) /\ (Head(q) = x => ~Has(Tail(q), x))
BY TailHas, TailOnce

LEMMA AddedHas ==
  ASSUME NEW q \in Seq(Travels), NEW m \in Travels, NEW x
  PROVE  /\ Has(Append(q, m), x) <=> Has(q, x) \/ x = m
         /\ Once(q, x) /\ (x # m \/ ~Has(q, x)) => Once(Append(q, m), x)
BY AppendHas, AppendOnce

LEMMA RemoteReceivesStep ==
  ASSUME IInv, NEW w \in Login, RemoteReceives(w) PROVE IInv'
<1> DEFINE m == Head(up[w])
<1>1. /\ link[w] = "open" /\ up[w] # <<>> /\ up' = [up EXCEPT ![w] = Tail(@)]
      /\ UNCHANGED <<vert, ws, logins, link, sock, handler, inbox, sent, rsent, seen,
                     connectMap, dns, dnsQueryMap, asked>>
  BY DEF RemoteReceives, sockVars, dnsVars
<1>2. /\ up \in [Login -> Seq(Travels)] /\ down \in [Login -> Seq(Travels)]
      /\ up[w] \in Seq(Travels) /\ down[w] \in Seq(Travels)
      /\ remote \in [Login -> SUBSET Socket]
  BY DEF IInv, Queues, TypeOK
<1>3. /\ up' \in [Login -> Seq(Travels)] /\ up'[w] = Tail(up[w])
      /\ \A v \in Login : v # w => up'[v] = up[v]
      /\ m \in Travels
  BY <1>1, <1>2, TakeFirst
<1> HIDE DEF m
<1>4. ASSUME NEW a \in Travels,
             down' = [down EXCEPT ![w] = Append(@, a)],
             \/ /\ m.flag = "CONNECT" /\ a = Msg("CONNECT_SUCCESS", m.uuid)
                /\ remote' = [remote EXCEPT ![w] = @ \cup {m.uuid}]
             \/ /\ m.flag = "CONNECT" /\ a = Msg("EXCEPTION", m.uuid) /\ remote' = remote
             \/ /\ m.flag = "DNS" /\ a = m /\ remote' = remote
      PROVE  IInv'
  <2>1. /\ down' \in [Login -> Seq(Travels)] /\ down'[w] = Append(down[w], a)
        /\ \A v \in Login : v # w => down'[v] = down[v]
    BY <1>2, <1>4, AddLast
  <2>2. /\ remote' \in [Login -> SUBSET Socket]
        /\ \A v \in Login : v # w => remote'[v] = remote[v]
        /\ \A s \in remote'[w] : s \in remote[w] \/
                                 (m = Msg("CONNECT", s) /\ a = Msg("CONNECT_SUCCESS", s))
    BY <1>2, <1>3, <1>4, TravelFacts
  <2>3. TypeOK'
    BY <2>1, <2>2, <1>1, <1>3, TravelQueues DEF IInv, TypeOK
  <2>4. Links' /\ ReloginPending'
    BY <1>1, LinksFrame DEF IInv
  <2>5. Queues'
    BY <2>1, <2>2, <1>1, <1>3 DEF IInv, Queues
  <2>6. ASSUME NEW s \in Socket PROVE Stage(s)' /\ Dialogue(s)' /\ Mapped(s)'
    BY <1>1, SocketFrame DEF IInv
  <2>7. ASSUME NEW s \in Socket, NEW v \in Login PROVE Flow(s, v)'
    <3>1. CASE v # w
      BY <3>1, <2>1, <2>2, <1>1, <1>3, FlowFrame DEF IInv
    <3>2. CASE v = w /\ sock[s] \in {"none", "open"}
      <4> DEFINE C == Msg("CONNECT", s)  S == Msg("CONNECT_SUCCESS", s)
                 E == Msg("EXCEPTION", s)  R == Msg("RAW", s)
      <4>1. Flow(s, w)
        BY DEF IInv
      <4>2. /\ m = C => a = S \/ a = E
            /\ m # C => a # S
            /\ a # R /\ S # R
        BY <1>3, <1>4, TravelFacts DEF Msg
      <4>3. Has(up[w], C) <=> m = C \/ Has(up'[w], C)
        BY <1>1, <1>2, <1>3, TakenHas DEF m
      <4>4. Once(up[w], C) => Once(up'[w], C) /\ (m = C => ~Has(up'[w], C))
        BY <1>1, <1>2, <1>3, TakenHas DEF m
      <4>5. /\ Has(down'[w], S) <=> Has(down[w], S) \/ S = a
            /\ Has(down'[w], E) <=> Has(down[w], E) \/ E = a
            /\ Once(down[w], S) /\ (S # a \/ ~Has(down[w], S)) => Once(down'[w], S)
        BY <2>1, <1>2, AddedHas
      <4>6. Preceded(down[w], R, S) => Preceded(down'[w], R, S)
        BY <2>1, <1>2, <4>2, AppendPreceded
      <4>7. s \in remote'[w] => s \in remote[w] \/ a = S
        BY <2>2
      <4> HIDE DEF C, S, E, R
      <4>8. /\ Has(up[w], C) \/ Has(down[w], S) => asked[s] = w /\ seen[s] = <<"method">>
            /\ Once(up[w], C) /\ Once(down[w], S) /\ ~(Has(up[w], C) /\ Has(down[w], S))
            /\ s \in remote[w] => handler[s] = "raw" \/ Has(down[w], S)
            /\ handler[s] = "raw" \/ Preceded(down[w], R, S)
            /\ asked[s] = w /\ link[w] = "open" /\ handler[s] = "socks" =>
                 Has(up[w], C) \/ Has(down[w], S) \/ Has(down[w], E)
        BY <4>1, <3>2 DEF Flow, C, S, E, R
      <4>9. a = S => m = C
        BY <4>2
      <4>10. Once(down'[w], S)
        BY <4>3, <4>5, <4>8, <4>9
      <4>11. /\ Has(up'[w], C) \/ Has(down'[w], S) => asked[s] = w /\ seen[s] = <<"method">>
             /\ Once(up'[w], C) /\ ~(Has(up'[w], C) /\ Has(down'[w], S))
             /\ s \in remote'[w] => handler[s] = "raw" \/ Has(down'[w], S)
             /\ handler[s] = "raw" \/ Preceded(down'[w], R, S)
             /\ asked[s] = w /\ link[w] = "open" /\ handler[s] = "socks" =>
                  Has(up'[w], C) \/ Has(down'[w], S) \/ Has(down'[w], E)
        BY <4>2, <4>3, <4>4, <4>5, <4>6, <4>7, <4>8, <4>9
      <4> QED
        BY <4>10, <4>11, <3>2, <1>1 DEF Flow, C, S, E, R
    <3>3. CASE sock[s] \notin {"none", "open"}
      BY <3>3, <1>1 DEF Flow
    <3> QED
      BY <3>1, <3>2, <3>3
  <2>8. ASSUME NEW q \in Query PROVE QueryFlow(q)'
    <3> DEFINE D == Msg("DNS", q)
    <3>1. /\ Has(up[w], D) <=> m = D \/ Has(up'[w], D)
          /\ Has(down'[w], D) <=> Has(down[w], D) \/ D = a
      BY <2>1, <1>1, <1>2, <1>3, TakenHas, AddedHas DEF m
    <3>2. m = D <=> a = D
      BY <1>4 DEF Msg
    <3>3. \A v \in Login : DnsUnderWay(q, v)' <=> DnsUnderWay(q, v)
      BY <3>1, <3>2, <2>1, <1>3 DEF DnsUnderWay
    <3> QED
      BY <3>3, <1>1, QueryFrame DEF IInv
  <2> QED
    BY <2>3, <2>4, <2>5, <2>6, <2>7, <2>8 DEF IInv
<1>5. ASSUME m.flag = "RAW", UNCHANGED <<down, remote>> PROVE IInv'
  <2>1. TypeOK'
    BY <1>1, <1>3, <1>5, TravelQueues DEF IInv, TypeOK
  <2>2. Links' /\ ReloginPending'
    BY <1>1, LinksFrame DEF IInv
  <2>3. Queues'
    BY <1>1, <1>3, <1>5 DEF IInv, Queues
  <2>4. ASSUME NEW s \in Socket PROVE Stage(s)' /\ Dialogue(s)' /\ Mapped(s)'
    BY <1>1, SocketFrame DEF IInv
  <2>5. ASSUME NEW s \in Socket, NEW v \in Login PROVE Flow(s, v)'
    <3> DEFINE C == Msg("CONNECT", s)
    <3>1. m # C
      BY <1>5 DEF Msg
    <3>2. (Has(up[v], C) <=> Has(up'[v], C)) /\ (Once(up[v], C) => Once(up'[v], C))
      BY <3>1, <1>1, <1>2, <1>3, TakenHas DEF m
    <3>3. Flow(s, v)
      BY DEF IInv
    <3> QED
      BY <3>2, <3>3, <1>1, <1>5 DEF Flow
  <2>6. ASSUME NEW q \in Query PROVE QueryFlow(q)'
    <3> DEFINE D == Msg("DNS", q)
    <3>1. m # D
      BY <1>5 DEF Msg
    <3>2. \A v \in Login : Has(up[v], D) <=> Has(up'[v], D)
      BY <3>1, <1>1, <1>2, <1>3, TakenHas DEF m
    <3>3. \A v \in Login : DnsUnderWay(q, v)' <=> DnsUnderWay(q, v)
      BY <3>2, <1>5 DEF DnsUnderWay
    <3> QED
      BY <3>3, <1>1, <1>5, QueryFrame DEF IInv
  <2> QED
    BY <2>1, <2>2, <2>3, <2>4, <2>5, <2>6 DEF IInv
<1>6. m.flag = "CONNECT" => m.uuid \in Socket
  BY <1>3, TravelFacts
<1>7. CASE m.flag = "CONNECT"
  <2>1. Msg("CONNECT_SUCCESS", m.uuid) \in Travels /\ Msg("EXCEPTION", m.uuid) \in Travels
    BY <1>6, <1>7 DEF Travels, SocketMsg, Msg, Flag
  <2> QED
    BY <2>1, <1>4, <1>7 DEF RemoteReceives, m
<1> QED
  BY <1>3, <1>4, <1>5, <1>7 DEF RemoteReceives, m

LEMMA RemoteSendsStep ==
  ASSUME IInv, NEW w \in Login, NEW s \in Socket, RemoteSends(w, s) PROVE IInv'
<1>1. /\ s \in remote[w]
      /\ UNCHANGED <<vert, ws, logins, link, up, sock, handler, inbox, sent, seen,
                     connectMap, dns, dnsQueryMap, asked>>
  BY DEF RemoteSends, dnsVars
<1>2. link[w] = "open"
  BY <1>1 DEF IInv, Queues
<1>3. PICK f \in {"RAW", "EXCEPTION"} :
        /\ down' = [down EXCEPT ![w] = Append(@, Msg(f, s))]
        /\ remote' = remote \/ remote' = [remote EXCEPT ![w] = @ \ {s}]
        /\ rsent' = rsent \/ (rsent[s] < MaxData /\ rsent' = [rsent EXCEPT ![s] = @ + 1])
  BY DEF RemoteSends
<1> DEFINE a == Msg(f, s)
<1>4. a \in Travels
  BY DEF Travels, SocketMsg, Msg, Flag
<1>5. /\ down \in [Login -> Seq(Travels)] /\ down[w] \in Seq(Travels)
      /\ remote \in [Login -> SUBSET Socket]
  BY DEF IInv, Queues, TypeOK
<1>6. /\ down' \in [Login -> Seq(Travels)] /\ down'[w] = Append(down[w], a)
      /\ \A v \in Login : v # w => down'[v] = down[v]
  BY <1>3, <1>4, <1>5, AddLast
<1>7. remote' \in [Login -> SUBSET Socket] /\ \A v \in Login : remote'[v] \subseteq remote[v]
  BY <1>3, <1>5
<1>8. rsent' \in [Socket -> 0 .. MaxData]
  <2>1. rsent \in [Socket -> 0 .. MaxData] /\ MaxData \in Nat
    BY RelayAssumption DEF IInv, TypeOK
  <2>2. rsent[s] < MaxData => rsent[s] + 1 \in 0 .. MaxData
    BY <2>1
  <2> QED
    BY <2>1, <2>2, <1>3
<1>9. TypeOK'
  BY <1>1, <1>6, <1>7, <1>8, TravelQueues DEF IInv, TypeOK
<1>10. Links' /\ ReloginPending'
  BY <1>1, LinksFrame DEF IInv
<1>11. Queues'
  <2>1. \A v \in Login : link[v] # "open" => down'[v] = <<>> /\ remote'[v] = {}
    BY <1>2, <1>6, <1>7 DEF IInv, Queues
  <2> QED
    BY <2>1, <1>1, <1>6 DEF IInv, Queues
<1>12. ASSUME NEW t \in Socket PROVE Stage(t)' /\ Dialogue(t)' /\ Mapped(t)'
  BY <1>1, SocketFrame DEF IInv
<1>13. ASSUME NEW t \in Socket, NEW v \in Login PROVE Flow(t, v)'
  <2> DEFINE C == Msg("CONNECT", t)  S == Msg("CONNECT_SUCCESS", t)
             E == Msg("EXCEPTION", t)  R == Msg("RAW", t)
  <2>1. Flow(t, v)
    BY DEF IInv
  <2>2. CASE sock[t] \in {"none", "open"} /\ v = w
    <3>1. S # a /\ (R = a => t = s)
      BY DEF Msg
    <3>2. /\ Has(down'[v], S) <=> Has(down[v], S)
          /\ Has(down[v], E) => Has(down'[v], E)
          /\ Once(down[v], S) => Once(down'[v], S)
      BY <2>2, <3>1, <1>4, <1>5, <1>6, AddedHas
    <3>3. t = s => handler[t] = "raw" \/ Has(down[v], S)
      BY <2>1, <2>2, <1>1 DEF Flow
    <3>4. Preceded(down[v], R, S) => handler[t] = "raw" \/ Preceded(down'[v], R, S)
      BY <2>2, <3>1, <3>3, <1>4, <1>5, <1>6, AppendPreceded
    <3> QED
      BY <2>1, <2>2, <3>2, <3>4, <1>1, <1>7 DEF Flow
  <2>3. CASE sock[t] \notin {"none", "open"}
    BY <2>3, <1>1 DEF Flow
  <2>4. CASE v # w
    BY <2>1, <2>4, <1>1, <1>6, <1>7 DEF Flow
  <2> QED
    BY <2>2, <2>3, <2>4
<1>14. ASSUME NEW q \in Query PROVE QueryFlow(q)'
  <2>1. a # Msg("DNS", q)
    BY DEF Msg
  <2>2. Has(down[w], Msg("DNS", q)) <=> Has(down'[w], Msg("DNS", q))
    BY <2>1, <1>4, <1>5, <1>6, AddedHas
  <2>3. \A v \in Login : DnsUnderWay(q, v)' <=> DnsUnderWay(q, v)
    BY <2>2, <1>1, <1>6 DEF DnsUnderWay
  <2> QED
    BY <2>3, <1>1, QueryFrame DEF IInv
<1> QED
  BY <1>9, <1>10, <1>11, <1>12, <1>13, <1>14 DEF IInv

(* A message of the server leaves the queue: what is left to show.               *)
LEMMA DeliveryStep ==
  ASSUME IInv, NEW w \in Login, NEW u, down[w] # <<>>, u = Head(down[w]).uuid,
         down' = [down EXCEPT ![w] = Tail(@)],
         UNCHANGED <<vert, ws, logins, link, up, remote, inbox, sent, rsent, asked>>,
         sock' \in [Socket -> {"none", "open", "closing", "gone"}],
         handler' \in [Socket -> {"socks", "raw"}], seen' \in [Socket -> Seq(ToClient)],
         connectMap' \subseteq Socket, dnsQueryMap' \subseteq Query,
         dns' \in [Query -> {"none", "open", "ended", "lost"}],
         \A t \in Socket : t # u =>
           /\ sock'[t] = sock[t] /\ handler'[t] = handler[t] /\ seen'[t] = seen[t]
           /\ t \in connectMap' <=> t \in connectMap,
         u \in Socket => /\ Stage(u)' /\ Dialogue(u)' /\ Mapped(u)'
                         /\ \A v \in Login : Flow(u, v)',
         \A q \in Query : q # u =>
           dns'[q] = dns[q] /\ (q \in dnsQueryMap' <=> q \in dnsQueryMap),
         u \in Query => QueryFlow(u)'
  PROVE  IInv'
<1> DEFINE m == Head(down[w])
<1>1. down \in [Login -> Seq(Travels)] /\ down[w] \in Seq(Travels)
  BY DEF IInv, Queues
<1>2. /\ down' \in [Login -> Seq(Travels)] /\ down'[w] = Tail(down[w])
      /\ \A v \in Login : v # w => down'[v] = down[v]
      /\ m \in Travels /\ m.uuid = u
  BY <1>1, TakeFirst
<1> HIDE DEF m
<1>3. TypeOK'
  BY <1>2, TravelQueues DEF IInv, TypeOK
<1>4. Links' /\ ReloginPending'
  BY LinksFrame DEF IInv
<1>5. Queues'
  <2>1. \A v \in Login : link[v] # "open" => down'[v] = <<>>
    BY <1>2 DEF IInv, Queues
  <2> QED
    BY <2>1, <1>2 DEF IInv, Queues
<1>6. ASSUME NEW t \in Socket PROVE Stage(t)' /\ Dialogue(t)' /\ Mapped(t)'
  <2>1. CASE t # u
    BY <2>1, SocketFrame DEF IInv
  <2> QED
    BY <2>1
<1>7. ASSUME NEW t \in Socket, NEW v \in Login PROVE Flow(t, v)'
  <2>1. CASE t # u /\ v = w
    <3> DEFINE S == Msg("CONNECT_SUCCESS", t)  E == Msg("EXCEPTION", t)  R == Msg("RAW", t)
    <3>1. m # S /\ m # E
      BY <2>1, <1>2 DEF Msg
    <3>2. /\ Has(down'[w], S) <=> Has(down[w], S)
          /\ Has(down'[w], E) <=> Has(down[w], E)
          /\ Once(down[w], S) => Once(down'[w], S)
          /\ Preceded(down[w], R, S) => Preceded(down'[w], R, S)
      BY <3>1, <1>1, <1>2, TakenHas, TailPreceded DEF m
    <3>3. Flow(t, w)
      BY DEF IInv
    <3>4. sock'[t] = sock[t] /\ handler'[t] = handler[t] /\ seen'[t] = seen[t]
      BY <2>1
    <3> QED
      BY <2>1, <3>2, <3>3, <3>4 DEF Flow
  <2>2. CASE t # u /\ v # w
    BY <2>2, <1>2, FlowFrame DEF IInv
  <2>3. CASE t = u
    BY <2>3
  <2> QED
    BY <2>1, <2>2, <2>3
<1>8. ASSUME NEW q \in Query PROVE QueryFlow(q)'
  <2>1. CASE q # u
    <3> DEFINE D == Msg("DNS", q)
    <3>1. m # D
      BY <2>1, <1>2 DEF Msg
    <3>2. \A v \in Login : Has(down[v], D) <=> Has(down'[v], D)
      BY <3>1, <1>1, <1>2, TakenHas DEF m
    <3>3. \A v \in Login : DnsUnderWay(q, v)' <=> DnsUnderWay(q, v)
      BY <3>2 DEF DnsUnderWay
    <3> QED
      BY <2>1, <3>3, QueryFrame DEF IInv
  <2> QED
    BY <2>1
<1> QED
  BY <1>3, <1>4, <1>5, <1>6, <1>7, <1>8 DEF IInv

LEMMA BinaryMessageStep ==
  ASSUME IInv, NEW w \in Login, binaryMessageHandler(w) PROVE IInv'
<1> DEFINE m == Head(down[w])
<1>1. /\ link[w] = "open" /\ down[w] # <<>> /\ down' = [down EXCEPT ![w] = Tail(@)]
      /\ UNCHANGED <<vert, ws, logins, link, up, remote, inbox, sent, rsent, asked>>
  BY DEF binaryMessageHandler
<1>2. down \in [Login -> Seq(Travels)] /\ down[w] \in Seq(Travels)
  BY DEF IInv, Queues
<1>3. /\ down'[w] = Tail(down[w]) /\ \A v \in Login : v # w => down'[v] = down[v]
      /\ m \in Travels
  BY <1>1, <1>2, TakeFirst
<1>4. /\ sock \in [Socket -> {"none", "open", "closing", "gone"}]
      /\ handler \in [Socket -> {"socks", "raw"}] /\ seen \in [Socket -> Seq(ToClient)]
      /\ connectMap \subseteq Socket /\ dnsQueryMap \subseteq Query
      /\ dns \in [Query -> {"none", "open", "ended", "lost"}]
  BY DEF IInv, TypeOK
<1>5. ASSUME NEW x PROVE /\ Has(down[w], x) <=> m = x \/ Has(down'[w], x)
                         /\ Once(down[w], x) => /\ Once(down'[w], x)
                                                /\ m = x => ~Has(down'[w], x)
  BY <1>1, <1>2, <1>3, TakenHas
<1>6. ASSUME NEW x, NEW y, Preceded(down[w], x, y)
      PROVE  m # x /\ (m # y => Preceded(down'[w], x, y))
  BY <1>1, <1>2, <1>3, <1>6, TailPreceded
<1> HIDE DEF m
<1>7. CASE m.flag = "CONNECT_SUCCESS" /\ wsConnectedHandler(m.uuid) /\ UNCHANGED dnsVars
  <2>0. PICK s \in Socket : s = m.uuid
    BY <1>3, <1>7, TravelFacts
  <2> DEFINE S == Msg("CONNECT_SUCCESS", s)  C == Msg("CONNECT", s)
  <2>1. /\ s \in connectMap /\ handler' = [handler EXCEPT ![s] = "raw"] /\ write(s, "reply")
        /\ UNCHANGED <<sock, connectMap, dns, dnsQueryMap>>
    BY <2>0, <1>7 DEF wsConnectedHandler, dnsVars
  <2>2. s \in Socket /\ m = S /\ s \notin Query
    BY <2>0, <1>3, <1>7, TravelFacts, RelayAssumption
  <2>3. Stage(s) /\ Dialogue(s) /\ Mapped(s)
    BY <2>2 DEF IInv
  <2>4. /\ handler' \in [Socket -> {"socks", "raw"}] /\ handler'[s] = "raw"
        /\ \A t \in Socket : t # s => handler'[t] = handler[t]
    BY <2>1, <2>2, <1>4
  <2>5. /\ seen' \in [Socket -> Seq(ToClient)]
        /\ \A t \in Socket : t # s => seen'[t] = seen[t]
        /\ sock[s] # "open" => seen'[s] = seen[s]
        /\ sock[s] = "open" => seen'[s] = Append(seen[s], "reply")
    BY <2>1, <2>2, <1>4 DEF write, ToClient
  <2>6. /\ Stage(s)' /\ Dialogue(s)' /\ Mapped(s)'
        /\ \A v \in Login : Flow(s, v)'
    <3>1. CASE sock[s] # "open"
      <4>1. sock'[s] = "closing"
        BY <2>1, <2>3, <3>1 DEF Mapped
      <4>2. Stage(s)' /\ Mapped(s)' /\ \A v \in Login : Flow(s, v)'
        BY <4>1 DEF Stage, Mapped, Flow
      <4>3. Dialogue(s)'
        BY <2>3, <2>4, <2>5, <3>1, <1>1 DEF Dialogue
      <4> QED
        BY <4>2, <4>3
    <3>2. CASE sock[s] = "open"
      <4>1. Has(down[w], S)
        BY <2>2, <1>5
      <4>2. asked[s] = w /\ seen[s] = <<"method">> /\ ~Has(up[w], C) /\ Once(down[w], S)
        BY <4>1, <2>2, <3>2 DEF IInv, Flow
      <4>3. w # 0
        BY DEF Login
      <4>4. handler[s] = "socks"
        BY <2>2, <2>3, <3>2, <4>2, OpenSeen
      <4>5. sent[s] = 2 /\ inbox[s] = <<>>
        <5>1. Asking(s)
          BY <2>2, <2>3, <3>2, <4>4, OpenSeen
        <5>2. seen[s] # <<>> /\ seen[s] # <<"method", "udpreply">>
              /\ seen[s] # <<"method", "refused">> /\ asked[s] # 0
          BY <4>2, <4>3
        <5> QED
          BY <5>1, <5>2 DEF Asking
      <4>6. seen'[s] = <<"method", "reply">>
        <5>1. "method" \in ToClient /\ "reply" \in ToClient
          BY DEF ToClient
        <5>2. Append(<<"method">>, "reply") = <<"method", "reply">>
          BY <5>1, ShortSeq
        <5> QED
          BY <5>2, <2>5, <3>2, <4>2
      <4>7. Replied(s)'
        BY <4>6 DEF Replied
      <4>8. Relaying(s)'
        BY <4>2, <4>3, <4>5, <4>7, <1>1 DEF Relaying
      <4>9. Stage(s)' /\ Mapped(s)'
        BY <4>8, <2>1, <2>3, <2>4, <3>2, <1>1 DEF Stage, Mapped
      <4>10. Dialogue(s)'
        BY <4>2, <4>3, <4>6, <2>4, <1>1 DEF Dialogue
      <4>11. ASSUME NEW v \in Login PROVE Flow(s, v)'
        <5>1. ~Has(up[v], C) /\ ~Has(down'[v], S)
          <6>1. CASE v = w
            BY <6>1, <4>2, <2>2, <1>5
          <6>2. CASE v # w
            BY <6>2, <4>2, <2>2, <3>2, <1>3 DEF IInv, Flow
          <6> QED
            BY <6>1, <6>2
        <5>2. Once(up[v], C) /\ Once(down'[v], S)
          <6>1. Once(up[v], C) /\ Once(down[v], S)
            BY <2>2, <3>2 DEF IInv, Flow
          <6> QED
            BY <6>1, <1>3, <1>5
        <5> QED
          BY <5>1, <5>2, <2>4, <1>1 DEF Flow
      <4> QED
        BY <4>9, <4>10, <4>11
    <3> QED
      BY <3>1, <3>2
  <2>7. /\ sock' \in [Socket -> {"none", "open", "closing", "gone"}]
        /\ connectMap' \subseteq Socket /\ dnsQueryMap' \subseteq Query
        /\ dns' \in [Query -> {"none", "open", "ended", "lost"}]
    BY <2>1, <1>4
  <2>8. /\ \A t \in Socket : t # s =>
              /\ sock'[t] = sock[t] /\ handler'[t] = handler[t] /\ seen'[t] = seen[t]
              /\ t \in connectMap' <=> t \in connectMap
        /\ \A q \in Query : q # s =>
              dns'[q] = dns[q] /\ (q \in dnsQueryMap' <=> q \in dnsQueryMap)
    BY <2>1, <2>4, <2>5
  <2> QED
    BY <2>0, <2>2, <2>4, <2>5, <2>6, <2>7, <2>8, <1>1, DeliveryStep DEF m
<1>8. CASE m.flag = "RAW" /\ wsReceivedRawHandler(m.uuid) /\ UNCHANGED dnsVars
  <2>0. PICK s \in Socket : s = m.uuid
    BY <1>3, <1>8, TravelFacts
  <2> DEFINE S == Msg("CONNECT_SUCCESS", s)  C == Msg("CONNECT", s)
             R == Msg("RAW", s)
  <2>1. /\ s \in connectMap /\ write(s, "data")
        /\ UNCHANGED <<sock, connectMap, handler, dns, dnsQueryMap>>
    BY <2>0, <1>8 DEF wsReceivedRawHandler, dnsVars
  <2>2. s \in Socket /\ m = R /\ s \notin Query
    BY <2>0, <1>3, <1>8, TravelFacts, RelayAssumption
  <2>3. Stage(s) /\ Dialogue(s) /\ Mapped(s)
    BY <2>2 DEF IInv
  <2>4. /\ seen' \in [Socket -> Seq(ToClient)]
        /\ \A t \in Socket : t # s => seen'[t] = seen[t]
        /\ sock[s] # "open" => seen'[s] = seen[s]
        /\ sock[s] = "open" => seen'[s] = Append(seen[s], "data")
    BY <2>1, <2>2, <1>4 DEF write, ToClient
  <2>5. /\ Stage(s)' /\ Dialogue(s)' /\ Mapped(s)'
        /\ \A v \in Login : Flow(s, v)'
    <3>1. CASE sock[s] # "open"
      <4>1. sock'[s] = "closing"
        BY <2>1, <2>3, <3>1 DEF Mapped
      <4>2. Stage(s)' /\ Mapped(s)' /\ \A v \in Login : Flow(s, v)'
        BY <4>1 DEF Stage, Mapped, Flow
      <4>3. Dialogue(s)'
        BY <2>1, <2>3, <2>4, <3>1, <1>1 DEF Dialogue
      <4> QED
        BY <4>2, <4>3
    <3>2. CASE sock[s] = "open"
      <4>1. handler[s] = "raw"
        <5>1. Preceded(down[w], R, S) => m # R
          BY <1>6
        <5> QED
          BY <5>1, <2>2, <3>2 DEF IInv, Flow
      <4>2. Relaying(s) /\ seen[s] # <<"method">>
        BY <2>2, <2>3, <3>2, <4>1, OpenSeen
      <4>3. Replied(s)'
        <5> DEFINE q == seen[s]
        <5>1. /\ Len(seen'[s]) = Len(q) + 1 /\ seen'[s][Len(q) + 1] = "data"
              /\ \A i \in 1 .. Len(q) : seen'[s][i] = q[i]
              /\ Len(q) \in Nat
          <6>1. q \in Seq(ToClient) /\ "data" \in ToClient
            BY <2>2, <1>4 DEF ToClient
          <6>2. seen'[s] = Append(q, "data")
            BY <2>4, <3>2
          <6> HIDE DEF q
          <6> QED
            BY <6>1, <6>2
        <5>2. /\ Len(q) > 1 /\ q[1] = "method" /\ q[2] = "reply"
              /\ \A i \in 3 .. Len(q) : q[i] = "data"
          BY <4>2 DEF Relaying, Replied
        <5> HIDE DEF q
        <5>3. seen'[s][1] = "method" /\ seen'[s][2] = "reply"
          BY <5>1, <5>2
        <5>4. \A i \in 3 .. Len(seen'[s]) : seen'[s][i] = "data"
          BY <5>1, <5>2
        <5> QED
          BY <5>1, <5>2, <5>3, <5>4 DEF Replied
      <4>4. Relaying(s)'
        BY <4>2, <4>3, <1>1 DEF Relaying
      <4>5. Stage(s)' /\ Mapped(s)'
        BY <4>1, <4>4, <2>1, <2>3, <3>2, <1>1 DEF Stage, Mapped
      <4>6. Dialogue(s)'
        BY <4>1, <4>3, <4>4, <2>1 DEF Dialogue, Replied, Relaying
      <4>7. ASSUME NEW v \in Login PROVE Flow(s, v)'
        <5>1. ~Has(up[v], C) /\ ~Has(down[v], S) /\ Once(up[v], C) /\ Once(down[v], S)
          BY <4>2, <2>2, <3>2 DEF IInv, Flow
        <5>2. ~Has(down'[v], S) /\ Once(down'[v], S)
          BY <5>1, <1>3, <1>5
        <5> QED
          BY <5>1, <5>2, <4>1, <2>1, <1>1 DEF Flow
      <4> QED
        BY <4>5, <4>6, <4>7
    <3> QED
      BY <3>1, <3>2
  <2>6. /\ handler' \in [Socket -> {"socks", "raw"}]
        /\ sock' \in [Socket -> {"none", "open", "closing", "gone"}]
        /\ connectMap' \subseteq Socket /\ dnsQueryMap' \subseteq Query
        /\ dns' \in [Query -> {"none", "open", "ended", "lost"}]
    BY <2>1, <1>4
  <2>7. /\ \A t \in Socket : t # s =>
              /\ sock'[t] = sock[t] /\ handler'[t] = handler[t] /\ seen'[t] = seen[t]
              /\ t \in connectMap' <=> t \in connectMap
        /\ \A q \in Query : q # s =>
              dns'[q] = dns[q] /\ (q \in dnsQueryMap' <=> q \in dnsQueryMap)
    BY <2>1, <2>4
  <2> QED
    BY <2>0, <2>2, <2>4, <2>5, <2>6, <2>7, <1>1, DeliveryStep DEF m
<1>9. CASE m.flag = "EXCEPTION" /\ wsExceptionHandler(m.uuid) /\ UNCHANGED dnsVars
  <2>0. PICK s \in Socket : s = m.uuid
    BY <1>3, <1>9, TravelFacts
  <2>1. /\ s \in connectMap /\ connectMap' = connectMap \ {s} /\ close(s)
        /\ UNCHANGED <<seen, handler, dns, dnsQueryMap>>
    BY <2>0, <1>9 DEF wsExceptionHandler, dnsVars
  <2>2. s \in Socket /\ s \notin Query
    BY <2>0, <1>3, <1>9, TravelFacts, RelayAssumption
  <2>3. Stage(s) /\ Dialogue(s) /\ Mapped(s)
    BY <2>2 DEF IInv
  <2>4. /\ sock' \in [Socket -> {"none", "open", "closing", "gone"}] /\ sock'[s] = "closing"
        /\ \A t \in Socket : t # s => sock'[t] = sock[t]
    BY <2>1, <2>2, <2>3, <1>4 DEF close, Mapped
  <2>5. Stage(s)' /\ Mapped(s)' /\ \A v \in Login : Flow(s, v)'
    BY <2>4 DEF Stage, Mapped, Flow
  <2>6. Dialogue(s)'
    BY <2>1, <2>3, <1>1 DEF Dialogue
  <2>7. connectMap' \subseteq Socket /\ \A t \in Socket : t # s => (t \in connectMap' <=> t \in connectMap)
    BY <2>1, <1>4
  <2> QED
    BY <2>0, <2>1, <2>2, <2>4, <2>5, <2>6, <2>7, <1>1, <1>4, DeliveryStep DEF m
<1>10. CASE /\ m.flag = "DNS" /\ wsReceivedDNSHandler(m.uuid)
            /\ UNCHANGED <<sock, seen, handler, connectMap>>
  <2>0. PICK p \in Query : p = m.uuid
    BY <1>3, <1>10, TravelFacts
  <2>1. /\ p \in dnsQueryMap /\ dnsQueryMap' = dnsQueryMap \ {p}
        /\ \E r \in {"ended", "lost"} : dns' = [dns EXCEPT ![p] = r]
    BY <2>0, <1>10 DEF wsReceivedDNSHandler
  <2>2. p \in Query /\ p \notin Socket
    BY <2>0, RelayAssumption
  <2>3. /\ dns' \in [Query -> {"none", "open", "ended", "lost"}] /\ dns'[p] \in {"ended", "lost"}
        /\ \A q \in Query : q # p => dns'[q] = dns[q]
    BY <2>1, <2>2, <1>4
  <2>4. QueryFlow(p)'
    <3>1. \A v \in Login : DnsUnderWay(p, v)' => DnsUnderWay(p, v)
      BY <1>1, <1>3, <1>5 DEF DnsUnderWay
    <3>2. DnsUnderWay(p, w) /\ w # 0
      BY <2>0, <1>3, <1>5, <1>10, TravelFacts DEF DnsUnderWay, Login
    <3>3. QueryFlow(p) /\ vert = "up"
      BY <1>1 DEF IInv, Links
    <3> QED
      BY <3>1, <3>2, <3>3, <2>1, <2>3, <1>1 DEF QueryFlow
  <2>5. dnsQueryMap' \subseteq Query /\ \A q \in Query : q # p => (q \in dnsQueryMap' <=> q \in dnsQueryMap)
    BY <2>1, <1>4
  <2> QED
    BY <2>0, <2>2, <2>3, <2>4, <2>5, <1>1, <1>4, <1>10, DeliveryStep DEF m
<1>11. CASE /\ m.uuid \notin connectMap \cup dnsQueryMap
            /\ UNCHANGED <<sock, seen, handler, connectMap, dnsVars>>
  <2>1. UNCHANGED <<sock, seen, handler, connectMap, dns, dnsQueryMap>>
    BY <1>11 DEF dnsVars
  <2>0. PICK u : u = m.uuid
    OBVIOUS
  <2>2. ASSUME NEW t \in Socket, t = u
        PROVE  /\ Stage(t)' /\ Dialogue(t)' /\ Mapped(t)'
               /\ \A v \in Login : Flow(t, v)'
    <3>1. Stage(t)' /\ Dialogue(t)' /\ Mapped(t)'
      BY <2>1, <1>1, SocketFrame DEF IInv
    <3>2. ASSUME NEW v \in Login, sock[t] \in {"none", "open"} PROVE Flow(t, v)'
      <4> DEFINE S == Msg("CONNECT_SUCCESS", t)  C == Msg("CONNECT", t)  R == Msg("RAW", t)
      <4>1. Stage(t) /\ Flow(t, v)
        BY DEF IInv
      <4>2. asked[t] = 0 /\ v # 0
        BY <4>1, <3>2, <2>0, <2>2, <1>11 DEF Stage, Login
      <4>3. /\ ~Has(up[v], C) /\ ~Has(down[v], S) /\ Once(up[v], C) /\ Once(down[v], S)
            /\ t \in remote[v] => handler[t] = "raw"
            /\ handler[t] = "raw" \/ Preceded(down[v], R, S)
        BY <4>1, <4>2, <3>2 DEF Flow
      <4>4. ~Has(down'[v], S) /\ Once(down'[v], S)
        BY <4>3, <1>3, <1>5
      <4>5. handler[t] = "raw" \/ Preceded(down'[v], R, S)
        <5>1. CASE v = w
          BY <5>1, <4>3, <1>5, <1>6
        <5>2. CASE v # w
          BY <5>2, <4>3, <1>3
        <5> QED
          BY <5>1, <5>2
      <4> QED
        BY <4>2, <4>3, <4>4, <4>5, <2>1, <1>1 DEF Flow
    <3>3. ASSUME NEW v \in Login, sock[t] \notin {"none", "open"} PROVE Flow(t, v)'
      BY <3>3, <2>1 DEF Flow
    <3> QED
      BY <3>1, <3>2, <3>3
  <2>3. ASSUME NEW q \in Query, q = u PROVE QueryFlow(q)'
    <3>1. \A v \in Login : DnsUnderWay(q, v)' => DnsUnderWay(q, v)
      BY <1>1, <1>3, <1>5 DEF DnsUnderWay
    <3> QED
      BY <3>1, <2>0, <2>1, <2>3, <1>1, <1>11 DEF IInv, QueryFlow
  <2> QED
    BY <2>0, <2>1, <2>2, <2>3, <1>1, <1>4, DeliveryStep DEF m
<1> QED
  BY <1>7, <1>8, <1>9, <1>10, <1>11 DEF binaryMessageHandler, m

LEMMA StopStep ==
  ASSUME IInv, stop PROVE IInv'
<1>1. /\ vert = "up" /\ vert' = "stopped"
      /\ sock' = [s \in Socket |-> IF sock[s] = "open" THEN "closing" ELSE sock[s]]
      /\ inbox' = [s \in Socket |-> <<>>]
      /\ link' = [w \in Login |-> IF link[w] \in {"open", "connecting"}
                                  THEN "closed" ELSE link[w]]
      /\ connectMap' \subseteq connectMap
      /\ dns' = [q \in Query |-> IF dns[q] \in {"open", "lost"} THEN "ended" ELSE dns[q]]
      /\ UNCHANGED <<ws, logins, handler, sent, rsent, seen, dnsQueryMap, asked>>
  BY DEF stop
<1>2. /\ up' = [w \in Login |-> <<>>] /\ down' = [w \in Login |-> <<>>]
      /\ remote' = [w \in Login |-> {}]
  BY DEF stop, CloseLinks
<1>3. /\ up' \in [Login -> Seq(Travels)] /\ down' \in [Login -> Seq(Travels)]
      /\ up' \in [Login -> Seq(Message)] /\ down' \in [Login -> Seq(Message)]
      /\ remote' \in [Login -> SUBSET Socket]
  BY <1>2
<1>4. /\ link' \in [Login -> {"unused", "connecting", "open", "closed", "dropped", "failed"}]
      /\ \A w \in Login : link'[w] \notin {"open", "connecting"}
      /\ \A w \in Login : link[w] = "unused" => link'[w] = "unused"
  BY <1>1 DEF IInv, TypeOK
<1>5. /\ sock' \in [Socket -> {"none", "open", "closing", "gone"}]
      /\ inbox' \in [Socket -> Seq(FromClient)]
      /\ dns' \in [Query -> {"none", "open", "ended", "lost"}]
      /\ vert' \in {"new", "up", "stopped"} /\ connectMap' \subseteq Socket
  BY <1>1 DEF IInv, TypeOK
<1>6. TypeOK'
  BY <1>1, <1>3, <1>4, <1>5 DEF IInv, TypeOK
<1>7. Links' /\ ReloginPending'
  BY <1>1, <1>4 DEF IInv, Links, ReloginPending
<1>8. Queues'
  BY <1>2, <1>3 DEF Queues
<1>9. ASSUME NEW s \in Socket PROVE Stage(s)' /\ Dialogue(s)' /\ Mapped(s)'
  <2>1. Stage(s) /\ Dialogue(s) /\ Mapped(s)
    BY DEF IInv
  <2>2. /\ sock'[s] = IF sock[s] = "open" THEN "closing" ELSE sock[s]
        /\ inbox'[s] = <<>>
    BY <1>1
  <2>3. Stage(s)' /\ Mapped(s)'
    BY <2>1, <2>2, <1>1 DEF Stage, Mapped
  <2>4. Dialogue(s)'
    BY <2>1, <2>2, <1>1 DEF Dialogue
  <2> QED
    BY <2>3, <2>4
<1>10. ASSUME NEW s \in Socket, NEW w \in Login PROVE Flow(s, w)'
  <2>1. up'[w] = <<>> /\ down'[w] = <<>> /\ remote'[w] = {} /\ link'[w] # "open"
    BY <1>2, <1>4
  <2>2. /\ ~Has(<<>>, Msg("CONNECT", s)) /\ ~Has(<<>>, Msg("CONNECT_SUCCESS", s))
        /\ Once(<<>>, Msg("CONNECT", s)) /\ Once(<<>>, Msg("CONNECT_SUCCESS", s))
        /\ Preceded(<<>>, Msg("RAW", s), Msg("CONNECT_SUCCESS", s))
    BY EmptyHas
  <2> QED
    BY <2>1, <2>2 DEF Flow
<1>11. ASSUME NEW q \in Query PROVE QueryFlow(q)'
  <2>1. /\ QueryFlow(q) /\ dns'[q] \notin {"open", "lost"}
        /\ dns'[q] = "none" => dns[q] = "none"
    BY <1>1 DEF IInv
  <2>2. \A w \in Login : ~DnsUnderWay(q, w)'
    BY <1>2, EmptyHas DEF DnsUnderWay
  <2> QED
    BY <2>1, <2>2, <1>1, <1>4 DEF QueryFlow
<1> QED
  BY <1>6, <1>7, <1>8, <1>9, <1>10, <1>11 DEF IInv

LEMMA StutterStep ==
  ASSUME IInv, UNCHANGED vars PROVE IInv'
<1>1. UNCHANGED <<vert, ws, logins, link, up, down, remote, sock, handler, inbox, sent,
                  rsent, seen, connectMap, dns, dnsQueryMap, asked>>
  BY DEF vars, wsVars, sockVars, dnsVars
<1>2. TypeOK'
  BY <1>1 DEF IInv, TypeOK
<1>3. Links' /\ ReloginPending'
  BY <1>1, LinksFrame DEF IInv
<1>4. Queues'
  BY <1>1 DEF IInv, Queues
<1>5. ASSUME NEW s \in Socket PROVE Stage(s)' /\ Dialogue(s)' /\ Mapped(s)'
  BY <1>1, SocketFrame DEF IInv
<1>6. ASSUME NEW s \in Socket, NEW w \in Login PROVE Flow(s, w)'
  BY <1>1, FlowFrame DEF IInv
<1>7. ASSUME NEW q \in Query PROVE QueryFlow(q)'
  BY <1>1, QueryFrame DEF IInv, DnsUnderWay
<1> QED
  BY <1>2, <1>3, <1>4, <1>5, <1>6, <1>7 DEF IInv

-----------------------------------------------------------------------------
(* The theorems.                                                           *)

(* The inductive invariant of the verticle: it holds at the start, and every   *)
(* handler, every event of a websocket, a client or the server, and             *)
(* undeployment preserve it.                                                    *)
THEOREM Invariance == Spec => []IInv
<1>1. Init => IInv
  BY InitIInv
<1>2. IInv /\ [Next]_vars => IInv'
  <2> SUFFICES ASSUME IInv, [Next]_vars PROVE IInv'
    OBVIOUS
  <2>1. CASE start
    BY <2>1, StartStep
  <2>2. CASE stop
    BY <2>2, StopStep
  <2>3. CASE Undeployed
    BY <2>3, StutterStep DEF Undeployed
  <2>4. ASSUME NEW w \in Login, ServerStep(w) PROVE IInv'
    BY <2>4, RemoteReceivesStep, RemoteClosesStep, RemoteSendsStep DEF ServerStep
  <2>5. ASSUME NEW w \in Login, LinkStep(w) PROVE IInv'
    BY <2>5, LoginSucceedsStep, LoginFailsStep, ExceptionStep, BinaryMessageStep DEF LinkStep
  <2>6. ASSUME NEW s \in Socket, SocketStep(s) PROVE IInv'
    <3>1. CASE SocketData(s)
      <4>1. handler[s] \in {"socks", "raw"}
        BY DEF IInv, TypeOK
      <4> QED
        BY <3>1, <4>1, RelayedStep, ParsedStep
    <3> QED
      BY <2>6, <3>1, ConnectStep, ClientClosesStep, CloseHandlerStep, ClientWritesStep
         DEF SocketStep
  <2>7. ASSUME NEW q \in Query, handleQuery(q) PROVE IInv'
    BY <2>7, HandleQueryStep
  <2>8. CASE UNCHANGED vars
    BY <2>8, StutterStep
  <2> QED
    BY <2>1, <2>2, <2>3, <2>4, <2>5, <2>6, <2>7, <2>8 DEF Next
<1> QED
  BY <1>1, <1>2, PTL DEF Spec

(* The maps and the websockets agree with what is open: no entry of connectMap  *)
(* outlives its closeHandler, a relaying socket is mapped, and at most one       *)
(* websocket is open or being opened, for any number of sockets and logins.      *)
THEOREM MapsConsistent == Spec => []Consistent
<1>1. IInv => Consistent
  <2> SUFFICES ASSUME IInv PROVE Consistent
    OBVIOUS
  <2>1. TypeOK
    BY DEF IInv
  <2>2. MapAgrees
    BY DEF IInv, Mapped, MapAgrees
  <2>3. OneSession
    BY DEF IInv, Links, OneSession
  <2> QED
    BY <2>1, <2>2, <2>3 DEF Consistent
<1> QED
  BY <1>1, Invariance, PTL

(* The client of every socket sees a SOCKS5 dialogue, whatever order requests,   *)
(* answers, data and failures come in, and its data never reach the parser.       *)
THEOREM DialoguesKept == Spec => []SocksDialogue
<1>1. IInv => SocksDialogue
  <2> SUFFICES ASSUME IInv, NEW s \in Socket
               PROVE  /\ \A i \in 1 .. Len(seen[s]) :
                           CASE i = 1 -> seen[s][i] = "method"
                             [] i = 2 -> seen[s][i] \in {"reply", "udpreply", "refused"}
                             [] OTHER -> seen[s][i] = "data" /\ seen[s][2] = "reply"
                      /\ Len(seen[s]) > 1 /\ seen[s][2] = "reply" => asked[s] # 0
                      /\ handler[s] = "socks" =>
                           \A i \in 1 .. Len(inbox[s]) : inbox[s][i] # "data"
    BY DEF SocksDialogue
  <2>1. Dialogue(s) /\ Len(seen[s]) \in Nat
    BY DEF IInv, TypeOK
  <2>2. ASSUME NEW i \in 1 .. Len(seen[s])
        PROVE  CASE i = 1 -> seen[s][i] = "method"
                 [] i = 2 -> seen[s][i] \in {"reply", "udpreply", "refused"}
                 [] OTHER -> seen[s][i] = "data" /\ seen[s][2] = "reply"
    <3>1. CASE i = 1
      BY <2>1, <3>1 DEF Dialogue
    <3>2. CASE i = 2
      BY <2>1, <3>2 DEF Dialogue
    <3>3. CASE i # 1 /\ i # 2
      <4>1. i \in 3 .. Len(seen[s])
        BY <2>1, <3>3
      <4> QED
        BY <2>1, <3>3, <4>1 DEF Dialogue
    <3> QED
      BY <3>1, <3>2, <3>3
  <2> QED
    BY <2>1, <2>2 DEF Dialogue
<1> QED
  BY <1>1, Invariance, PTL

(* After the exceptionHandler closed ws, a later login is under way or failed.    *)
THEOREM LoginsFollow == Spec => []ReloginPending
<1>1. IInv => ReloginPending
  BY DEF IInv
<1> QED
  BY <1>1, Invariance, PTL

(* A CONNECT or DNS query that waits for its answer is mapped, and it or its      *)
(* answer is under way, as long as the websocket it was written to is open.  A    *)
(* query is forgotten with its socket open only after it was answered, when the   *)
(* answer could not be turned into a reply.                                       *)
THEOREM RequestsKept == Spec => []RequestUnderWay
<1>1. IInv => RequestUnderWay
  <2> SUFFICES ASSUME IInv PROVE RequestUnderWay
    OBVIOUS
  <2>1. ASSUME NEW f \in Flag, NEW u, NEW q, Has(q, Msg(f, u)) PROVE Under(u, q)
    BY <2>1 DEF Has, Under, Msg
  <2>2. ASSUME NEW s \in Socket, asked[s] # 0, link[asked[s]] = "open",
               sock[s] = "open", Len(seen[s]) = 1
        PROVE  s \in connectMap /\ (Under(s, up[asked[s]]) \/ Under(s, down[asked[s]]))
    <3>1. Stage(s) /\ asked[s] \in Login
      BY <2>2 DEF IInv, TypeOK, Login
    <3>2. handler[s] = "socks"
      BY <2>2, <3>1, OpenSeen
    <3>3. Has(up[asked[s]], Msg("CONNECT", s)) \/ Has(down[asked[s]], Msg("CONNECT_SUCCESS", s))
            \/ Has(down[asked[s]], Msg("EXCEPTION", s))
      BY <2>2, <3>1, <3>2 DEF IInv, Flow
    <3> QED
      BY <2>1, <2>2, <3>1, <3>3 DEF Stage, Flag
  <2>3. ASSUME NEW q \in Query, asked[q] # 0, link[asked[q]] = "open",
               dns[q] = "open" \/ q \in dnsQueryMap
        PROVE  q \in dnsQueryMap /\ (Under(q, up[asked[q]]) \/ Under(q, down[asked[q]]))
    <3>1. QueryFlow(q) /\ asked[q] \in Login
      BY <2>3 DEF IInv, TypeOK, Login
    <3>2. q \in dnsQueryMap /\ (Has(up[asked[q]], Msg("DNS", q)) \/ Has(down[asked[q]], Msg("DNS", q)))
      BY <2>3, <3>1 DEF QueryFlow, DnsUnderWay
    <3> QED
      BY <2>1, <3>2 DEF Flag
  <2>4. ASSUME NEW q \in Query
        PROVE  /\ dns[q] = "open" => q \in dnsQueryMap
               /\ dns[q] = "lost" => asked[q] # 0 /\ q \notin dnsQueryMap
    BY DEF IInv, QueryFlow
  <2> QED
    BY <2>2, <2>3, <2>4, RelayAssumption DEF RequestUnderWay
<1> QED
  BY <1>1, Invariance, PTL

(* Undeployment leaves no socket, query or websocket open, also when stop()       *)
(* throws at ws.close().                                                           *)
THEOREM StopComplete == Spec => []StopReleases
<1>1. IInv => StopReleases
  <2> SUFFICES ASSUME IInv, vert = "stopped" PROVE StopReleases
    BY DEF StopReleases
  <2>1. ASSUME NEW s \in Socket PROVE sock[s] # "open" /\ (s \in connectMap => sock[s] = "closing")
    BY DEF IInv, Stage, Mapped
  <2>2. ASSUME NEW q \in Query PROVE dns[q] \notin {"open", "lost"}
    BY DEF IInv, QueryFlow
  <2>3. ASSUME NEW w \in Login PROVE link[w] \notin {"open", "connecting"}
    BY DEF IInv, Links
  <2> QED
    BY <2>1, <2>2, <2>3 DEF StopReleases
<1> QED
  BY <1>1, Invariance, PTL

=============================================================================
