------------------------- MODULE ParallelQueryProofs -------------------------
(***************************************************************************)
(* Proofs about ParallelQuery, for every number of servers, size of a batch,    *)
(* method and timeout.  The first part says what each function of the state     *)
(* machine p_query_sm does to the socket and the buffers of its query; the       *)
(* second states the inductive invariant; the third shows that every step keeps  *)
(* it and draws the conclusions.                                              *)
(***************************************************************************)
EXTENDS ParallelQuery, FunctionTheorems, FiniteSetTheorems, WellFoundedInduction, TLAPS

(* Every non-empty set of natural numbers has a least element, which Min takes.  *)
LEMMA MinIn ==
  ASSUME NEW S \in SUBSET Nat, S # {}
  PROVE  Min(S) \in S /\ \A y \in S : Min(S) <= y
<1> DEFINE R == OpToRel(<, Nat)
<1>1. \E x \in S : \A y \in S : ~ (<<y, x>> \in R)
  <2>1. IsWellFoundedOn(R, Nat)
    BY NatLessThanWellFounded
  <2> HIDE DEF R
  <2> QED BY <2>1, WFMin
<1>2. \A x, y \in Nat : <<y, x>> \in R <=> y < x
  BY DEF OpToRel
<1>3. \E x \in S : \A y \in S : x <= y
  <2> HIDE DEF R
  <2>1. PICK x \in S : \A y \in S : ~ (<<y, x>> \in R)
    BY <1>1
  <2>2. ASSUME NEW y \in S
        PROVE  x <= y
    <3>1. x \in Nat /\ y \in Nat
      OBVIOUS
    <3>2. ~ (y < x)
      BY <2>1, <1>2, <3>1
    <3> QED BY <3>1, <3>2
  <2> QED BY <2>2
<1> QED BY <1>3 DEF Min

-----------------------------------------------------------------------------
(* The functions of a query.  O is the set of descriptors of the other queries,  *)
(* t the timeout of this one.                                                 *)

Waiting == Reading \cup Writing

Value == {"again", "retry", "OK", "NAMEERR", "SERVFAIL", "REFUSED", "FATALERR"}

CallType == [ q : Query, open : SUBSET Fd, bad : SUBSET Twice, rv : Value,
              failed : {0, 1, 3}, tc : BOOLEAN ]

(* Nothing but the buffer of an empty second reply was given back twice, and the  *)
(* only descriptor open besides those of the other queries is the one this query   *)
(* knows.                                                                     *)
Held(c, O, t) ==
  /\ c \in CallType /\ c.bad \subseteq {"emptied"} /\ c.q.timeout = t
  /\ O \subseteq Fd /\ O # Fd /\ c.q.sock \notin O
  /\ c.open = O \cup ({c.q.sock} \ {None})

Armed(c) == c.q.msg = "live" /\ c.q.recvbuf # "freed"

Busy(c, O, t) == Held(c, O, t) /\ Armed(c) /\ c.q.sock # None
Idle(c, O, t) == Held(c, O, t) /\ Armed(c) /\ c.q.sock = None

(* A buffer there is before a TCP reply has begun was kept from an earlier reply.  *)
Fresh(st) ==
  \/ st.state \in {"TCPINITIAL", "TCPWRITE"}
  \/ st.state = "TCPREAD" /\ ~st.part
  => st.recvbuf # "live"

(* What p_query_sm may leave: the query waits with a socket, or is over without.  *)
Outcome(r, O, t) ==
  \/ r.rv = "again" /\ Busy(r, O, t) /\ r.q.state \in Waiting /\ Fresh(r.q)
  \/ r.rv \in {"OK", "SERVFAIL", "FATALERR"} /\ Idle(r, O, t) /\ r.q.state = "DONE"

(* What p_exec_query may leave: as above but with the buffers freed at the end,   *)
(* or the query is to be sent again.                                           *)
Executed(r, O, t) ==
  \/ r.rv = "again" /\ Busy(r, O, t) /\ r.q.state \in Waiting /\ Fresh(r.q)
  \/ r.rv = "retry" /\ Idle(r, O, t) /\ r.q.state \in Starting /\ Fresh(r.q)
  \/ /\ r.rv \in Value \ {"again", "retry"} /\ Held(r, O, t)
     /\ r.q.sock = None /\ r.q.state = "DONE" /\ r.q.msg # "live"
     /\ r.q.recvbuf \notin Allocated

State == {"INITIAL", "DONE", "CANCELED"} \cup Starting \cup Writing \cup Reading

LEMMA FdFacts == None \notin Fd /\ Fd \subseteq Nat
  BY ParallelQueryAssumption DEF Fd, None

(* Setting the state and the value keeps what is held.                          *)
LEMMA RetKeeps ==
  ASSUME NEW c, NEW O, NEW t, NEW s \in State, NEW v \in Value, Held(c, O, t)
  PROVE  LET d == Ret(c, s, v)
         IN /\ Held(d, O, t) /\ d.q.state = s /\ d.rv = v
            /\ d.q.msg = c.q.msg /\ d.q.recvbuf = c.q.recvbuf /\ d.q.sock = c.q.sock
            /\ Busy(c, O, t) => Busy(d, O, t)
            /\ Idle(c, O, t) => Idle(d, O, t)
<1> DEFINE d == Ret(c, s, v)
           p == [c.q EXCEPT !.state = s]
<1>1. c.q \in Query /\ p \in Query /\ p.state = s /\ p.sock = c.q.sock /\ p.msg = c.q.msg
      /\ p.recvbuf = c.q.recvbuf /\ p.timeout = c.q.timeout
  BY DEF Held, CallType, Query, State
<1>2. d = [c EXCEPT !.q = p, !.rv = v]
  BY DEF Ret
<1> HIDE DEF p, d
<1>3. d \in CallType /\ d.q = p /\ d.rv = v /\ d.open = c.open /\ d.bad = c.bad
  BY <1>1, <1>2 DEF Held, CallType
<1>4. Held(d, O, t) /\ d.q.state = s /\ d.rv = v
  BY <1>1, <1>3 DEF Held
<1>5. d.q.msg = c.q.msg /\ d.q.recvbuf = c.q.recvbuf /\ d.q.sock = c.q.sock
  BY <1>1, <1>3
<1>6. (Busy(c, O, t) => Busy(d, O, t)) /\ (Idle(c, O, t) => Idle(d, O, t))
  BY <1>4, <1>5 DEF Busy, Idle, Armed
<1> QED BY <1>4, <1>5, <1>6 DEF d

LEMMA OverKeeps ==
  ASSUME NEW c, NEW O, NEW t, NEW v \in Value, Held(c, O, t)
  PROVE  LET d == Over(c, v)
         IN /\ Held(d, O, t) /\ d.q.state = "DONE" /\ d.rv = v
            /\ d.q.msg = c.q.msg /\ d.q.recvbuf = c.q.recvbuf /\ d.q.sock = c.q.sock
            /\ Busy(c, O, t) => Busy(d, O, t)
            /\ Idle(c, O, t) => Idle(d, O, t)
  BY DEF Over, Ret, Held, CallType, Query, Busy, Idle, Armed

LEMMA CloseReleases ==
  ASSUME NEW c, NEW O, NEW t, Busy(c, O, t)
  PROVE  Idle(Close(c), O, t) /\ Close(c).q.state = c.q.state
<1> DEFINE d == Close(c)
           p == [c.q EXCEPT !.sock = None]
<1>1. c.q \in Query /\ p \in Query /\ p.state = c.q.state /\ p.sock = None
      /\ p.msg = c.q.msg /\ p.recvbuf = c.q.recvbuf /\ p.timeout = c.q.timeout
  BY DEF Busy, Held, CallType, Query
<1>2. c.q.sock \in c.open /\ c.open \ {c.q.sock} = O
  BY DEF Busy, Held
<1>3. d = [c EXCEPT !.open = @ \ {c.q.sock}, !.q = p,
                   !.bad = Blame(c, "sock", c.q.sock \notin c.open)]
  BY DEF Close
<1> HIDE DEF p, d
<1>4. d \in CallType /\ d.q = p /\ d.open = O /\ d.bad = c.bad
  BY <1>1, <1>2, <1>3 DEF Busy, Held, CallType, Blame
<1>5. Held(d, O, t) /\ Armed(d) /\ d.q.sock = None /\ d.q.state = c.q.state
  BY <1>1, <1>4, FdFacts DEF Busy, Held, Armed
<1> QED BY <1>5 DEF d, Idle

LEMMA ReallocKeeps ==
  ASSUME NEW c, NEW O, NEW t, NEW b \in {"null", "live"}, Busy(c, O, t)
  PROVE  Busy(Realloc(c, b), O, t) /\ Realloc(c, b).q.state = c.q.state
  BY DEF Realloc, Blame, Held, CallType, Query, Busy, Armed

LEMMA ReallocEmptyKeeps ==
  ASSUME NEW c, NEW O, NEW t, Busy(c, O, t), c.q.recvbuf = "kept"
  PROVE  Busy(ReallocEmpty(c), O, t)
<1> DEFINE d == ReallocEmpty(c)
           p == [c.q EXCEPT !.recvbuf = "null"]
<1>1. c.q \in Query /\ p \in Query /\ p.sock = c.q.sock /\ p.msg = c.q.msg
      /\ p.recvbuf = "null" /\ p.timeout = c.q.timeout
  BY DEF Busy, Held, CallType, Query
<1>2. d = [c EXCEPT !.q = p, !.bad = @ \cup {"emptied"}]
  BY DEF ReallocEmpty
<1> HIDE DEF p, d
<1>3. d \in CallType /\ d.q = p /\ d.open = c.open /\ d.bad = c.bad \cup {"emptied"}
  BY <1>1, <1>2 DEF Busy, Held, CallType, Twice
<1>4. Busy(d, O, t)
  BY <1>1, <1>3 DEF Busy, Held, Armed
<1> QED BY <1>4 DEF d

LEMMA SocketOpens ==
  ASSUME NEW c, NEW O, NEW t, Idle(c, O, t)
  PROVE  /\ Busy(Socket(c), O, t) /\ Socket(c).q.state = c.q.state
         /\ Socket(c).q.recvbuf = c.q.recvbuf
<1> DEFINE s == Min(Fd \ c.open)
<1>1. c.open = O /\ Fd \ c.open # {} /\ Fd \ c.open \subseteq Nat
  BY FdFacts DEF Idle, Held
<1>2. s \in Fd /\ s \notin O
  BY <1>1, MinIn
<1>3. Socket(c) = [c EXCEPT !.q.sock = s, !.open = @ \cup {s}]
  BY DEF Socket
<1> DEFINE d == Socket(c)
           p == [c.q EXCEPT !.sock = s]
<1> HIDE DEF s
<1>4. c.q \in Query /\ p \in Query /\ p.state = c.q.state /\ p.sock = s
      /\ p.msg = c.q.msg /\ p.recvbuf = c.q.recvbuf /\ p.timeout = c.q.timeout
  BY <1>2 DEF Idle, Held, CallType, Query
<1>5. d = [c EXCEPT !.q = p, !.open = @ \cup {s}]
  BY <1>3
<1> HIDE DEF p, d
<1>6. d \in CallType /\ d.q = p /\ d.open = O \cup {s} /\ d.bad = c.bad
  BY <1>1, <1>2, <1>4, <1>5 DEF Idle, Held, CallType
<1>7. Held(d, O, t) /\ Armed(d) /\ d.q.sock # None /\ d.q.state = c.q.state
      /\ d.q.recvbuf = c.q.recvbuf
  BY <1>2, <1>4, <1>6, FdFacts DEF Idle, Held, Armed
<1> QED BY <1>7 DEF d, Busy

LEMMA NoSocketKeeps ==
  ASSUME NEW c, NEW O, NEW t, Idle(c, O, t)
  PROVE  Idle(NoSocket(c), O, t)
  BY DEF NoSocket, Held, CallType, Query, Idle, Armed

LEMMA PartKeeps ==
  ASSUME NEW c, NEW O, NEW t, NEW p \in BOOLEAN, Busy(c, O, t)
  PROVE  LET d == [c EXCEPT !.q.part = p]
         IN Busy(d, O, t) /\ d.q.state = c.q.state /\ d.q.recvbuf = c.q.recvbuf /\ d.q.part = p
  BY DEF Held, CallType, Query, Busy, Armed

LEMMA BrokenOver ==
  ASSUME NEW c, NEW O, NEW t, Idle(c, O, t), NEW r \in Broken(c)
  PROVE  Outcome(r, O, t)
<1>1. Held(c, O, t) /\ r = Over(c, "SERVFAIL")
  BY DEF Broken, Idle
<1> QED BY <1>1, OverKeeps DEF Outcome, Value

LEMMA AgainWaits ==
  ASSUME NEW c, NEW O, NEW t, Busy(c, O, t), c.q.state \in Waiting, Fresh(c.q),
         NEW r \in Again(c)
  PROVE  Outcome(r, O, t)
<1>1. r \in CallType /\ r.q = c.q /\ r.open = c.open /\ r.bad = c.bad /\ r.rv = "again"
  BY DEF Again, Value, Held, CallType, Busy
<1> QED BY <1>1 DEF Outcome, Held, Busy, Armed

LEMMA FatalOver ==
  ASSUME NEW c, NEW O, NEW t, Busy(c, O, t)
  PROVE  Outcome(Over(Close(Realloc(c, "null")), "FATALERR"), O, t)
<1>1. Idle(Close(Realloc(c, "null")), O, t)
  BY ReallocKeeps, CloseReleases
<1> QED BY <1>1, OverKeeps DEF Outcome, Value, Idle

LEMMA EmptyOver ==
  ASSUME NEW c, NEW O, NEW t, Busy(c, O, t), c.q.recvbuf = "kept"
  PROVE  Outcome(Over(Close(ReallocEmpty(c)), "FATALERR"), O, t)
<1>1. Idle(Close(ReallocEmpty(c)), O, t)
  BY ReallocEmptyKeeps, CloseReleases
<1> QED BY <1>1, OverKeeps DEF Outcome, Value, Idle

LEMMA AnswerOver ==
  ASSUME NEW c, NEW O, NEW t, Busy(c, O, t)
  PROVE  Outcome(Ret(Close(c), "DONE", "OK"), O, t)
<1>1. Idle(Close(c), O, t)
  BY CloseReleases
<1> QED BY <1>1, RetKeeps DEF Outcome, Value, State, Idle

(* QS_UDPINITIAL.                                                             *)
LEMMA UdpInitialDoes ==
  ASSUME NEW c, NEW O, NEW t, Idle(c, O, t), NEW r \in UdpInitial(c)
  PROVE  Outcome(r, O, t)
<1> DEFINE s == Socket(c)
<1>1. Busy(s, O, t)
  BY SocketOpens
<1>2. CASE r \in Broken(NoSocket(c))
  BY <1>2, NoSocketKeeps, BrokenOver
<1>3. CASE r \in Broken(Close(s))
  BY <1>1, <1>3, CloseReleases, BrokenOver
<1>4. CASE r = Ret(s, "UDPRECEIVE", "again")
  <2>1. Held(s, O, t)
    BY <1>1 DEF Busy
  <2> HIDE DEF s
  <2> QED BY <1>1, <1>4, <2>1, RetKeeps DEF Outcome, Value, State, Waiting, Reading, Fresh
<1> QED BY <1>2, <1>3, <1>4 DEF UdpInitial

(* QS_UDPRECEIVE.                                                             *)
LEMMA UdpReceiveDoes ==
  ASSUME NEW c, NEW O, NEW t, Busy(c, O, t), c.q.state = "UDPRECEIVE",
         NEW r \in UdpReceive(c)
  PROVE  Outcome(r, O, t)
<1> DEFINE b == Realloc(c, "live")
<1>1. Busy(b, O, t) /\ b.q.state \in Waiting /\ Fresh(b.q)
  BY ReallocKeeps DEF Waiting, Reading, Fresh
<1>2. CASE r = Over(Close(Realloc(c, "null")), "FATALERR")
  BY <1>2, FatalOver
<1>3. CASE r \in Broken(Close(b))
  BY <1>1, <1>3, CloseReleases, BrokenOver
<1>4. CASE r \in Again(b)
  BY <1>1, <1>4, AgainWaits
<1>5. CASE r = Ret(Close(b), "DONE", "OK")
  BY <1>1, <1>5, AnswerOver
<1> QED BY <1>2, <1>3, <1>4, <1>5 DEF UdpReceive

(* The label tcp_failed: the query goes over to UDP or is over.                 *)
LEMMA TcpFailedDoes ==
  ASSUME NEW c, NEW O, NEW t, Idle(c, O, t), NEW r \in TcpFailed(c)
  PROVE  Outcome(r, O, t)
<1> DEFINE u == [c EXCEPT !.q = switch_to_udp(@)]
<1>1. Idle(u, O, t)
  <2> DEFINE p == switch_to_udp(c.q)
  <2>1. c.q \in Query /\ p \in Query /\ p.sock = c.q.sock /\ p.msg = c.q.msg
        /\ p.recvbuf = c.q.recvbuf /\ p.timeout = c.q.timeout
    BY DEF Idle, Held, CallType, Query, switch_to_udp, Starting
  <2>2. u = [c EXCEPT !.q = p]
    OBVIOUS
  <2> HIDE DEF p, u
  <2>3. u \in CallType /\ u.q = p /\ u.open = c.open /\ u.bad = c.bad
    BY <2>1, <2>2 DEF Idle, Held, CallType
  <2> QED BY <2>1, <2>3 DEF Idle, Held, Armed
<1> HIDE DEF u
<1>2. CASE r \in UdpInitial(u)
  BY <1>1, <1>2, UdpInitialDoes
<1>3. CASE r \in Broken(c)
  BY <1>3, BrokenOver
<1> QED BY <1>2, <1>3 DEF TcpFailed, u

(* QS_TCPREAD, in two parts.                                                   *)
LEMMA TcpBodyDoes ==
  ASSUME NEW c, NEW O, NEW t, Busy(c, O, t), c.q.state \in Waiting, Fresh(c.q),
         NEW r \in TcpBody(c)
  PROVE  Outcome(r, O, t)
<1>1. CASE r \in Again(c)
  BY <1>1, AgainWaits
<1>2. CASE r \in TcpFailed(Close(c))
  BY <1>2, CloseReleases, TcpFailedDoes
<1>3. CASE r = Ret(Close(c), "DONE", "OK")
  BY <1>3, AnswerOver
<1> QED BY <1>1, <1>2, <1>3 DEF TcpBody

LEMMA TcpReadDoes ==
  ASSUME NEW c, NEW O, NEW t, Busy(c, O, t), c.q.state = "TCPREAD", Fresh(c.q),
         NEW r \in TcpRead(c)
  PROVE  Outcome(r, O, t)
<1> DEFINE b == Realloc(c, "live")
           p == [b EXCEPT !.q.part = TRUE]
<1>1. c.q.state \in Waiting
  BY DEF Waiting, Reading
<1>2. Busy(p, O, t) /\ p.q.state \in Waiting /\ Fresh(p.q)
  <2>1. Busy(b, O, t) /\ b.q.state = c.q.state
    BY ReallocKeeps
  <2> HIDE DEF b
  <2>2. Busy(p, O, t) /\ p.q.state = c.q.state /\ p.q.part = TRUE
    BY <2>1, PartKeeps
  <2> HIDE DEF p
  <2> QED BY <1>1, <2>2 DEF Fresh
<1> HIDE DEF b, p
<1>3. CASE r \in TcpBody(c)
  BY <1>1, <1>3, TcpBodyDoes
<1>4. CASE r \in Again(c)
  BY <1>1, <1>4, AgainWaits
<1>5. CASE r \in TcpFailed(Close(c))
  BY <1>5, CloseReleases, TcpFailedDoes
<1>6. CASE r = Over(Close(Realloc(c, "null")), "FATALERR")
  BY <1>6, FatalOver
<1>7. CASE r \in TcpBody(p)
  BY <1>2, <1>7, TcpBodyDoes
<1>8. CASE ~c.q.part /\ c.q.recvbuf \in Allocated /\ r = Over(Close(ReallocEmpty(c)), "FATALERR")
  <2>1. c.q.recvbuf = "kept"
    BY <1>8 DEF Fresh, Allocated
  <2> QED BY <1>8, <2>1, EmptyOver
<1>9. \/ r \in TcpBody(c) \/ r \in Again(c) \/ r \in TcpFailed(Close(c)) \/ r \in TcpBody(p)
      \/ r = Over(Close(Realloc(c, "null")), "FATALERR")
      \/ /\ ~c.q.part /\ c.q.recvbuf \in Allocated
         /\ r = Over(Close(ReallocEmpty(c)), "FATALERR")
  BY Zenon DEF TcpRead, b, p
<1> QED BY <1>3, <1>4, <1>5, <1>6, <1>7, <1>8, <1>9

(* QS_TCPWRITE, and what follows once all is written.                          *)
LEMMA TcpWriteDoes ==
  ASSUME NEW c, NEW O, NEW t, Busy(c, O, t), c.q.recvbuf # "live", NEW r \in TcpWrite(c)
  PROVE  Outcome(r, O, t)
<1> DEFINE w == [c EXCEPT !.q.state = "TCPWRITE"]
           p == [w EXCEPT !.q.part = TRUE]
           d == [w EXCEPT !.q.state = "TCPREAD", !.q.part = FALSE]
<1>1. Busy(w, O, t) /\ w.q.state \in Waiting /\ w.q.recvbuf # "live"
  BY DEF Busy, Held, CallType, Query, Armed, Waiting, Writing
<1> HIDE DEF w
<1>2. Busy(p, O, t) /\ p.q.state \in Waiting /\ p.q.recvbuf # "live"
  BY <1>1, PartKeeps
<1>3. Busy(d, O, t) /\ d.q.state = "TCPREAD" /\ d.q.recvbuf # "live"
  <2> DEFINE x == [w.q EXCEPT !.state = "TCPREAD", !.part = FALSE]
  <2>1. x \in Query /\ x.state = "TCPREAD" /\ x.sock = w.q.sock /\ x.msg = w.q.msg
        /\ x.recvbuf = w.q.recvbuf /\ x.timeout = w.q.timeout
    BY <1>1 DEF Busy, Held, CallType, Query, Reading
  <2>2. d = [w EXCEPT !.q = x]
    BY <1>1 DEF Busy, Held, CallType
  <2> HIDE DEF x, d
  <2>3. d \in CallType /\ d.q = x /\ d.open = w.open /\ d.bad = w.bad
    BY <1>1, <2>1, <2>2 DEF Busy, Held, CallType
  <2> QED BY <1>1, <2>1, <2>3 DEF Busy, Held, Armed
<1> HIDE DEF p, d
<1>4. CASE r \in Again(w)
  BY <1>1, <1>4, AgainWaits DEF Fresh
<1>5. CASE r \in Again(p)
  BY <1>2, <1>5, AgainWaits DEF Fresh
<1>6. CASE r \in Broken(Close(w))
  BY <1>1, <1>6, CloseReleases, BrokenOver
<1>7. CASE r \in TcpFailed(Close(w))
  BY <1>1, <1>7, CloseReleases, TcpFailedDoes
<1>8. CASE r \in TcpRead(d)
  BY <1>3, <1>8, TcpReadDoes DEF Fresh
<1>9. \/ r \in Again(w) \/ r \in Again(p) \/ r \in Broken(Close(w))
      \/ r \in TcpFailed(Close(w)) \/ r \in TcpRead(d)
  BY Zenon DEF TcpWrite, w, p, d
<1> QED BY <1>4, <1>5, <1>6, <1>7, <1>8, <1>9

(* QS_TCPINITIAL.                                                             *)
LEMMA TcpInitialDoes ==
  ASSUME NEW c, NEW O, NEW t, Idle(c, O, t), c.q.recvbuf # "live", NEW r \in TcpInitial(c)
  PROVE  Outcome(r, O, t)
<1> DEFINE o == Socket(c)
           s == [o EXCEPT !.q.part = FALSE]
<1>1. Busy(o, O, t) /\ o.q.recvbuf # "live"
  BY SocketOpens
<1>2. Busy(s, O, t) /\ s.q.recvbuf # "live"
  <2> HIDE DEF o
  <2> QED BY <1>1, PartKeeps
<1> HIDE DEF o, s
<1>3. CASE r \in Broken(NoSocket(c))
  BY <1>3, NoSocketKeeps, BrokenOver
<1>4. CASE r \in Broken(Close(s))
  BY <1>2, <1>4, CloseReleases, BrokenOver
<1>5. CASE r = Ret(s, "TCPWRITE", "again")
  <2>1. Held(s, O, t)
    BY <1>2 DEF Busy
  <2> QED BY <1>2, <1>5, <2>1, RetKeeps DEF Outcome, Value, State, Waiting, Writing, Fresh
<1>6. CASE r \in TcpFailed(Close(s))
  BY <1>2, <1>6, CloseReleases, TcpFailedDoes
<1>7. CASE r \in TcpWrite(s)
  BY <1>2, <1>7, TcpWriteDoes
<1> QED BY <1>3, <1>4, <1>5, <1>6, <1>7 DEF TcpInitial, o, s

LEMMA p_query_smDoes ==
  ASSUME NEW c, NEW O, NEW t, NEW r \in p_query_sm(c), Fresh(c.q),
         \/ Busy(c, O, t) /\ c.q.state \in Waiting
         \/ Idle(c, O, t) /\ c.q.state \in Starting
  PROVE  Outcome(r, O, t)
<1>1. c.q.state \in Starting => c.q.state \in {"TCPINITIAL", "UDPINITIAL"}
  BY DEF Starting
<1>2. c.q.state \in Waiting => c.q.state \in {"TCPWRITE", "TCPREAD", "UDPRECEIVE"}
  BY DEF Waiting, Reading, Writing
<1>3. CASE c.q.state = "TCPINITIAL"
  <2>1. r \in TcpInitial(c) /\ c.q.state \notin Waiting /\ c.q.recvbuf # "live"
    BY <1>3 DEF p_query_sm, Waiting, Reading, Writing, Fresh
  <2> QED BY <2>1, TcpInitialDoes
<1>4. CASE c.q.state = "UDPINITIAL"
  <2>1. r \in UdpInitial(c) /\ c.q.state \notin Waiting
    BY <1>4 DEF p_query_sm, Waiting, Reading, Writing
  <2> QED BY <2>1, UdpInitialDoes
<1>5. CASE c.q.state = "TCPWRITE"
  <2>1. r \in TcpWrite(c) /\ c.q.state \notin Starting /\ c.q.recvbuf # "live"
    BY <1>5 DEF p_query_sm, Starting, Fresh
  <2> QED BY <2>1, TcpWriteDoes
<1>6. CASE c.q.state = "TCPREAD"
  <2>1. r \in TcpRead(c) /\ c.q.state \notin Starting
    BY <1>6 DEF p_query_sm, Starting
  <2> QED BY <1>6, <2>1, TcpReadDoes
<1>7. CASE c.q.state = "UDPRECEIVE"
  <2>1. r \in UdpReceive(c) /\ c.q.state \notin Starting
    BY <1>7 DEF p_query_sm, Starting
  <2> QED BY <1>7, <2>1, UdpReceiveDoes
<1> QED BY <1>1, <1>2, <1>3, <1>4, <1>5, <1>6, <1>7

(* Both buffers are freed, each for the first time.                             *)
LEMMA FreesBoth ==
  ASSUME NEW c, NEW O, NEW t, Idle(c, O, t)
  PROVE  LET f == FreeBuf(FreeMsg(c))
         IN /\ Held(f, O, t) /\ f.q.sock = None /\ f.q.state = c.q.state
            /\ f.q.msg # "live" /\ f.q.recvbuf \notin Allocated
<1> DEFINE m == FreeMsg(c)
           f == FreeBuf(m)
<1>1. /\ Held(m, O, t) /\ m.q.sock = None /\ m.q.state = c.q.state
      /\ m.q.msg = "freed" /\ m.q.recvbuf # "freed"
  BY DEF FreeMsg, Blame, Idle, Held, CallType, Query, Armed
<1> HIDE DEF m
<1>2. /\ Held(f, O, t) /\ f.q.sock = None /\ f.q.state = c.q.state
      /\ f.q.msg = "freed" /\ f.q.recvbuf = "freed"
  BY <1>1 DEF FreeBuf, Blame, Held, CallType, Query
<1> QED BY <1>2 DEF f, m, Allocated

LEMMA FreedOver ==
  ASSUME NEW c, NEW O, NEW t, Idle(c, O, t), NEW v \in Value \ {"again", "retry"}
  PROVE  Executed(Over(FreeBuf(FreeMsg(c)), v), O, t)
<1> DEFINE f == FreeBuf(FreeMsg(c))
<1>1. Held(f, O, t) /\ f.q.sock = None /\ f.q.msg # "live" /\ f.q.recvbuf \notin Allocated
  BY FreesBoth
<1> HIDE DEF f
<1>2. Executed(Over(f, v), O, t)
  BY <1>1, OverKeeps DEF Executed, Value
<1> QED BY <1>2 DEF f

LEMMA FirstStarts ==
  ASSUME NEW st
  PROVE  First(st) \in Starting
  BY DEF First, Starting

Denial == {"SERVFAIL", "REFUSED", "NAMEERR", "FATALERR"}

(* What becomes of a reply.                                                    *)
LEMMA ReplyDoes ==
  ASSUME NEW c, NEW O, NEW t, Idle(c, O, t), NEW r \in Reply(c)
  PROVE  Executed(r, O, t)
<1> DEFINE f == FreeBuf(FreeMsg(c))
           n == Retry(c)
<1>1. ASSUME NEW v \in Denial, r = Over(f, v)
      PROVE  Executed(r, O, t)
  BY <1>1, FreedOver DEF Denial, Value
<1>2. ASSUME NEW d \in {0, 1, 3}, NEW b \in BOOLEAN,
             r = [Over(f, "OK") EXCEPT !.failed = d, !.tc = b]
      PROVE  Executed(r, O, t)
  <2> DEFINE e == Over(f, "OK")
  <2>1. Held(f, O, t) /\ f.q.sock = None /\ f.q.msg # "live" /\ f.q.recvbuf \notin Allocated
    BY FreesBoth
  <2> HIDE DEF f
  <2>2. /\ Held(e, O, t) /\ e.rv = "OK" /\ e.q.sock = None /\ e.q.state = "DONE"
        /\ e.q.msg # "live" /\ e.q.recvbuf \notin Allocated
    BY <2>1, OverKeeps DEF Value
  <2> HIDE DEF e
  <2>3. r = [e EXCEPT !.failed = d, !.tc = b]
    BY <1>2 DEF e
  <2>4. r \in CallType /\ r.q = e.q /\ r.rv = e.rv /\ r.open = e.open /\ r.bad = e.bad
    BY <2>2, <2>3 DEF Held, CallType
  <2>5. Held(r, O, t)
    BY <2>2, <2>4 DEF Held
  <2> QED BY <2>2, <2>4, <2>5 DEF Executed, Value
<1>3. Idle(n, O, t) /\ n.q.state \in Starting /\ n.rv = "retry" /\ n.q.recvbuf = "kept"
  <2>1. Held(c, O, t) /\ First(c.q) \in Starting /\ First(c.q) \in State
    BY FirstStarts DEF Idle, State
  <2>2. "retry" \in Value
    BY DEF Value
  <2> DEFINE e == Ret(c, First(c.q), "retry")
  <2>3. Idle(e, O, t) /\ e.q.state \in Starting /\ e.rv = "retry"
    BY <2>1, <2>2, RetKeeps
  <2>4. n = [e EXCEPT !.q.recvbuf = "kept"]
    BY DEF Retry
  <2> HIDE DEF e, n
  <2> QED BY <2>3, <2>4 DEF Idle, Held, CallType, Query, Armed
<1> HIDE DEF n
<1>4. CASE r = [n EXCEPT !.q.rd = FALSE]
  <2>1. Idle(r, O, t) /\ r.rv = "retry" /\ r.q.state = n.q.state /\ r.q.recvbuf = "kept"
    BY <1>3, <1>4 DEF Idle, Held, CallType, Query, Armed
  <2> QED BY <1>3, <2>1 DEF Executed, Fresh
<1>5. CASE r = [n EXCEPT !.q.edns = FALSE]
  <2>1. Idle(r, O, t) /\ r.rv = "retry" /\ r.q.state = n.q.state /\ r.q.recvbuf = "kept"
    BY <1>3, <1>5 DEF Idle, Held, CallType, Query, Armed
  <2> QED BY <1>3, <2>1 DEF Executed, Fresh
<1>6. \/ \E v \in Denial : r = Over(f, v)
      \/ \E d \in {0, 1, 3}, b \in BOOLEAN : r = [Over(f, "OK") EXCEPT !.failed = d, !.tc = b]
      \/ r = [n EXCEPT !.q.rd = FALSE] \/ r = [n EXCEPT !.q.edns = FALSE]
  <2> HIDE DEF f, n
  <2>1. \/ r \in {Over(f, v) : v \in {"SERVFAIL", "REFUSED"}} \/ r \in Parsed(c)
        \/ r = [n EXCEPT !.q.rd = FALSE] \/ r = [n EXCEPT !.q.edns = FALSE]
    BY Zenon DEF Reply, f, n
  <2>2. r \in Parsed(c) =>
          \/ \E v \in Denial : r = Over(f, v)
          \/ \E d \in {0, 1, 3}, b \in BOOLEAN :
               r = [Over(f, "OK") EXCEPT !.failed = d, !.tc = b]
    <3> DEFINE A == {Over(f, v) : v \in {"SERVFAIL", "NAMEERR", "FATALERR"}}
               B == UNION {{[Over(f, "OK") EXCEPT !.failed = d, !.tc = b] : b \in BOOLEAN} :
                             d \in {0, 1, 3}}
    <3>1. Parsed(c) = A \cup B
      BY Zenon DEF Parsed, f
    <3>2. r \in A => \E v \in Denial : r = Over(f, v)
      BY DEF Denial
    <3>3. r \in B => \E d \in {0, 1, 3}, b \in BOOLEAN :
                       r = [Over(f, "OK") EXCEPT !.failed = d, !.tc = b]
      BY Zenon
    <3> HIDE DEF A, B
    <3> QED BY <3>1, <3>2, <3>3
  <2>3. r \in {Over(f, v) : v \in {"SERVFAIL", "REFUSED"}} => \E v \in Denial : r = Over(f, v)
    BY DEF Denial
  <2> QED BY <2>1, <2>2, <2>3
<1> QED BY <1>1, <1>2, <1>4, <1>5, <1>6

LEMMA ExecDoes ==
  ASSUME NEW c, NEW O, NEW t, NEW r \in Exec(c), Fresh(c.q),
         \/ Busy(c, O, t) /\ c.q.state \in Waiting
         \/ Idle(c, O, t) /\ c.q.state \in Starting
  PROVE  Executed(r, O, t)
<1>1. PICK d \in p_query_sm(c) :
        r \in (CASE d.rv = "again" -> {d}
                 [] d.rv = "OK" -> Reply(d)
                 [] OTHER -> {Over(FreeBuf(FreeMsg(d)), d.rv)})
  BY Zenon DEF Exec
<1>2. Outcome(d, O, t)
  BY p_query_smDoes
<1>3. CASE d.rv = "again"
  <2>1. r = d
    BY <1>1, <1>3
  <2> QED BY <1>2, <1>3, <2>1 DEF Outcome, Executed
<1>4. CASE d.rv = "OK"
  <2>1. r \in Reply(d)
    BY <1>1, <1>4
  <2> QED BY <1>2, <1>4, <2>1, ReplyDoes DEF Outcome
<1>5. CASE d.rv \in {"SERVFAIL", "FATALERR"}
  <2>1. r = Over(FreeBuf(FreeMsg(d)), d.rv)
    BY <1>1, <1>5
  <2>2. Idle(d, O, t)
    BY <1>2, <1>5 DEF Outcome
  <2> QED BY <1>5, <2>1, <2>2, FreedOver DEF Value
<1> QED BY <1>2, <1>3, <1>4, <1>5 DEF Outcome

-----------------------------------------------------------------------------
(* The inductive invariant.                                                   *)

(* What one query holds follows from its state: a socket while it waits, the    *)
(* message from its start to its end, the receive buffer at most as long, and      *)
(* before the first bytes of a TCP reply only the one kept from an earlier reply.  *)
QueryInv(st) ==
  /\ st \in Query
  /\ st.sock # None <=> st.state \in Waiting
  /\ st.state \in Waiting \cup Starting => st.msg = "live" /\ st.recvbuf # "freed"
  /\ st.state \in {"INITIAL", "DONE", "CANCELED"} =>
       st.msg # "live" /\ st.recvbuf \notin Allocated
  /\ Fresh(st)

Sockets(K) == {q[k].sock : k \in {n \in K : q[n].state \in Waiting}}

(* The descriptors open are those of the waiting queries, each its own.          *)
Owned ==
  /\ q \in [Server -> Query] /\ \A k \in Server : QueryInv(q[k])
  /\ bad \subseteq {"emptied"} /\ open = Sockets(Server)
  /\ \A k, n \in Server :
       q[k].state \in Waiting /\ q[n].state \in Waiting /\ k # n => q[k].sock # q[n].sock

InLoop == pc \in {"visit", "exec", "advance", "build", "poll"}
InBody == pc \in {"visit", "exec", "advance"}
Ending == pc \in {"finish", "ask", "returned"}

(* Where the loops and their counters are.                                     *)
Control ==
  /\ pc \in {"visit", "exec", "advance", "build", "poll", "done", "cancel", "finish", "ask",
             "returned"}
  /\ site \in {"init", "timeout", "events"}
  /\ i \in 0 .. NumServers /\ j \in 0 .. NumServers - 1
  /\ dc \in 0 .. NumServers /\ mc \in 0 .. NumServers /\ dc <= mc
  /\ InLoop => mc = Lesser(j + ParQueries, NumServers) /\ dc < mc
  /\ InBody => i < mc /\ i >= (IF site = "timeout" THEN j ELSE dc)
  /\ pc \in {"build", "poll"} => site = "init"
  /\ pc = "exec" /\ site = "init" => j <= i
  /\ pc = "build" => i \in dc .. mc

(* Query k has been started.                                                   *)
Asked(k) ==
  k < mc /\ (InBody /\ site = "init" => k < j \/ k < i \/ (k = i /\ pc = "advance"))

(* Queries before dc are over; those not asked are as they came; between two     *)
(* calls of p_exec_query a query waits or is over.                             *)
States ==
  /\ \A k \in Server : k < dc => q[k].state = "DONE"
  /\ InLoop => \A k \in Server : ~(pc = "exec" /\ k = i) =>
       (IF Asked(k) THEN q[k].state \in Waiting \cup {"DONE"} ELSE q[k].state = "INITIAL")
  /\ pc = "exec" => q[i].state \notin {"DONE", "CANCELED"}
  /\ pc \in {"done", "cancel"} =>
       /\ \A k \in Server : k < mc => q[k].state \in Waiting \cup {"DONE"}
       /\ \A k \in Server : k >= mc => q[k].state \in {"INITIAL", "DONE"}
  /\ Ending => \A k \in Server : q[k].state \in {"INITIAL", "DONE", "CANCELED"}

(* The places of the poll array after ic are the active queries from lo to hi, in *)
(* the same order.                                                            *)
Matched(lo, hi) ==
  /\ \A m, n \in 1 .. Len(polls) : polls[m] = polls[n] => m = n
  /\ \A n \in ic + 1 .. Len(polls) :
       \E k \in Server : k \in lo .. hi /\ Active(k) /\ q[k].sock = polls[n]
  /\ \A k \in Server : k \in lo .. hi /\ Active(k) =>
       \E n \in ic + 1 .. Len(polls) : polls[n] = q[k].sock
  /\ \A k, l \in Server : \A m, n \in ic + 1 .. Len(polls) :
       /\ k \in lo .. hi /\ l \in lo .. hi /\ k < l /\ Active(k) /\ Active(l)
       /\ polls[m] = q[k].sock /\ polls[n] = q[l].sock
       => m < n

Events ==
  /\ polls \in Seq(Fd) /\ ev \subseteq 1 .. NumServers
  /\ ic \in 0 .. NumServers /\ nev \in 0 .. NumServers
  /\ pc = "build" => ic = 0 /\ Len(polls) <= i - dc /\ Matched(dc, i - 1)
  /\ pc = "poll" => ic = 0 /\ Len(polls) <= mc - dc /\ Matched(dc, mc - 1)
  /\ InBody /\ site = "events" =>
       /\ Len(polls) <= NumServers /\ ev \subseteq 1 .. Len(polls) /\ ic <= Len(polls)
       /\ nev = Cardinality({k \in ev : k > ic})
       /\ Matched(IF pc = "visit" THEN i ELSE i + 1, mc - 1)
  /\ InBody /\ site = "timeout" => nev <= (IF pc = "visit" THEN i - j ELSE i - j + 1)

(* How long has been waited, and what is waited for.                            *)
Clock ==
  /\ left \in 0 .. Greater(GlobalTimeout, MaxTimeout)
  /\ waited \in 0 .. MaxTimeout /\ total \in 0 .. GlobalTimeout
  /\ pc = "build" => /\ left <= MaxTimeout
                     /\ \A k \in Server : k \in j .. i - 1 /\ Active(k) => q[k].timeout <= left
  /\ pc = "poll" =>
       /\ \A k \in Server : k \in j .. mc - 1 /\ Active(k) => q[k].timeout <= waited + left
       /\ UseGlobal => GlobalTimeout <= total + left
  /\ InBody /\ site = "timeout" =>
       /\ \A k \in Server : k \in j .. mc - 1 /\ Active(k) => q[k].timeout <= waited
       /\ mc = NumServers /\ nev = 0 =>
            /\ pc # "exec"
            /\ \/ total = GlobalTimeout
               \/ \E k \in Server : /\ k >= (IF pc = "visit" THEN i ELSE i + 1) /\ k >= j
                                    /\ tentative_tcp_query(q[k])

Saved == save.qual # None
AskedLast == IF Saved THEN save.serv ELSE serv
AllAsked == \A k \in Server : q[k].state # "INITIAL"

(* What the answers that came have left behind.                                 *)
Results ==
  /\ rv \in Code /\ (pc # "returned" => rv \notin {"CACHED", "STALE"})
  /\ qse \in Server \cup {None} /\ serv \in BOOLEAN /\ best \in {None} \cup 0 .. 15
  /\ save \in [qual : {None} \cup 0 .. 15, serv : BOOLEAN]
  /\ ~Saved => save.serv = FALSE
  /\ Saved => save.qual = best /\ qse # None
  /\ InLoop => /\ save.qual = best
               /\ ents = (IF Saved THEN 1 ELSE 0)
               /\ rv = "OK" => Saved
               /\ rv = "again" => \E k \in Server : Active(k)
  /\ pc = "poll" => rv = "SERVFAIL"
  /\ pc = "done" => /\ rv \notin {"again", "REFUSED"}
                    /\ ents = (IF Saved THEN 1 ELSE 0) + (IF rv = "OK" THEN 1 ELSE 0)
  /\ pc \in {"done", "cancel", "finish"} /\ rv = "OK" => qse # None
  /\ pc \in {"cancel", "finish"} => ents = (IF Saved \/ rv = "OK" THEN 1 ELSE 0)
  /\ pc = "ask" => ents = 1
  /\ pc = "returned" => ents = (IF rv \in {"OK", "CACHED", "STALE"} THEN 1 ELSE 0)
  /\ ~InLoop /\ rv = "again" => total = GlobalTimeout
  /\ pc \in {"cancel", "finish"} /\ rv = "REFUSED" => save.qual = best /\ AllAsked
  /\ pc = "ask" => AskedLast
  /\ pc = "returned" /\ rv = "REFUSED" => AskedLast \/ (best = None /\ AllAsked)

IInv == Control /\ Owned /\ States /\ Events /\ Clock /\ Results

-----------------------------------------------------------------------------
(* What is held, query by query.                                              *)

(* p_exec_query on a query that is not over.                                   *)
LEMMA p_exec_queryDoes ==
  ASSUME NEW c, NEW O, NEW t, Held(c, O, t), QueryInv(c.q),
         c.q.state \notin {"DONE", "CANCELED"}, NEW r \in p_exec_query(c)
  PROVE  Executed(r, O, t)
<1>1. CASE c.q.state = "INITIAL"
  <2> DEFINE d == [c EXCEPT !.q.msg = "live", !.q.recvbuf = "null", !.q.rd = c.q.trusted,
                            !.q.state = First(c.q)]
             p == [c.q EXCEPT !.msg = "live", !.recvbuf = "null", !.rd = c.q.trusted,
                              !.state = First(c.q)]
  <2>1. c.q.sock = None /\ c.q.msg # "live" /\ c.q.recvbuf \notin Allocated
    BY <1>1 DEF QueryInv, Waiting, Reading, Writing
  <2>2. CASE r = Over(c, "FATALERR")
    BY <2>1, <2>2, OverKeeps DEF Executed, Value
  <2>3. CASE r \in Exec(d)
    <3>1. First(c.q) \in Starting
      BY FirstStarts
    <3>2. p \in Query /\ p.state = First(c.q) /\ p.sock = None /\ p.msg = "live"
          /\ p.recvbuf = "null" /\ p.timeout = c.q.timeout
      BY <2>1, <3>1 DEF QueryInv, Query
    <3>3. d = [c EXCEPT !.q = p]
      BY DEF Held, CallType, Query
    <3> HIDE DEF p, d
    <3>4. d \in CallType /\ d.q = p /\ d.open = c.open /\ d.bad = c.bad
      BY <3>2, <3>3 DEF Held, CallType
    <3>5. Idle(d, O, t) /\ d.q.state \in Starting /\ Fresh(d.q)
      BY <2>1, <3>1, <3>2, <3>4 DEF Idle, Held, Armed, Fresh
    <3> QED BY <2>3, <3>5, ExecDoes
  <2>4. r = Over(c, "FATALERR") \/ r \in Exec(d)
    BY <1>1, Zenon DEF p_exec_query
  <2> QED BY <2>2, <2>3, <2>4
<1>2. CASE c.q.state # "INITIAL"
  <2>1. r \in Exec(c)
    BY <1>2 DEF p_exec_query
  <2>2. \/ c.q.state \in Waiting /\ Busy(c, O, t)
        \/ c.q.state \in Starting /\ Idle(c, O, t)
    BY <1>2 DEF QueryInv, Query, Waiting, Busy, Idle, Armed, Starting, Reading, Writing
  <2>3. Fresh(c.q)
    BY DEF QueryInv
  <2> QED BY <2>1, <2>2, <2>3, ExecDoes
<1> QED BY <1>1, <1>2

(* The other queries never use up the descriptors: one is left for query x.       *)
LEMMA OthersLeaveOne ==
  ASSUME NEW x \in Server, Owned
  PROVE  Sockets(Server \ {x}) \subseteq Fd /\ Sockets(Server \ {x}) # Fd
<1> DEFINE W == {n \in Server \ {x} : q[n].state \in Waiting}
           O == Sockets(Server \ {x})
           f == [k \in W |-> q[k].sock]
<1>1. \A k \in W : q[k].sock \in Fd
  BY DEF Owned, QueryInv, Query
<1>2. O = {q[k].sock : k \in W} /\ O \subseteq Fd
  BY <1>1 DEF Sockets
<1>3. f \in Surjection(W, O)
  BY <1>2 DEF Surjection
<1>4. IsFiniteSet(Server) /\ Cardinality(Server) = NumServers
  BY FS_Interval, ParallelQueryAssumption DEF Server
<1>5. IsFiniteSet(Server \ {x}) /\ Cardinality(Server \ {x}) = NumServers - 1
  BY <1>4, FS_RemoveElement
<1>6. IsFiniteSet(W) /\ Cardinality(W) <= NumServers - 1
  <2>1. W \in SUBSET (Server \ {x})
    OBVIOUS
  <2> HIDE DEF W
  <2> QED BY <1>5, <2>1, FS_Subset
<1>7. Cardinality(O) <= Cardinality(W) /\ Cardinality(W) \in Nat /\ Cardinality(O) \in Nat
  <2> HIDE DEF W, O, f
  <2> QED BY <1>3, <1>6, FS_Surjection, FS_CardinalityType
<1>8. Cardinality(Fd) = NumServers
  BY FS_Interval, ParallelQueryAssumption DEF Fd
<1>9. O # Fd
  <2> HIDE DEF W, O, f
  <2> QED BY <1>6, <1>7, <1>8, ParallelQueryAssumption
<1> QED BY <1>2, <1>9

LEMMA OwnSocket ==
  ASSUME NEW x \in Server, Owned
  PROVE  /\ q[x].sock \notin Sockets(Server \ {x})
         /\ open = Sockets(Server \ {x}) \cup ({q[x].sock} \ {None})
<1>1. \A k \in Server : q[k].sock # None <=> q[k].state \in Waiting
  BY DEF Owned, QueryInv
<1>2. q[x].sock \notin Sockets(Server \ {x})
  BY <1>1 DEF Owned, Sockets
<1>3. Sockets(Server) = Sockets(Server \ {x}) \cup ({q[x].sock} \ {None})
  BY <1>1 DEF Sockets
<1> QED BY <1>2, <1>3 DEF Owned

LEMMA CallHeld ==
  ASSUME NEW x \in Server, Owned, i = x
  PROVE  Held(Call, Sockets(Server \ {x}), q[x].timeout) /\ Call.q = q[x]
<1>1. q[x] \in Query /\ bad \subseteq {"emptied"}
  BY DEF Owned, QueryInv
<1>2. open \subseteq Fd
  BY DEF Owned, Sockets, QueryInv, Query
<1>3. Call \in CallType /\ Call.q = q[x] /\ Call.open = open /\ Call.bad = bad
  BY <1>1, <1>2 DEF Call, CallType, Value, Twice
<1> HIDE DEF Call
<1> QED BY <1>1, <1>3, OthersLeaveOne, OwnSocket DEF Held

(* Replacing query x by one that holds what its state says.                     *)
LEMMA OwnedAfter ==
  ASSUME NEW x \in Server, NEW p, Owned, QueryInv(p),
         q' = [q EXCEPT ![x] = p], bad' \subseteq {"emptied"}, p.sock \notin Sockets(Server \ {x}),
         open' = Sockets(Server \ {x}) \cup ({p.sock} \ {None})
  PROVE  Owned'
<1>1. q' \in [Server -> Query] /\ q'[x] = p /\ \A k \in Server \ {x} : q'[k] = q[k]
  BY DEF QueryInv, Owned
<1>2. \A k \in Server : QueryInv(q'[k])
  BY <1>1 DEF Owned
<1>3. Sockets(Server)' = Sockets(Server \ {x}) \cup ({p.sock} \ {None})
  <2>1. Sockets(Server)' = {q'[k].sock : k \in {n \in Server : q'[n].state \in Waiting}}
    BY DEF Sockets
  <2>2. p.sock # None <=> p.state \in Waiting
    BY DEF QueryInv
  <2> QED BY <1>1, <2>1, <2>2 DEF Sockets
<1>4. \A k, n \in Server :
        q'[k].state \in Waiting /\ q'[n].state \in Waiting /\ k # n => q'[k].sock # q'[n].sock
  BY <1>1 DEF Owned, Sockets
<1>5. (\A k \in Server : QueryInv(q[k]))'
  BY <1>2 DEF QueryInv
<1> QED BY <1>1, <1>3, <1>4, <1>5 DEF Owned

LEMMA OwnedSame ==
  ASSUME Owned, UNCHANGED queries
  PROVE  Owned'
  BY DEF Owned, queries, Sockets, QueryInv

-----------------------------------------------------------------------------
(* From one loop to the next.                                                 *)

(* The queries up to mc have been asked and none is in the middle of a call.      *)
RoundOver(d) ==
  /\ d \in 0 .. mc /\ \A k \in Server : k < d => q[k].state = "DONE"
  /\ \A k \in Server : IF k < mc THEN q[k].state \in Waiting \cup {"DONE"}
                       ELSE q[k].state = "INITIAL"

LEMMA NextBatchKeeps ==
  ASSUME IInv, InLoop, NEW d, RoundOver(d), NextBatch(d),
         UNCHANGED <<queries, qse, save, serv, ents, best>>, rv' \in {rv, "SERVFAIL"},
         j + ParQueries >= NumServers /\ rv' = "again" => total = GlobalTimeout
  PROVE  IInv'
<1> USE ParallelQueryAssumption
<1>1. Owned'
  BY OwnedSame DEF IInv
<1>2. d \in Nat /\ d <= mc /\ mc <= NumServers /\ mc = Lesser(j + ParQueries, NumServers)
      /\ j \in 0 .. NumServers - 1 /\ mc \in 0 .. NumServers
  BY DEF IInv, Control, RoundOver
<1>3. dc' = d /\ left' = 0 /\ waited' = 0 /\ total' = total /\ q' = q
      /\ polls' = <<>> /\ ev' = {} /\ ic' = 0 /\ nev' = 0 /\ site' = "init"
  BY DEF NextBatch, NoPoll, At, queries
<1>4. CASE j + ParQueries < NumServers
  <2>1. j' = j + ParQueries /\ mc' = Lesser(j + 2 * ParQueries, NumServers)
        /\ pc' = "visit" /\ i' = d /\ mc = j' /\ mc < mc'
    BY <1>2, <1>4 DEF NextBatch, At, Lesser
  <2>2. Control'
    BY <1>2, <1>3, <1>4, <2>1 DEF Control, InLoop, InBody, Lesser
  <2>3. States'
    <3>1. \A k \in Server : k < dc' => q'[k].state = "DONE"
      BY <1>3 DEF RoundOver
    <3>2. \A k \in Server :
            IF Asked(k)' THEN q'[k].state \in Waiting \cup {"DONE"} ELSE q'[k].state = "INITIAL"
      <4> TAKE k \in Server
      <4>1. Asked(k)' <=> k < mc
        BY <1>2, <1>3, <2>1 DEF Asked, InBody, Server
      <4> QED BY <4>1, <1>3 DEF RoundOver
    <3> QED BY <3>1, <3>2, <2>1 DEF States, InLoop, InBody, Ending
  <2>4. Events'
    BY <1>3, <2>1 DEF Events, InBody, Fd
  <2>5. Clock'
    BY <1>3, <2>1 DEF IInv, Clock, InBody, Greater
  <2>6. Results'
    BY <1>3, <2>1 DEF IInv, Results, InLoop, Saved, Active, Code
  <2> QED BY <1>1, <2>2, <2>3, <2>4, <2>5, <2>6 DEF IInv
<1>5. CASE j + ParQueries >= NumServers
  <2>1. j' = j /\ mc' = mc /\ pc' = "cancel" /\ i' = 0 /\ mc = NumServers
    BY <1>2, <1>5 DEF NextBatch, At, Lesser
  <2>2. Control'
    BY <1>2, <1>3, <2>1 DEF IInv, Control, InLoop, InBody
  <2>3. States'
    BY <1>3, <2>1 DEF States, InLoop, InBody, Ending, RoundOver, Server
  <2>4. Events'
    BY <1>3, <2>1 DEF Events, InBody
  <2>5. Clock'
    BY <1>3, <2>1 DEF IInv, Clock, InBody, Greater
  <2>6. Results'
    <3>1. AllAsked'
      BY <1>3, <2>1 DEF AllAsked, RoundOver, Server, Waiting, Reading, Writing
    <3> QED BY <1>3, <1>5, <2>1, <3>1 DEF IInv, Results, InLoop, Saved, Code
  <2> QED BY <1>1, <2>2, <2>3, <2>4, <2>5, <2>6 DEF IInv
<1> QED BY <1>2, <1>4, <1>5

LEMMA NextRoundKeeps ==
  ASSUME IInv, InLoop, NEW d, RoundOver(d), NextRound(d),
         UNCHANGED <<queries, result, best>>,
         d = NumServers /\ rv = "again" => total = GlobalTimeout
  PROVE  IInv'
<1> USE ParallelQueryAssumption
<1>1. CASE d < mc
  <2>1. Owned'
    BY OwnedSame DEF IInv
  <2>2. pc' = "build" /\ site' = "init" /\ i' = d /\ dc' = d /\ left' = 0 /\ q' = q
        /\ j' = j /\ mc' = mc /\ total' = total /\ waited' \in {0, waited}
        /\ polls' = <<>> /\ ev' = {} /\ ic' = 0 /\ nev' = 0
    BY <1>1 DEF NextRound, At, NoPoll, queries
  <2>3. d \in 0 .. mc /\ d \in 0 .. NumServers /\ \A k \in Server : k < d => q[k].state = "DONE"
    BY DEF RoundOver, IInv, Control
  <2>4. Control'
    BY <1>1, <2>2, <2>3 DEF IInv, Control, InLoop, InBody
  <2>5. States'
    <3>1. \A k \in Server : k < dc' => q'[k].state = "DONE"
      BY <2>2, <2>3
    <3>2. \A k \in Server :
            IF Asked(k)' THEN q'[k].state \in Waiting \cup {"DONE"} ELSE q'[k].state = "INITIAL"
      BY <2>2 DEF RoundOver, Asked, InBody
    <3> QED BY <3>1, <3>2, <2>2 DEF States, Ending
  <2>6. Events'
    <3>1. Matched(dc, i - 1)'
      BY <2>2, <2>3 DEF Matched
    <3>2. polls' \in Seq(Fd) /\ Len(polls') = 0
      BY <2>2
    <3> QED BY <2>2, <2>3, <3>1, <3>2 DEF Events, InBody
  <2>7. Clock'
    <3>1. \A k \in Server : k \in j' .. i' - 1 => ~Active(k)'
      BY <2>2, <2>3 DEF Active, IInv, Control
    <3> QED BY <2>2, <3>1 DEF IInv, Clock, InBody, Greater
  <2>8. Results'
    BY <2>2 DEF IInv, Results, InLoop, Saved, Active, result
  <2> QED BY <2>1, <2>4, <2>5, <2>6, <2>7, <2>8 DEF IInv
<1>2. CASE ~(d < mc)
  <2>1. NextBatch(d) /\ d = mc /\ rv' = rv
    BY <1>2 DEF NextRound, RoundOver, IInv, Control, result
  <2>2. j + ParQueries >= NumServers => d = NumServers
    BY <2>1 DEF IInv, Control, Lesser
  <2>3. UNCHANGED <<queries, qse, save, serv, ents, best>>
    BY DEF result
  <2> QED BY <2>1, <2>2, <2>3, NextBatchKeeps
<1> QED BY <1>1, <1>2

-----------------------------------------------------------------------------
(* One lemma per action.                                                      *)

LEMMA InitKeeps == Init => IInv
<1> SUFFICES ASSUME Init PROVE IInv
  OBVIOUS
<1> USE ParallelQueryAssumption
<1>1. PICK m \in Settings, t \in [Server -> 1 .. MaxTimeout] :
        q = [k \in Server |->
              [state |-> "INITIAL", qm |-> m.qm, timeout |-> t[k], sock |-> None,
               msg |-> "null", recvbuf |-> "null", part |-> FALSE,
               rd |-> FALSE, trusted |-> m.trusted, edns |-> m.edns]]
  BY DEF Init
<1>2. q \in [Server -> Query] /\ \A k \in Server : q[k].state = "INITIAL" /\ q[k].sock = None
      /\ q[k].msg = "null" /\ q[k].recvbuf = "null"
  BY <1>1 DEF Query
<1>3. "INITIAL" \notin Waiting /\ "INITIAL" \notin Starting
  BY DEF Waiting, Reading, Writing, Starting
<1>4. Owned
  <2>1. Sockets(Server) = {}
    BY <1>2, <1>3 DEF Sockets
  <2> QED BY <1>2, <1>3, <2>1 DEF Init, Owned, QueryInv, Fresh, Allocated
<1>5. Control
  BY DEF Init, Control, InLoop, InBody, Lesser
<1>6. States
  <2>1. \A k \in Server : ~(k < 0)
    BY DEF Server
  <2> QED BY <1>2, <2>1 DEF Init, States, Asked, InLoop, InBody, Ending
<1>7. Events
  BY DEF Init, Events, InBody, Fd
<1>8. Clock
  BY DEF Init, Clock, InBody, Greater
<1>9. Results
  BY DEF Init, Results, Saved, NoAnswer, InLoop, Code, None
<1> QED BY <1>4, <1>5, <1>6, <1>7, <1>8, <1>9 DEF IInv

LEMMA VisitInitKeeps == IInv /\ VisitInit => IInv'
<1> SUFFICES ASSUME IInv, VisitInit PROVE IInv'
  OBVIOUS
<1> USE ParallelQueryAssumption
<1>1. pc = "visit" /\ site = "init" /\ pc' = (IF i >= j THEN "exec" ELSE "advance")
      /\ UNCHANGED <<site, i, j, dc, mc, q, rv, qse, save, serv, ents, polls, ev, ic, nev, left,
                     waited, total, best>>
  BY DEF VisitInit, At, queries, result, polling, time
<1>2. Owned'
  BY OwnedSame DEF IInv, VisitInit
<1>3. Control'
  BY <1>1 DEF IInv, Control, InLoop, InBody
<1>4. States'
  <2>1. i \in Server
    BY <1>1 DEF IInv, Control, InBody, Server
  <2>2. i >= j => q[i].state = "INITIAL"
    BY <1>1, <2>1 DEF IInv, Control, States, Asked, InLoop, InBody
  <2>3. \A k \in Server : ~(pc' = "exec" /\ k = i') => (Asked(k)' <=> Asked(k))
    BY <1>1, <2>1 DEF Asked, InBody, IInv, Control, Server
  <2> QED BY <1>1, <2>1, <2>2, <2>3 DEF IInv, States, InLoop, Ending
<1>5. Events'
  BY <1>1 DEF IInv, Events, InBody
<1>6. Clock'
  BY <1>1 DEF IInv, Clock, InBody
<1>7. Results'
  BY <1>1 DEF IInv, Results, InLoop, Saved, Active
<1> QED BY <1>2, <1>3, <1>4, <1>5, <1>6, <1>7 DEF IInv

(* Every query has been dealt with when a loop ends.                            *)
LEMMA DoneCountRight ==
  ASSUME IInv, pc = "advance", site # "timeout"
  PROVE  /\ DoneCount \in dc .. dc + 1 /\ DoneCount <= i + 1
         /\ \A k \in Server : k < DoneCount => q[k].state = "DONE"
  BY DEF DoneCount, IInv, Control, States, InBody, Server

LEMMA BodyOver ==
  ASSUME IInv, pc = "advance", ~(i + 1 < mc)
  PROVE  /\ i + 1 = mc
         /\ \A k \in Server : IF k < mc THEN q[k].state \in Waiting \cup {"DONE"}
                              ELSE q[k].state = "INITIAL"
<1>1. i + 1 = mc
  BY DEF IInv, Control, InBody
<1>2. \A k \in Server : Asked(k) <=> k < mc
  BY <1>1 DEF IInv, Control, Asked, InBody, Server
<1> QED BY <1>1, <1>2 DEF IInv, States, InLoop

(* When every query is over, what p_exec_query returned last is a result.        *)
LEMMA AllOver ==
  ASSUME IInv, InLoop, \A k \in Server : k < NumServers => q[k].state = "DONE"
  PROVE  rv # "again"
<1>1. \A k \in Server : k < NumServers
  BY ParallelQueryAssumption DEF Server
<1>2. \A k \in Server : ~Active(k)
  BY <1>1 DEF Active
<1> QED BY <1>2 DEF IInv, Results

LEMMA AdvanceInitKeeps == IInv /\ AdvanceInit => IInv'
<1> SUFFICES ASSUME IInv, AdvanceInit PROVE IInv'
  OBVIOUS
<1> USE ParallelQueryAssumption
<1>1. pc = "advance" /\ site = "init" /\ InLoop
  BY DEF AdvanceInit, InLoop
<1>2. DoneCount \in dc .. dc + 1 /\ DoneCount <= i + 1
      /\ \A k \in Server : k < DoneCount => q[k].state = "DONE"
  BY <1>1, DoneCountRight
<1>3. CASE i + 1 < mc
  <2>1. pc' = "visit" /\ site' = "init" /\ i' = i + 1 /\ dc' = DoneCount
        /\ UNCHANGED <<j, mc, q, rv, qse, save, serv, ents, polls, ev, ic, nev, left, waited,
                       total, best>>
    BY <1>1, <1>3 DEF AdvanceInit, At, queries, result, polling, time
  <2>2. Owned'
    BY OwnedSame DEF IInv, AdvanceInit
  <2>3. Control'
    BY <1>1, <1>2, <1>3, <2>1 DEF IInv, Control, InLoop, InBody
  <2>4. States'
    <3>1. \A k \in Server : Asked(k)' <=> Asked(k)
      BY <1>1, <2>1 DEF Asked, InBody, IInv, Control, Server
    <3> QED BY <1>1, <1>2, <2>1, <3>1 DEF IInv, States, InLoop, Ending
  <2>5. Events'
    BY <1>1, <2>1 DEF IInv, Events, InBody
  <2>6. Clock'
    BY <1>1, <2>1 DEF IInv, Clock, InBody
  <2>7. Results'
    BY <1>1, <2>1 DEF IInv, Results, InLoop, Saved, Active
  <2> QED BY <2>2, <2>3, <2>4, <2>5, <2>6, <2>7 DEF IInv
<1>4. CASE ~(i + 1 < mc)
  <2>1. NextRound(DoneCount) /\ UNCHANGED <<queries, result, best>>
    BY <1>4 DEF AdvanceInit
  <2>2. RoundOver(DoneCount)
    BY <1>1, <1>2, <1>4, BodyOver DEF RoundOver, IInv, Control
  <2>3. DoneCount = NumServers => rv # "again"
    BY <1>1, <1>2, AllOver
  <2> QED BY <1>1, <2>1, <2>2, <2>3, NextRoundKeeps
<1> QED BY <1>3, <1>4

(* After a timeout of the last batch that moves no query over to UDP, the global  *)
(* timeout is over.                                                            *)
LEMMA TimeIsUp ==
  ASSUME IInv, pc = "advance", site = "timeout", ~(i + 1 < mc), j + ParQueries >= NumServers,
         ~(mc = NumServers /\ nev > 0 /\ total < GlobalTimeout)
  PROVE  mc = NumServers /\ total = GlobalTimeout
<1> USE ParallelQueryAssumption
<1>1. InLoop /\ InBody
  BY DEF InLoop, InBody
<1>2. mc = NumServers /\ i + 1 = mc
  BY <1>1, BodyOver DEF IInv, Control, Lesser
<1>3. total \in 0 .. GlobalTimeout /\ nev \in 0 .. NumServers
  BY DEF IInv, Clock, Events
<1>4. CASE nev = 0
  <2>1. total = GlobalTimeout \/ \E k \in Server : k >= i + 1
    BY <1>1, <1>2, <1>4 DEF IInv, Clock
  <2> QED BY <1>2, <2>1 DEF Server
<1>5. CASE nev # 0
  BY <1>2, <1>3, <1>5
<1> QED BY <1>2, <1>4, <1>5

LEMMA AdvanceTimeoutKeeps == IInv /\ AdvanceTimeout => IInv'
<1> SUFFICES ASSUME IInv, AdvanceTimeout PROVE IInv'
  OBVIOUS
<1> USE ParallelQueryAssumption
<1>1. pc = "advance" /\ site = "timeout" /\ InLoop /\ InBody
  BY DEF AdvanceTimeout, InLoop, InBody
<1>2. CASE i + 1 < mc
  <2>1. pc' = "visit" /\ site' = "timeout" /\ i' = i + 1
        /\ UNCHANGED <<j, dc, mc, q, rv, qse, save, serv, ents, polls, ev, ic, nev, left, waited,
                       total, best>>
    BY <1>1, <1>2 DEF AdvanceTimeout, At, queries, result, polling, time
  <2>2. Owned'
    BY OwnedSame DEF IInv, AdvanceTimeout
  <2>3. Control'
    BY <1>1, <1>2, <2>1 DEF IInv, Control, InLoop, InBody
  <2>4. States'
    <3>1. \A k \in Server : Asked(k)' <=> Asked(k)
      BY <1>1, <2>1 DEF Asked, InBody
    <3> QED BY <1>1, <2>1, <3>1 DEF IInv, States, InLoop, Ending
  <2>5. Events'
    BY <1>1, <2>1 DEF IInv, Events, InBody, Control
  <2>6. Clock'
    BY <1>1, <2>1 DEF IInv, Clock, InBody, Active, tentative_tcp_query
  <2>7. Results'
    BY <1>1, <2>1 DEF IInv, Results, InLoop, Saved, Active
  <2> QED BY <2>2, <2>3, <2>4, <2>5, <2>6, <2>7 DEF IInv
<1>3. CASE ~(i + 1 < mc)
  <2>1. RoundOver(dc)
    BY <1>1, <1>3, BodyOver DEF RoundOver, IInv, Control, States
  <2>2. dc < mc
    BY <1>1 DEF IInv, Control
  <2>3. CASE mc = NumServers /\ nev > 0 /\ total < GlobalTimeout
    <3>1. NextRound(dc) /\ UNCHANGED <<queries, result, best>>
      BY <1>3, <2>3 DEF AdvanceTimeout
    <3> QED BY <1>1, <2>1, <2>2, <2>3, <3>1, NextRoundKeeps
  <2>4. CASE ~(mc = NumServers /\ nev > 0 /\ total < GlobalTimeout)
    <3>1. NextBatch(dc) /\ UNCHANGED <<queries, qse, save, serv, ents, best>> /\ rv' = rv
      BY <1>3, <2>4 DEF AdvanceTimeout, result
    <3>2. j + ParQueries >= NumServers => total = GlobalTimeout
      BY <1>3, <2>4, TimeIsUp DEF AdvanceTimeout
    <3> QED BY <1>1, <2>1, <3>1, <3>2, NextBatchKeeps
  <2> QED BY <2>3, <2>4
<1> QED BY <1>2, <1>3

(* Nothing is left in the poll array for queries beyond the last.                *)
LEMMA NothingAfter ==
  ASSUME IInv, InBody, site = "events", pc # "visit", i + 1 = mc
  PROVE  nev = 0
<1>1. Len(polls) \in Nat /\ ic \in 0 .. Len(polls) /\ ev \subseteq 1 .. Len(polls)
      /\ nev = Cardinality({k \in ev : k > ic}) /\ Matched(i + 1, mc - 1)
  BY ParallelQueryAssumption DEF IInv, Events
<1>2. \A n \in ic + 1 .. Len(polls) : FALSE
  BY <1>1 DEF Matched, IInv, Control
<1>3. {k \in ev : k > ic} = {}
  <2> SUFFICES ASSUME NEW k \in ev, k > ic PROVE FALSE
    OBVIOUS
  <2>1. k \in ic + 1 .. Len(polls)
    BY <1>1
  <2> QED BY <1>2, <2>1
<1> QED BY <1>1, <1>3, FS_EmptySet

LEMMA AdvanceEventKeeps == IInv /\ AdvanceEvent => IInv'
<1> SUFFICES ASSUME IInv, AdvanceEvent PROVE IInv'
  OBVIOUS
<1> USE ParallelQueryAssumption
<1>1. pc = "advance" /\ site = "events" /\ InLoop /\ InBody
  BY DEF AdvanceEvent, InLoop, InBody
<1>2. DoneCount \in dc .. dc + 1 /\ DoneCount <= i + 1
      /\ \A k \in Server : k < DoneCount => q[k].state = "DONE"
  BY <1>1, DoneCountRight
<1>3. CASE i + 1 < mc
  <2>1. pc' = "visit" /\ site' = "events" /\ i' = i + 1 /\ dc' = DoneCount
        /\ UNCHANGED <<j, mc, q, rv, qse, save, serv, ents, polls, ev, ic, nev, left, waited,
                       total, best>>
    BY <1>1, <1>3 DEF AdvanceEvent, At, queries, polling, time
  <2>2. Owned'
    BY OwnedSame DEF IInv, AdvanceEvent
  <2>3. Control'
    BY <1>1, <1>2, <1>3, <2>1 DEF IInv, Control, InLoop, InBody
  <2>4. States'
    <3>1. \A k \in Server : Asked(k)' <=> Asked(k)
      BY <1>1, <2>1 DEF Asked, InBody
    <3> QED BY <1>1, <1>2, <2>1, <3>1 DEF IInv, States, InLoop, Ending
  <2>5. Events'
    <3>1. Matched(i + 1, mc - 1)
      BY <1>1 DEF IInv, Events
    <3>2. Matched(i, mc - 1)'
      BY <2>1, <3>1 DEF Matched, Active
    <3> QED BY <1>1, <2>1, <3>2 DEF IInv, Events, InBody
  <2>6. Clock'
    BY <1>1, <2>1 DEF IInv, Clock, InBody
  <2>7. Results'
    BY <1>1, <2>1 DEF IInv, Results, InLoop, Saved, Active
  <2> QED BY <2>2, <2>3, <2>4, <2>5, <2>6, <2>7 DEF IInv
<1>4. CASE ~(i + 1 < mc)
  <2>1. nev = 0
    BY <1>1, <1>4, BodyOver, NothingAfter
  <2>2. NextRound(DoneCount) /\ UNCHANGED <<queries, result, best>>
    BY <1>4, <2>1 DEF AdvanceEvent, result
  <2>3. RoundOver(DoneCount)
    BY <1>1, <1>2, <1>4, BodyOver DEF RoundOver, IInv, Control
  <2>4. DoneCount = NumServers => rv # "again"
    BY <1>1, <1>2, AllOver
  <2> QED BY <1>1, <2>2, <2>3, <2>4, NextRoundKeeps
<1> QED BY <1>3, <1>4

LEMMA BuildKeeps == IInv /\ Build => IInv'
<1> SUFFICES ASSUME IInv, Build PROVE IInv'
  OBVIOUS
<1> USE ParallelQueryAssumption
<1>1. pc = "build" /\ i < mc /\ pc' = "build" /\ site' = "init" /\ i' = i + 1
      /\ UNCHANGED <<j, dc, mc, q, rv, qse, save, serv, ents, ev, ic, nev, waited, total, best>>
  BY DEF Build, At, queries, result
<1>2. Owned'
  BY OwnedSame DEF IInv, Build
<1>3. Control'
  BY <1>1 DEF IInv, Control, InLoop, InBody
<1>4. States'
  BY <1>1 DEF IInv, States, Asked, InLoop, InBody, Ending
<1>5. Results'
  BY <1>1 DEF IInv, Results, InLoop, Saved, Active
<1>6. i \in Server /\ i \in dc .. mc /\ Asked(i) /\ dc \in Nat
  BY <1>1 DEF IInv, Control, Server, Asked, InBody
<1>7. polls \in Seq(Fd) /\ Len(polls) \in Nat /\ ic = 0 /\ Len(polls) <= i - dc
      /\ Matched(dc, i - 1)
  BY <1>1 DEF IInv, Events
<1>8. CASE ~Active(i)
  <2>1. polls' = polls /\ left' = left
    BY <1>8 DEF Build
  <2>2. Matched(dc, i - 1)'
    <3>1. \A k \in Server : k \in dc' .. i' - 1 /\ Active(k)' <=> k \in dc .. i - 1 /\ Active(k)
      BY <1>1, <1>6, <1>8 DEF Active, Server
    <3>2. polls' = polls /\ ic' = ic /\ q' = q
      BY <1>1, <2>1
    <3>3. \A m, n \in 1 .. Len(polls)' : polls'[m] = polls'[n] => m = n
      BY <1>7, <3>2 DEF Matched
    <3>4. \A n \in ic' + 1 .. Len(polls)' :
            \E k \in Server : k \in dc' .. i' - 1 /\ Active(k)' /\ q'[k].sock = polls'[n]
      BY <1>7, <3>1, <3>2 DEF Matched
    <3>5. \A k \in Server : k \in dc' .. i' - 1 /\ Active(k)' =>
            \E n \in ic' + 1 .. Len(polls)' : polls'[n] = q'[k].sock
      BY <1>7, <3>1, <3>2 DEF Matched
    <3>6. \A k, l \in Server : \A m, n \in ic' + 1 .. Len(polls)' :
            /\ k \in dc' .. i' - 1 /\ l \in dc' .. i' - 1 /\ k < l /\ Active(k)' /\ Active(l)'
            /\ polls'[m] = q'[k].sock /\ polls'[n] = q'[l].sock
            => m < n
      BY <1>7, <3>1, <3>2 DEF Matched
    <3> QED BY <3>3, <3>4, <3>5, <3>6 DEF Matched
  <2>3. Events'
    BY <1>1, <1>6, <1>7, <2>1, <2>2 DEF IInv, Events, InBody
  <2>4. Clock'
    BY <1>1, <1>6, <1>8, <2>1 DEF IInv, Clock, InBody, Active, Server, Control
  <2> QED BY <1>2, <1>3, <1>4, <1>5, <2>3, <2>4 DEF IInv
<1>9. CASE Active(i)
  <2>1. polls' = Append(polls, q[i].sock)
        /\ left' = IF i >= j THEN Greater(left, q[i].timeout) ELSE left
    BY <1>9 DEF Build
  <2>2. q[i].state \in Waiting /\ q[i].sock \in Fd /\ q[i].timeout \in 1 .. MaxTimeout
    BY <1>1, <1>6, <1>9 DEF IInv, States, InLoop, Active, Owned, QueryInv, Query
  <2>3. /\ polls' \in Seq(Fd) /\ Len(polls') = Len(polls) + 1
        /\ \A n \in 1 .. Len(polls) : polls'[n] = polls[n]
        /\ polls'[Len(polls) + 1] = q[i].sock
    BY <1>7, <2>1, <2>2
  <2>4. \A n \in 1 .. Len(polls) : polls[n] # q[i].sock
    <3> SUFFICES ASSUME NEW n \in 1 .. Len(polls) PROVE polls[n] # q[i].sock
      OBVIOUS
    <3>1. PICK k \in Server : k \in dc .. i - 1 /\ Active(k) /\ q[k].sock = polls[n]
      BY <1>7 DEF Matched
    <3>2. k # i /\ Asked(k)
      BY <1>1, <1>6, <3>1 DEF Asked, InBody, Server, IInv, Control
    <3>3. q[k].state \in Waiting
      BY <1>1, <3>1, <3>2 DEF IInv, States, InLoop, Active
    <3> QED BY <1>6, <2>2, <3>1, <3>2, <3>3 DEF IInv, Owned
  <2>5. \A k \in Server : k \in dc' .. i' - 1 /\ Active(k)' <=>
                            (k \in dc .. i - 1 /\ Active(k)) \/ k = i
    BY <1>1, <1>6, <1>9 DEF Active, Server
  <2>6. Matched(dc, i - 1)'
    <3>1. \A m, n \in 1 .. Len(polls') : polls'[m] = polls'[n] => m = n
      BY <1>7, <2>3, <2>4 DEF Matched
    <3>2. ASSUME NEW n \in ic' + 1 .. Len(polls')
          PROVE  \E k \in Server : k \in dc' .. i' - 1 /\ Active(k)' /\ q'[k].sock = polls'[n]
      <4>1. CASE n = Len(polls) + 1
        BY <1>1, <1>6, <2>3, <2>5, <4>1
      <4>2. CASE n # Len(polls) + 1
        <5>1. n \in ic + 1 .. Len(polls) /\ polls'[n] = polls[n]
          BY <1>1, <1>7, <2>3, <4>2
        <5>2. PICK k \in Server : k \in dc .. i - 1 /\ Active(k) /\ q[k].sock = polls[n]
          BY <1>7, <5>1 DEF Matched
        <5> QED BY <1>1, <2>5, <5>1, <5>2
      <4> QED BY <4>1, <4>2
    <3>3. ASSUME NEW k \in Server, k \in dc' .. i' - 1, Active(k)'
          PROVE  \E n \in ic' + 1 .. Len(polls') : polls'[n] = q'[k].sock
      <4>1. CASE k = i
        BY <1>1, <1>7, <2>3, <4>1
      <4>2. CASE k # i
        <5>1. PICK n \in ic + 1 .. Len(polls) : polls[n] = q[k].sock
          BY <1>7, <2>5, <3>3, <4>2 DEF Matched
        <5> QED BY <1>1, <1>7, <2>3, <5>1
      <4> QED BY <4>1, <4>2
    <3>4. ASSUME NEW k \in Server, NEW l \in Server,
                 NEW m \in ic' + 1 .. Len(polls'), NEW n \in ic' + 1 .. Len(polls'),
                 k \in dc' .. i' - 1, l \in dc' .. i' - 1, k < l, Active(k)', Active(l)',
                 polls'[m] = q'[k].sock, polls'[n] = q'[l].sock
          PROVE  m < n
      <4>1. k \in dc .. i - 1 /\ Active(k) /\ k # i
        BY <1>1, <1>6, <2>5, <3>4 DEF Server
      <4>2. PICK x \in ic + 1 .. Len(polls) : polls[x] = q[k].sock
        BY <1>7, <4>1 DEF Matched
      <4>3. m = x
        <5>1. x \in 1 .. Len(polls') /\ polls'[x] = polls'[m] /\ m \in 1 .. Len(polls')
          BY <1>1, <1>7, <2>3, <3>4, <4>2
        <5> QED BY <3>1, <5>1
      <4>4. CASE l = i
        <5>1. n \notin 1 .. Len(polls)
          <6> SUFFICES ASSUME n \in 1 .. Len(polls) PROVE FALSE
            OBVIOUS
          <6> QED BY <1>1, <2>3, <2>4, <3>4, <4>4
        <5> QED BY <1>1, <1>7, <2>3, <4>2, <4>3, <5>1
      <4>5. CASE l # i
        <5>1. l \in dc .. i - 1 /\ Active(l)
          BY <2>5, <3>4, <4>5
        <5>2. PICK y \in ic + 1 .. Len(polls) : polls[y] = q[l].sock
          BY <1>7, <5>1 DEF Matched
        <5>3. n = y
          <6>1. y \in 1 .. Len(polls') /\ polls'[y] = polls'[n] /\ n \in 1 .. Len(polls')
            BY <1>1, <1>7, <2>3, <3>4, <5>2
          <6> QED BY <3>1, <6>1
        <5>4. x < y
          BY <1>7, <3>4, <4>1, <4>2, <5>1, <5>2 DEF Matched
        <5> QED BY <4>3, <5>3, <5>4
      <4> QED BY <4>4, <4>5
    <3> QED BY <3>1, <3>2, <3>3, <3>4 DEF Matched
  <2>7. Events'
    BY <1>1, <1>6, <1>7, <2>3, <2>6 DEF IInv, Events, InBody
  <2>8. Clock'
    <3>1. left \in 0 .. MaxTimeout /\ left' \in 0 .. MaxTimeout /\ left <= left'
          /\ (i >= j => q[i].timeout <= left')
      BY <1>1, <2>1, <2>2 DEF IInv, Clock, Greater
    <3>2. left' \in 0 .. Greater(GlobalTimeout, MaxTimeout)
      BY <3>1 DEF Greater
    <3>3. \A k \in Server : k \in j' .. i' - 1 /\ Active(k)' => q'[k].timeout <= left'
      <4> SUFFICES ASSUME NEW k \in Server, k \in j .. i, Active(k)
                   PROVE  q[k].timeout <= left'
        BY <1>1 DEF Active, IInv, Control
      <4>1. CASE k = i
        BY <3>1, <4>1 DEF IInv, Control
      <4>2. CASE k # i
        <5>1. q[k].timeout <= left
          BY <1>1, <1>6, <4>2 DEF IInv, Clock, Server, Control
        <5>2. q[k].timeout \in Nat
          BY DEF IInv, Owned, Query
        <5> QED BY <3>1, <5>1, <5>2
      <4> QED BY <4>1, <4>2
    <3> QED BY <1>1, <3>1, <3>2, <3>3 DEF IInv, Clock, InBody
  <2> QED BY <1>2, <1>3, <1>4, <1>5, <2>7, <2>8 DEF IInv
<1> QED BY <1>8, <1>9

(* An empty poll array: all the queries asked are over.                         *)
LEMMA NothingToPoll ==
  ASSUME IInv, pc = "build", i = mc, polls = <<>>
  PROVE  \A k \in Server : k < mc => q[k].state = "DONE"
<1> SUFFICES ASSUME NEW k \in Server, k < mc, q[k].state # "DONE" PROVE FALSE
  OBVIOUS
<1>1. ~(k < dc)
  BY DEF IInv, States
<1>2. k \in dc .. mc - 1 /\ Active(k)
  BY <1>1, ParallelQueryAssumption DEF Active, IInv, Control, Server
<1>3. ic = 0 /\ Len(polls) = 0 /\ Matched(dc, mc - 1)
  BY DEF IInv, Events
<1>4. \E n \in ic + 1 .. Len(polls) : TRUE
  BY <1>2, <1>3 DEF Matched
<1> QED BY <1>3, <1>4

LEMMA CallPollKeeps == IInv /\ CallPoll => IInv'
<1> SUFFICES ASSUME IInv, CallPoll PROVE IInv'
  OBVIOUS
<1> USE ParallelQueryAssumption
<1>1. pc = "build" /\ i = mc /\ InLoop /\ rv' = "SERVFAIL"
      /\ UNCHANGED <<queries, q, qse, save, serv, ents, best>>
  BY DEF CallPoll, InLoop, queries
<1>2. ic = 0 /\ polls \in Seq(Fd) /\ Len(polls) \in Nat /\ Len(polls) <= mc - dc
      /\ Matched(dc, mc - 1)
  BY <1>1 DEF IInv, Events
<1>3. \A k \in Server : IF k < mc THEN q[k].state \in Waiting \cup {"DONE"}
                        ELSE q[k].state = "INITIAL"
  BY <1>1 DEF IInv, States, Asked, InLoop, InBody
<1>4. CASE polls = <<>>
  <2>1. NextBatch(mc)
    BY <1>4 DEF CallPoll
  <2>2. \A k \in Server : k < mc => q[k].state = "DONE"
    BY <1>1, <1>4, NothingToPoll
  <2>3. RoundOver(mc)
    BY <1>3, <2>2 DEF RoundOver, IInv, Control
  <2> QED BY <1>1, <2>1, <2>3, NextBatchKeeps
<1>5. CASE polls # <<>>
  <2> DEFINE maxto == left - waited
             wait == IF UseGlobal THEN Greater(GlobalTimeout - total, maxto) ELSE maxto
  <2>1. left' = Greater(wait, 0) /\ pc' = "poll" /\ site' = "init" /\ i' = 0
        /\ UNCHANGED <<j, dc, mc, polls, ev, ic, nev, waited, total>>
    BY <1>5 DEF CallPoll, At, polling
  <2>2. Owned'
    BY <1>1, OwnedSame DEF IInv
  <2>3. Control'
    BY <1>1, <2>1 DEF IInv, Control, InLoop, InBody
  <2>4. States'
    BY <1>1, <1>3, <2>1 DEF IInv, States, Asked, InLoop, InBody, Ending
  <2>5. Events'
    BY <1>1, <1>2, <2>1 DEF IInv, Events, InBody, Matched, Active
  <2>6. Clock'
    <3>1. left \in 0 .. MaxTimeout /\ waited \in 0 .. MaxTimeout /\ total \in 0 .. GlobalTimeout
      BY <1>1 DEF IInv, Clock
    <3>2. left' \in 0 .. Greater(GlobalTimeout, MaxTimeout) /\ left <= waited + left'
          /\ (UseGlobal => GlobalTimeout <= total + left')
      BY <2>1, <3>1 DEF Greater
    <3>3. \A k \in Server : k \in j .. mc - 1 /\ Active(k) => q[k].timeout <= waited + left'
      <4> SUFFICES ASSUME NEW k \in Server, k \in j .. mc - 1, Active(k)
                   PROVE  q[k].timeout <= waited + left'
        OBVIOUS
      <4>1. q[k].timeout <= left
        BY <1>1 DEF IInv, Clock
      <4>2. q[k].timeout \in Nat
        BY DEF IInv, Owned, Query
      <4> QED BY <3>1, <3>2, <4>1, <4>2
    <3>4. UseGlobal' <=> UseGlobal
      BY <1>1, <2>1 DEF UseGlobal, tentative_tcp_query
    <3> QED BY <1>1, <2>1, <3>1, <3>2, <3>3, <3>4 DEF Clock, InBody, Active, Greater
  <2>7. Results'
    BY <1>1, <2>1 DEF IInv, Results, InLoop, Saved, Active, Code
  <2> QED BY <2>2, <2>3, <2>4, <2>5, <2>6, <2>7 DEF IInv
<1> QED BY <1>4, <1>5

(* A clock that stops at N; a time to wait for that a tick may shorten.           *)
LEMMA ClockRuns ==
  ASSUME NEW N \in Nat, NEW a \in 0 .. N, NEW l \in Nat, NEW m \in Nat, NEW x \in 0 .. N,
         m = l \/ m = l - 1, x <= a + l
  PROVE  x <= Lesser(a + 1, N) + m
<1>1. CASE a + 1 < N
  BY <1>1 DEF Lesser
<1>2. CASE ~(a + 1 < N)
  BY <1>2 DEF Lesser
<1> QED BY <1>1, <1>2

(* Time passes, while nothing else changes.                                    *)
LEMMA TimePasses ==
  ASSUME IInv, Pass, UNCHANGED <<loop, queries, result, polling, best>>,
         \/ pc = "poll" /\ left > 0 /\ left' = left - 1
         \/ left' = left /\ pc \in {"poll", "advance"}
  PROVE  IInv'
<1> USE ParallelQueryAssumption
<1>1. UNCHANGED <<pc, site, i, j, dc, mc, q, rv, qse, save, serv, ents, polls, ev, ic, nev, best>>
  BY DEF loop, queries, result, polling
<1>2. Owned'
  BY OwnedSame DEF IInv
<1>3. Control'
  BY <1>1 DEF IInv, Control, InLoop, InBody
<1>4. States'
  BY <1>1 DEF IInv, States, Asked, InLoop, InBody, Ending
<1>5. Events'
  <2>1. (pc = "poll" => Matched(dc, mc - 1)') /\ (pc = "advance" /\ site = "events" => Matched(i + 1, mc - 1)')
    <3>1. ASSUME pc = "poll" PROVE Matched(dc, mc - 1)'
      <4>1. Matched(dc, mc - 1)
        BY <3>1 DEF IInv, Events
      <4> QED BY <1>1, <4>1 DEF Matched, Active
    <3>2. ASSUME pc = "advance", site = "events" PROVE Matched(i + 1, mc - 1)'
      <4>1. Matched(i + 1, mc - 1)
        BY <3>2 DEF IInv, Events, InBody
      <4> QED BY <1>1, <4>1 DEF Matched, Active
    <3> QED BY <3>1, <3>2
  <2> QED BY <1>1, <2>1 DEF IInv, Events, InBody
<1>6. left \in 0 .. Greater(GlobalTimeout, MaxTimeout) /\ waited \in 0 .. MaxTimeout
      /\ total \in 0 .. GlobalTimeout
  BY DEF IInv, Clock
<1>7. waited' = Lesser(waited + 1, MaxTimeout) /\ total' = Lesser(total + 1, GlobalTimeout)
  BY DEF Pass
<1>8. Clock'
  <2>1. left' \in 0 .. Greater(GlobalTimeout, MaxTimeout) /\ waited' \in 0 .. MaxTimeout
        /\ total' \in 0 .. GlobalTimeout /\ waited <= waited' /\ total <= total'
    BY <1>6, <1>7 DEF Lesser, Greater
  <2>2. \A k \in Server : q[k].timeout \in 1 .. MaxTimeout
    BY DEF IInv, Owned, Query
  <2>3. pc = "poll" =>
          /\ \A k \in Server : k \in j .. mc - 1 /\ Active(k) => q[k].timeout <= waited' + left'
          /\ UseGlobal => GlobalTimeout <= total' + left'
    <3> SUFFICES ASSUME pc = "poll"
                 PROVE  /\ \A k \in Server : k \in j .. mc - 1 /\ Active(k) =>
                                               q[k].timeout <= waited' + left'
                        /\ UseGlobal => GlobalTimeout <= total' + left'
      OBVIOUS
    <3>1. left \in Nat /\ left' \in Nat /\ (left' = left \/ left' = left - 1)
      <4>1. Greater(GlobalTimeout, MaxTimeout) \in Nat
        BY DEF Greater
      <4> QED BY <1>6, <2>1, <4>1
    <3>2. ASSUME NEW k \in Server, k \in j .. mc - 1, Active(k)
          PROVE  q[k].timeout <= waited' + left'
      <4>1. q[k].timeout <= waited + left
        BY <3>2 DEF IInv, Clock
      <4>2. q[k].timeout \in 0 .. MaxTimeout
        BY <2>2
      <4> QED BY <1>6, <1>7, <3>1, <4>1, <4>2, ClockRuns
    <3>3. ASSUME UseGlobal
          PROVE  GlobalTimeout <= total' + left'
      <4>1. GlobalTimeout <= total + left
        BY <3>3 DEF IInv, Clock
      <4> QED BY <1>6, <1>7, <3>1, <4>1, ClockRuns
    <3> QED BY <3>2, <3>3
  <2>4. InBody /\ site = "timeout" =>
          /\ \A k \in Server : k \in j .. mc - 1 /\ Active(k) => q[k].timeout <= waited'
          /\ mc = NumServers /\ nev = 0 =>
               /\ pc # "exec"
               /\ \/ total' = GlobalTimeout
                  \/ \E k \in Server : /\ k >= (IF pc = "visit" THEN i ELSE i + 1) /\ k >= j
                                       /\ tentative_tcp_query(q[k])
    <3> SUFFICES ASSUME InBody, site = "timeout"
                 PROVE  /\ \A k \in Server : k \in j .. mc - 1 /\ Active(k) =>
                                               q[k].timeout <= waited'
                        /\ mc = NumServers /\ nev = 0 =>
                             /\ pc # "exec"
                             /\ \/ total' = GlobalTimeout
                                \/ \E k \in Server :
                                     /\ k >= (IF pc = "visit" THEN i ELSE i + 1) /\ k >= j
                                     /\ tentative_tcp_query(q[k])
      OBVIOUS
    <3>1. ASSUME NEW k \in Server, k \in j .. mc - 1, Active(k)
          PROVE  q[k].timeout <= waited'
      <4>1. q[k].timeout <= waited
        BY <3>1 DEF IInv, Clock
      <4> QED BY <1>6, <2>1, <2>2, <4>1
    <3>2. total = GlobalTimeout => total' = GlobalTimeout
      BY <1>6, <2>1
    <3> QED BY <3>1, <3>2 DEF IInv, Clock
  <2>5. UseGlobal' <=> UseGlobal
    BY <1>1 DEF UseGlobal, tentative_tcp_query
  <2> QED BY <1>1, <2>1, <2>3, <2>4, <2>5 DEF Clock, InBody, Active, tentative_tcp_query
<1>9. Results'
  <2>1. total = GlobalTimeout => total' = GlobalTimeout
    BY <1>6, <1>7 DEF Lesser
  <2> QED BY <1>1, <2>1 DEF IInv, Results, InLoop, Saved, Active
<1> QED BY <1>2, <1>3, <1>4, <1>5, <1>8, <1>9 DEF IInv

LEMMA TickKeeps == IInv /\ Tick => IInv'
  BY TimePasses DEF Tick

LEMMA LateKeeps == IInv /\ Late => IInv'
  BY TimePasses DEF Late

LEMMA PollEventsKeeps == IInv /\ PollEvents => IInv'
<1> SUFFICES ASSUME IInv, PollEvents PROVE IInv'
  OBVIOUS
<1> USE ParallelQueryAssumption
<1>1. PICK e \in SUBSET (1 .. Len(polls)) \ {{}} : ev' = e /\ nev' = Cardinality(e)
  BY DEF PollEvents
<1>2. pc = "poll" /\ left' = 0 /\ pc' = "visit" /\ site' = "events" /\ i' = dc
      /\ UNCHANGED <<j, dc, mc, q, rv, qse, save, serv, ents, polls, ic, waited, total, best>>
  BY DEF PollEvents, At, queries, result
<1>3. Owned'
  BY OwnedSame DEF IInv, PollEvents
<1>4. Control'
  BY <1>2 DEF IInv, Control, InLoop, InBody
<1>5. States'
  BY <1>2 DEF IInv, States, Asked, InLoop, InBody, Ending
<1>6. Events'
  <2>1. ic = 0 /\ Len(polls) \in Nat /\ Len(polls) <= mc - dc /\ Matched(dc, mc - 1)
        /\ polls \in Seq(Fd)
    BY <1>2 DEF IInv, Events
  <2>2. Len(polls) <= NumServers
    BY <2>1 DEF IInv, Control
  <2>3. Cardinality(e) \in Nat /\ Cardinality(e) <= Len(polls)
    <3>1. IsFiniteSet(1 .. Len(polls)) /\ Cardinality(1 .. Len(polls)) = Len(polls)
      BY <2>1, FS_Interval
    <3>2. e \in SUBSET (1 .. Len(polls))
      OBVIOUS
    <3>3. IsFiniteSet(e) /\ Cardinality(e) <= Cardinality(1 .. Len(polls))
      BY <3>1, <3>2, FS_Subset, Zenon
    <3> QED BY <3>1, <3>3, FS_CardinalityType
  <2>4. {k \in ev' : k > ic'} = e
    <3>1. \A k \in e : k \in Nat /\ k > 0
      BY <2>1
    <3> QED BY <1>1, <1>2, <2>1, <3>1
  <2>5. Matched(i, mc - 1)'
    BY <1>2, <2>1 DEF Matched, Active
  <2>6. nev' = Cardinality({k \in ev' : k > ic'})
    BY <1>1, <2>4
  <2>7. ev' \subseteq 1 .. Len(polls') /\ ev' \subseteq 1 .. NumServers /\ nev' \in 0 .. NumServers
        /\ ic' \in 0 .. NumServers /\ ic' <= Len(polls') /\ Len(polls') <= NumServers
        /\ polls' \in Seq(Fd)
    BY <1>1, <1>2, <2>1, <2>2, <2>3
  <2> QED BY <1>2, <2>5, <2>6, <2>7 DEF Events, InBody
<1>7. Clock'
  BY <1>2 DEF IInv, Clock, InBody, Greater
<1>8. Results'
  BY <1>2 DEF IInv, Results, InLoop, Saved, Active
<1> QED BY <1>3, <1>4, <1>5, <1>6, <1>7, <1>8 DEF IInv

LEMMA PollFailsKeeps == IInv /\ PollFails => IInv'
<1> SUFFICES ASSUME IInv, PollFails PROVE IInv'
  OBVIOUS
<1> USE ParallelQueryAssumption
<1>1. pc = "poll" /\ left' = 0 /\ pc' = "done" /\ site' = "events" /\ i' = 0
      /\ polls' = <<>> /\ ev' = {} /\ ic' = 0 /\ nev' = 0
      /\ UNCHANGED <<j, dc, mc, q, rv, qse, save, serv, ents, waited, total, best>>
  BY DEF PollFails, At, NoPoll, queries, result
<1>2. Owned'
  BY OwnedSame DEF IInv, PollFails
<1>3. Control'
  BY <1>1 DEF IInv, Control, InLoop, InBody
<1>4. States'
  BY <1>1 DEF IInv, States, Asked, InLoop, InBody, Ending, Control, Server
<1>5. Events'
  BY <1>1 DEF Events, InBody
<1>6. Clock'
  BY <1>1 DEF IInv, Clock, InBody, Greater
<1>7. Results'
  BY <1>1 DEF IInv, Results, InLoop, Saved
<1> QED BY <1>2, <1>3, <1>4, <1>5, <1>6, <1>7 DEF IInv

LEMMA PollTimeoutKeeps == IInv /\ PollTimeout => IInv'
<1> SUFFICES ASSUME IInv, PollTimeout PROVE IInv'
  OBVIOUS
<1> USE ParallelQueryAssumption
<1>1. pc = "poll" /\ left = 0 /\ pc' = "visit" /\ site' = "timeout" /\ i' = j
      /\ polls' = <<>> /\ ev' = {} /\ ic' = 0 /\ nev' = 0
      /\ UNCHANGED <<j, dc, mc, q, rv, qse, save, serv, ents, left, waited, total, best>>
  BY DEF PollTimeout, At, NoPoll, queries, result, time
<1>2. Owned'
  BY OwnedSame DEF IInv, PollTimeout
<1>3. Control'
  BY <1>1 DEF IInv, Control, InLoop, InBody, Lesser
<1>4. States'
  BY <1>1 DEF IInv, States, Asked, InLoop, InBody, Ending
<1>5. Events'
  BY <1>1, <1>3 DEF Events, InBody, Control
<1>6. Clock'
  <2>1. waited \in 0 .. MaxTimeout /\ total \in 0 .. GlobalTimeout
    BY DEF IInv, Clock
  <2>2. \A k \in Server : k \in j .. mc - 1 /\ Active(k) => q[k].timeout <= waited
    BY <1>1, <2>1 DEF IInv, Clock
  <2>3. mc = NumServers =>
          total = GlobalTimeout \/ \E k \in Server : k >= j /\ tentative_tcp_query(q[k])
    <3> SUFFICES ASSUME mc = NumServers, ~ \E k \in Server : k >= j /\ tentative_tcp_query(q[k])
                 PROVE  total = GlobalTimeout
      OBVIOUS
    <3>1. UseGlobal
      BY DEF UseGlobal, Server, IInv, Control
    <3> QED BY <1>1, <2>1, <3>1 DEF IInv, Clock
  <2> QED BY <1>1, <2>1, <2>2, <2>3 DEF IInv, Clock, InBody, Active, tentative_tcp_query
<1>7. Results'
  BY <1>1 DEF IInv, Results, InLoop, Saved, Active
<1> QED BY <1>2, <1>3, <1>4, <1>5, <1>6, <1>7 DEF IInv

(* A TCP query without an answer closes its socket and goes over to UDP.         *)
LEMMA VisitTimeoutKeeps == IInv /\ VisitTimeout => IInv'
<1> SUFFICES ASSUME IInv, VisitTimeout PROVE IInv'
  OBVIOUS
<1> USE ParallelQueryAssumption
<1>1. pc = "visit" /\ site = "timeout" /\ site' = "timeout" /\ i' = i
      /\ UNCHANGED <<j, dc, mc, rv, qse, save, serv, ents, polls, ev, ic, left, waited, total,
                     best>>
  BY DEF VisitTimeout, At, result, time
<1>2. i \in Server /\ i \in j .. mc - 1 /\ Asked(i) /\ nev \in 0 .. i - j /\ i < NumServers
      /\ j \in Nat /\ mc \in 0 .. NumServers
  BY <1>1 DEF IInv, Control, InBody, Server, Asked, Events
<1>3. CASE ~tentative_tcp_query(q[i])
  <2>1. pc' = "advance" /\ nev' = nev /\ q' = q /\ UNCHANGED queries
    BY <1>3 DEF VisitTimeout, At, queries
  <2>2. Owned'
    BY <2>1, OwnedSame DEF IInv
  <2>3. Control'
    BY <1>1, <2>1 DEF IInv, Control, InLoop, InBody
  <2>4. States'
    BY <1>1, <2>1 DEF IInv, States, Asked, InLoop, InBody, Ending
  <2>5. Events'
    BY <1>1, <1>2, <2>1 DEF IInv, Events, InBody
  <2>6. Clock'
    <3>1. ASSUME NEW k \in Server, k >= i, tentative_tcp_query(q[k])
          PROVE  k >= i + 1
      BY <1>2, <1>3, <3>1 DEF Server
    <3> QED BY <1>1, <2>1, <3>1 DEF IInv, Clock, InBody, Active, tentative_tcp_query
  <2>7. Results'
    BY <1>1, <2>1 DEF IInv, Results, InLoop, Saved, Active
  <2> QED BY <2>2, <2>3, <2>4, <2>5, <2>6, <2>7 DEF IInv
<1>4. CASE tentative_tcp_query(q[i])
  <2> DEFINE c == Close(Call)
             p == switch_to_udp(c.q)
             O == Sockets(Server \ {i})
  <2>1. q' = [q EXCEPT ![i] = p] /\ open' = c.open /\ bad' = c.bad /\ nev' = nev + 1
        /\ pc' = "exec"
    BY <1>4 DEF VisitTimeout, At
  <2>2. Held(Call, O, q[i].timeout) /\ Call.q = q[i]
    BY <1>2, CallHeld DEF IInv
  <2>3. q[i].state \in Waiting /\ QueryInv(q[i])
    BY <1>2, <1>4 DEF tentative_tcp_query, Waiting, Reading, Writing, IInv, Owned
  <2>4. Busy(Call, O, q[i].timeout)
    <3> HIDE DEF O
    <3> QED BY <2>2, <2>3 DEF Busy, Armed, QueryInv
  <2>5. Idle(c, O, q[i].timeout)
    BY <2>4, CloseReleases
  <2> HIDE DEF c
  <2>6. QueryInv(p) /\ p.state = "UDPINITIAL" /\ p.sock = None /\ p.timeout = q[i].timeout
    <3>1. c.q \in Query
      BY <2>5 DEF Idle, Held, CallType
    <3>2. p \in Query /\ p.state = "UDPINITIAL" /\ p.sock = c.q.sock /\ p.msg = c.q.msg
          /\ p.recvbuf = c.q.recvbuf /\ p.timeout = c.q.timeout
      BY <3>1 DEF switch_to_udp, Query, Starting
    <3>3. "UDPINITIAL" \notin Waiting /\ "UDPINITIAL" \in Starting
      BY DEF Waiting, Reading, Writing, Starting
    <3> HIDE DEF p
    <3> QED BY <2>5, <3>2, <3>3 DEF QueryInv, Idle, Held, Armed, Fresh
  <2> HIDE DEF p
  <2>7. p.sock \notin O /\ open' = O \cup ({p.sock} \ {None}) /\ bad' \subseteq {"emptied"}
    BY <2>1, <2>5, <2>6 DEF Idle, Held
  <2>8. Owned'
    BY <1>2, <2>1, <2>6, <2>7, OwnedAfter DEF IInv
  <2>9. q'[i] = p /\ \A k \in Server \ {i} : q'[k] = q[k]
    BY <1>2, <2>1 DEF IInv, Owned
  <2>10. Control'
    BY <1>1, <2>1 DEF IInv, Control, InLoop, InBody
  <2>11. States'
    <3>1. \A k \in Server : Asked(k)' <=> Asked(k)
      BY <1>1 DEF Asked
    <3>2. q[i].state # "DONE"
      BY <2>3 DEF Waiting, Reading, Writing
    <3> QED BY <1>1, <1>2, <2>1, <2>6, <2>9, <3>1, <3>2 DEF IInv, States, InLoop, Ending
  <2>12. Events'
    BY <1>1, <1>2, <2>1 DEF IInv, Events, InBody
  <2>13. Clock'
    <3>1. \A k \in Server : k \in j .. mc - 1 /\ Active(k)' => q'[k].timeout <= waited
      <4>1. \A k \in Server : Active(k)' => Active(k) /\ q'[k].timeout = q[k].timeout
        BY <1>2, <2>3, <2>6, <2>9 DEF Active, Waiting, Reading, Writing
      <4> QED BY <1>1, <4>1 DEF IInv, Clock, InBody
    <3>2. nev' # 0
      BY <1>2, <2>1
    <3> QED BY <1>1, <2>1, <3>1, <3>2 DEF IInv, Clock, InBody
  <2>14. Results'
    <3>1. Active(i)'
      BY <1>1, <2>6, <2>9 DEF Active
    <3> QED BY <1>1, <1>2, <2>1, <3>1 DEF IInv, Results, InLoop, Saved
  <2> QED BY <2>8, <2>10, <2>11, <2>12, <2>13, <2>14 DEF IInv
<1> QED BY <1>3, <1>4

(* The next place of the array is that of the next active query.                 *)
LEMMA NextPlace ==
  ASSUME IInv, pc = "visit", site = "events", Active(i)
  PROVE  {k \in ic + 1 .. Len(polls) : polls[k] = q[i].sock} = {ic + 1}
<1> USE ParallelQueryAssumption
<1>1. i \in Server /\ i \in i .. mc - 1
  BY DEF IInv, Control, InBody, Server
<1>2. Matched(i, mc - 1) /\ Len(polls) \in Nat /\ ic \in Nat
  BY DEF IInv, Events, InBody
<1>3. PICK n \in ic + 1 .. Len(polls) : polls[n] = q[i].sock
  BY <1>1, <1>2 DEF Matched
<1>4. n = ic + 1
  <2> SUFFICES ASSUME n # ic + 1 PROVE FALSE
    OBVIOUS
  <2>1. ic + 1 \in ic + 1 .. Len(polls) /\ ic + 1 < n
    BY <1>2, <1>3
  <2>2. PICK k \in Server : k \in i .. mc - 1 /\ Active(k) /\ q[k].sock = polls[ic + 1]
    BY <1>2, <2>1 DEF Matched
  <2>3. k # i
    <3> SUFFICES ASSUME k = i PROVE FALSE
      OBVIOUS
    <3>1. polls[ic + 1] = polls[n] /\ ic + 1 \in 1 .. Len(polls) /\ n \in 1 .. Len(polls)
      BY <1>2, <1>3, <2>1, <2>2
    <3> QED BY <1>2, <2>1, <3>1 DEF Matched
  <2>4. i < k
    BY <1>1, <2>2, <2>3 DEF Server
  <2>5. n < ic + 1
    BY <1>1, <1>2, <1>3, <2>1, <2>2, <2>4 DEF Matched
  <2> QED BY <1>2, <1>3, <2>1, <2>5
<1>5. \A k \in ic + 1 .. Len(polls) : polls[k] = q[i].sock => k = n
  <2> SUFFICES ASSUME NEW k \in ic + 1 .. Len(polls), polls[k] = q[i].sock PROVE k = n
    OBVIOUS
  <2>1. k \in 1 .. Len(polls) /\ n \in 1 .. Len(polls)
    BY <1>2, <1>3
  <2> QED BY <1>2, <1>3, <2>1 DEF Matched
<1> QED BY <1>3, <1>4, <1>5

(* The scan goes on from lo to lo + 1 and, past an active query, one place.       *)
LEMMA ScanOn ==
  ASSUME IInv, pc = "visit", site = "events", NEW n \in {ic, ic + 1},
         IF Active(i) THEN n = ic + 1 ELSE n = ic
  PROVE  /\ n <= Len(polls)
         /\ \A m \in n + 1 .. Len(polls) :
              \E k \in Server : k \in i + 1 .. mc - 1 /\ Active(k) /\ q[k].sock = polls[m]
         /\ \A k \in Server : k \in i + 1 .. mc - 1 /\ Active(k) =>
              \E m \in n + 1 .. Len(polls) : polls[m] = q[k].sock
<1> USE ParallelQueryAssumption
<1>1. i \in Server /\ i \in i .. mc - 1 /\ mc \in Nat
  BY DEF IInv, Control, InBody, Server
<1>2. Matched(i, mc - 1) /\ Len(polls) \in Nat /\ ic \in Nat /\ ic <= Len(polls)
  BY DEF IInv, Events, InBody
<1>3. CASE ~Active(i)
  <2>1. n = ic
    BY <1>3
  <2>2. \A k \in Server : k \in i .. mc - 1 /\ Active(k) <=> k \in i + 1 .. mc - 1 /\ Active(k)
    BY <1>1, <1>3 DEF Server
  <2> QED BY <1>2, <2>1, <2>2 DEF Matched
<1>4. CASE Active(i)
  <2>1. n = ic + 1
    BY <1>4
  <2>2. ic + 1 \in ic + 1 .. Len(polls) /\ polls[ic + 1] = q[i].sock
    BY <1>4, NextPlace
  <2>3. n <= Len(polls)
    BY <1>2, <2>1, <2>2
  <2>4. ASSUME NEW m \in n + 1 .. Len(polls)
        PROVE  \E k \in Server : k \in i + 1 .. mc - 1 /\ Active(k) /\ q[k].sock = polls[m]
    <3>1. m \in ic + 1 .. Len(polls) /\ m # ic + 1 /\ m \in 1 .. Len(polls)
          /\ ic + 1 \in 1 .. Len(polls)
      BY <1>2, <2>1, <2>2
    <3>2. PICK k \in Server : k \in i .. mc - 1 /\ Active(k) /\ q[k].sock = polls[m]
      BY <1>2, <3>1 DEF Matched
    <3>3. k # i
      BY <1>2, <2>2, <3>1, <3>2 DEF Matched
    <3> QED BY <1>1, <3>2, <3>3 DEF Server
  <2>5. ASSUME NEW k \in Server, k \in i + 1 .. mc - 1, Active(k)
        PROVE  \E m \in n + 1 .. Len(polls) : polls[m] = q[k].sock
    <3>1. k \in i .. mc - 1 /\ i < k
      BY <1>1, <2>5 DEF Server
    <3>2. PICK m \in ic + 1 .. Len(polls) : polls[m] = q[k].sock
      BY <1>2, <2>5, <3>1 DEF Matched
    <3>3. ic + 1 < m
      BY <1>1, <1>2, <1>4, <2>2, <2>5, <3>1, <3>2 DEF Matched
    <3> QED BY <1>2, <2>1, <3>2, <3>3
  <2> QED BY <2>3, <2>4, <2>5
<1> QED BY <1>3, <1>4

LEMMA Later ==
  ASSUME NEW a \in Nat, NEW b \in Nat, NEW l \in Nat, a <= b
  PROVE  \A n \in b + 1 .. l : n \in a + 1 .. l
  OBVIOUS

LEMMA VisitEventKeeps == IInv /\ VisitEvent => IInv'
<1> SUFFICES ASSUME IInv, VisitEvent PROVE IInv'
  OBVIOUS
<1> USE ParallelQueryAssumption
<1>1. pc = "visit" /\ site = "events" /\ InBody /\ InLoop
      /\ UNCHANGED <<j, dc, mc, q, rv, qse, save, serv, ents, polls, ev, left, waited, total,
                     best>>
  BY DEF VisitEvent, queries, result, time, InBody, InLoop
<1>2. /\ polls \in Seq(Fd) /\ Len(polls) \in Nat /\ ic \in Nat /\ Len(polls) <= NumServers
      /\ ev \subseteq 1 .. Len(polls) /\ ic <= Len(polls) /\ nev \in Nat /\ nev <= NumServers
      /\ nev = Cardinality({k \in ev : k > ic}) /\ Matched(i, mc - 1)
  BY <1>1 DEF IInv, Events
<1>3. IsFiniteSet({k \in ev : k > ic})
  <2>1. IsFiniteSet(1 .. Len(polls))
    BY <1>2, FS_Interval
  <2>2. {k \in ev : k > ic} \in SUBSET (1 .. Len(polls))
    BY <1>2
  <2> QED BY <2>1, <2>2, FS_Subset, Zenon
<1>4. /\ site' = "events" /\ i' = i /\ pc' \in {"exec", "advance"}
      /\ ic' = IF Active(i) THEN ic + 1 ELSE ic
      /\ IF Active(i) /\ ic + 1 \in ev THEN nev' = nev - 1 /\ pc' = "exec"
         ELSE nev' = nev /\ pc' = "advance"
  <2> DEFINE at == {k \in ic + 1 .. Len(polls) : polls[k] = q[i].sock}
  <2>1. CASE ~Active(i)
    BY <1>1, <2>1 DEF VisitEvent, At
  <2>2. CASE Active(i)
    <3>1. at = {ic + 1}
      BY <1>1, <2>2, NextPlace
    <3>2. Min(at) = ic + 1
      BY <1>2, <3>1 DEF Min
    <3>3. at # {}
      BY <3>1
    <3>4. /\ ic' = Min(at)
          /\ IF Min(at) \in ev THEN nev' = nev - 1 /\ At("exec", site, i)
             ELSE At("advance", site, i) /\ UNCHANGED nev
      BY <2>2, <3>3 DEF VisitEvent
    <3> QED BY <1>1, <2>2, <3>2, <3>4 DEF At
  <2> QED BY <2>1, <2>2
<1>5. Owned'
  BY OwnedSame DEF IInv, VisitEvent
<1>6. Control'
  BY <1>1, <1>4 DEF IInv, Control, InLoop, InBody
<1>7. States'
  <2>1. \A k \in Server : Asked(k)' <=> Asked(k)
    BY <1>1, <1>4 DEF Asked
  <2>2. i \in Server /\ Asked(i)
    BY <1>1 DEF IInv, Control, Server, Asked
  <2>3. q[i].state \in Waiting \cup {"DONE"}
    BY <1>1, <2>2 DEF IInv, States, InLoop
  <2>4. pc' = "exec" => q[i].state \notin {"DONE", "CANCELED"}
    BY <1>4, <2>3 DEF Active, Waiting, Reading, Writing
  <2> QED BY <1>1, <1>4, <2>1, <2>4 DEF IInv, States, InLoop, Ending
<1>8. Events'
  <2>1. ic' \in {ic, ic + 1} /\ (IF Active(i) THEN ic' = ic + 1 ELSE ic' = ic)
    BY <1>4
  <2>2. /\ ic' <= Len(polls)
        /\ \A m \in ic' + 1 .. Len(polls) :
             \E k \in Server : k \in i + 1 .. mc - 1 /\ Active(k) /\ q[k].sock = polls[m]
        /\ \A k \in Server : k \in i + 1 .. mc - 1 /\ Active(k) =>
             \E m \in ic' + 1 .. Len(polls) : polls[m] = q[k].sock
    BY <1>1, <2>1, ScanOn
  <2>3. i \in Nat /\ mc \in Nat
    BY DEF IInv, Control
  <2>4. Matched(i + 1, mc - 1)'
    <3>1. \A k \in i + 1 .. mc - 1 : k \in i .. mc - 1
      BY <2>3
    <3>2. \A n \in ic' + 1 .. Len(polls) : n \in ic + 1 .. Len(polls)
      <4>1. ic' \in Nat /\ ic <= ic' /\ ic \in Nat /\ Len(polls) \in Nat
        BY <1>2, <2>1
      <4> QED BY <4>1, Later
    <3>3. \A k, l \in Server : \A m, n \in ic' + 1 .. Len(polls) :
            /\ k \in i + 1 .. mc - 1 /\ l \in i + 1 .. mc - 1 /\ k < l /\ Active(k) /\ Active(l)
            /\ polls[m] = q[k].sock /\ polls[n] = q[l].sock
            => m < n
      BY <1>2, <3>1, <3>2 DEF Matched
    <3>4. \A m, n \in 1 .. Len(polls) : polls[m] = polls[n] => m = n
      BY <1>2 DEF Matched
    <3> QED BY <1>1, <1>4, <2>2, <3>3, <3>4 DEF Matched, Active
  <2>5. nev' = Cardinality({k \in ev' : k > ic'}) /\ nev' \in 0 .. NumServers
    <3>0. \A k \in ev : k \in Nat
      BY <1>2
    <3>1. CASE Active(i) /\ ic + 1 \in ev
      <4>1. {k \in ev : k > ic + 1} = {k \in ev : k > ic} \ {ic + 1}
        <5>1. ic \in Nat
          BY <1>2
        <5>2. \A k \in ev : k > ic + 1 <=> k > ic /\ k # ic + 1
          BY <3>0, <5>1
        <5> QED BY <5>2
      <4>2. ic + 1 \in {k \in ev : k > ic}
        <5>1. ic \in Nat
          BY <1>2
        <5> QED BY <3>1, <5>1
      <4>3. Cardinality({k \in ev : k > ic} \ {ic + 1}) = nev - 1
        BY <1>2, <1>3, <4>2, FS_RemoveElement
      <4>4. nev - 1 \in Nat
        BY <1>3, <4>3, FS_RemoveElement, FS_CardinalityType
      <4>5. ev' = ev /\ ic' = ic + 1 /\ nev' = nev - 1
        BY <1>1, <1>4, <3>1
      <4>6. {k \in ev' : k > ic'} = {k \in ev : k > ic + 1}
        BY <4>5
      <4>7. nev' \in 0 .. NumServers
        BY <1>2, <4>4, <4>5
      <4> QED BY <4>1, <4>3, <4>5, <4>6, <4>7
    <3>2. CASE Active(i) /\ ic + 1 \notin ev
      <4>1. {k \in ev : k > ic + 1} = {k \in ev : k > ic}
        <5>1. ic \in Nat
          BY <1>2
        <5>2. \A k \in ev : k > ic + 1 <=> k > ic
          BY <3>0, <3>2, <5>1
        <5> QED BY <5>2
      <4>2. ev' = ev /\ ic' = ic + 1 /\ nev' = nev
        BY <1>1, <1>4, <3>2
      <4>3. {k \in ev' : k > ic'} = {k \in ev : k > ic + 1}
        BY <4>2
      <4>4. nev' \in 0 .. NumServers
        BY <1>2, <4>2
      <4> QED BY <1>2, <4>1, <4>2, <4>3, <4>4
    <3>3. CASE ~Active(i)
      BY <1>1, <1>2, <1>4, <3>3
    <3> QED BY <3>1, <3>2, <3>3
  <2> QED BY <1>1, <1>2, <1>4, <2>1, <2>2, <2>4, <2>5 DEF IInv, Events, InBody
<1>9. Clock'
  BY <1>1, <1>4 DEF IInv, Clock, InBody
<1>10. Results'
  BY <1>1, <1>4 DEF IInv, Results, InLoop, Saved, Active
<1> QED BY <1>5, <1>6, <1>7, <1>8, <1>9, <1>10 DEF IInv

-----------------------------------------------------------------------------
(* p_exec_query and what is made of its value.                                 *)

LEMMA ExecHeld ==
  ASSUME IInv, pc = "exec", NEW c \in p_exec_query(Call)
  PROVE  /\ i \in Server /\ i < mc
         /\ Executed(c, Sockets(Server \ {i}), q[i].timeout)
<1>1. i \in Server /\ i < mc
  BY ParallelQueryAssumption DEF IInv, Control, InBody, Server
<1>2. Held(Call, Sockets(Server \ {i}), q[i].timeout) /\ Call.q = q[i]
  BY <1>1, CallHeld DEF IInv
<1>3. QueryInv(q[i]) /\ q[i].state \notin {"DONE", "CANCELED"}
  BY <1>1 DEF IInv, Owned, States
<1> HIDE DEF Call
<1> QED BY <1>1, <1>2, <1>3, p_exec_queryDoes

(* Query i becomes p, which holds what the call left it.                        *)
LEMMA ExecOwned ==
  ASSUME IInv, i \in Server, NEW c, NEW p, Held(c, Sockets(Server \ {i}), q[i].timeout),
         QueryInv(p), p.sock = c.q.sock, q' = [q EXCEPT ![i] = p],
         open' = c.open, bad' = c.bad
  PROVE  Owned' /\ q'[i] = p /\ \A k \in Server \ {i} : q'[k] = q[k]
<1>1. Owned'
  BY OwnedAfter DEF IInv, Held
<1>2. q'[i] = p /\ \A k \in Server \ {i} : q'[k] = q[k]
  BY DEF IInv, Owned
<1> QED BY <1>1, <1>2

LEMMA StayKeeps ==
  ASSUME IInv, pc = "exec", i \in Server, NEW p, NEW pp \in {"exec", "advance"}, NEW v,
         Stay(pp, v), UNCHANGED time, Owned', Results',
         q'[i] = p, \A k \in Server \ {i} : q'[k] = q[k], p.timeout = q[i].timeout,
         pp = "advance" => p.state \in Waiting \cup {"DONE"},
         pp = "exec" => p.state \notin {"DONE", "CANCELED"}
  PROVE  IInv'
<1> USE ParallelQueryAssumption
<1>1. pc' = pp /\ UNCHANGED <<site, i, j, dc, mc, polls, ev, ic, nev, left, waited, total>>
  BY DEF Stay, At, polling, time
<1>2. InBody /\ InLoop /\ InBody' /\ InLoop' /\ q[i].state # "DONE"
  BY <1>1 DEF InBody, InLoop, IInv, States
<1>3. Control'
  BY <1>1, <1>2 DEF IInv, Control
<1>4. States'
  <2>1. \A k \in Server \ {i} : Asked(k)' <=> Asked(k)
    BY <1>1, <1>2 DEF Asked, Server
  <2>2. pp = "advance" => Asked(i)'
    BY <1>1, <1>2 DEF Asked, IInv, Control
  <2>3. ~(i < dc)
    BY <1>2 DEF IInv, States
  <2>4. \A k \in Server : ~(pc' = "exec" /\ k = i') =>
          IF Asked(k)' THEN q'[k].state \in Waiting \cup {"DONE"} ELSE q'[k].state = "INITIAL"
    BY <1>1, <1>2, <2>1, <2>2 DEF IInv, States
  <2>5. \A k \in Server : k < dc => q'[k].state = "DONE"
    BY <2>3 DEF IInv, States
  <2> QED BY <1>1, <2>4, <2>5 DEF States, Ending
<1>5. Events'
  <2>1. site = "events" => Matched(i + 1, mc - 1)'
    <3> SUFFICES ASSUME site = "events" PROVE Matched(i + 1, mc - 1)'
      OBVIOUS
    <3>1. Matched(i + 1, mc - 1)
      BY <1>2 DEF IInv, Events
    <3>2. \A k \in Server : k \in i + 1 .. mc - 1 => q'[k] = q[k]
      BY DEF Server, IInv, Control
    <3> QED BY <1>1, <3>1, <3>2 DEF Matched, Active
  <2> QED BY <1>1, <1>2, <2>1 DEF IInv, Events
<1>6. Clock'
  <2>1. site = "timeout" =>
          /\ \A k \in Server : k \in j .. mc - 1 /\ Active(k)' => q'[k].timeout <= waited
          /\ ~(mc = NumServers /\ nev = 0)
    <3>1. \A k \in Server : Active(k)' => Active(k) /\ q'[k].timeout = q[k].timeout
      BY <1>2 DEF Active
    <3> QED BY <1>2, <3>1 DEF IInv, Clock
  <2> QED BY <1>1, <1>2, <2>1 DEF IInv, Clock
<1> QED BY <1>3, <1>4, <1>5, <1>6 DEF IInv

LEMMA LeaveKeeps ==
  ASSUME IInv, pc = "exec", i \in Server, NEW v, Leave(v), UNCHANGED time, Owned', Results',
         q'[i].state = "DONE", \A k \in Server \ {i} : q'[k] = q[k]
  PROVE  IInv'
<1> USE ParallelQueryAssumption
<1>1. pc' = "done" /\ i' = 0 /\ mc' = (IF site = "init" THEN i ELSE mc)
      /\ polls' = <<>> /\ ev' = {} /\ ic' = 0 /\ nev' = 0
      /\ UNCHANGED <<site, j, dc, left, waited, total>>
  BY DEF Leave, At, NoPoll, time
<1>2. InBody /\ InLoop /\ ~InBody' /\ ~InLoop'
  BY <1>1 DEF InBody, InLoop
<1>3. Control'
  BY <1>1, <1>2 DEF IInv, Control, Server
<1>4. States'
  <2>1. \A k \in Server : k < dc => q'[k].state = "DONE"
    BY DEF IInv, States
  <2>2. \A k \in Server : k < mc' => q'[k].state \in Waiting \cup {"DONE"}
    <3> SUFFICES ASSUME NEW k \in Server, k < mc', k # i
                 PROVE  q[k].state \in Waiting \cup {"DONE"}
      OBVIOUS
    <3>1. Asked(k)
      BY <1>1, <1>2 DEF Asked, IInv, Control, Server
    <3> QED BY <1>2, <3>1 DEF IInv, States
  <2>3. \A k \in Server : k >= mc' => q'[k].state \in {"INITIAL", "DONE"}
    <3> SUFFICES ASSUME NEW k \in Server, k >= mc', k # i
                 PROVE  q[k].state \in {"INITIAL", "DONE"}
      OBVIOUS
    <3>1. ~Asked(k)
      BY <1>1, <1>2 DEF Asked, IInv, Control, Server
    <3> QED BY <1>2, <3>1 DEF IInv, States
  <2> QED BY <1>1, <1>2, <2>1, <2>2, <2>3 DEF States, Ending
<1>5. Events'
  BY <1>1, <1>2 DEF Events
<1>6. Clock'
  BY <1>1, <1>2 DEF IInv, Clock
<1> QED BY <1>3, <1>4, <1>5, <1>6 DEF IInv

LEMMA SettledSame ==
  ASSUME NEW c, NEW O, NEW t, Executed(c, O, t)
  PROVE  /\ Held(c, O, t) /\ c.rv \in Value
         /\ QueryInv(Settled(c.q)) /\ Settled(c.q).sock = c.q.sock
         /\ Settled(c.q).state = c.q.state /\ Settled(c.q).timeout = t
<1>1. Held(c, O, t) /\ c.rv \in Value
  BY DEF Executed, Busy, Idle, Value
<1>2. c.q \in Query
  BY <1>1 DEF Held, CallType
<1>3. QueryInv(c.q)
  BY <1>2 DEF Executed, Busy, Idle, Armed, QueryInv, Waiting, Reading, Writing, Starting, Fresh
<1> DEFINE p == Settled(c.q)
<1>4. p \in Query /\ p.sock = c.q.sock /\ p.state = c.q.state /\ p.timeout = c.q.timeout
      /\ p.msg = c.q.msg /\ p.recvbuf = c.q.recvbuf /\ p.part = c.q.part
  BY <1>2 DEF Settled, Query
<1> HIDE DEF p
<1>5. QueryInv(p)
  BY <1>3, <1>4 DEF QueryInv, Fresh
<1>6. c.q.timeout = t
  BY <1>1 DEF Held
<1> QED BY <1>1, <1>4, <1>5, <1>6 DEF p

LEMMA SwitchToTcp ==
  ASSUME NEW c, NEW O, NEW t, Executed(c, O, t), c.rv = "OK"
  PROVE  /\ QueryInv(switch_to_tcp(c.q)) /\ switch_to_tcp(c.q).sock = c.q.sock
         /\ switch_to_tcp(c.q).state = "INITIAL" /\ switch_to_tcp(c.q).timeout = t
<1>1. Held(c, O, t) /\ c.q.sock = None /\ c.q.msg # "live" /\ c.q.recvbuf \notin Allocated
  BY DEF Executed
<1>2. c.q \in Query /\ c.q.timeout = t
  BY <1>1 DEF Held, CallType
<1> DEFINE p == switch_to_tcp(c.q)
<1>3. p \in Query /\ p.sock = None /\ p.state = "INITIAL" /\ p.timeout = c.q.timeout
      /\ p.msg = c.q.msg /\ p.recvbuf = c.q.recvbuf
  BY <1>1, <1>2 DEF switch_to_tcp, Query
<1> HIDE DEF p
<1>4. QueryInv(p)
  BY <1>1, <1>3 DEF QueryInv, Waiting, Reading, Writing, Starting, Fresh
<1> QED BY <1>1, <1>2, <1>3, <1>4 DEF p

LEMMA QualityRange ==
  ASSUME NEW c, c.failed \in {0, 1, 3}, NEW a \in {0, 1}
  PROVE  Quality(c, a) \in 0 .. 15
<1>1. (3 - c.failed) * 2 \in {0, 4, 6} /\ a * 8 \in {0, 8}
  OBVIOUS
<1> DEFINE x == (3 - c.failed) * 2
           y == a * 8
           z == IF c.tc THEN 0 ELSE 1
<1>2. z \in {0, 1}
  OBVIOUS
<1>3. Quality(c, a) = y + x + z
  BY DEF Quality
<1> HIDE DEF x, y, z
<1>4. x \in {0, 4, 6} /\ y \in {0, 8}
  BY <1>1 DEF x, y
<1> QED BY <1>2, <1>3, <1>4

LEMMA ExecQueryKeeps == IInv /\ ExecQuery => IInv'
<1> SUFFICES ASSUME IInv, ExecQuery PROVE IInv'
  OBVIOUS
<1> USE ParallelQueryAssumption
<1>1. pc = "exec" /\ UNCHANGED time
  BY DEF ExecQuery
<1>2. PICK c \in p_exec_query(Call) :
        /\ open' = c.open /\ bad' = c.bad
        /\ \/ c.rv = "OK" /\ Answered(c)
           \/ /\ c.rv # "OK" /\ q' = [q EXCEPT ![i] = Settled(c.q)]
              /\ CASE c.rv = "retry" -> Stay("exec", rv)
                   [] c.rv \in {"again", "SERVFAIL", "REFUSED"} -> Stay("advance", c.rv)
                   [] c.rv \in {"NAMEERR", "FATALERR"} -> Leave(c.rv)
              /\ UNCHANGED <<qse, save, serv, ents, best>>
  BY DEF ExecQuery
<1> DEFINE O == Sockets(Server \ {i})
           p == Settled(c.q)
<1>3. i \in Server /\ i < mc /\ Executed(c, O, q[i].timeout)
  BY <1>1, ExecHeld
<1>4. Held(c, O, q[i].timeout) /\ c.rv \in Value /\ QueryInv(p) /\ p.sock = c.q.sock
      /\ p.state = c.q.state /\ p.timeout = q[i].timeout
  BY <1>3, SettledSame
<1> HIDE DEF O, p
<1>5. InLoop /\ save \in [qual : {None} \cup 0 .. 15, serv : BOOLEAN] /\ total' = total
  BY <1>1 DEF InLoop, IInv, Results, time
<1>6. ASSUME q' = [q EXCEPT ![i] = p]
      PROVE  Owned' /\ q'[i] = p /\ \A k \in Server \ {i} : q'[k] = q[k]
  BY <1>2, <1>3, <1>4, <1>6, ExecOwned DEF O
<1>7. CASE c.rv # "OK"
  <2>1. q' = [q EXCEPT ![i] = p] /\ UNCHANGED <<qse, save, serv, ents, best>>
    BY <1>2, <1>7 DEF p
  <2>2. Owned' /\ q'[i] = p /\ \A k \in Server \ {i} : q'[k] = q[k]
    BY <1>6, <2>1
  <2>3. CASE c.rv = "retry"
    <3>1. Stay("exec", rv)
      BY <1>2, <1>7, <2>3
    <3>2. p.state \in Starting
      BY <1>3, <1>4, <2>3 DEF Executed
    <3>3. p.state \notin {"DONE", "CANCELED"}
      BY <3>2 DEF Starting
    <3>4. pc' = "exec" /\ i' = i /\ rv' = rv
      BY <3>1 DEF Stay, At
    <3>5. Active(i)'
      BY <2>2, <3>3, <3>4 DEF Active
    <3>6. Results'
      BY <1>1, <1>3, <1>5, <2>1, <3>4, <3>5 DEF IInv, Results, InLoop, Saved
    <3> QED BY <1>1, <1>3, <1>4, <2>2, <3>1, <3>3, <3>6, StayKeeps
  <2>4. CASE c.rv \in {"again", "SERVFAIL", "REFUSED"}
    <3>1. Stay("advance", c.rv)
      BY <1>2, <1>7, <2>4
    <3>2. p.state \in Waiting \cup {"DONE"} /\ (c.rv = "again" => p.state \in Waiting)
      BY <1>3, <1>4, <2>4 DEF Executed
    <3>3. pc' = "advance" /\ i' = i /\ rv' = c.rv
      BY <3>1 DEF Stay, At
    <3>4. c.rv = "again" => Active(i)'
      BY <2>2, <3>2, <3>3 DEF Active, Waiting, Reading, Writing
    <3>5. Results'
      BY <1>1, <1>3, <1>5, <2>1, <2>4, <3>3, <3>4 DEF IInv, Results, InLoop, Saved, Code
    <3> QED BY <1>1, <1>3, <1>4, <2>2, <3>1, <3>2, <3>5, StayKeeps
  <2>5. CASE c.rv \in {"NAMEERR", "FATALERR"}
    <3>1. Leave(c.rv)
      BY <1>2, <1>7, <2>5
    <3>2. p.state = "DONE"
      BY <1>3, <1>4, <2>5 DEF Executed
    <3>3. pc' = "done" /\ rv' = c.rv
      BY <3>1 DEF Leave, At
    <3>4. Results'
      BY <1>1, <1>5, <2>1, <2>5, <3>3 DEF IInv, Results, InLoop, Saved, Code
    <3> QED BY <1>1, <1>3, <2>2, <3>1, <3>2, <3>4, LeaveKeeps
  <2> QED BY <1>4, <1>7, <2>3, <2>4, <2>5 DEF Value
<1>8. CASE c.rv = "OK"
  <2>1. Answered(c)
    BY <1>2, <1>8
  <2>2. PICK authok \in auth_ok(c) : \E srv \in (IF authok = 1 THEN BOOLEAN ELSE {FALSE}) :
          LET more == c.q.qm = "UDP_TCP" /\ c.tc
          IN \/ /\ authok = -1 /\ Leave("FATALERR")
                /\ q' = [q EXCEPT ![i] = Settled(c.q)] /\ UNCHANGED <<qse, save, serv, ents, best>>
             \/ /\ authok = 1 /\ c.failed = 0 /\ ~more /\ Leave("OK")
                /\ q' = [q EXCEPT ![i] = Settled(c.q)] /\ qse' = i /\ serv' = srv
                /\ ents' = ents + 1 /\ UNCHANGED <<save, best>>
             \/ /\ authok = 0 \/ (authok = 1 /\ (c.failed # 0 \/ more))
                /\ save_query_result(Quality(c, authok), srv)
                /\ best' = Greater(best, Quality(c, authok))
                /\ q' = [q EXCEPT ![i] = IF more THEN switch_to_tcp(c.q) ELSE Settled(c.q)]
                /\ Stay(IF more THEN "exec" ELSE "advance", "OK") /\ UNCHANGED serv
    BY <2>1, Zenon DEF Answered
  <2> DEFINE more == c.q.qm = "UDP_TCP" /\ c.tc
  <2>3. PICK srv \in (IF authok = 1 THEN BOOLEAN ELSE {FALSE}) :
             \/ /\ authok = -1 /\ Leave("FATALERR")
                /\ q' = [q EXCEPT ![i] = p] /\ UNCHANGED <<qse, save, serv, ents, best>>
             \/ /\ authok = 1 /\ c.failed = 0 /\ ~more /\ Leave("OK")
                /\ q' = [q EXCEPT ![i] = p] /\ qse' = i /\ serv' = srv
                /\ ents' = ents + 1 /\ UNCHANGED <<save, best>>
             \/ /\ authok = 0 \/ (authok = 1 /\ (c.failed # 0 \/ more))
                /\ save_query_result(Quality(c, authok), srv)
                /\ best' = Greater(best, Quality(c, authok))
                /\ q' = [q EXCEPT ![i] = IF more THEN switch_to_tcp(c.q) ELSE p]
                /\ Stay(IF more THEN "exec" ELSE "advance", "OK") /\ UNCHANGED serv
    BY <2>2, Zenon DEF p
  <2> HIDE DEF more
  <2>4. p.state = "DONE"
    BY <1>3, <1>4, <1>8 DEF Executed
  <2>5. srv \in BOOLEAN
    OBVIOUS
  <2>6. CASE authok = -1 /\ Leave("FATALERR") /\ q' = [q EXCEPT ![i] = p]
             /\ UNCHANGED <<qse, save, serv, ents, best>>
    <3>1. pc' = "done" /\ rv' = "FATALERR"
      BY <2>6 DEF Leave, At
    <3>2. Results'
      BY <1>1, <1>5, <2>6, <3>1 DEF IInv, Results, InLoop, Saved, Code
    <3> QED BY <1>1, <1>3, <1>6, <2>4, <2>6, <3>2, LeaveKeeps
  <2>7. CASE Leave("OK") /\ q' = [q EXCEPT ![i] = p] /\ qse' = i /\ serv' = srv
             /\ ents' = ents + 1 /\ UNCHANGED <<save, best>>
    <3>1. pc' = "done" /\ rv' = "OK"
      BY <2>7 DEF Leave, At
    <3>2. i # None
      BY <1>3 DEF Server, None
    <3>3. Results'
      BY <1>1, <1>3, <1>5, <2>5, <2>7, <3>1, <3>2 DEF IInv, Results, InLoop, Saved, Code
    <3> QED BY <1>1, <1>3, <1>6, <2>4, <2>7, <3>3, LeaveKeeps
  <2>8. CASE /\ authok \in {0, 1} /\ save_query_result(Quality(c, authok), srv)
             /\ best' = Greater(best, Quality(c, authok))
             /\ q' = [q EXCEPT ![i] = IF more THEN switch_to_tcp(c.q) ELSE p]
             /\ Stay(IF more THEN "exec" ELSE "advance", "OK") /\ UNCHANGED serv
    <3> DEFINE w == IF more THEN switch_to_tcp(c.q) ELSE p
               pp == IF more THEN "exec" ELSE "advance"
               ql == Quality(c, authok)
    <3>1. QueryInv(w) /\ w.sock = c.q.sock /\ w.timeout = q[i].timeout
          /\ w.state = (IF more THEN "INITIAL" ELSE "DONE")
      BY <1>3, <1>4, <1>8, <2>4, SwitchToTcp
    <3>2. q' = [q EXCEPT ![i] = w] /\ Stay(pp, "OK")
      BY <2>8
    <3>3. pp \in {"exec", "advance"} /\ (pp = "advance" => w.state \in Waiting \cup {"DONE"})
          /\ (pp = "exec" => w.state \notin {"DONE", "CANCELED"})
      BY <3>1
    <3>4. ql \in 0 .. 15
      BY <1>4, <2>8, QualityRange DEF Held, CallType
    <3> HIDE DEF w, pp, ql
    <3>5. Owned' /\ q'[i] = w /\ \A k \in Server \ {i} : q'[k] = q[k]
      BY <1>2, <1>3, <1>4, <3>1, <3>2, ExecOwned DEF O
    <3>6. pc' \in {"exec", "advance"} /\ rv' = "OK"
      BY <3>2, <3>3 DEF Stay, At
    <3>7. Results'
      <4>1. save.qual = best /\ ents = (IF Saved THEN 1 ELSE 0) /\ best \in {None} \cup 0 .. 15
            /\ (Saved => qse # None) /\ qse \in Server \cup {None} /\ serv' \in BOOLEAN
            /\ (~Saved => save.serv = FALSE)
        BY <1>5, <2>8 DEF IInv, Results
      <4>2. best' = Greater(best, ql) /\ save_query_result(ql, srv)
        BY <2>8 DEF ql
      <4>3. CASE save.qual = None \/ ql > save.qual
        <5>1. save' = [qual |-> ql, serv |-> srv] /\ qse' = i
              /\ ents' = (IF save.qual = None THEN ents + 1 ELSE ents)
          BY <4>2, <4>3 DEF save_query_result
        <5>2. best' = ql /\ ql # None
          BY <3>4, <4>1, <4>2, <4>3 DEF Greater, None
        <5>3. save'.qual = best' /\ Saved' /\ qse' # None /\ qse' \in Server /\ ents' = 1
              /\ save' \in [qual : {None} \cup 0 .. 15, serv : BOOLEAN]
          BY <1>3, <2>5, <3>4, <4>1, <5>1, <5>2 DEF Saved, Server, None
        <5> QED BY <3>4, <3>6, <4>1, <5>2, <5>3 DEF Results, InLoop, Code
      <4>4. CASE ~(save.qual = None \/ ql > save.qual)
        <5>1. UNCHANGED <<save, qse, ents>>
          BY <4>2, <4>4 DEF save_query_result
        <5>2. best' = best
          BY <3>4, <4>1, <4>2, <4>4 DEF Greater
        <5> QED BY <1>5, <3>6, <4>1, <4>4, <5>1, <5>2 DEF Results, InLoop, Code, Saved
      <4> QED BY <4>3, <4>4
    <3> QED BY <1>1, <1>3, <3>1, <3>2, <3>3, <3>5, <3>7, StayKeeps
  <2> QED BY <2>3, <2>6, <2>7, <2>8
<1> QED BY <1>7, <1>8

-----------------------------------------------------------------------------
(* The end of p_recursive_query.                                               *)

LEMMA DoneKeeps == IInv /\ Done => IInv'
<1> SUFFICES ASSUME IInv, Done PROVE IInv'
  OBVIOUS
<1> USE ParallelQueryAssumption
<1>1. pc = "done" /\ pc' = "cancel" /\ site' = "init" /\ i' = 0
      /\ save' = NoAnswer /\ ents' = (IF save = NoAnswer THEN ents ELSE ents - 1)
      /\ UNCHANGED <<j, dc, mc, q, rv, qse, serv, polls, ev, ic, nev, left, waited, total, best>>
  BY DEF Done, At, queries, polling, time
<1>2. Owned'
  BY OwnedSame DEF IInv, Done
<1>3. Control'
  BY <1>1 DEF IInv, Control, InLoop, InBody
<1>4. States'
  BY <1>1 DEF IInv, States, InLoop, Ending
<1>5. Events'
  BY <1>1 DEF IInv, Events, InBody
<1>6. Clock'
  BY <1>1 DEF IInv, Clock, InBody
<1>7. Results'
  <2>1. save \in [qual : {None} \cup 0 .. 15, serv : BOOLEAN] /\ (~Saved => save.serv = FALSE)
    BY DEF IInv, Results
  <2>2. Saved <=> save # NoAnswer
    BY <2>1 DEF Saved, NoAnswer
  <2>3. ~Saved' /\ save'.serv = FALSE /\ save' \in [qual : {None} \cup 0 .. 15, serv : BOOLEAN]
    BY <1>1 DEF Saved, NoAnswer
  <2> QED BY <1>1, <2>2, <2>3 DEF IInv, Results, InLoop
<1> QED BY <1>2, <1>3, <1>4, <1>5, <1>6, <1>7 DEF IInv

(* p_cancel_query on one of the queries that wait or are over.                   *)
LEMMA CancelOne ==
  ASSUME Owned, NEW k \in Server, q[k].state \in Waiting \cup {"DONE"}
  PROVE  LET d == p_cancel_query([Call EXCEPT !.q = q[k]])
         IN /\ d.bad \subseteq {"emptied"} /\ QueryInv(d.q) /\ d.q.sock = None
            /\ d.q.state \in {"DONE", "CANCELED"}
            /\ open \ d.open = (IF q[k].state \in Waiting THEN {q[k].sock} ELSE {})
<1> DEFINE O == Sockets(Server \ {k})
           t == q[k].timeout
           c == [Call EXCEPT !.q = q[k]]
           d == p_cancel_query(c)
<1>1. QueryInv(q[k]) /\ q[k] \in Query /\ bad \subseteq {"emptied"} /\ open \subseteq Fd
  BY DEF Owned, QueryInv, Sockets, Query
<1>2. c \in CallType /\ c.q = q[k] /\ c.open = open /\ c.bad = bad /\ c.rv = "again"
  BY <1>1 DEF Call, CallType, Value, Twice
<1>3. q[k].sock \notin O /\ open = O \cup ({q[k].sock} \ {None}) /\ O \subseteq Fd /\ O # Fd
  BY OwnSocket, OthersLeaveOne
<1> HIDE DEF O
<1>4. Held(c, O, t)
  <2> HIDE DEF c
  <2> QED BY <1>1, <1>2, <1>3 DEF Held
<1>5. CASE q[k].state \in Waiting
  <2> DEFINE a == Close(c)
             m == FreeMsg(FreeBuf(a))
  <2> HIDE DEF c
  <2>1. d = Ret(m, "CANCELED", "again")
    <3>1. c.q.state \in Reading \cup Writing /\ c.rv = "again" /\ c.q.state \notin Starting
      BY <1>2, <1>5 DEF Waiting, Reading, Writing, Starting
    <3>2. p_cancel_query(c) = Ret(m, "CANCELED", c.rv)
      <4> HIDE DEF a, m, d
      <4> QED BY <3>1 DEF p_cancel_query, a, m
    <3> QED BY <3>1, <3>2
  <2> HIDE DEF d
  <2>2. Busy(c, O, t)
    BY <1>1, <1>2, <1>4, <1>5 DEF Busy, Armed, QueryInv
  <2>3. Idle(a, O, t)
    BY <2>2, CloseReleases
  <2> HIDE DEF a
  <2>4. Held(m, O, t) /\ m.q.sock = None /\ m.q.msg # "live" /\ m.q.recvbuf \notin Allocated
    <3> DEFINE b == FreeBuf(a)
    <3>1. Held(b, O, t) /\ b.q.sock = None /\ b.q.msg = "live" /\ b.q.recvbuf = "freed"
      BY <2>3 DEF FreeBuf, Blame, Idle, Held, CallType, Query, Armed
    <3> HIDE DEF b
    <3>2. Held(FreeMsg(b), O, t) /\ FreeMsg(b).q.sock = None /\ FreeMsg(b).q.msg = "freed"
          /\ FreeMsg(b).q.recvbuf = "freed"
      BY <3>1 DEF FreeMsg, Blame, Held, CallType, Query
    <3> QED BY <3>2 DEF b, Allocated
  <2> HIDE DEF m
  <2>5. Held(d, O, t) /\ d.q.sock = None /\ d.q.msg # "live" /\ d.q.recvbuf \notin Allocated
        /\ d.q.state = "CANCELED"
    BY <2>1, <2>4, RetKeeps DEF State, Value
  <2>6. "CANCELED" \notin Waiting /\ "CANCELED" \notin Starting
    BY DEF Waiting, Reading, Writing, Starting
  <2>7. QueryInv(d.q) /\ d.bad \subseteq {"emptied"} /\ d.open = O
    BY <2>5, <2>6, FdFacts DEF QueryInv, Held, CallType, Fresh
  <2>8. q[k].sock # None
    BY <1>1, <1>5 DEF QueryInv
  <2>9. open \ d.open = {q[k].sock}
    BY <1>3, <2>7, <2>8
  <2> QED BY <1>5, <2>5, <2>7, <2>9 DEF d, c
<1>6. CASE q[k].state = "DONE"
  <2>1. q[k].state \notin Waiting /\ q[k].state \notin Starting
    BY <1>6 DEF Waiting, Reading, Writing, Starting
  <2>2. d = c
    BY <1>2, <2>1 DEF p_cancel_query, Waiting
  <2> HIDE DEF c, d
  <2>3. q[k].sock = None /\ open \ d.open = {}
    BY <1>1, <1>2, <2>1, <2>2 DEF QueryInv
  <2>4. d.q = q[k] /\ d.bad \subseteq {"emptied"}
    BY <1>1, <1>2, <2>2
  <2> QED BY <1>1, <1>6, <2>1, <2>3, <2>4 DEF d, c
<1> QED BY <1>5, <1>6

LEMMA CancelKeeps == IInv /\ Cancel => IInv'
<1> SUFFICES ASSUME IInv, Cancel PROVE IInv'
  OBVIOUS
<1> USE ParallelQueryAssumption
<1> DEFINE c == [k \in dc .. mc - 1 |-> p_cancel_query([Call EXCEPT !.q = q[k]])]
           shut(k) == open \ c[k].open
<1>1. pc = "cancel" /\ pc' = "finish" /\ site' = "init" /\ i' = 0
      /\ UNCHANGED <<j, dc, mc, rv, qse, save, serv, ents, polls, ev, ic, nev, left, waited, total,
                     best>>
  BY DEF Cancel, At, result, polling, time
<1>2. /\ q' = [k \in Server |-> IF k \in DOMAIN c THEN c[k].q ELSE q[k]]
      /\ open' = open \ UNION {shut(k) : k \in DOMAIN c}
      /\ bad' = (bad \cup UNION {c[k].bad : k \in DOMAIN c})
                 \cup {t \in {"sock"} :
                        \E k, n \in DOMAIN c : k # n /\ shut(k) \cap shut(n) # {}}
  BY Zenon DEF Cancel
<1>3. DOMAIN c = dc .. mc - 1 /\ \A k \in dc .. mc - 1 : k \in Server
  BY DEF IInv, Control, Server
<1>4. \A k \in Server : /\ k < mc => q[k].state \in Waiting \cup {"DONE"}
                        /\ k < dc => q[k].state = "DONE"
                        /\ k >= mc => q[k].state \in {"INITIAL", "DONE"}
  BY <1>1 DEF IInv, States
<1>5. \A k \in dc .. mc - 1 :
        /\ c[k].bad \subseteq {"emptied"} /\ QueryInv(c[k].q) /\ c[k].q.sock = None
        /\ c[k].q.state \in {"DONE", "CANCELED"}
        /\ shut(k) = (IF q[k].state \in Waiting THEN {q[k].sock} ELSE {})
  <2> SUFFICES ASSUME NEW k \in dc .. mc - 1
               PROVE  /\ c[k].bad \subseteq {"emptied"} /\ QueryInv(c[k].q) /\ c[k].q.sock = None
                      /\ c[k].q.state \in {"DONE", "CANCELED"}
                      /\ shut(k) = (IF q[k].state \in Waiting THEN {q[k].sock} ELSE {})
    OBVIOUS
  <2>1. k \in Server /\ q[k].state \in Waiting \cup {"DONE"}
    BY <1>3, <1>4 DEF IInv, Control, Server
  <2>2. c[k] = p_cancel_query([Call EXCEPT !.q = q[k]])
    OBVIOUS
  <2> HIDE DEF c
  <2> QED BY <2>1, <2>2, CancelOne DEF IInv
<1> HIDE DEF c
<1>6. "INITIAL" \notin Waiting /\ "DONE" \notin Waiting /\ "CANCELED" \notin Waiting
  BY DEF Waiting, Reading, Writing
<1>7. \A k \in Server : q[k].state \in Waiting => k \in dc .. mc - 1
  BY <1>4, <1>6 DEF IInv, Control, Server
<1>8. q' \in [Server -> Query] /\ \A k \in Server : QueryInv(q'[k]) /\ q'[k].sock = None
      /\ q'[k].state \in {"INITIAL", "DONE", "CANCELED"}
  <2>1. ASSUME NEW k \in Server
        PROVE  QueryInv(q'[k]) /\ q'[k].sock = None
               /\ q'[k].state \in {"INITIAL", "DONE", "CANCELED"}
    <3>1. CASE k \in dc .. mc - 1
      <4>1. q'[k] = c[k].q
        BY <1>2, <1>3, <3>1
      <4> QED BY <1>5, <3>1, <4>1
    <3>2. CASE k \notin dc .. mc - 1
      <4>1. q'[k] = q[k]
        BY <1>2, <1>3, <3>2
      <4>2. QueryInv(q[k])
        BY DEF IInv, Owned
      <4>3. q[k].state \in {"INITIAL", "DONE"}
        BY <1>4, <3>2 DEF IInv, Control, Server
      <4> QED BY <1>6, <4>1, <4>2, <4>3 DEF QueryInv
    <3> QED BY <3>1, <3>2
  <2>2. \A k \in Server : q'[k] \in Query
    BY <2>1 DEF QueryInv
  <2>3. q' = [k \in Server |-> q'[k]]
    BY <1>2
  <2> QED BY <2>1, <2>2, <2>3
<1>9. open' = {}
  <2> SUFFICES ASSUME NEW s \in open PROVE \E k \in DOMAIN c : s \in shut(k)
    BY <1>2
  <2>1. PICK k \in Server : q[k].state \in Waiting /\ s = q[k].sock
    BY DEF IInv, Owned, Sockets
  <2> QED BY <1>3, <1>5, <1>7, <2>1
<1>10. bad' \subseteq {"emptied"}
  <2>1. bad \subseteq {"emptied"}
    BY DEF IInv, Owned
  <2>2. UNION {c[k].bad : k \in DOMAIN c} \subseteq {"emptied"}
    BY <1>3, <1>5
  <2>3. ~ \E k, n \in DOMAIN c : k # n /\ shut(k) \cap shut(n) # {}
    <3> SUFFICES ASSUME NEW k \in dc .. mc - 1, NEW n \in dc .. mc - 1, k # n
                 PROVE  shut(k) \cap shut(n) = {}
      BY <1>3
    <3>1. q[k].state \in Waiting /\ q[n].state \in Waiting => q[k].sock # q[n].sock
      BY <1>3 DEF IInv, Owned
    <3>2. /\ shut(k) = (IF q[k].state \in Waiting THEN {q[k].sock} ELSE {})
          /\ shut(n) = (IF q[n].state \in Waiting THEN {q[n].sock} ELSE {})
      BY <1>5
    <3> HIDE DEF shut
    <3> QED BY <3>1, <3>2
  <2>4. {t \in {"sock"} : \E k, n \in DOMAIN c : k # n /\ shut(k) \cap shut(n) # {}} = {}
    BY <2>3
  <2> QED BY <1>2, <2>1, <2>2, <2>4
<1>11. Owned'
  <2>1. Sockets(Server)' = {}
    BY <1>6, <1>8 DEF Sockets
  <2>2. (\A k \in Server : QueryInv(q[k]))'
    BY <1>8 DEF QueryInv
  <2> QED BY <1>6, <1>8, <1>9, <1>10, <2>1, <2>2 DEF Owned
<1>12. Control'
  BY <1>1 DEF IInv, Control, InLoop, InBody
<1>13. States'
  <2>1. \A k \in Server : k < dc' => q'[k].state = "DONE"
    <3> SUFFICES ASSUME NEW k \in Server, k < dc PROVE q'[k].state = "DONE"
      BY <1>1
    <3>1. k \notin dc .. mc - 1
      BY DEF IInv, Control, Server
    <3>2. q'[k] = q[k]
      BY <1>2, <1>3, <3>1
    <3> QED BY <1>4, <3>2
  <2> QED BY <1>1, <1>8, <2>1 DEF States, InLoop, Ending
<1>14. Events'
  BY <1>1 DEF IInv, Events, InBody
<1>15. Clock'
  BY <1>1 DEF IInv, Clock, InBody
<1>16. Results'
  <2>1. ASSUME AllAsked PROVE AllAsked'
    <3> SUFFICES ASSUME NEW k \in Server PROVE q'[k].state # "INITIAL"
      BY DEF AllAsked
    <3>1. CASE k \in dc .. mc - 1
      BY <1>2, <1>3, <1>5, <3>1
    <3>2. CASE k \notin dc .. mc - 1
      BY <1>2, <1>3, <2>1, <3>2 DEF AllAsked
    <3> QED BY <3>1, <3>2
  <2> QED BY <1>1, <2>1 DEF IInv, Results, InLoop, Saved
<1> QED BY <1>11, <1>12, <1>13, <1>14, <1>15, <1>16 DEF IInv

LEMMA FinishKeeps == IInv /\ Finish => IInv'
<1> SUFFICES ASSUME IInv, Finish PROVE IInv'
  OBVIOUS
<1> USE ParallelQueryAssumption
<1> DEFINE saved == save # NoAnswer
           ask == IF saved THEN save.serv ELSE rv = "OK" /\ serv
<1>1. pc = "finish" /\ pc' = (IF ask THEN "ask" ELSE "returned") /\ site' = "init" /\ i' = 0
      /\ rv' = (IF saved THEN "OK" ELSE IF rv = "FATALERR" THEN "SERVFAIL" ELSE rv)
      /\ UNCHANGED <<j, dc, mc, q, qse, save, serv, ents, polls, ev, ic, nev, left, waited, total,
                     best>>
  BY DEF Finish, At, queries, polling, time
<1>2. save \in [qual : {None} \cup 0 .. 15, serv : BOOLEAN] /\ (~Saved => save.serv = FALSE)
      /\ serv \in BOOLEAN
  BY DEF IInv, Results
<1>3. Saved <=> saved
  BY <1>2 DEF Saved, NoAnswer
<1>4. pc' \in {"ask", "returned"} /\ (pc' = "ask" => AskedLast /\ (Saved \/ rv = "OK"))
  BY <1>1, <1>3 DEF AskedLast
<1> HIDE DEF saved, ask
<1>5. Owned'
  BY OwnedSame DEF IInv, Finish
<1>6. Control'
  BY <1>1, <1>4 DEF IInv, Control, InLoop, InBody
<1>7. States'
  BY <1>1, <1>4 DEF IInv, States, InLoop, Ending
<1>8. Events'
  BY <1>1, <1>4 DEF IInv, Events, InBody
<1>9. Clock'
  BY <1>1, <1>4 DEF IInv, Clock, InBody
<1>10. Results'
  <2>1. (Saved' <=> Saved) /\ (AskedLast' <=> AskedLast) /\ (AllAsked' <=> AllAsked)
    BY <1>1 DEF Saved, AskedLast, AllAsked
  <2>2. rv' = "REFUSED" => best = None /\ AllAsked
    BY <1>1, <1>3 DEF IInv, Results, Saved
  <2>3. rv' = "again" => total = GlobalTimeout
    BY <1>1 DEF IInv, Results, InLoop
  <2>4. rv' \in Code \ {"CACHED", "STALE"}
    BY <1>1 DEF IInv, Results, Code
  <2> QED BY <1>1, <1>3, <1>4, <2>1, <2>2, <2>3, <2>4 DEF IInv, Results, InLoop, Saved
<1> QED BY <1>5, <1>6, <1>7, <1>8, <1>9, <1>10 DEF IInv

LEMMA AskAuthorityKeeps == IInv /\ AskAuthority => IInv'
<1> SUFFICES ASSUME IInv, AskAuthority PROVE IInv'
  OBVIOUS
<1> USE ParallelQueryAssumption
<1>1. pc = "ask" /\ pc' = "returned" /\ site' = "init" /\ i' = 0
      /\ UNCHANGED <<j, dc, mc, q, qse, save, serv, polls, ev, ic, nev, left, waited, best>>
  BY DEF AskAuthority, At, queries, polling
<1>2. /\ rv' \in Code /\ ents' = (IF rv' \in {"OK", "CACHED", "STALE"} THEN 1 ELSE 0)
      /\ total' \in {total, GlobalTimeout} /\ (rv' = "again" => total' = GlobalTimeout)
  <2>1. PICK r \in Code \ {"FATALERR"}, keep \in BOOLEAN :
          LET fallback == keep /\ r \notin {"OK", "CACHED", "NAMEERR"}
          IN /\ rv' = IF fallback THEN "OK" ELSE r
             /\ ents' = ents - (IF fallback THEN 0 ELSE 1)
                             + (IF r \in {"OK", "CACHED", "STALE"} /\ ~fallback THEN 1 ELSE 0)
             /\ total' = IF r = "again" THEN GlobalTimeout ELSE total
    BY DEF AskAuthority
  <2>2. ents = 1
    BY <1>1 DEF IInv, Results
  <2>3. CASE keep /\ r \notin {"OK", "CACHED", "NAMEERR"}
    BY <2>1, <2>2, <2>3 DEF Code
  <2>4. CASE ~(keep /\ r \notin {"OK", "CACHED", "NAMEERR"})
    BY <2>1, <2>2, <2>4 DEF Code
  <2> QED BY <2>3, <2>4
<1>3. Owned'
  BY OwnedSame DEF IInv, AskAuthority
<1>4. Control'
  BY <1>1 DEF IInv, Control, InLoop, InBody
<1>5. States'
  BY <1>1 DEF IInv, States, InLoop, Ending
<1>6. Events'
  BY <1>1 DEF IInv, Events, InBody
<1>7. Clock'
  BY <1>1, <1>2 DEF IInv, Clock, InBody
<1>8. Results'
  <2>1. AskedLast'
    BY <1>1 DEF IInv, Results, AskedLast, Saved
  <2> QED BY <1>1, <1>2, <2>1 DEF IInv, Results, InLoop, Saved
<1> QED BY <1>3, <1>4, <1>5, <1>6, <1>7, <1>8 DEF IInv

LEMMA StutterKeeps == IInv /\ UNCHANGED vars => IInv'
<1> SUFFICES ASSUME IInv, UNCHANGED vars PROVE IInv'
  OBVIOUS
<1>1. UNCHANGED <<pc, site, i, j, dc, mc, q, open, bad, rv, qse, save, serv, ents, polls, ev, ic,
                  nev, left, waited, total, best>>
  BY DEF vars, loop, queries, result, polling, time
<1>2. Owned'
  BY <1>1 DEF IInv, Owned, Sockets, QueryInv
<1>3. Control' /\ States' /\ Results'
  BY <1>1 DEF IInv, Control, States, Asked, Results, InLoop, InBody, Ending, Saved, Active,
              AskedLast, AllAsked
<1>4. Events'
  <2>0. i \in Nat /\ dc \in Nat /\ mc \in Nat /\ ic \in Nat /\ Len(polls) \in Nat
    BY DEF IInv, Control, Events
  <2>1. Matched(dc, i - 1) => Matched(dc, i - 1)'
    BY <1>1, <2>0 DEF Matched, Active
  <2>2. Matched(dc, mc - 1) => Matched(dc, mc - 1)'
    BY <1>1 DEF Matched, Active
  <2>3. Matched(i, mc - 1) => Matched(i, mc - 1)'
    BY <1>1 DEF Matched, Active
  <2>4. Matched(i + 1, mc - 1) => Matched(i + 1, mc - 1)'
    BY <1>1 DEF Matched, Active
  <2> QED BY <1>1, <2>1, <2>2, <2>3, <2>4 DEF IInv, Events, InBody
<1>5. Clock'
  BY <1>1 DEF IInv, Clock, InBody, Active, UseGlobal, tentative_tcp_query
<1> QED BY <1>2, <1>3, <1>4, <1>5 DEF IInv

(* Every step of p_recursive_query keeps the invariant.                          *)
LEMMA NextKeeps == IInv /\ [Next]_vars => IInv'
  BY VisitInitKeeps, VisitTimeoutKeeps, VisitEventKeeps, AdvanceInitKeeps, AdvanceTimeoutKeeps,
     AdvanceEventKeeps, BuildKeeps, CallPollKeeps, ExecQueryKeeps, DoneKeeps, CancelKeeps,
     FinishKeeps, AskAuthorityKeeps, TickKeeps, LateKeeps, PollEventsKeeps, PollFailsKeeps,
     PollTimeoutKeeps, StutterKeeps
  DEF Next, Step, Returned

(* The invariant holds in every state of every behaviour of p_recursive_query,    *)
(* for any number of servers and any par_queries.                              *)
THEOREM Invariance == Spec => []IInv
<1>1. Init => IInv
  BY InitKeeps
<1>2. IInv /\ [Next]_vars => IInv'
  BY NextKeeps
<1> QED BY <1>1, <1>2, PTL DEF Spec

-----------------------------------------------------------------------------
(* What follows from the invariant.                                           *)

(* The waiting queries are as many as the open descriptors.                      *)
LEMMA OneSocketEach ==
  ASSUME IInv
  PROVE  Cardinality(open) = Cardinality({k \in Server : q[k].state \in Reading \cup Writing})
<1> DEFINE W == {k \in Server : q[k].state \in Waiting}
           f == [k \in W |-> q[k].sock]
<1>1. open = {q[k].sock : k \in W}
  BY DEF IInv, Owned, Sockets
<1>2. f \in Bijection(W, open)
  <2>1. f \in [W -> open]
    BY <1>1
  <2>2. \A a, b \in W : f[a] = f[b] => a = b
    BY DEF IInv, Owned
  <2>3. \A s \in open : \E k \in W : f[k] = s
    BY <1>1
  <2> HIDE DEF f
  <2>4. f \in Injection(W, open)
    BY <2>1, <2>2 DEF Injection, IsInjective
  <2>5. f \in Surjection(W, open)
    BY <2>1, <2>3 DEF Surjection
  <2> QED BY <2>4, <2>5 DEF Bijection
<1>3. IsFiniteSet(W)
  <2>1. IsFiniteSet(Server)
    BY FS_Interval, ParallelQueryAssumption DEF Server
  <2> QED BY <2>1, FS_Subset
<1>4. ExistsBijection(W, open)
  <2> HIDE DEF f
  <2> QED BY <1>2 DEF ExistsBijection
<1>5. Cardinality(open) = Cardinality(W)
  <2> HIDE DEF W
  <2> QED BY <1>3, <1>4, FS_Bijection
<1> QED BY <1>5 DEF Waiting

LEMMA Accounts == IInv => Accounted
<1> SUFFICES ASSUME IInv PROVE Accounted
  OBVIOUS
<1> USE ParallelQueryAssumption
<1>1. TypeOK
  <2>1. ents \in 0 .. 2
    BY DEF IInv, Results, Control, InLoop
  <2>2. {i, j, dc, mc} \subseteq 0 .. NumServers
    BY DEF IInv, Control
  <2>3. open \subseteq Fd
    <3>1. \A k \in Server : q[k].state \in Waiting => q[k].sock \in Fd
      BY DEF IInv, Owned, QueryInv, Query
    <3> QED BY <3>1 DEF IInv, Owned, Sockets
  <2> QED BY <2>1, <2>2, <2>3 DEF TypeOK, IInv, Control, Owned, Events, Clock, Results, Greater,
                                  Twice
<1>2. ResourcesOwned
  BY OneSocketEach DEF ResourcesOwned, IInv, Owned, Sockets, QueryInv, Waiting
<1>3. NothingLeft
  <2> SUFFICES ASSUME pc = "returned"
               PROVE  /\ open = {} /\ \A k \in Server : q[k].msg # "live" /\ q[k].recvbuf \notin Allocated
                      /\ ents = IF rv \in {"OK", "CACHED", "STALE"} THEN 1 ELSE 0
    BY DEF NothingLeft
  <2>1. \A k \in Server : q[k].state \in {"INITIAL", "DONE", "CANCELED"}
    BY DEF IInv, States, Ending
  <2>2. open = {}
    BY <2>1 DEF IInv, Owned, Sockets, Waiting, Reading, Writing
  <2>3. \A k \in Server : q[k].msg # "live" /\ q[k].recvbuf \notin Allocated
    BY <2>1 DEF IInv, Owned, QueryInv
  <2>4. ents = IF rv \in {"OK", "CACHED", "STALE"} THEN 1 ELSE 0
    BY DEF IInv, Results
  <2> QED BY <2>2, <2>3, <2>4
<1>4. ReturnsCode
  <2> SUFFICES ASSUME pc = "returned"
               PROVE  /\ rv = "again" => total = GlobalTimeout
                      /\ rv = "REFUSED" /\ ~(IF save # NoAnswer THEN save.serv ELSE serv) =>
                           best = None /\ \A k \in Server : q[k].state # "INITIAL"
    BY DEF ReturnsCode
  <2>1. save \in [qual : {None} \cup 0 .. 15, serv : BOOLEAN] /\ (~Saved => save.serv = FALSE)
    BY DEF IInv, Results
  <2>2. Saved <=> save # NoAnswer
    BY <2>1 DEF Saved, NoAnswer
  <2>3. AskedLast <=> (IF save # NoAnswer THEN save.serv ELSE serv)
    BY <2>2 DEF AskedLast
  <2>4. rv = "again" => total = GlobalTimeout
    BY DEF IInv, Results, InLoop
  <2>5. rv = "REFUSED" => AskedLast \/ (best = None /\ AllAsked)
    BY DEF IInv, Results
  <2> QED BY <2>3, <2>4, <2>5 DEF AllAsked
<1> QED BY <1>1, <1>2, <1>3, <1>4 DEF Accounted

(* p_recursive_query, p_query_sm, p_exec_query and p_cancel_query: however TCP,    *)
(* UDP, failures and retries follow each other, every socket open is that of one   *)
(* waiting query, nothing is closed or freed twice but the receive buffer of a query  *)
(* that is asked again and gets a reply of length 0, nothing is left at the return,  *)
(* -1 is returned only after the global timeout, and a server's failure code only    *)
(* when no server gave any answer or the authoritative servers were asked last.      *)
THEOREM ResourcesAccounted == Spec => []Accounted
  BY Invariance, Accounts, PTL

(* The loop over the events of poll(): the assertion "file descriptor not found in  *)
(* poll() array" holds for any number of queries, and the events counted in nevents  *)
(* are all handled by the end of the loop.                                       *)
THEOREM PollArrayMatched == Spec => []EventsMatched
<1>1. IInv => EventsMatched
  <2> SUFFICES ASSUME IInv PROVE EventsMatched
    OBVIOUS
  <2>1. pc # "assert"
    BY DEF IInv, Control
  <2>2. ASSUME site = "events", pc \in {"visit", "exec", "advance"}
        PROVE  nev = Cardinality({k \in ev : k > ic})
    BY <2>2 DEF IInv, Events, InBody
  <2>3. ASSUME site = "events", pc = "advance", i + 1 = mc
        PROVE  nev = 0
    BY <2>3, NothingAfter DEF InBody
  <2> QED BY <2>1, <2>2, <2>3 DEF EventsMatched
<1> QED BY <1>1, Invariance, PTL

(* An answer is saved when its quality is set.                                  *)
LEMMA SavedAnswer == IInv => (save # NoAnswer <=> Saved)
<1> SUFFICES ASSUME IInv PROVE save # NoAnswer <=> Saved
  OBVIOUS
<1>1. save \in [qual : {None} \cup 0 .. 15, serv : BOOLEAN] /\ (~Saved => save.serv = FALSE)
  BY DEF IInv, Results
<1> QED BY <1>1 DEF Saved, NoAnswer

(* save_query_result and the end of p_recursive_query: the unsatisfactory answer     *)
(* that is kept is the best of all that came, and an answer that is used has its     *)
(* server and is the only entry alive.                                           *)
THEOREM BestAnswerKept == Spec => []BestKept
<1>1. IInv => BestKept
  BY SavedAnswer DEF BestKept, IInv, Results
<1> QED BY <1>1, Invariance, PTL

(* Where the loop over the servers can end: when every query is over, or after the   *)
(* timeout of the last batch.                                                  *)
LEMMA EndOfLoop ==
  ASSUME IInv, Next, pc' = "cancel", pc \in {"advance", "build"}
  PROVE  \/ \A k \in Server : ~Active(k)
         \/ AdvanceTimeout /\ mc = NumServers /\ total = GlobalTimeout /\ ~(i + 1 < mc)
<1> USE ParallelQueryAssumption
<1>0. mc = Lesser(j + ParQueries, NumServers) /\ j \in Nat
  BY DEF IInv, Control, InLoop
<1>1. CASE AdvanceInit
  <2>1. ~(i + 1 < mc) /\ NextRound(DoneCount)
    BY <1>1 DEF AdvanceInit, At
  <2>2. ~(DoneCount < mc) /\ ~(j + ParQueries < NumServers)
    BY <2>1 DEF NextRound, NextBatch, At
  <2>3. \A k \in Server : k < DoneCount => q[k].state = "DONE"
    BY <1>1, DoneCountRight DEF AdvanceInit
  <2>4. DoneCount >= NumServers
    BY <1>0, <2>2, <1>1, DoneCountRight DEF Lesser, AdvanceInit, IInv, Control
  <2> QED BY <2>3, <2>4, <1>1, DoneCountRight DEF Active, Server, AdvanceInit, IInv, Control
<1>2. CASE AdvanceEvent
  <2>1. ~(i + 1 < mc) /\ NextRound(DoneCount)
    BY <1>2 DEF AdvanceEvent, At
  <2>2. ~(DoneCount < mc) /\ ~(j + ParQueries < NumServers)
    BY <2>1 DEF NextRound, NextBatch, At
  <2>3. \A k \in Server : k < DoneCount => q[k].state = "DONE"
    BY <1>2, DoneCountRight DEF AdvanceEvent
  <2>4. DoneCount >= NumServers
    BY <1>0, <2>2, <1>2, DoneCountRight DEF Lesser, AdvanceEvent, IInv, Control
  <2> QED BY <2>3, <2>4, <1>2, DoneCountRight DEF Active, Server, AdvanceEvent, IInv, Control
<1>3. CASE CallPoll
  <2>1. pc = "build" /\ i = mc /\ polls = <<>> /\ NextBatch(mc)
    BY <1>3 DEF CallPoll, At
  <2>2. ~(j + ParQueries < NumServers)
    BY <2>1 DEF NextBatch, At
  <2>3. mc = NumServers
    BY <1>0, <2>2 DEF Lesser
  <2> QED BY <2>1, <2>3, NothingToPoll DEF Active, Server
<1>4. CASE AdvanceTimeout
  <2>1. ~(i + 1 < mc)
    BY <1>4 DEF AdvanceTimeout, At
  <2>2. CASE mc = NumServers /\ nev > 0 /\ total < GlobalTimeout
    <3>1. NextRound(dc) /\ dc < mc
      BY <1>4, <2>1, <2>2 DEF AdvanceTimeout, IInv, Control, InLoop
    <3> QED BY <3>1 DEF NextRound, At
  <2>3. CASE ~(mc = NumServers /\ nev > 0 /\ total < GlobalTimeout)
    <3>1. NextBatch(dc)
      BY <1>4, <2>1, <2>3 DEF AdvanceTimeout
    <3>2. j + ParQueries >= NumServers
      BY <1>0, <3>1 DEF NextBatch, At
    <3> QED BY <1>4, <2>1, <2>3, <3>2, TimeIsUp DEF AdvanceTimeout
  <2> QED BY <2>2, <2>3
<1>5. AdvanceInit \/ AdvanceEvent \/ CallPoll \/ AdvanceTimeout
  <2>1. ~VisitInit /\ ~VisitTimeout /\ ~VisitEvent /\ ~ExecQuery /\ ~Done /\ ~Cancel /\ ~Finish
        /\ ~AskAuthority
    BY DEF VisitInit, VisitTimeout, VisitEvent, ExecQuery, Done, Cancel, Finish, AskAuthority
  <2>2. ~Build /\ ~Tick /\ ~Late /\ ~PollEvents /\ ~PollFails /\ ~PollTimeout /\ ~Returned
    BY DEF Build, At, Tick, Late, loop, PollEvents, PollFails, PollTimeout, Returned
  <2> QED BY <2>1, <2>2 DEF Next, Step
<1> QED BY <1>1, <1>2, <1>3, <1>4, <1>5

(* p_recursive_query gives up its loop over the servers only when all have been     *)
(* asked, and, while one of them may still answer, not before global.timeout and     *)
(* the timeouts of the last batch are over; an answer that came is not lost.          *)
THEOREM GivesUpInTime == Spec => GivesUpLast
<1> USE ParallelQueryAssumption
<1>1. ASSUME IInv, Next, pc' = "cancel", pc \in {"advance", "build"}
      PROVE  /\ \A k \in Server : q[k].state # "INITIAL"
             /\ best # None => save # NoAnswer
             /\ (\E k \in Server : Active(k)) =>
                  /\ total = GlobalTimeout
                  /\ \A k \in j .. mc - 1 : (Active(k) => waited >= q[k].timeout)
  <2>1. best # None => save # NoAnswer
    <3>1. save.qual = best
      BY <1>1 DEF IInv, Results, InLoop
    <3> QED BY <1>1, <3>1, SavedAnswer DEF Saved
  <2>2. CASE \A k \in Server : ~Active(k)
    BY <2>1, <2>2 DEF Active
  <2>3. CASE AdvanceTimeout /\ mc = NumServers /\ total = GlobalTimeout /\ ~(i + 1 < mc)
    <3>1. pc = "advance" /\ site = "timeout" /\ InBody
      BY <2>3 DEF AdvanceTimeout, InBody
    <3>2. \A k \in Server : q[k].state # "INITIAL"
      <4>1. \A k \in Server : q[k].state \in Waiting \cup {"DONE"}
        BY <1>1, <2>3, <3>1, BodyOver DEF Server
      <4> QED BY <4>1 DEF Waiting, Reading, Writing
    <3>3. \A k \in j .. mc - 1 : (Active(k) => waited >= q[k].timeout)
      <4> SUFFICES ASSUME NEW k \in j .. mc - 1, Active(k) PROVE waited >= q[k].timeout
        OBVIOUS
      <4>1. k \in Server
        BY <1>1, <2>3 DEF IInv, Control, Server
      <4>2. q[k].timeout <= waited
        BY <1>1, <3>1, <4>1 DEF IInv, Clock
      <4>3. q[k].timeout \in Nat /\ waited \in Nat
        BY <1>1, <4>1 DEF IInv, Owned, Query, Clock
      <4> QED BY <4>2, <4>3
    <3> QED BY <2>1, <2>3, <3>2, <3>3
  <2> QED BY <1>1, <2>2, <2>3, EndOfLoop
<1>2. IInv /\ [Next]_vars =>
        [ pc' = "cancel" /\ pc \in {"advance", "build"} =>
            /\ \A k \in Server : q[k].state # "INITIAL"
            /\ best # None => save # NoAnswer
            /\ (\E k \in Server : Active(k)) =>
                 /\ total = GlobalTimeout
                 /\ \A k \in j .. mc - 1 : (Active(k) => waited >= q[k].timeout)
        ]_vars
  BY <1>1
<1> QED BY <1>2, Invariance, PTL DEF Spec, GivesUpLast

=============================================================================
