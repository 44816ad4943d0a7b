----------------------------- MODULE Connection -----------------------------
(***************************************************************************)
(* BConnector and BConnection (system/BConnection_unix.c), the socket under  *)
(* a BSocksClient, on the reactor's job list (base/BPending.c) and epoll     *)
(* results (system/BReactor_badvpn.c).                                       *)
(*                                                                         *)
(* `c' holds the connector or connection with what the reactor keeps for it: *)
(* the list of pending jobs, the epoll result not yet dispatched, and the    *)
(* counts of the two limits.  if[d] is the state of the StreamPassInterface  *)
(* or StreamRecvInterface; o->send.state or o->recv.state is BUSY exactly    *)
(* while it is "busy".  `net' is the kernel's socket and the peer.  A user   *)
(* that is told an error or the end of the stream frees the connection       *)
(* before the handler returns, as BSocksClient and its own user do.          *)
(***************************************************************************)
EXTENDS Integers, Sequences

CONSTANTS SendLimit, RecvLimit,     \* BCONNECTION_SEND_LIMIT, BCONNECTION_RECV_LIMIT
          MaxLen,                   \* bound: length of one operation
          MaxBytes,                 \* bound: bytes each side sends
          Room                      \* size of the kernel's send buffer

ASSUME ConnectionAssumption ==
  /\ SendLimit \in Nat \ {0} /\ RecvLimit \in Nat \ {0}
  /\ MaxLen \in Nat /\ MaxBytes \in Nat /\ Room \in Nat

VARIABLES c, net

vars == <<c, net>>

Dir == {"send", "recv"}
Limit == [send |-> SendLimit, recv |-> RecvLimit]
WaitEvent == [send |-> "write", recv |-> "read"]
Event == {"read", "write", "error", "hup"}

OpJob == [send |-> "send_op", recv |-> "recv_op"]
DoneJob == [send |-> "send_done", recv |-> "recv_done"]
Job == {"connector", "recv_job", "send_op", "recv_op", "send_done", "recv_done"}

Conn ==
  [ phase : {"connecting", "up", "over"},
    if : [Dir -> {"none", "op", "busy", "done"}],
    len : [Dir -> Nat], done : [Dir -> Nat],    \* asked for, and done
    count : [Dir -> Nat],
    wait : SUBSET {"read", "write"}, hupd : BOOLEAN,
    jobs : Seq(Job), ev : SUBSET Event,
    total : [Dir -> Nat] ]                      \* bytes the user was told of

Net ==
  [ room : Nat, out : Nat,                      \* free in the buffer, accepted in all
    in : Nat, sent : Nat,                       \* to be read, sent by the peer in all
    fin : BOOLEAN, rst : BOOLEAN, err : BOOLEAN ]

TypeOK ==
  /\ c \in Conn /\ net \in Net
  /\ \A d \in Dir : c.count[d] <= Limit[d]

-----------------------------------------------------------------------------
(* The socket.                                                             *)

(* What epoll reports of it.                                                *)
Ready ==
  (IF net.in > 0 \/ net.fin \/ net.rst THEN {"read"} ELSE {})
  \cup (IF net.room > 0 \/ net.rst THEN {"write"} ELSE {})
  \cup (IF net.err THEN {"error"} ELSE {})
  \cup (IF net.rst THEN {"hup"} ELSE {})

AGAIN == -2

(* The results of write and read: -1 is an error, 0 the end of the stream.    *)
(* What came before a reset can still be read.                               *)
Result(d, len) ==
  IF d = "send"
  THEN IF net.err THEN {-1}
       ELSE IF net.room = 0 THEN {AGAIN} ELSE {n \in 1 .. len : n <= net.room}
  ELSE IF net.err /\ ~net.rst THEN {-1}
       ELSE IF net.in > 0 THEN {n \in 1 .. len : n <= net.in}
       ELSE IF net.rst THEN {-1, 0} ELSE IF net.fin THEN {0} ELSE {AGAIN}

Moved(d, n) ==
  IF d = "send" THEN [net EXCEPT !.room = net.room - n, !.out = net.out + n]
  ELSE [net EXCEPT !.in = net.in - n]

-----------------------------------------------------------------------------
(* The connection's functions.                                             *)

None == [d \in Dir |-> 0]

(* BPending_Set of a job that is not pending: it is run before the others.   *)
BPending_Set(t, j) == [t EXCEPT !.jobs = <<j>> \o t.jobs]

(* BConnection_SendAsync_Free and BConnection_RecvAsync_Free.                 *)
Async_Free(t) ==
  [t EXCEPT !.if = [d \in Dir |-> "none"], !.len = None, !.done = None,
            !.wait = {}, !.jobs = <<>>]

(* ... then BConnection_Free and BConnector_Free: the limits and the            *)
(* descriptor go, with its entry in the epoll results.                         *)
Free(t) == [Async_Free(t) EXCEPT !.phase = "over", !.count = None, !.ev = {}]

SetIf(t, d, state) == [t EXCEPT !.if = [t.if EXCEPT ![d] = state]]

WaitFor(t, d) == [t EXCEPT !.wait = t.wait \cup {WaitEvent[d]}]

(* BReactorLimit_Increment refuses.                                          *)
Exhausted(t, d) == ~t.hupd /\ t.count[d] >= Limit[d]

BReactorLimit_Increment(t, d) ==
  IF t.hupd THEN t ELSE [t EXCEPT !.count = [t.count EXCEPT ![d] = t.count[d] + 1]]

(* StreamPassInterface_Done and StreamRecvInterface_Done.                    *)
Done(t, d, n) ==
  BPending_Set(SetIf([t EXCEPT !.done = [t.done EXCEPT ![d] = n]], d, "done"), DoneJob[d])

(* Mutant of connection_send: a full socket is not waited for.               *)
Mut_send_no_wait(t, n) ==
  LET u == BReactorLimit_Increment(t, "send")
  IN  IF Exhausted(t, "send") THEN WaitFor(t, "send")
      ELSE IF n = AGAIN /\ ~t.hupd THEN u
      ELSE IF n < 0 THEN Free(t)
      ELSE Done(u, "send", n)

(* n is the result of write, if it is called.                                *)
connection_send(t, n) ==
  LET u == BReactorLimit_Increment(t, "send")
  IN  IF Exhausted(t, "send") THEN WaitFor(t, "send")
      ELSE IF n = AGAIN /\ ~t.hupd THEN WaitFor(u, "send")
      ELSE IF n < 0 THEN Free(t)
      ELSE Done(u, "send", n)

(* Mutant of connection_recv: the end of the stream is a receive of nothing.   *)
Mut_recv_end_is_done(t, n) ==
  LET u == BReactorLimit_Increment(t, "recv")
  IN  IF Exhausted(t, "recv") THEN WaitFor(t, "recv")
      ELSE IF n = AGAIN /\ ~t.hupd THEN WaitFor(u, "recv")
      ELSE IF n < 0 THEN Free(t)
      ELSE Done(u, "recv", n)

(* Mutant of connection_recv: the limit is reached, and nothing waited for.    *)
Mut_recv_limit_no_wait(t, n) ==
  LET u == BReactorLimit_Increment(t, "recv")
  IN  IF Exhausted(t, "recv") THEN t
      ELSE IF n = AGAIN /\ ~t.hupd THEN WaitFor(u, "recv")
      ELSE IF n <= 0 THEN Free(t)
      ELSE Done(u, "recv", n)

(* n is the result of read, if it is called; 0 is the end of the stream.       *)
connection_recv(t, n) ==
  LET u == BReactorLimit_Increment(t, "recv")
  IN  IF Exhausted(t, "recv") THEN WaitFor(t, "recv")
      ELSE IF n = AGAIN /\ ~t.hupd THEN WaitFor(u, "recv")
      ELSE IF n <= 0 THEN Free(t)
      ELSE Done(u, "recv", n)

(* A call of connection_send or connection_recv, in the state t.             *)
Transfer(t, d) ==
  \E n \in Result(d, t.len[d]) :
    /\ c' = IF d = "send" THEN connection_send(t, n) ELSE connection_recv(t, n)
    /\ net' = IF Exhausted(t, d) \/ n <= 0 THEN net ELSE Moved(d, n)

-----------------------------------------------------------------------------
(* BConnector_Init: connect is in progress, or has succeeded at once.         *)
Start(jobs, wait) ==
  [ phase |-> "connecting", if |-> [d \in Dir |-> "none"], len |-> None,
    done |-> None, count |-> None, wait |-> wait, hupd |-> FALSE,
    jobs |-> jobs, ev |-> {}, total |-> None ]

Init ==
  \E at_once \in BOOLEAN :
    /\ c = Start(IF at_once THEN <<"connector">> ELSE <<>>,
                 IF at_once THEN {} ELSE {"write"})
    /\ net = [ room |-> IF at_once THEN Room ELSE 0, out |-> 0, in |-> 0, sent |-> 0,
               fin |-> FALSE, rst |-> FALSE, err |-> FALSE ]

(* The descriptor is registered anew, and waits for nothing yet.              *)
BConnection_Init(t) == [t EXCEPT !.phase = "up", !.wait = {}]

(* The handler of the connector: it makes the connection, which may fail.     *)
connector_handler(t, is_error) ==
  /\ \/ ~is_error /\ c' = BConnection_Init(t)
     \/ c' = Free(t)
  /\ UNCHANGED net

(* BPendingGroup_ExecuteJob on the first of the jobs.                         *)
ExecuteJob ==
  /\ c.jobs # <<>>
  /\ LET j == Head(c.jobs)
         t == [c EXCEPT !.jobs = Tail(c.jobs)]
     IN  \/ j = "connector" /\ connector_handler(t, FALSE)
         \/ \E d \in Dir : j = OpJob[d] /\ Transfer(SetIf(t, d, "busy"), d)
         \/ \E d \in Dir :
              /\ j = DoneJob[d]
              /\ c' = [SetIf(t, d, "none") EXCEPT
                         !.total = [t.total EXCEPT ![d] = t.total[d] + t.done[d]]]
              /\ UNCHANGED net
         \/ j = "recv_job" /\ Transfer(t, "recv")

(* wait_for_events returns with this descriptor, or only with others.          *)
Wait ==
  /\ c.phase # "over" /\ c.jobs = <<>> /\ c.ev = {} /\ ~c.hupd
  /\ LET events == Ready \cap (c.wait \cup {"error", "hup"})
     IN  events # {} /\ c' = [c EXCEPT !.ev = events, !.count = None]
  /\ UNCHANGED net

WaitOther ==
  /\ c.phase # "over" /\ c.jobs = <<>> /\ c.ev = {} /\ c.count # None
  /\ c' = [c EXCEPT !.count = None]
  /\ UNCHANGED net

(* connection_fd_handler.                                                     *)
connection_fd_handler(c0, events) ==
  LET t == [c0 EXCEPT !.wait = c0.wait \ events, !.hupd = "hup" \in events]
      have(d) == \/ WaitEvent[d] \in events
                 \/ {"error", "hup"} \cap events # {} /\ t.if[d] = "busy"
  IN  \/ have("send") /\ Transfer(IF have("recv") THEN BPending_Set(t, "recv_job") ELSE t,
                                  "send")
      \/ ~have("send") /\ have("recv") /\ Transfer(t, "recv")
      \/ /\ ~have("send") /\ ~have("recv")
         /\ c' = IF t.hupd THEN t ELSE Free(t)
         /\ UNCHANGED net

(* BReactor_Exec dispatches the epoll result.                                 *)
Dispatch ==
  /\ c.jobs = <<>> /\ c.ev # {}
  /\ LET events == c.ev \cap (c.wait \cup {"error", "hup"})
         t == [c EXCEPT !.ev = {}]
     IN  \/ events = {} /\ c' = t /\ UNCHANGED net
         \/ events # {} /\ c.phase = "connecting" /\ connector_handler(t, net.err)
         \/ events # {} /\ c.phase = "up" /\ connection_fd_handler(t, events)

-----------------------------------------------------------------------------
(* The user, and the handlers of other descriptors that call it.             *)

(* StreamPassInterface_Sender_Send and StreamRecvInterface_Receiver_Recv.      *)
Ask(d) ==
  /\ c.phase = "up" /\ c.if[d] = "none"
  /\ \E n \in 1 .. MaxLen :
       /\ c.total[d] + n <= MaxBytes
       /\ c' = BPending_Set(SetIf([c EXCEPT !.len = [c.len EXCEPT ![d] = n]], d, "op"),
                            OpJob[d])
  /\ UNCHANGED net

UserFrees == c.phase # "over" /\ c' = Free(c) /\ UNCHANGED net

(* The peer and the network.                                                *)
PeerAccepts ==
  /\ c.phase = "connecting" /\ net.room = 0 /\ ~net.rst
  /\ net' = [net EXCEPT !.room = Room] /\ UNCHANGED c

PeerReads ==
  /\ c.phase = "up" /\ net.room < Room /\ ~net.rst
  /\ net' = [net EXCEPT !.room = net.room + 1] /\ UNCHANGED c

PeerSends ==
  /\ c.phase = "up" /\ net.sent < MaxBytes /\ ~net.fin /\ ~net.err
  /\ net' = [net EXCEPT !.in = net.in + 1, !.sent = net.sent + 1] /\ UNCHANGED c

PeerCloses ==
  /\ c.phase = "up" /\ ~net.fin /\ ~net.err
  /\ net' = [net EXCEPT !.fin = TRUE] /\ UNCHANGED c

PeerResets ==
  /\ c.phase # "over" /\ ~net.err
  /\ net' = [net EXCEPT !.rst = TRUE, !.err = TRUE] /\ UNCHANGED c

(* An error without a reset: nothing arrives after it, and the next read or   *)
(* write returns it.                                                         *)
SocketError ==
  /\ c.phase # "over" /\ ~net.err
  /\ net' = [net EXCEPT !.err = TRUE] /\ UNCHANGED c

Loop == ExecuteJob \/ Wait \/ Dispatch

Next ==
  \/ Loop \/ WaitOther \/ UserFrees \/ \E d \in Dir : Ask(d)
  \/ PeerAccepts \/ PeerReads \/ PeerSends \/ PeerCloses \/ PeerResets \/ SocketError

Spec == Init /\ [][Next]_vars

(* The reactor runs, and the peer reads what is sent to it.                  *)
FairSpec == Spec /\ WF_vars(Loop) /\ WF_vars(PeerReads)

-----------------------------------------------------------------------------
Pending(j) == \E i \in DOMAIN c.jobs : c.jobs[i] = j

(* What the functions assert when they are called: the two handlers of a      *)
(* descriptor find the interface they act for busy, a job finds its interface *)
(* in the state that set it, no job is set twice.                             *)
HandlersExpected ==
  /\ \A i, k \in DOMAIN c.jobs : c.jobs[i] = c.jobs[k] => i = k
  /\ \A d \in Dir :
       /\ Pending(OpJob[d]) <=> c.if[d] = "op"
       /\ Pending(DoneJob[d]) <=> c.if[d] = "done"
       /\ c.phase = "up" /\ ~c.hupd /\ WaitEvent[d] \in c.wait => c.if[d] = "busy"
  /\ Pending("recv_job") => c.if["recv"] = "busy"
  /\ Pending("connector") => c.phase = "connecting"

(* No operation is forgotten: while one is under way either the descriptor is *)
(* watched for it, or a job will take it up.  After a HUP nothing is watched   *)
(* any more.                                                                  *)
NoLostWakeup ==
  \A d \in Dir : c.if[d] = "busy" =>
    \/ ~c.hupd /\ WaitEvent[d] \in c.wait
    \/ d = "recv" /\ Pending("recv_job")

InDone(d) == IF c.if[d] = "done" THEN c.done[d] ELSE 0

(* The bytes the user was told of, and is about to be, are those that passed   *)
(* through the socket: none is counted twice, none is lost.                    *)
BytesExact ==
  c.phase = "up" =>
    /\ net.out = c.total["send"] + InDone("send")
    /\ net.sent = c.total["recv"] + InDone("recv") + net.in

(* An operation is always in exactly one place - a job, the descriptor's       *)
(* events, or done - with its bytes counted once.                              *)
OperationsTracked == TypeOK /\ HandlersExpected /\ NoLostWakeup /\ BytesExact

(* What the user sees of the connection.                                       *)
Asked == [d \in Dir |-> IF c.if[d] = "none" THEN 0 ELSE c.len[d]]

S == INSTANCE Stream WITH up <- c.phase, asked <- Asked, moved <- c.total

(* BConnection implements Stream: an operation that was asked for is answered  *)
(* once with at least one byte and at most what was asked, or not at all if    *)
(* the connection ends, and nothing is answered after the end.                 *)
StreamSpec == S!Spec

(* A send under way is answered, or the connection is over, when the peer      *)
(* reads; a receive is, when the peer sends, closes or resets.                 *)
Answered ==
  /\ c.if["send"] # "none" ~> c.if["send"] = "none" \/ c.phase = "over"
  /\ c.if["recv"] # "none" /\ (net.in > 0 \/ net.fin \/ net.rst) ~> c.if["recv"] = "none"
=============================================================================
