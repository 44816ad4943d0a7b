----------------------------- MODULE TcpClient -----------------------------
(***************************************************************************)
(* One TCP connection relayed by tun2socks (jni/badvpn/tun2socks).         *)
(*                                                                         *)
(* An application's connection is terminated by the lwIP stack inside      *)
(* tun2socks and its bytes are relayed to a SOCKS server.  The code is a   *)
(* single thread of callbacks, but callbacks nest: lwIP calls accept, sent *)
(* and recv, and each of them runs the reactor's pending jobs (SYNC_COMMIT)*)
(* before it returns to lwIP, so the connection may be closed, and its     *)
(* struct freed, underneath the lwIP function that is still using the pcb. *)
(*                                                                         *)
(* `c' is struct tcp_client together with the parts of its tcp_pcb and of  *)
(* its two stream interfaces that the relay uses.  Bytes are counted, not  *)
(* named.  A C function f(client) that changes the struct is an operator   *)
(* f(c) that returns the changed struct; an action is one event, one job,  *)
(* or one lwIP callback up to its SYNC_COMMIT.                             *)
(***************************************************************************)
EXTENDS Integers

CONSTANTS TCP_WND,                     \* lwIP receive window, and size of buf
          TCP_SND_BUF,                 \* lwIP send buffer
          CLIENT_SOCKS_RECV_BUF_SIZE   \* size of socks_recv_buf

ASSUME SizesAssumption == /\ TCP_WND \in Nat \ {0}
                          /\ TCP_SND_BUF \in Nat \ {0}
                          /\ CLIENT_SOCKS_RECV_BUF_SIZE \in Nat \ {0}

VARIABLES c,     \* the client and its pcb
          lw,    \* where lwIP is in tcp_input for this pcb
          seg,   \* what is left to process of the segment being input
          quitting

vars == <<c, lw, seg, quitting>>

-----------------------------------------------------------------------------
(* Types.                                                                  *)

(* The pcb: live in ESTABLISHED or CLOSE_WAIT, or gone: closed by tcp_close *)
(* with a FIN or with a RST, aborted by tcp_abort, or removed by lwIP.      *)
PcbState == {"est", "cw", "fin", "rst", "abrt", "err"}

(* StreamPassInterface and StreamRecvInterface: idle, operation job         *)
(* pending, handed to the socket, done job pending.                         *)
IfState == {"none", "op", "busy", "done"}

Client ==
  [ freed : BOOLEAN,
    pcb : PcbState,
    recv_cb : BOOLEAN, sent_cb : BOOLEAN, err_cb : BOOLEAN,
    rcv_wnd : 0 .. TCP_WND,
    unacked : 0 .. TCP_SND_BUF,
    refused : BOOLEAN,
    client_closed : BOOLEAN,
    dead_client : BOOLEAN,
    buf_used : 0 .. TCP_WND,
    socks_up : BOOLEAN, socks_closed : BOOLEAN,
    socks_recv_buf_used : {-1} \cup (1 .. CLIENT_SOCKS_RECV_BUF_SIZE),
    socks_recv_buf_sent : 0 .. CLIENT_SOCKS_RECV_BUF_SIZE,
    socks_recv_waiting : BOOLEAN,
    socks_recv_tcp_pending : 0 .. TCP_SND_BUF,
    send_st : IfState, send_len : 0 .. TCP_WND,
    recv_st : IfState, recv_len : 0 .. CLIENT_SOCKS_RECV_BUF_SIZE ]

(* "accept", "sent" and "recv": inside that callback's SYNC_COMMIT;         *)
(* "sent_cb", "recv_cb" and "fin_cb": about to make that callback.          *)
LwipState == {"idle", "accept", "sent_cb", "sent", "recv_cb", "recv", "fin_cb"}

Segment == [ack : 0 .. TCP_SND_BUF, len : 0 .. TCP_WND, fin : BOOLEAN]

NoSegment == [ack |-> 0, len |-> 0, fin |-> FALSE]

TypeOK == /\ c \in Client
          /\ lw \in LwipState
          /\ seg \in Segment
          /\ quitting \in BOOLEAN

PcbLive == c.pcb \in {"est", "cw"}

(* A job of this client is in the reactor's BPendingGroup.                  *)
JobPending == \/ c.send_st \in {"op", "done"}
              \/ c.recv_st \in {"op", "done"}

(* The reactor dispatches an event (packet, timer, ready descriptor) only   *)
(* when no job is pending, and never inside tcp_input.                      *)
Idle == lw = "idle" /\ ~JobPending /\ ~quitting

Smaller(a, b) == IF a <= b THEN a ELSE b

-----------------------------------------------------------------------------
(* lwIP, as tun2socks uses it.                                             *)

(* tcp_recved: the application consumed n bytes, the window reopens.        *)
tcp_recved(d, n) == [d EXCEPT !.rcv_wnd = Smaller(@ + n, TCP_WND)]

unset_callbacks(d) ==
  [d EXCEPT !.err_cb = FALSE, !.recv_cb = FALSE, !.sent_cb = FALSE]

tcp_abort(d) == [d EXCEPT !.pcb = "abrt"]

(* tcp_close answers bytes the application has not consumed with a RST, and *)
(* else sends a FIN; when that fails (nomem) the caller aborts.             *)
tcp_close(d, nomem) ==
  IF d.rcv_wnd # TCP_WND THEN [d EXCEPT !.pcb = "rst"]
  ELSE IF nomem THEN tcp_abort(d)
  ELSE [d EXCEPT !.pcb = "fin"]

-----------------------------------------------------------------------------
(* Closing a side, and the struct when both are closed.                    *)

client_dealloc(d) == [d EXCEPT !.freed = TRUE]

(* BSocksClient_Free drops the two interfaces and their pending jobs.       *)
release_socks(d) ==
  [d EXCEPT !.socks_closed = TRUE, !.send_st = "none", !.recv_st = "none"]

(* Mutants of client_handle_freed_client: DEAD_KILL is forgotten; SOCKS is   *)
(* freed without waiting for the buffered data.                              *)
Mut_freed_no_dead_kill(d) ==
  LET e == [d EXCEPT !.client_closed = TRUE]
  IN  IF e.buf_used > 0 /\ ~e.socks_closed THEN e
      ELSE client_dealloc(IF e.socks_closed THEN e ELSE release_socks(e))

Mut_freed_no_drain(d) ==
  LET e == [d EXCEPT !.dead_client = TRUE, !.client_closed = TRUE]
  IN  client_dealloc(IF e.socks_closed THEN e ELSE release_socks(e))

(* The pcb is gone.  Buffered bytes are still sent to SOCKS if it is open;  *)
(* otherwise SOCKS is freed too, and with both sides closed, the client.    *)
client_handle_freed_client(d) ==
  LET e == [d EXCEPT !.dead_client = TRUE, !.client_closed = TRUE]
  IN  IF e.buf_used > 0 /\ ~e.socks_closed THEN e
      ELSE client_dealloc(IF e.socks_closed THEN e ELSE release_socks(e))

client_free_client(d, nomem) ==
  client_handle_freed_client(tcp_close(unset_callbacks(d), nomem))

client_abort_client(d) ==
  client_handle_freed_client(tcp_abort(unset_callbacks(d)))

(* Mutant of client_free_socks: bytes queued in lwIP are not waited for.     *)
Mut_free_socks_ignores_pending(d, nomem) ==
  LET e == release_socks(IF d.socks_up /\ ~d.client_closed
                         THEN [d EXCEPT !.recv_cb = FALSE] ELSE d)
  IN  IF e.socks_up /\ e.socks_recv_buf_used >= 0 /\ ~e.client_closed
      THEN e
      ELSE IF ~e.client_closed THEN client_free_client(e, nomem)
      ELSE client_dealloc(e)

(* SOCKS is gone.  Bytes on their way to the application are still sent.    *)
client_free_socks(d, nomem) ==
  LET e == release_socks(IF d.socks_up /\ ~d.client_closed
                         THEN [d EXCEPT !.recv_cb = FALSE] ELSE d)
  IN  IF /\ e.socks_up
         /\ e.socks_recv_buf_used >= 0 \/ e.socks_recv_tcp_pending > 0
         /\ ~e.client_closed
      THEN e
      ELSE IF ~e.client_closed THEN client_free_client(e, nomem)
      ELSE client_dealloc(e)

client_murder(d) ==
  LET e == IF d.client_closed THEN d
           ELSE [tcp_abort(unset_callbacks(d)) EXCEPT
                   !.dead_client = TRUE, !.client_closed = TRUE]
  IN  client_dealloc(IF e.socks_closed THEN e ELSE release_socks(e))

-----------------------------------------------------------------------------
(* Application to SOCKS.                                                   *)

client_send_to_socks(d) ==
  [d EXCEPT !.send_st = "op", !.send_len = d.buf_used]

(* send_len bytes were written to the SOCKS socket.                         *)
client_socks_send_handler_done(d, nomem) ==
  LET n == d.send_len
      e == [d EXCEPT !.send_st = "none", !.buf_used = @ - n]
      f == IF e.client_closed THEN e ELSE tcp_recved(e, n)
  IN  IF f.buf_used > 0 THEN client_send_to_socks(f)
      ELSE IF f.client_closed THEN client_free_socks(f, nomem)
      ELSE f

-----------------------------------------------------------------------------
(* SOCKS to application.                                                   *)

client_socks_recv_initiate(d) == [d EXCEPT !.recv_st = "op"]

WriteResult == {"ok", "mem", "fail"}

(* Queue socks_recv_buf with tcp_write, whose result is wr, and start it    *)
(* with tcp_output, which succeeds iff out.  The loop's second round only   *)
(* meets a full send buffer.  -1 is returned exactly when the client was    *)
(* aborted, i.e. is closed in the result.                                   *)
client_socks_recv_send_out(d, wr, out) ==
  LET to_write == Smaller(d.socks_recv_buf_used - d.socks_recv_buf_sent,
                          TCP_SND_BUF - d.unacked)
      written == IF wr = "ok" THEN to_write ELSE 0
      e == [d EXCEPT !.socks_recv_buf_sent = @ + written,
                     !.socks_recv_tcp_pending = @ + written,
                     !.unacked = @ + written]
      more == e.socks_recv_buf_sent < e.socks_recv_buf_used
  IN  IF \/ wr = "fail" /\ to_write > 0
         \/ ~out
         \/ more /\ e.socks_recv_tcp_pending = 0
      THEN client_abort_client(e)
      ELSE IF more THEN [e EXCEPT !.socks_recv_waiting = TRUE]
      ELSE [e EXCEPT !.socks_recv_buf_used = -1]

(* recv_len bytes were read from the SOCKS socket.                          *)
client_socks_recv_handler_done(d, wr, out) ==
  LET e == [d EXCEPT !.recv_st = "none"]
      f == client_socks_recv_send_out(
             [e EXCEPT !.socks_recv_buf_used = d.recv_len,
                       !.socks_recv_buf_sent = 0,
                       !.socks_recv_waiting = FALSE], wr, out)
  IN  IF e.client_closed THEN e
      ELSE IF ~f.client_closed /\ f.socks_recv_buf_used = -1
           THEN client_socks_recv_initiate(f)
      ELSE f

(* Mutant of client_socks_up: data buffered during the handshake is not sent. *)
Mut_up_forgets_buffer(d) ==
  LET e == [d EXCEPT !.socks_recv_buf_used = -1,
                     !.socks_recv_tcp_pending = 0,
                     !.sent_cb = IF d.client_closed THEN @ ELSE TRUE,
                     !.socks_up = TRUE]
  IN  IF e.client_closed THEN e ELSE client_socks_recv_initiate(e)

(* BSOCKSCLIENT_EVENT_UP: the SOCKS handshake is done.                      *)
client_socks_up(d) ==
  LET e == [d EXCEPT !.socks_recv_buf_used = -1,
                     !.socks_recv_tcp_pending = 0,
                     !.sent_cb = IF d.client_closed THEN @ ELSE TRUE,
                     !.socks_up = TRUE]
      f == IF e.buf_used > 0 THEN client_send_to_socks(e) ELSE e
  IN  IF f.client_closed THEN f ELSE client_socks_recv_initiate(f)

-----------------------------------------------------------------------------
(* lwIP callbacks, up to their SYNC_COMMIT.                                 *)

(* Mutants of client_sent_func: pending is reduced only when there is more   *)
(* to queue; the last acknowledgement after SOCKS closed is overlooked.      *)
Mut_sent_forgets_pending(d, n, wr, out, nomem) ==
  LET f == client_socks_recv_send_out(
             [d EXCEPT !.socks_recv_tcp_pending = @ - n,
                       !.socks_recv_waiting = FALSE], wr, out)
  IN  IF d.socks_recv_buf_used > 0
      THEN IF ~f.client_closed /\ f.socks_recv_buf_used = -1 /\ ~f.socks_closed
           THEN client_socks_recv_initiate(f) ELSE f
      ELSE d

Mut_sent_never_closes(d, n, wr, out, nomem) ==
  LET e == [d EXCEPT !.socks_recv_tcp_pending = @ - n]
      f == client_socks_recv_send_out(
             [e EXCEPT !.socks_recv_waiting = FALSE], wr, out)
  IN  IF e.socks_recv_buf_used <= 0 THEN e
      ELSE IF ~f.client_closed /\ f.socks_recv_buf_used = -1 /\ ~f.socks_closed
           THEN client_socks_recv_initiate(f) ELSE f

(* n bytes written by client_socks_recv_send_out were acknowledged.         *)
client_sent_func(d, n, wr, out, nomem) ==
  LET e == [d EXCEPT !.socks_recv_tcp_pending = @ - n]
      f == client_socks_recv_send_out(
             [e EXCEPT !.socks_recv_waiting = FALSE], wr, out)
  IN  IF e.socks_recv_buf_used > 0
      THEN IF /\ ~f.client_closed
              /\ f.socks_recv_buf_used = -1
              /\ ~f.socks_closed
           THEN client_socks_recv_initiate(f)
           ELSE f
      ELSE IF e.socks_closed /\ e.socks_recv_tcp_pending = 0
           THEN client_free_client(e, nomem)
           ELSE e

(* n bytes arrived.  Sending starts if none were buffered before.           *)
client_recv_func(d, n) ==
  LET e == [d EXCEPT !.buf_used = @ + n]
  IN  IF e.buf_used = n /\ e.socks_up THEN client_send_to_socks(e) ELSE e

-----------------------------------------------------------------------------
(* The connection begins.                                                  *)

Init == /\ c = [ freed |-> TRUE, pcb |-> "err",
                 recv_cb |-> FALSE, sent_cb |-> FALSE, err_cb |-> FALSE,
                 rcv_wnd |-> TCP_WND, unacked |-> 0, refused |-> FALSE,
                 client_closed |-> TRUE, dead_client |-> FALSE, buf_used |-> 0,
                 socks_up |-> FALSE, socks_closed |-> TRUE,
                 socks_recv_buf_used |-> -1, socks_recv_buf_sent |-> 0,
                 socks_recv_waiting |-> FALSE, socks_recv_tcp_pending |-> 0,
                 send_st |-> "none", send_len |-> 0,
                 recv_st |-> "none", recv_len |-> 0 ]
        /\ lw = "idle"
        /\ seg = NoSegment
        /\ quitting = FALSE

(* The pcb lwIP hands to accept: nothing sent or received, no callbacks.    *)
new_pcb(d) ==
  [d EXCEPT !.pcb = "est", !.rcv_wnd = TCP_WND, !.unacked = 0, !.refused = FALSE,
            !.recv_cb = FALSE, !.sent_cb = FALSE, !.err_cb = FALSE]

(* listener_accept_func for a new connection, whose ACK may already carry   *)
(* data or a FIN.  The fields that malloc leaves uninitialised keep what    *)
(* the previous client left there.                                          *)
Accept(n, fin) ==
  /\ Idle
  /\ c.freed
  /\ n + (IF fin THEN 1 ELSE 0) <= TCP_WND
  /\ c' = [new_pcb(c) EXCEPT !.freed = FALSE, !.recv_cb = TRUE, !.err_cb = TRUE,
                             !.client_closed = FALSE, !.dead_client = FALSE,
                             !.buf_used = 0,
                             !.socks_up = FALSE, !.socks_closed = FALSE]
  /\ lw' = "accept"
  /\ seg' = [ack |-> 0, len |-> n, fin |-> fin]
  /\ UNCHANGED quitting

-----------------------------------------------------------------------------
(* Events of the SOCKS client.                                             *)

(* The handshake makes progress as a reactor event, or, when the SOCKS      *)
(* server answers at once, in the jobs that accept's SYNC_COMMIT runs.      *)
SocksUp ==
  /\ Idle \/ (lw = "accept" /\ ~JobPending)
  /\ ~c.freed /\ ~c.socks_closed /\ ~c.socks_up
  /\ c' = client_socks_up(c)
  /\ UNCHANGED <<lw, seg, quitting>>

(* The connection to SOCKS, or the handshake on it, fails; or its           *)
(* descriptor reports an error while no transfer is under way.              *)
SocksError(nomem) ==
  /\ Idle \/ (lw = "accept" /\ ~JobPending /\ ~c.socks_up)
  /\ ~c.freed /\ ~c.socks_closed
  /\ c' = client_free_socks(c, nomem)
  /\ UNCHANGED <<lw, seg, quitting>>

(* The operation job runs at once; a descriptor waited for becomes ready    *)
(* as a reactor event.                                                      *)
SendRuns == c.send_st = "op" \/ (c.send_st = "busy" /\ Idle)
RecvRuns == c.recv_st = "op" \/ (c.recv_st = "busy" /\ Idle)

(* connection_send: write takes n of the send_len bytes ...                 *)
SendWritten(n) ==
  /\ SendRuns
  /\ n <= c.send_len
  /\ c' = [c EXCEPT !.send_st = "done", !.send_len = n]
  /\ UNCHANGED <<lw, seg, quitting>>

(* ... or would block, or has used up its share of this round.              *)
SendAgain ==
  /\ c.send_st = "op"
  /\ c' = [c EXCEPT !.send_st = "busy"]
  /\ UNCHANGED <<lw, seg, quitting>>

RecvRead(n) ==
  /\ RecvRuns
  /\ c' = [c EXCEPT !.recv_st = "done", !.recv_len = n]
  /\ UNCHANGED <<lw, seg, quitting>>

RecvAgain ==
  /\ c.recv_st = "op"
  /\ c' = [c EXCEPT !.recv_st = "busy"]
  /\ UNCHANGED <<lw, seg, quitting>>

(* write or read fails, or read returns end of file: BSocksClient reports   *)
(* EVENT_ERROR or EVENT_ERROR_CLOSED from inside the job.                   *)
TransferError(nomem) ==
  /\ SendRuns \/ RecvRuns
  /\ c' = client_free_socks(c, nomem)
  /\ UNCHANGED <<lw, seg, quitting>>

SendDone(nomem) ==
  /\ c.send_st = "done"
  /\ c' = client_socks_send_handler_done(c, nomem)
  /\ UNCHANGED <<lw, seg, quitting>>

RecvDone(wr, out) ==
  /\ c.recv_st = "done"
  /\ c' = client_socks_recv_handler_done(c, wr, out)
  /\ UNCHANGED <<lw, seg, quitting>>

-----------------------------------------------------------------------------
(* tcp_input for a segment of this connection.                             *)

(* tcp_process: `ack' bytes are acknowledged, `n' bytes (and a FIN) are in   *)
(* sequence and within the window.  After a FIN only acknowledgements count. *)
SegmentIn(ack, n, fin) ==
  /\ Idle
  /\ PcbLive
  /\ c.pcb = "cw" => n = 0 /\ ~fin
  /\ ack <= c.unacked
  /\ n + (IF fin THEN 1 ELSE 0) <= c.rcv_wnd
  /\ ack + n > 0 \/ fin
  /\ c' = [c EXCEPT !.unacked = @ - ack,
                    !.rcv_wnd = @ - n - (IF fin THEN 1 ELSE 0),
                    !.pcb = IF fin THEN "cw" ELSE @]
  /\ lw' = "sent_cb"
  /\ seg' = [ack |-> ack, len |-> n, fin |-> fin]
  /\ UNCHANGED quitting

(* A callback that returned ERR_ABRT ends tcp_input; one that returned      *)
(* ERR_OK lets it go on to `stage' with the same pcb.                       *)
Continue(aborted, stage) ==
  /\ lw' = IF aborted THEN "idle" ELSE stage
  /\ seg' = IF aborted THEN NoSegment ELSE seg

(* TCP_EVENT_SENT.  client_sent_func enters SYNC_COMMIT when it resumes     *)
(* receiving, and returns ERR_ABRT when it closed the client.               *)
SentCallback(wr, out, nomem) ==
  /\ lw = "sent_cb"
  /\ IF seg.ack = 0 \/ ~c.sent_cb
     THEN c' = c /\ Continue(FALSE, "recv_cb")
     ELSE LET d == client_sent_func(c, seg.ack, wr, out, nomem)
          IN  /\ c' = [d EXCEPT !.dead_client = d.client_closed]
              /\ Continue(d.client_closed,
                          IF d.recv_st = "op" /\ c.recv_st # "op"
                          THEN "sent" ELSE "recv_cb")
  /\ UNCHANGED quitting

(* TCP_EVENT_RECV with data.  Without a recv callback lwIP consumes the     *)
(* data itself (tcp_recv_null).                                             *)
RecvCallback ==
  /\ lw = "recv_cb"
  /\ \/ seg.len = 0 /\ c' = c /\ Continue(FALSE, "fin_cb")
     \/ /\ seg.len > 0 /\ ~c.recv_cb
        /\ c' = tcp_recved(c, seg.len)
        /\ Continue(FALSE, "fin_cb")
     \/ /\ seg.len > 0 /\ c.recv_cb
        /\ IF seg.len > TCP_WND - c.buf_used
           THEN \* "no buffer for data !?!": lwIP keeps the data and the FIN
                c' = [c EXCEPT !.refused = TRUE] /\ Continue(TRUE, "idle")
           ELSE /\ c' = [client_recv_func(c, seg.len) EXCEPT !.dead_client = FALSE]
                /\ Continue(FALSE, IF c.buf_used = 0 /\ c.socks_up
                                   THEN "recv" ELSE "fin_cb")
  /\ UNCHANGED quitting

(* TCP_EVENT_CLOSED: client_recv_func without data closes the client.       *)
FinCallback(nomem) ==
  /\ lw = "fin_cb"
  /\ LET d == [c EXCEPT !.rcv_wnd = IF seg.fin /\ @ # TCP_WND THEN @ + 1 ELSE @]
     IN  c' = IF seg.fin /\ c.recv_cb THEN client_free_client(d, nomem) ELSE d
  /\ lw' = "idle"
  /\ seg' = NoSegment
  /\ UNCHANGED quitting

(* The jobs of a SYNC_COMMIT have run, and the callback returns: ERR_ABRT   *)
(* if the client was closed by one of them, else ERR_OK.  After accept,     *)
(* tcp_process takes in the segment's data and FIN.                         *)
CallbackReturn ==
  /\ lw \in {"accept", "sent", "recv"}
  /\ ~JobPending
  /\ Continue(c.dead_client, IF lw = "recv" THEN "fin_cb" ELSE "recv_cb")
  /\ c' = IF lw = "accept" /\ ~c.dead_client
          THEN [c EXCEPT !.rcv_wnd = @ - seg.len - (IF seg.fin THEN 1 ELSE 0),
                         !.pcb = IF seg.fin THEN "cw" ELSE @]
          ELSE c
  /\ UNCHANGED quitting

(* A RST arrives, or lwIP gives up retransmitting: client_err_func.         *)
ConnectionError ==
  /\ Idle
  /\ PcbLive
  /\ LET d == [unset_callbacks(c) EXCEPT !.pcb = "err"]
     IN  c' = IF c.err_cb THEN client_handle_freed_client(d) ELSE d
  /\ UNCHANGED <<lw, seg, quitting>>

(* terminate, and then main frees every client.                             *)
Terminate ==
  /\ Idle
  /\ c' = IF c.freed THEN c ELSE client_murder(c)
  /\ quitting' = TRUE
  /\ UNCHANGED <<lw, seg>>

(* The process has exited.                                                  *)
Exited == quitting /\ UNCHANGED vars

-----------------------------------------------------------------------------
SocksEvent == SocksUp \/ \E nomem \in BOOLEAN : SocksError(nomem)

SendStep == \/ \E n \in 1 .. TCP_WND : SendWritten(n)
            \/ SendAgain

RecvStep == \/ \E n \in 1 .. CLIENT_SOCKS_RECV_BUF_SIZE : RecvRead(n)
            \/ RecvAgain

DoneStep == \/ \E nomem \in BOOLEAN : SendDone(nomem) \/ TransferError(nomem)
            \/ \E wr \in WriteResult, out \in BOOLEAN : RecvDone(wr, out)

LwipStep == \/ \E wr \in WriteResult, out, nomem \in BOOLEAN :
                  SentCallback(wr, out, nomem)
            \/ RecvCallback
            \/ \E nomem \in BOOLEAN : FinCallback(nomem)
            \/ CallbackReturn

PeerStep == \/ \E n \in 0 .. TCP_WND, fin \in BOOLEAN : Accept(n, fin)
            \/ \E ack \in 0 .. TCP_SND_BUF, n \in 0 .. TCP_WND, fin \in BOOLEAN :
                  SegmentIn(ack, n, fin)
            \/ ConnectionError

Next == \/ SocksEvent \/ SendStep \/ RecvStep \/ DoneStep
        \/ LwipStep \/ PeerStep \/ Terminate \/ Exited

Spec == Init /\ [][Next]_vars

-----------------------------------------------------------------------------
(* Safety.                                                                 *)

(* Bytes (and the FIN, which occupies one) taken out of the window by        *)
(* tcp_process and not yet handed to the recv callback.                      *)
Undelivered == (IF lw \in {"sent_cb", "sent", "recv_cb"} THEN seg.len ELSE 0)
               + (IF lw \notin {"idle", "accept"} /\ seg.fin THEN 1 ELSE 0)

(* lwIP's window, the client buffer and the segment in hand always add up to *)
(* TCP_WND: tcp_recved is called for exactly the bytes written to SOCKS, so  *)
(* the buffer of client_recv_func can never overflow and its branch "no      *)
(* buffer for data !?!" is never taken.                                      *)
WindowBalance ==
  /\ PcbLive => c.rcv_wnd + c.buf_used + Undelivered = TCP_WND
  /\ ~c.refused

(* socks_recv_tcp_pending is exactly what lwIP has queued for the            *)
(* application and not yet reported acknowledged, also when the ack is on    *)
(* its way to client_sent_func.                                              *)
PendingBalance ==
  PcbLive /\ c.socks_up =>
    c.socks_recv_tcp_pending = c.unacked + (IF lw = "sent_cb" THEN seg.ack ELSE 0)

(* What client_sent_func, client_recv_func and the two done handlers assert  *)
(* on entry holds whenever they are about to be called.                      *)
CallbackPreconditions ==
  /\ lw = "sent_cb" /\ seg.ack > 0 =>
       /\ c.sent_cb /\ c.socks_up /\ ~c.client_closed
       /\ seg.ack <= c.socks_recv_tcp_pending
       /\ c.socks_recv_buf_used > 0 =>
            c.socks_recv_waiting /\ c.socks_recv_buf_sent < c.socks_recv_buf_used
  /\ lw = "recv_cb" /\ seg.len > 0 /\ c.recv_cb /\ c.socks_up =>
       ~c.socks_closed /\ (c.buf_used = 0 => c.send_st = "none")
  /\ c.send_st # "none" =>
       /\ c.socks_up /\ ~c.socks_closed
       /\ 0 < c.send_len /\ c.send_len <= c.buf_used
  /\ c.recv_st # "none" =>
       c.socks_up /\ ~c.socks_closed /\ c.socks_recv_buf_used = -1

(* The two flows of a connection stay in balance: no counter leaves its      *)
(* buffer, lwIP's window and the client's buffer add up, the pending bytes   *)
(* are those lwIP holds, and no assertion of a callback fails.               *)
FlowBalanced == /\ TypeOK
                /\ WindowBalance
                /\ PendingBalance
                /\ CallbackPreconditions

(* lwIP goes on with a pcb, and calls back into a client, only while they    *)
(* exist: a callback whose jobs closed the client reports it (ERR_ABRT       *)
(* through dead_client), and a closed or freed client is registered nowhere. *)
NoUseAfterClose ==
  /\ lw # "idle" => PcbLive \/ (lw \in {"accept", "sent", "recv"} /\ c.dead_client)
  /\ c.recv_cb \/ c.sent_cb \/ c.err_cb => PcbLive /\ ~c.freed /\ ~c.client_closed
  /\ PcbLive => c.err_cb /\ ~c.client_closed
  /\ c.freed => c.client_closed /\ c.socks_closed /\ ~JobPending

(* Between events an allocated client always waits for something that will   *)
(* be reported to it: there is no state in which a side is left with bytes   *)
(* to move, or the struct left unfreed, and no callback to move it on.       *)
NoLostWakeup ==
  Idle /\ ~c.freed =>
    /\ ~(c.client_closed /\ c.socks_closed)
    /\ c.client_closed => c.buf_used > 0
    /\ c.socks_closed => c.unacked > 0 /\ c.sent_cb
    /\ c.socks_up /\ ~c.socks_closed /\ c.buf_used > 0 => c.send_st = "busy"
    /\ c.socks_up /\ ~c.socks_closed /\ ~c.client_closed =>
         \/ c.recv_st = "busy"
         \/ c.socks_recv_buf_used > 0 /\ c.unacked > 0 /\ c.sent_cb

-----------------------------------------------------------------------------
(* The inductive invariant behind the safety properties, in parts.  They    *)
(* speak of a struct d, so that a lemma can state them of the result of a    *)
(* function; ack is the acknowledgement on its way to client_sent_func and   *)
(* held is Undelivered.                                                      *)

(* Which callbacks are registered, and whether the struct exists, follows    *)
(* from the two closed flags and socks_up.                                   *)
FlagsAgree(d) ==
  /\ d.client_closed <=> d.pcb \notin {"est", "cw"}
  /\ d.err_cb <=> ~d.client_closed
  /\ d.recv_cb <=> ~d.client_closed /\ ~d.socks_closed
  /\ d.sent_cb <=> ~d.client_closed /\ d.socks_up
  /\ d.freed <=> d.client_closed /\ d.socks_closed
  /\ ~d.refused

(* A send is under way exactly when there are bytes to send.                 *)
SendingAgrees(d) ==
  /\ d.send_st # "none" <=> d.socks_up /\ ~d.socks_closed /\ d.buf_used > 0
  /\ d.send_st # "none" => 0 < d.send_len /\ d.send_len <= d.buf_used
  /\ d.client_closed /\ ~d.socks_closed => d.buf_used > 0

(* A read is under way, or there are bytes to queue and an acknowledgement   *)
(* to wait for; after SOCKS closed, there is one to wait for.                *)
ReceivingAgrees(d) ==
  /\ d.recv_st # "none" =>
       d.socks_up /\ ~d.socks_closed /\ d.socks_recv_buf_used = -1
  /\ d.recv_st = "done" => d.recv_len > 0
  /\ d.socks_up /\ ~d.socks_closed /\ ~d.client_closed =>
       d.recv_st # "none" \/ d.socks_recv_buf_used > 0
  /\ d.socks_up /\ ~d.client_closed /\ d.socks_recv_buf_used > 0 =>
       /\ d.socks_recv_waiting
       /\ d.socks_recv_buf_sent < d.socks_recv_buf_used
       /\ d.socks_recv_tcp_pending > 0
  /\ d.socks_closed /\ ~d.client_closed =>
       d.socks_up /\ d.socks_recv_tcp_pending > 0

(* While the pcb lives, its counters and the client's add up.                *)
CountersAgree(d, ack, held) ==
  ~d.client_closed =>
    /\ d.rcv_wnd + d.buf_used + held = TCP_WND
    /\ d.socks_up => d.socks_recv_tcp_pending = d.unacked + ack
    /\ ~d.socks_up => d.unacked = 0 /\ ack = 0

ClientInv(d, ack, held) ==
  /\ d \in Client
  /\ FlagsAgree(d) /\ SendingAgrees(d) /\ ReceivingAgrees(d)
  /\ CountersAgree(d, ack, held)

InFlightAck == IF lw = "sent_cb" THEN seg.ack ELSE 0

(* What holds at each point of tcp_input.                                    *)
StageInv ==
  /\ lw \in {"sent_cb", "recv_cb", "fin_cb"} => ~c.client_closed /\ ~JobPending
  /\ lw \in {"accept", "sent", "recv"} => (c.dead_client <=> c.client_closed)
  /\ lw = "accept" =>
       c.buf_used = 0 /\ seg.len + (IF seg.fin THEN 1 ELSE 0) <= TCP_WND

(* The inductive invariant.                                                  *)
IInv == /\ TypeOK
        /\ ClientInv(c, InFlightAck, Undelivered)
        /\ StageInv

-----------------------------------------------------------------------------
(* Action properties.                                                      *)

SocksFailure == \E nomem \in BOOLEAN : SocksError(nomem) \/ TransferError(nomem)

(* However the application's connection ends, SOCKS is closed only once      *)
(* every byte the application was told was received has been written to it   *)
(* (or SOCKS itself failed, or the process ends).                            *)
DrainToSocks ==
  [][~c.socks_closed /\ c'.socks_closed =>
       c'.buf_used = 0 \/ SocksFailure \/ Terminate]_vars

(* The application's connection is closed in an orderly way, other than at   *)
(* its own FIN, only when it has acknowledged everything read from SOCKS.    *)
DrainToClient ==
  [][PcbLive /\ c'.pcb \in {"fin", "rst"} /\ lw # "fin_cb" =>
       c'.unacked = 0 /\ (c'.socks_up => c'.socks_recv_buf_used = -1)]_vars

(* tcp_close resets the application's connection only when some of its bytes *)
(* were never written to SOCKS, or it is closed in the middle of a segment   *)
(* that also carries its FIN.                                                *)
ResetOnlyWithUnreadBytes ==
  [][PcbLive /\ c'.pcb = "rst" =>
       c.buf_used > 0 \/ seg.len > 0 \/ (seg.fin /\ lw # "fin_cb")]_vars

(* Closing a side loses no byte that side or the other was told is safe:     *)
(* what client_handle_freed_client and client_free_socks still have to move  *)
(* is moved first, and tcp_close resets only a connection it may reset.      *)
NothingDropped == DrainToSocks /\ DrainToClient /\ ResetOnlyWithUnreadBytes

(* lwip/doc/rawapi.txt: a callback returns ERR_ABRT only when it has called  *)
(* tcp_abort.  tcp_input ends early, with the client closed, exactly when a  *)
(* callback returned ERR_ABRT.                                               *)
AbrtOnlyAfterAbort ==
  [][lw # "idle" /\ lw' = "idle" /\ c'.client_closed => c'.pcb = "abrt"]_vars

-----------------------------------------------------------------------------
(* Liveness.                                                               *)

(* The reactor runs its jobs and lwIP finishes an input (weak fairness).     *)
(* A descriptor waited for becomes writable (the SOCKS server reads without  *)
(* pause) and stays ready until the reactor, busy with other events in       *)
(* between, serves it; unacknowledged bytes are acknowledged, or lwIP's      *)
(* retransmission timer gives the connection up, whatever else is going on:  *)
(* both are strong fairness.  Nothing is assumed of the SOCKS handshake, of  *)
(* new data or of the application.                                           *)
FairSpec ==
  /\ Spec
  /\ WF_vars(JobPending /\ (SendStep \/ RecvStep \/ DoneStep))
  /\ WF_vars(LwipStep)
  /\ SF_vars(\E n \in 1 .. TCP_WND : SendWritten(n))
  /\ SF_vars(\/ c.unacked > 0 /\ ConnectionError
             \/ \E ack \in 1 .. TCP_SND_BUF, n \in 0 .. TCP_WND, fin \in BOOLEAN :
                  SegmentIn(ack, n, fin))

(* A half-closed client goes away: once SOCKS is closed, or once the         *)
(* application is gone and SOCKS is up, the struct is eventually freed.      *)
HalfClosedEnds ==
  (c.socks_closed \/ (c.client_closed /\ c.socks_up)) ~> c.freed

(* tcp_input always comes to an end: the jobs run by a callback's            *)
(* SYNC_COMMIT cannot keep it from returning to lwIP.                        *)
InputEnds == lw # "idle" ~> lw = "idle"

(* Neither a half-closed client nor an input of lwIP stays for ever.         *)
Progress == HalfClosedEnds /\ InputEnds
=============================================================================
