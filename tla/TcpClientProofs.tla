-------------------------- MODULE TcpClientProofs --------------------------
(***************************************************************************)
(* Proofs about TcpClient, for every window and buffer size.               *)
(*                                                                         *)
(* Each function on the client struct has a lemma that states its contract: *)
(* what it needs of its argument, and that its result satisfies ClientInv.  *)
(* The step theorem then has one step per action, and the safety properties *)
(* follow from the inductive invariant IInv.  The action properties and the  *)
(* refinements of TcpRelay follow from a second set of contracts: what each  *)
(* function does to the bytes under way in the two directions.               *)
(*                                                                         *)
(* The last part is about DnsGateway, the other half of tun2socks.c.         *)
(***************************************************************************)
EXTENDS TcpRelay, DnsGateway, FiniteSetTheorems, TLAPS

(* What is needed of a struct whose pcb has just been let go of.            *)
PcbReleased(d) ==
  /\ d \in Client
  /\ ~d.freed
  /\ d.pcb \notin {"est", "cw"}
  /\ ~d.err_cb /\ ~d.recv_cb /\ ~d.sent_cb /\ ~d.refused
  /\ d.send_st # "none" <=> d.socks_up /\ ~d.socks_closed /\ d.buf_used > 0
  /\ d.send_st # "none" => 0 < d.send_len /\ d.send_len <= d.buf_used
  /\ d.recv_st # "none" =>
       d.socks_up /\ ~d.socks_closed /\ d.socks_recv_buf_used = -1
  /\ d.recv_st = "done" => d.recv_len > 0

(* A closed client has its dead variable killed, if it was closed inside    *)
(* the callback that watches it.                                            *)
DeadAgrees(d) == d.dead_client <=> d.client_closed

(* client_handle_freed_client establishes the invariant of a closed client: *)
(* it is freed, or it has bytes to send and a SOCKS client to send them to. *)
LEMMA HandleFreedClient ==
  ASSUME NEW d, PcbReleased(d), NEW ack, NEW held
  PROVE  LET e == client_handle_freed_client(d)
         IN  /\ ClientInv(e, ack, held)
             /\ e.client_closed /\ e.dead_client
             /\ e.buf_used = d.buf_used
<1> DEFINE e == client_handle_freed_client(d)
<1>1. e \in Client
  BY Zenon DEF PcbReleased, Client, IfState, client_handle_freed_client,
               client_dealloc, release_socks
<1>2. e.client_closed /\ e.dead_client
  BY Zenon DEF PcbReleased, Client, client_handle_freed_client, client_dealloc,
               release_socks
<1>7. e.buf_used = d.buf_used
  BY Zenon DEF PcbReleased, Client, client_handle_freed_client, client_dealloc, release_socks
<1>3. FlagsAgree(e)
  BY DEF PcbReleased, Client, client_handle_freed_client, client_dealloc,
         release_socks, FlagsAgree
<1>4. SendingAgrees(e)
  BY DEF PcbReleased, Client, client_handle_freed_client, client_dealloc,
         release_socks, SendingAgrees
<1>5. ReceivingAgrees(e)
  BY DEF PcbReleased, Client, client_handle_freed_client, client_dealloc,
         release_socks, ReceivingAgrees
<1>6. CountersAgree(e, ack, held)
  BY <1>2 DEF CountersAgree
<1> QED
  BY <1>1, <1>2, <1>3, <1>4, <1>5, <1>6, <1>7 DEF ClientInv

(* tcp_close and tcp_abort let go of the pcb and touch nothing else.        *)
LEMMA ReleasePcb ==
  ASSUME NEW d \in Client, NEW nomem \in BOOLEAN,
         ~d.freed, ~d.refused, SendingAgrees(d),
         d.recv_st # "none" =>
           d.socks_up /\ ~d.socks_closed /\ d.socks_recv_buf_used = -1,
         d.recv_st = "done" => d.recv_len > 0
  PROVE  /\ PcbReleased(tcp_close(unset_callbacks(d), nomem))
         /\ PcbReleased(tcp_abort(unset_callbacks(d)))
         /\ tcp_close(unset_callbacks(d), nomem).buf_used = d.buf_used
         /\ tcp_abort(unset_callbacks(d)).buf_used = d.buf_used
<1>1. /\ tcp_close(unset_callbacks(d), nomem) \in Client
      /\ tcp_abort(unset_callbacks(d)) \in Client
  BY Zenon DEF Client, PcbState, tcp_close, tcp_abort, unset_callbacks
<1>2. PcbReleased(tcp_close(unset_callbacks(d), nomem))
  BY <1>1 DEF PcbReleased, Client, SendingAgrees, tcp_close, tcp_abort, unset_callbacks
<1>3. PcbReleased(tcp_abort(unset_callbacks(d)))
  BY <1>1 DEF PcbReleased, Client, SendingAgrees, tcp_abort, unset_callbacks
<1>4. /\ tcp_close(unset_callbacks(d), nomem).buf_used = d.buf_used
      /\ tcp_abort(unset_callbacks(d)).buf_used = d.buf_used
  BY DEF Client, tcp_close, tcp_abort, unset_callbacks
<1> QED
  BY <1>2, <1>3, <1>4

(* client_free_client and client_abort_client leave a closed client.        *)
LEMMA CloseClient ==
  ASSUME NEW d \in Client, NEW nomem \in BOOLEAN,
         ~d.freed, ~d.refused, SendingAgrees(d),
         d.recv_st # "none" =>
           d.socks_up /\ ~d.socks_closed /\ d.socks_recv_buf_used = -1,
         d.recv_st = "done" => d.recv_len > 0,
         NEW ack, NEW held
  PROVE  /\ ClientInv(client_free_client(d, nomem), ack, held)
         /\ client_free_client(d, nomem).client_closed
         /\ client_free_client(d, nomem).dead_client
         /\ client_free_client(d, nomem).buf_used = d.buf_used
         /\ ClientInv(client_abort_client(d), ack, held)
         /\ client_abort_client(d).client_closed
         /\ client_abort_client(d).dead_client
         /\ client_abort_client(d).buf_used = d.buf_used
  BY ReleasePcb, HandleFreedClient DEF client_free_client, client_abort_client

(* client_free_socks, on a client whose SOCKS is open: it waits for the      *)
(* application's acknowledgement, or closes the application's side too.      *)
LEMMA FreeSocks ==
  ASSUME NEW d \in Client, NEW nomem \in BOOLEAN, NEW ack, NEW held,
         FlagsAgree(d), ~d.socks_closed, CountersAgree(d, ack, held),
         d.socks_up /\ ~d.client_closed /\ d.socks_recv_buf_used > 0 =>
           /\ d.socks_recv_waiting
           /\ d.socks_recv_buf_sent < d.socks_recv_buf_used
           /\ d.socks_recv_tcp_pending > 0
  PROVE  LET e == client_free_socks(d, nomem)
         IN  /\ ClientInv(e, ack, held)
             /\ DeadAgrees(d) => DeadAgrees(e)
             /\ e.buf_used = d.buf_used
<1> DEFINE e == release_socks(IF d.socks_up /\ ~d.client_closed
                              THEN [d EXCEPT !.recv_cb = FALSE] ELSE d)
           waits == /\ e.socks_up
                    /\ e.socks_recv_buf_used >= 0 \/ e.socks_recv_tcp_pending > 0
                    /\ ~e.client_closed
<1>1. e \in Client
  BY Zenon DEF Client, IfState, release_socks
<1>2. /\ e.socks_closed /\ e.send_st = "none" /\ e.recv_st = "none"
      /\ e.freed = d.freed /\ e.pcb = d.pcb
      /\ e.sent_cb = d.sent_cb /\ e.err_cb = d.err_cb /\ e.refused = d.refused
      /\ e.client_closed = d.client_closed /\ e.dead_client = d.dead_client
      /\ e.socks_up = d.socks_up
      /\ e.socks_recv_waiting = d.socks_recv_waiting
  BY Zenon DEF Client, release_socks
<1>7. e.recv_cb <=> d.recv_cb /\ ~(d.socks_up /\ ~d.client_closed)
  BY DEF Client, release_socks
<1>3. /\ e.rcv_wnd = d.rcv_wnd /\ e.unacked = d.unacked /\ e.buf_used = d.buf_used
      /\ e.socks_recv_buf_used = d.socks_recv_buf_used
      /\ e.socks_recv_buf_sent = d.socks_recv_buf_sent
      /\ e.socks_recv_tcp_pending = d.socks_recv_tcp_pending
  BY DEF Client, release_socks
<1> HIDE DEF e
<1>4. CASE waits
  <2>1. client_free_socks(d, nomem) = e
    BY <1>4 DEF client_free_socks, e
  <2>2. FlagsAgree(e) /\ SendingAgrees(e)
    BY <1>1, <1>2, <1>3, <1>7, <1>4 DEF FlagsAgree, SendingAgrees
  <2>3. ReceivingAgrees(e) /\ CountersAgree(e, ack, held)
    BY <1>1, <1>2, <1>3, <1>4 DEF Client, ReceivingAgrees, CountersAgree
  <2> QED
    BY <1>1, <1>2, <1>3, <2>1, <2>2, <2>3 DEF ClientInv, DeadAgrees
<1>5. CASE ~waits /\ ~e.client_closed
  <2>1. client_free_socks(d, nomem) = client_free_client(e, nomem)
    BY <1>5 DEF client_free_socks, e
  <2>2. ~e.freed /\ ~e.refused /\ SendingAgrees(e)
    BY <1>2, <1>5 DEF FlagsAgree, SendingAgrees
  <2> QED
    BY <1>1, <1>2, <1>3, <2>1, <2>2, CloseClient DEF DeadAgrees
<1>6. CASE e.client_closed
  <2> DEFINE f == client_dealloc(e)
  <2>1. client_free_socks(d, nomem) = f
    BY <1>6 DEF client_free_socks, e
  <2>2. f \in Client
    BY <1>1, Zenon DEF Client, client_dealloc
  <2>3. FlagsAgree(f) /\ SendingAgrees(f)
    BY <1>1, <1>2, <1>3, <1>6, <1>7 DEF Client, FlagsAgree, SendingAgrees, client_dealloc
  <2>4. ReceivingAgrees(f) /\ CountersAgree(f, ack, held)
    BY <1>1, <1>2, <1>6 DEF Client, ReceivingAgrees, CountersAgree, client_dealloc
  <2>5. f.client_closed = e.client_closed /\ f.dead_client = e.dead_client
    BY <1>1, Zenon DEF Client, client_dealloc
  <2>6. f.buf_used = e.buf_used
    BY <1>1 DEF Client, client_dealloc
  <2> QED
    BY <1>2, <1>3, <2>1, <2>2, <2>3, <2>4, <2>5, <2>6 DEF ClientInv, DeadAgrees
<1> QED
  BY <1>4, <1>5, <1>6

-----------------------------------------------------------------------------
(* A struct while client_socks_recv_send_out may run on it: SOCKS is up, the *)
(* application is there, nothing is being read, and the counters agree.      *)
Relaying(d, held) ==
  /\ d \in Client
  /\ FlagsAgree(d) /\ SendingAgrees(d) /\ CountersAgree(d, 0, held)
  /\ d.socks_up /\ ~d.client_closed /\ d.recv_st = "none"

(* client_socks_recv_send_out: the client was aborted; or everything was     *)
(* queued; or some was, and an acknowledgement will come.                    *)
LEMMA SendOut ==
  ASSUME NEW d, NEW held, Relaying(d, held),
         NEW wr \in WriteResult, NEW out \in BOOLEAN,
         d.socks_recv_buf_used > 0,
         d.socks_recv_buf_sent < d.socks_recv_buf_used
  PROVE  LET e == client_socks_recv_send_out(d, wr, out)
         IN  /\ e.buf_used = d.buf_used
             /\ DeadAgrees(d) => DeadAgrees(e)
             /\ e.client_closed => ClientInv(e, 0, held)
             /\ ~e.client_closed =>
                  /\ Relaying(e, held)
                  /\ e.socks_closed = d.socks_closed /\ e.send_st = d.send_st
                  /\ e.socks_recv_tcp_pending > 0
                  /\ \/ e.socks_recv_buf_used = -1
                     \/ /\ e.socks_recv_buf_used > 0
                        /\ e.socks_recv_waiting
                        /\ e.socks_recv_buf_sent < e.socks_recv_buf_used
<1> DEFINE to_write == Smaller(d.socks_recv_buf_used - d.socks_recv_buf_sent,
                               TCP_SND_BUF - d.unacked)
           written == IF wr = "ok" THEN to_write ELSE 0
           e == [d EXCEPT !.socks_recv_buf_sent = @ + written,
                          !.socks_recv_tcp_pending = @ + written,
                          !.unacked = @ + written]
           more == e.socks_recv_buf_sent < e.socks_recv_buf_used
           fails == \/ wr = "fail" /\ to_write > 0
                    \/ ~out
                    \/ more /\ e.socks_recv_tcp_pending = 0
           r == client_socks_recv_send_out(d, wr, out)
<1>1. /\ d.socks_recv_buf_sent + written \in 0 .. CLIENT_SOCKS_RECV_BUF_SIZE
      /\ d.socks_recv_tcp_pending + written \in 0 .. TCP_SND_BUF
      /\ d.unacked + written \in 0 .. TCP_SND_BUF
      /\ written \in Nat
  BY SizesAssumption DEF Relaying, Client, CountersAgree, Smaller
<1>2. e \in Client
  BY <1>1, Zenon DEF Relaying, Client
<1>3. /\ e.freed = d.freed /\ e.pcb = d.pcb /\ e.recv_cb = d.recv_cb
      /\ e.sent_cb = d.sent_cb /\ e.err_cb = d.err_cb /\ e.refused = d.refused
      /\ e.client_closed = d.client_closed /\ e.dead_client = d.dead_client
      /\ e.socks_up = d.socks_up /\ e.socks_closed = d.socks_closed
      /\ e.send_st = d.send_st /\ e.recv_st = d.recv_st
      /\ e.rcv_wnd = d.rcv_wnd /\ e.buf_used = d.buf_used
      /\ e.send_len = d.send_len /\ e.recv_len = d.recv_len
      /\ e.socks_recv_buf_used = d.socks_recv_buf_used
  BY Zenon DEF Relaying, Client
<1>4. /\ e.socks_recv_buf_sent = d.socks_recv_buf_sent + written
      /\ e.socks_recv_tcp_pending = d.socks_recv_tcp_pending + written
      /\ e.unacked = d.unacked + written
  BY Zenon DEF Relaying, Client
<1>5. more \/ e.socks_recv_tcp_pending > 0
  BY <1>1, <1>3, <1>4 DEF Relaying, Client
<1>6. r = IF fails THEN client_abort_client(e)
          ELSE IF more THEN [e EXCEPT !.socks_recv_waiting = TRUE]
          ELSE [e EXCEPT !.socks_recv_buf_used = -1]
  BY DEF client_socks_recv_send_out
<1>7. FlagsAgree(e) /\ SendingAgrees(e)
  BY <1>3 DEF Relaying, FlagsAgree, SendingAgrees
<1>8. CountersAgree(e, 0, held)
  BY <1>1, <1>3, <1>4 DEF Relaying, Client, CountersAgree
<1> HIDE DEF e, written
<1>9. CASE fails
  <2>1. ~e.freed /\ ~e.refused /\ e.recv_st = "none"
    BY <1>3, <1>7 DEF FlagsAgree, Relaying
  <2> QED
    BY <1>2, <1>3, <1>6, <1>7, <1>9, <2>1, CloseClient DEF DeadAgrees
<1>10. CASE ~fails /\ more
  <2> DEFINE f == [e EXCEPT !.socks_recv_waiting = TRUE]
  <2>1. f \in Client
    BY <1>2, Zenon DEF Client
  <2>2. r = f
    BY <1>6, <1>10
  <2>3. /\ f.freed = e.freed /\ f.pcb = e.pcb /\ f.recv_cb = e.recv_cb
        /\ f.sent_cb = e.sent_cb /\ f.err_cb = e.err_cb /\ f.refused = e.refused
        /\ f.client_closed = e.client_closed /\ f.dead_client = e.dead_client
        /\ f.socks_up = e.socks_up /\ f.socks_closed = e.socks_closed
        /\ f.send_st = e.send_st /\ f.recv_st = e.recv_st
        /\ f.rcv_wnd = e.rcv_wnd /\ f.buf_used = e.buf_used
        /\ f.send_len = e.send_len /\ f.recv_len = e.recv_len
        /\ f.socks_recv_buf_used = e.socks_recv_buf_used
        /\ f.socks_recv_buf_sent = e.socks_recv_buf_sent
        /\ f.socks_recv_tcp_pending = e.socks_recv_tcp_pending
        /\ f.unacked = e.unacked
        /\ f.socks_recv_waiting
    BY <1>2, Zenon DEF Client
  <2> HIDE DEF f
  <2>4. FlagsAgree(f) /\ SendingAgrees(f)
    BY <1>7, <2>3 DEF FlagsAgree, SendingAgrees
  <2>5. CountersAgree(f, 0, held)
    BY <1>8, <2>3 DEF CountersAgree
  <2>6. f.socks_recv_tcp_pending > 0
    BY <1>2, <1>10, <2>3 DEF Client
  <2> QED
    BY <1>3, <1>10, <2>1, <2>2, <2>3, <2>4, <2>5, <2>6 DEF Relaying, DeadAgrees
<1>11. CASE ~fails /\ ~more
  <2> DEFINE f == [e EXCEPT !.socks_recv_buf_used = -1]
  <2>1. f \in Client
    BY <1>2, Zenon DEF Client
  <2>2. r = f
    BY <1>6, <1>11
  <2>3. /\ f.freed = e.freed /\ f.pcb = e.pcb /\ f.recv_cb = e.recv_cb
        /\ f.sent_cb = e.sent_cb /\ f.err_cb = e.err_cb /\ f.refused = e.refused
        /\ f.client_closed = e.client_closed /\ f.dead_client = e.dead_client
        /\ f.socks_up = e.socks_up /\ f.socks_closed = e.socks_closed
        /\ f.send_st = e.send_st /\ f.recv_st = e.recv_st
        /\ f.rcv_wnd = e.rcv_wnd /\ f.buf_used = e.buf_used
        /\ f.send_len = e.send_len /\ f.recv_len = e.recv_len
        /\ f.socks_recv_buf_used = -1
        /\ f.socks_recv_tcp_pending = e.socks_recv_tcp_pending
        /\ f.unacked = e.unacked
    BY <1>2, Zenon DEF Client
  <2> HIDE DEF f
  <2>4. FlagsAgree(f) /\ SendingAgrees(f)
    BY <1>7, <2>3 DEF FlagsAgree, SendingAgrees
  <2>5. CountersAgree(f, 0, held)
    BY <1>8, <2>3 DEF CountersAgree
  <2> QED
    BY <1>3, <1>5, <1>11, <2>1, <2>2, <2>3, <2>4, <2>5 DEF Relaying, DeadAgrees
<1> QED
  BY <1>9, <1>10, <1>11

(* Starting to read again, when nothing is left to queue.                   *)
LEMMA RecvInitiate ==
  ASSUME NEW d, NEW held, Relaying(d, held),
         ~d.socks_closed, d.socks_recv_buf_used = -1
  PROVE  LET e == client_socks_recv_initiate(d)
         IN  /\ ClientInv(e, 0, held)
             /\ e.client_closed = d.client_closed /\ e.dead_client = d.dead_client
             /\ e.buf_used = d.buf_used /\ e.send_st = d.send_st
             /\ e.recv_st = "op"
<1> DEFINE e == client_socks_recv_initiate(d)
<1>1. e \in Client
  BY Zenon DEF Relaying, Client, IfState, client_socks_recv_initiate
<1>2. /\ e.freed = d.freed /\ e.pcb = d.pcb /\ e.recv_cb = d.recv_cb
      /\ e.sent_cb = d.sent_cb /\ e.err_cb = d.err_cb /\ e.refused = d.refused
      /\ e.client_closed = d.client_closed /\ e.dead_client = d.dead_client
      /\ e.socks_up = d.socks_up /\ e.socks_closed = d.socks_closed
      /\ e.socks_recv_waiting = d.socks_recv_waiting /\ e.send_st = d.send_st
      /\ e.rcv_wnd = d.rcv_wnd /\ e.unacked = d.unacked
      /\ e.buf_used = d.buf_used
      /\ e.socks_recv_buf_used = d.socks_recv_buf_used
      /\ e.socks_recv_buf_sent = d.socks_recv_buf_sent
      /\ e.socks_recv_tcp_pending = d.socks_recv_tcp_pending
      /\ e.send_len = d.send_len /\ e.recv_len = d.recv_len
      /\ e.recv_st = "op"
  BY Zenon DEF Relaying, Client, IfState, client_socks_recv_initiate
<1> HIDE DEF e
<1>3. FlagsAgree(e) /\ SendingAgrees(e)
  BY <1>2 DEF Relaying, FlagsAgree, SendingAgrees
<1>4. ReceivingAgrees(e)
  BY <1>2 DEF Relaying, ReceivingAgrees
<1>5. CountersAgree(e, 0, held)
  BY <1>2 DEF Relaying, CountersAgree
<1> QED
  BY <1>1, <1>2, <1>3, <1>4, <1>5 DEF ClientInv, e

(* A client that has queued what it could satisfies the invariant when it   *)
(* has an acknowledgement to wait for and more to do at that time.          *)
LEMMA Waits ==
  ASSUME NEW d, NEW held, Relaying(d, held), d.socks_recv_tcp_pending > 0,
         \/ d.socks_closed /\ d.socks_recv_buf_used = -1
         \/ /\ d.socks_recv_buf_used > 0 /\ d.socks_recv_waiting
            /\ d.socks_recv_buf_sent < d.socks_recv_buf_used
  PROVE  ClientInv(d, 0, held)
  BY DEF Relaying, ClientInv, ReceivingAgrees

(* client_socks_recv_handler_done keeps the invariant.                      *)
LEMMA RecvHandlerDone ==
  ASSUME NEW d, NEW held, ClientInv(d, 0, held), d.recv_st = "done",
         NEW wr \in WriteResult, NEW out \in BOOLEAN
  PROVE  LET r == client_socks_recv_handler_done(d, wr, out)
         IN  /\ ClientInv(r, 0, held)
             /\ DeadAgrees(d) => DeadAgrees(r)
             /\ r.buf_used = d.buf_used
<1> DEFINE e == [d EXCEPT !.recv_st = "none"]
           g == [e EXCEPT !.socks_recv_buf_used = d.recv_len,
                          !.socks_recv_buf_sent = 0,
                          !.socks_recv_waiting = FALSE]
           f == client_socks_recv_send_out(g, wr, out)
           r == client_socks_recv_handler_done(d, wr, out)
<1>1. r = IF e.client_closed THEN e
          ELSE IF ~f.client_closed /\ f.socks_recv_buf_used = -1
               THEN client_socks_recv_initiate(f)
          ELSE f
  BY DEF client_socks_recv_handler_done
<1>2. e \in Client
  BY Zenon DEF ClientInv, Client, IfState
<1>3. /\ e.freed = d.freed /\ e.pcb = d.pcb /\ e.recv_cb = d.recv_cb
      /\ e.sent_cb = d.sent_cb /\ e.err_cb = d.err_cb /\ e.refused = d.refused
      /\ e.client_closed = d.client_closed /\ e.dead_client = d.dead_client
      /\ e.socks_up = d.socks_up /\ e.socks_closed = d.socks_closed
      /\ e.socks_recv_waiting = d.socks_recv_waiting /\ e.send_st = d.send_st
      /\ e.rcv_wnd = d.rcv_wnd /\ e.unacked = d.unacked
      /\ e.buf_used = d.buf_used
      /\ e.socks_recv_buf_used = d.socks_recv_buf_used
      /\ e.socks_recv_buf_sent = d.socks_recv_buf_sent
      /\ e.socks_recv_tcp_pending = d.socks_recv_tcp_pending
      /\ e.send_len = d.send_len /\ e.recv_len = d.recv_len
      /\ e.recv_st = "none"
  BY Zenon DEF ClientInv, Client
<1>4. d.recv_len \in 1 .. CLIENT_SOCKS_RECV_BUF_SIZE
  BY SizesAssumption DEF ClientInv, Client, ReceivingAgrees
<1>5. 0 \in 0 .. CLIENT_SOCKS_RECV_BUF_SIZE
  BY SizesAssumption
<1> HIDE DEF e
<1>6. g \in Client
  BY <1>2, <1>4, <1>5, Zenon DEF Client
<1>7. /\ g.freed = e.freed /\ g.pcb = e.pcb /\ g.recv_cb = e.recv_cb
      /\ g.sent_cb = e.sent_cb /\ g.err_cb = e.err_cb /\ g.refused = e.refused
      /\ g.client_closed = e.client_closed /\ g.dead_client = e.dead_client
      /\ g.socks_up = e.socks_up /\ g.socks_closed = e.socks_closed
      /\ g.send_st = e.send_st /\ g.recv_st = e.recv_st
      /\ g.rcv_wnd = e.rcv_wnd /\ g.unacked = e.unacked
      /\ g.buf_used = e.buf_used
      /\ g.socks_recv_tcp_pending = e.socks_recv_tcp_pending
      /\ g.send_len = e.send_len /\ g.recv_len = e.recv_len
      /\ g.socks_recv_buf_used = d.recv_len
      /\ g.socks_recv_buf_sent = 0
  BY <1>2, Zenon DEF Client
<1> HIDE DEF g
<1>8. CASE e.client_closed
  <2>1. FlagsAgree(e) /\ SendingAgrees(e)
    BY <1>3, <1>8 DEF ClientInv, FlagsAgree, SendingAgrees
  <2>2. ReceivingAgrees(e) /\ CountersAgree(e, 0, held)
    BY <1>3, <1>8 DEF ClientInv, ReceivingAgrees, CountersAgree, FlagsAgree
  <2> QED
    BY <1>1, <1>2, <1>3, <1>8, <2>1, <2>2 DEF ClientInv, DeadAgrees
<1>9. CASE ~e.client_closed
  <2>1. d.socks_up /\ ~d.socks_closed
    BY DEF ClientInv, ReceivingAgrees
  <2>2. FlagsAgree(g) /\ SendingAgrees(g)
    BY <1>3, <1>7 DEF ClientInv, FlagsAgree, SendingAgrees
  <2>3. CountersAgree(g, 0, held)
    BY <1>3, <1>7 DEF ClientInv, CountersAgree
  <2>4. Relaying(g, held)
    BY <1>3, <1>6, <1>7, <1>9, <2>1, <2>2, <2>3 DEF Relaying
  <2>5. g.socks_recv_buf_used > 0 /\ g.socks_recv_buf_sent < g.socks_recv_buf_used
    BY <1>4, <1>7
  <2>6. /\ f.buf_used = d.buf_used
        /\ DeadAgrees(d) => DeadAgrees(f)
        /\ f.client_closed => ClientInv(f, 0, held)
        /\ ~f.client_closed =>
             /\ Relaying(f, held)
             /\ ~f.socks_closed
             /\ f.socks_recv_tcp_pending > 0
             /\ \/ f.socks_recv_buf_used = -1
                \/ /\ f.socks_recv_buf_used > 0
                   /\ f.socks_recv_waiting
                   /\ f.socks_recv_buf_sent < f.socks_recv_buf_used
    BY <1>3, <1>7, <2>1, <2>4, <2>5, SendOut DEF DeadAgrees
  <2> HIDE DEF f
  <2>7. CASE f.client_closed
    BY <1>1, <1>9, <2>6, <2>7
  <2>8. CASE ~f.client_closed /\ f.socks_recv_buf_used = -1
    BY <1>1, <1>9, <2>6, <2>8, RecvInitiate DEF DeadAgrees
  <2>9. CASE ~f.client_closed /\ f.socks_recv_buf_used # -1
    BY <1>1, <1>9, <2>6, <2>9, Waits
  <2> QED
    BY <2>7, <2>8, <2>9
<1> QED
  BY <1>8, <1>9

-----------------------------------------------------------------------------
(* Handing the buffer to SOCKS when no send is under way.                   *)
LEMMA SendToSocks ==
  ASSUME NEW d, NEW ack, NEW held,
         d \in Client, FlagsAgree(d), ReceivingAgrees(d),
         CountersAgree(d, ack, held),
         d.socks_up, ~d.socks_closed, d.buf_used > 0
  PROVE  LET e == client_send_to_socks(d)
         IN  /\ ClientInv(e, ack, held)
             /\ e.client_closed = d.client_closed /\ e.dead_client = d.dead_client
             /\ e.buf_used = d.buf_used /\ e.send_st = "op" /\ e.recv_st = d.recv_st
<1> DEFINE e == client_send_to_socks(d)
<1>1. d.buf_used \in 0 .. TCP_WND
  BY DEF Client
<1>2. e \in Client
  BY <1>1, Zenon DEF Client, IfState, client_send_to_socks
<1>3. /\ e.freed = d.freed /\ e.pcb = d.pcb /\ e.recv_cb = d.recv_cb
      /\ e.sent_cb = d.sent_cb /\ e.err_cb = d.err_cb /\ e.refused = d.refused
      /\ e.client_closed = d.client_closed /\ e.dead_client = d.dead_client
      /\ e.socks_up = d.socks_up /\ e.socks_closed = d.socks_closed
      /\ e.socks_recv_waiting = d.socks_recv_waiting /\ e.recv_st = d.recv_st
      /\ e.rcv_wnd = d.rcv_wnd /\ e.unacked = d.unacked
      /\ e.buf_used = d.buf_used
      /\ e.socks_recv_buf_used = d.socks_recv_buf_used
      /\ e.socks_recv_buf_sent = d.socks_recv_buf_sent
      /\ e.socks_recv_tcp_pending = d.socks_recv_tcp_pending
      /\ e.recv_len = d.recv_len
      /\ e.send_st = "op" /\ e.send_len = d.buf_used
  BY Zenon DEF Client, client_send_to_socks
<1> HIDE DEF e
<1>4. FlagsAgree(e) /\ ReceivingAgrees(e)
  BY <1>3 DEF FlagsAgree, ReceivingAgrees
<1>5. SendingAgrees(e)
  BY <1>1, <1>3 DEF SendingAgrees
<1>6. CountersAgree(e, ack, held)
  BY <1>3 DEF CountersAgree
<1> QED
  BY <1>2, <1>3, <1>4, <1>5, <1>6 DEF ClientInv, e

(* client_socks_send_handler_done keeps the invariant: exactly the bytes     *)
(* that left the buffer go back to the window.                               *)
LEMMA SendHandlerDone ==
  ASSUME NEW d, NEW ack, NEW held, ClientInv(d, ack, held), held \in Nat,
         d.send_st = "done", NEW nomem \in BOOLEAN
  PROVE  LET r == client_socks_send_handler_done(d, nomem)
         IN  /\ ClientInv(r, ack, held)
             /\ DeadAgrees(d) => DeadAgrees(r)
<1> DEFINE n == d.send_len
           e == [d EXCEPT !.send_st = "none", !.buf_used = @ - n]
           f == IF e.client_closed THEN e ELSE tcp_recved(e, n)
           r == client_socks_send_handler_done(d, nomem)
<1>1. r = IF f.buf_used > 0 THEN client_send_to_socks(f)
          ELSE IF f.client_closed THEN client_free_socks(f, nomem)
          ELSE f
  BY DEF client_socks_send_handler_done
<1>2. /\ n \in 1 .. TCP_WND /\ n <= d.buf_used /\ d.buf_used - n \in 0 .. TCP_WND
      /\ d.buf_used \in Nat
      /\ d.socks_up /\ ~d.socks_closed
  BY SizesAssumption DEF ClientInv, Client, SendingAgrees
<1>3. e \in Client
  BY <1>2, Zenon DEF ClientInv, Client, IfState
<1>4. /\ e.freed = d.freed /\ e.pcb = d.pcb /\ e.recv_cb = d.recv_cb
      /\ e.sent_cb = d.sent_cb /\ e.err_cb = d.err_cb /\ e.refused = d.refused
      /\ e.client_closed = d.client_closed /\ e.dead_client = d.dead_client
      /\ e.socks_up = d.socks_up /\ e.socks_closed = d.socks_closed
      /\ e.socks_recv_waiting = d.socks_recv_waiting /\ e.recv_st = d.recv_st
      /\ e.rcv_wnd = d.rcv_wnd /\ e.unacked = d.unacked
      /\ e.socks_recv_buf_used = d.socks_recv_buf_used
      /\ e.socks_recv_buf_sent = d.socks_recv_buf_sent
      /\ e.socks_recv_tcp_pending = d.socks_recv_tcp_pending
      /\ e.send_len = d.send_len /\ e.recv_len = d.recv_len
      /\ e.send_st = "none" /\ e.buf_used = d.buf_used - n
  BY Zenon DEF ClientInv, Client
<1> HIDE DEF e
<1>5. ~e.client_closed =>
        /\ e.rcv_wnd + n \in 0 .. TCP_WND
        /\ Smaller(e.rcv_wnd + n, TCP_WND) = e.rcv_wnd + n
  BY <1>2, <1>4, SizesAssumption DEF ClientInv, Client, CountersAgree, Smaller
<1>6. f \in Client
  BY <1>3, <1>5, Zenon DEF Client, tcp_recved
<1>7. /\ f.freed = e.freed /\ f.pcb = e.pcb /\ f.recv_cb = e.recv_cb
      /\ f.sent_cb = e.sent_cb /\ f.err_cb = e.err_cb /\ f.refused = e.refused
      /\ f.client_closed = e.client_closed /\ f.dead_client = e.dead_client
      /\ f.socks_up = e.socks_up /\ f.socks_closed = e.socks_closed
      /\ f.socks_recv_waiting = e.socks_recv_waiting /\ f.send_st = e.send_st
      /\ f.recv_st = e.recv_st /\ f.unacked = e.unacked
      /\ f.buf_used = e.buf_used
      /\ f.socks_recv_buf_used = e.socks_recv_buf_used
      /\ f.socks_recv_buf_sent = e.socks_recv_buf_sent
      /\ f.socks_recv_tcp_pending = e.socks_recv_tcp_pending
      /\ f.send_len = e.send_len /\ f.recv_len = e.recv_len
  BY <1>3, Zenon DEF Client, tcp_recved
<1>8. ~e.client_closed => f.rcv_wnd = e.rcv_wnd + n
  BY <1>3, <1>5, Zenon DEF Client, tcp_recved
<1> HIDE DEF f
<1>9. FlagsAgree(f) /\ ReceivingAgrees(f)
  BY <1>4, <1>7 DEF ClientInv, FlagsAgree, ReceivingAgrees
<1>10. CountersAgree(f, ack, held)
  BY <1>2, <1>3, <1>4, <1>7, <1>8, SizesAssumption DEF ClientInv, Client, CountersAgree
<1>11. CASE f.buf_used > 0
  <2> DEFINE g == client_send_to_socks(f)
  <2>1. f.socks_up /\ ~f.socks_closed
    BY <1>2, <1>4, <1>7
  <2>2. /\ ClientInv(g, ack, held)
        /\ g.client_closed = f.client_closed /\ g.dead_client = f.dead_client
    BY <1>6, <1>9, <1>10, <1>11, <2>1, SendToSocks
  <2>3. r = g
    BY <1>1, <1>11
  <2> HIDE DEF g
  <2> QED
    BY <1>4, <1>7, <2>2, <2>3 DEF DeadAgrees
<1>12. CASE ~(f.buf_used > 0) /\ f.client_closed
  <2>1. /\ ClientInv(client_free_socks(f, nomem), ack, held)
        /\ DeadAgrees(f) => DeadAgrees(client_free_socks(f, nomem))
    BY <1>2, <1>4, <1>6, <1>7, <1>9, <1>10, <1>12, FreeSocks
  <2> QED
    BY <1>1, <1>4, <1>7, <1>12, <2>1 DEF DeadAgrees
<1>13. CASE ~(f.buf_used > 0) /\ ~f.client_closed
  <2>1. SendingAgrees(f)
    BY <1>4, <1>7, <1>13 DEF SendingAgrees
  <2> QED
    BY <1>1, <1>4, <1>6, <1>7, <1>9, <1>10, <1>13, <2>1 DEF ClientInv, DeadAgrees
<1> QED
  BY <1>11, <1>12, <1>13

(* BSOCKSCLIENT_EVENT_UP keeps the invariant.                               *)
LEMMA SocksUpHandler ==
  ASSUME NEW d, NEW held, ClientInv(d, 0, held),
         ~d.freed, ~d.socks_closed, ~d.socks_up
  PROVE  LET r == client_socks_up(d)
         IN  /\ ClientInv(r, 0, held)
             /\ r.client_closed = d.client_closed /\ r.dead_client = d.dead_client
             /\ r.buf_used = d.buf_used
<1> DEFINE e == [d EXCEPT !.socks_recv_buf_used = -1,
                          !.socks_recv_tcp_pending = 0,
                          !.sent_cb = IF d.client_closed THEN @ ELSE TRUE,
                          !.socks_up = TRUE]
           f == IF e.buf_used > 0 THEN client_send_to_socks(e) ELSE e
           r == client_socks_up(d)
<1>1. r = IF f.client_closed THEN f ELSE client_socks_recv_initiate(f)
  BY DEF client_socks_up
<1>2. 0 \in 0 .. TCP_SND_BUF
  BY SizesAssumption
<1>3. e \in Client
  BY <1>2, Zenon DEF ClientInv, Client
<1>4. /\ e.freed = d.freed /\ e.pcb = d.pcb /\ e.recv_cb = d.recv_cb
      /\ e.err_cb = d.err_cb /\ e.refused = d.refused
      /\ e.client_closed = d.client_closed /\ e.dead_client = d.dead_client
      /\ e.socks_closed = d.socks_closed
      /\ e.socks_recv_waiting = d.socks_recv_waiting /\ e.send_st = d.send_st
      /\ e.recv_st = d.recv_st /\ e.rcv_wnd = d.rcv_wnd
      /\ e.unacked = d.unacked /\ e.buf_used = d.buf_used
      /\ e.socks_recv_buf_sent = d.socks_recv_buf_sent
      /\ e.send_len = d.send_len /\ e.recv_len = d.recv_len
      /\ e.socks_recv_buf_used = -1 /\ e.socks_recv_tcp_pending = 0
      /\ e.socks_up
      /\ d.client_closed => e.sent_cb = d.sent_cb
      /\ ~d.client_closed => e.sent_cb
  BY Zenon DEF ClientInv, Client
<1> HIDE DEF e
<1>5. d.send_st = "none" /\ d.recv_st = "none" /\ (~d.client_closed => d.unacked = 0)
  BY DEF ClientInv, SendingAgrees, ReceivingAgrees, CountersAgree
<1>6. FlagsAgree(e)
  BY <1>4 DEF ClientInv, FlagsAgree
<1>7. CountersAgree(e, 0, held)
  BY <1>4, <1>5 DEF ClientInv, CountersAgree
<1>8. d.client_closed => d.buf_used > 0
  BY DEF ClientInv, SendingAgrees
<1>9. CASE d.client_closed
  <2>1. ReceivingAgrees(e)
    BY <1>4, <1>5, <1>9 DEF ReceivingAgrees
  <2>2. /\ ClientInv(f, 0, held)
        /\ f.client_closed = d.client_closed /\ f.dead_client = d.dead_client
        /\ f.buf_used = d.buf_used
    BY <1>3, <1>4, <1>6, <1>7, <1>8, <1>9, <2>1, SendToSocks
  <2> QED
    BY <1>1, <1>9, <2>2
<1>10. CASE ~d.client_closed
  <2>1. Relaying(f, held) /\ f.socks_recv_buf_used = -1 /\ ~f.socks_closed
        /\ f.client_closed = d.client_closed /\ f.dead_client = d.dead_client
        /\ f.buf_used = d.buf_used
    <3>1. CASE e.buf_used > 0
      <4> DEFINE g == client_send_to_socks(e)
      <4>0. e.buf_used \in 0 .. TCP_WND
        BY <1>3 DEF Client
      <4>1. g \in Client
        BY <1>3, <4>0, Zenon DEF Client, IfState, client_send_to_socks
      <4>2. /\ g.freed = e.freed /\ g.pcb = e.pcb /\ g.recv_cb = e.recv_cb
            /\ g.sent_cb = e.sent_cb /\ g.err_cb = e.err_cb
            /\ g.refused = e.refused /\ g.client_closed = e.client_closed
            /\ g.dead_client = e.dead_client /\ g.socks_up = e.socks_up
            /\ g.socks_closed = e.socks_closed
            /\ g.socks_recv_waiting = e.socks_recv_waiting
            /\ g.recv_st = e.recv_st /\ g.rcv_wnd = e.rcv_wnd
            /\ g.unacked = e.unacked /\ g.buf_used = e.buf_used
            /\ g.socks_recv_buf_used = e.socks_recv_buf_used
            /\ g.socks_recv_buf_sent = e.socks_recv_buf_sent
            /\ g.socks_recv_tcp_pending = e.socks_recv_tcp_pending
            /\ g.recv_len = e.recv_len
            /\ g.send_st = "op" /\ g.send_len = e.buf_used
        BY <1>3, Zenon DEF Client, client_send_to_socks
      <4>3. f = g
        BY <3>1
      <4> HIDE DEF g, f
      <4>4. FlagsAgree(g) /\ CountersAgree(g, 0, held)
        BY <1>6, <1>7, <4>2 DEF FlagsAgree, CountersAgree
      <4>5. SendingAgrees(g)
        BY <1>4, <1>10, <3>1, <4>0, <4>2 DEF SendingAgrees
      <4> QED
        BY <1>4, <1>5, <1>10, <4>1, <4>2, <4>3, <4>4, <4>5 DEF Relaying
    <3>2. CASE ~(e.buf_used > 0)
      <4>1. SendingAgrees(e)
        BY <1>4, <1>5, <1>10, <3>2 DEF SendingAgrees
      <4> QED
        BY <1>3, <1>4, <1>5, <1>6, <1>7, <1>10, <3>2, <4>1 DEF Relaying
    <3> QED
      BY <3>1, <3>2
  <2> HIDE DEF f
  <2> QED
    BY <1>1, <1>10, <2>1, RecvInitiate
<1> QED
  BY <1>9, <1>10

(* client_sent_func keeps the invariant and settles the acknowledgement.  If *)
(* it leaves the client open it has started at most a read.                  *)
LEMMA SentFunc ==
  ASSUME NEW d, NEW n \in Nat, NEW held, ClientInv(d, n, held),
         ~d.client_closed, d.socks_up,
         NEW wr \in WriteResult, NEW out \in BOOLEAN, NEW nomem \in BOOLEAN
  PROVE  LET r == client_sent_func(d, n, wr, out, nomem)
         IN  /\ ClientInv(r, 0, held)
             /\ r.buf_used = d.buf_used
             /\ ~r.client_closed =>
                  /\ r.send_st = d.send_st
                  /\ r.recv_st = d.recv_st \/ (d.recv_st = "none" /\ r.recv_st = "op")
<1> DEFINE e == [d EXCEPT !.socks_recv_tcp_pending = @ - n]
           g == [e EXCEPT !.socks_recv_waiting = FALSE]
           f == client_socks_recv_send_out(g, wr, out)
           r == client_sent_func(d, n, wr, out, nomem)
<1>1. r = IF e.socks_recv_buf_used > 0
          THEN IF /\ ~f.client_closed
                  /\ f.socks_recv_buf_used = -1
                  /\ ~f.socks_closed
               THEN client_socks_recv_initiate(f)
               ELSE f
          ELSE IF e.socks_closed /\ e.socks_recv_tcp_pending = 0
               THEN client_free_client(e, nomem)
               ELSE e
  BY DEF client_sent_func
<1>2. /\ d.socks_recv_tcp_pending - n = d.unacked
      /\ d.socks_recv_tcp_pending - n \in 0 .. TCP_SND_BUF
  BY SizesAssumption DEF ClientInv, Client, CountersAgree
<1>3. e \in Client
  BY <1>2, Zenon DEF ClientInv, Client
<1>4. /\ e.freed = d.freed /\ e.pcb = d.pcb /\ e.recv_cb = d.recv_cb
      /\ e.sent_cb = d.sent_cb /\ e.err_cb = d.err_cb /\ e.refused = d.refused
      /\ e.client_closed = d.client_closed /\ e.dead_client = d.dead_client
      /\ e.socks_up = d.socks_up /\ e.socks_closed = d.socks_closed
      /\ e.socks_recv_waiting = d.socks_recv_waiting /\ e.send_st = d.send_st
      /\ e.recv_st = d.recv_st /\ e.rcv_wnd = d.rcv_wnd
      /\ e.unacked = d.unacked /\ e.buf_used = d.buf_used
      /\ e.socks_recv_buf_used = d.socks_recv_buf_used
      /\ e.socks_recv_buf_sent = d.socks_recv_buf_sent
      /\ e.send_len = d.send_len /\ e.recv_len = d.recv_len
      /\ e.socks_recv_tcp_pending = d.unacked
  BY <1>2, Zenon DEF ClientInv, Client
<1> HIDE DEF e
<1>5. FlagsAgree(e) /\ SendingAgrees(e)
  BY <1>4 DEF ClientInv, FlagsAgree, SendingAgrees
<1>6. CountersAgree(e, 0, held)
  BY <1>3, <1>4 DEF ClientInv, Client, CountersAgree
<1>7. CASE e.socks_recv_buf_used > 0
  <2>1. d.recv_st = "none" /\ d.socks_recv_buf_sent < d.socks_recv_buf_used
    BY <1>4, <1>7 DEF ClientInv, ReceivingAgrees
  <2>2. g \in Client
    BY <1>3, Zenon DEF Client
  <2>3. /\ g.freed = e.freed /\ g.pcb = e.pcb /\ g.recv_cb = e.recv_cb
        /\ g.sent_cb = e.sent_cb /\ g.err_cb = e.err_cb
        /\ g.refused = e.refused /\ g.client_closed = e.client_closed
        /\ g.dead_client = e.dead_client /\ g.socks_up = e.socks_up
        /\ g.socks_closed = e.socks_closed /\ g.send_st = e.send_st
        /\ g.recv_st = e.recv_st /\ g.rcv_wnd = e.rcv_wnd
        /\ g.unacked = e.unacked /\ g.buf_used = e.buf_used
        /\ g.socks_recv_buf_used = e.socks_recv_buf_used
        /\ g.socks_recv_buf_sent = e.socks_recv_buf_sent
        /\ g.socks_recv_tcp_pending = e.socks_recv_tcp_pending
        /\ g.send_len = e.send_len /\ g.recv_len = e.recv_len
    BY <1>3, Zenon DEF Client
  <2> HIDE DEF g
  <2>4. FlagsAgree(g) /\ SendingAgrees(g) /\ CountersAgree(g, 0, held)
    BY <1>5, <1>6, <2>3 DEF FlagsAgree, SendingAgrees, CountersAgree
  <2>5. Relaying(g, held)
    BY <1>4, <2>1, <2>2, <2>3, <2>4 DEF Relaying
  <2>6. g.socks_recv_buf_used > 0 /\ g.socks_recv_buf_sent < g.socks_recv_buf_used
    BY <1>4, <1>7, <2>1, <2>3
  <2>7. /\ f.buf_used = d.buf_used
        /\ f.client_closed => ClientInv(f, 0, held)
        /\ ~f.client_closed =>
             /\ Relaying(f, held)
             /\ f.send_st = d.send_st
             /\ f.socks_recv_tcp_pending > 0
             /\ \/ f.socks_recv_buf_used = -1
                \/ /\ f.socks_recv_buf_used > 0
                   /\ f.socks_recv_waiting
                   /\ f.socks_recv_buf_sent < f.socks_recv_buf_used
    BY <1>4, <2>3, <2>5, <2>6, SendOut
  <2> HIDE DEF f
  <2>8. CASE f.client_closed
    BY <1>1, <1>7, <2>7, <2>8
  <2>9. CASE ~f.client_closed /\ f.socks_recv_buf_used = -1 /\ ~f.socks_closed
    BY <1>1, <1>7, <2>1, <2>7, <2>9, RecvInitiate
  <2>10. CASE ~f.client_closed /\ ~(f.socks_recv_buf_used = -1 /\ ~f.socks_closed)
    <3>1. r = f
      BY <1>1, <1>7, <2>10
    <3>2. f.socks_closed \in BOOLEAN
      BY <2>7, <2>10 DEF Relaying, Client
    <3>3. ClientInv(f, 0, held)
      BY <2>7, <2>10, <3>2, Waits
    <3>4. f.recv_st = "none"
      BY <2>7, <2>10 DEF Relaying
    <3> QED
      BY <2>1, <2>7, <3>1, <3>3, <3>4
  <2> QED
    BY <2>8, <2>9, <2>10
<1>8. CASE ~(e.socks_recv_buf_used > 0) /\ e.socks_closed /\ e.socks_recv_tcp_pending = 0
  <2>1. ~e.freed /\ ~e.refused /\ e.recv_st = "none"
    BY <1>4, <1>8 DEF ClientInv, FlagsAgree, ReceivingAgrees
  <2>2. /\ ClientInv(client_free_client(e, nomem), 0, held)
        /\ client_free_client(e, nomem).client_closed
        /\ client_free_client(e, nomem).buf_used = e.buf_used
    BY <1>3, <1>5, <2>1, CloseClient
  <2> QED
    BY <1>1, <1>4, <1>8, <2>2
<1>9. CASE ~(e.socks_recv_buf_used > 0)
           /\ ~(e.socks_closed /\ e.socks_recv_tcp_pending = 0)
  <2>1. ReceivingAgrees(e)
    BY <1>3, <1>4, <1>9 DEF ClientInv, Client, ReceivingAgrees
  <2> QED
    BY <1>1, <1>3, <1>4, <1>5, <1>6, <1>9, <2>1 DEF ClientInv
<1> QED
  BY <1>7, <1>8, <1>9

(* client_recv_func keeps the invariant when the bytes fit, and they always  *)
(* do: they came out of the window.                                          *)
LEMMA RecvFunc ==
  ASSUME NEW d, NEW n \in Nat, n > 0, NEW held \in Nat, ClientInv(d, 0, held + n),
         ~d.client_closed, d.recv_cb
  PROVE  LET r == client_recv_func(d, n)
         IN  /\ n <= TCP_WND - d.buf_used
             /\ ClientInv(r, 0, held)
             /\ r.client_closed = d.client_closed
             /\ r.recv_st = d.recv_st
             /\ ~(d.buf_used = 0 /\ d.socks_up) => r.send_st = d.send_st
<1> DEFINE e == [d EXCEPT !.buf_used = @ + n]
           r == client_recv_func(d, n)
<1>1. r = IF e.buf_used = n /\ e.socks_up THEN client_send_to_socks(e) ELSE e
  BY DEF client_recv_func
<1>2. n <= TCP_WND - d.buf_used /\ d.buf_used + n \in 0 .. TCP_WND /\ d.buf_used \in Nat
  BY SizesAssumption DEF ClientInv, Client, CountersAgree
<1>3. e \in Client
  BY <1>2, Zenon DEF ClientInv, Client
<1>4. /\ e.freed = d.freed /\ e.pcb = d.pcb /\ e.recv_cb = d.recv_cb
      /\ e.sent_cb = d.sent_cb /\ e.err_cb = d.err_cb /\ e.refused = d.refused
      /\ e.client_closed = d.client_closed /\ e.dead_client = d.dead_client
      /\ e.socks_up = d.socks_up /\ e.socks_closed = d.socks_closed
      /\ e.socks_recv_waiting = d.socks_recv_waiting /\ e.send_st = d.send_st
      /\ e.recv_st = d.recv_st /\ e.rcv_wnd = d.rcv_wnd
      /\ e.unacked = d.unacked
      /\ e.socks_recv_buf_used = d.socks_recv_buf_used
      /\ e.socks_recv_buf_sent = d.socks_recv_buf_sent
      /\ e.socks_recv_tcp_pending = d.socks_recv_tcp_pending
      /\ e.send_len = d.send_len /\ e.recv_len = d.recv_len
      /\ e.buf_used = d.buf_used + n
  BY Zenon DEF ClientInv, Client
<1> HIDE DEF e
<1>5. FlagsAgree(e) /\ ReceivingAgrees(e)
  BY <1>4 DEF ClientInv, FlagsAgree, ReceivingAgrees
<1>6. CountersAgree(e, 0, held)
  BY <1>2, <1>3, <1>4, SizesAssumption DEF ClientInv, Client, CountersAgree
<1>7. ~e.socks_closed /\ ~e.client_closed
  BY <1>4 DEF ClientInv, FlagsAgree
<1>8. CASE e.buf_used = n /\ e.socks_up
  <2>1. e.buf_used > 0
    BY <1>8
  <2>2. /\ ClientInv(client_send_to_socks(e), 0, held)
        /\ client_send_to_socks(e).client_closed = e.client_closed
        /\ client_send_to_socks(e).recv_st = e.recv_st
    BY <1>3, <1>5, <1>6, <1>7, <1>8, <2>1, SendToSocks
  <2>3. d.buf_used = 0 /\ d.socks_up
    BY <1>2, <1>4, <1>8
  <2> QED
    BY <1>1, <1>2, <1>4, <1>8, <2>2, <2>3
<1>9. CASE ~(e.buf_used = n /\ e.socks_up)
  <2>1. SendingAgrees(e)
    BY <1>2, <1>3, <1>4, <1>7, <1>9 DEF ClientInv, Client, SendingAgrees
  <2> QED
    BY <1>1, <1>2, <1>3, <1>4, <1>5, <1>6, <1>9, <2>1 DEF ClientInv
<1> QED
  BY <1>8, <1>9

-----------------------------------------------------------------------------
(* The actions.                                                            *)

(* The initial state satisfies the invariant.                               *)
LEMMA InitInv == Init => IInv
<1> SUFFICES ASSUME Init PROVE IInv
  OBVIOUS
<1>1. c \in Client
  BY SizesAssumption DEF Init, Client, PcbState, IfState
<1>2. seg \in Segment /\ lw \in LwipState
  BY SizesAssumption DEF Init, LwipState, Segment, NoSegment
<1>3. quitting \in BOOLEAN
  BY DEF Init
<1>4. FlagsAgree(c) /\ SendingAgrees(c)
  BY DEF Init, FlagsAgree, SendingAgrees
<1>5. ReceivingAgrees(c) /\ CountersAgree(c, InFlightAck, Undelivered)
  BY DEF Init, ReceivingAgrees, CountersAgree
<1>6. StageInv
  BY DEF Init, StageInv
<1> QED
  BY <1>1, <1>2, <1>3, <1>4, <1>5, <1>6 DEF IInv, TypeOK, ClientInv

(* What lwIP holds of the segment is a number of bytes.                     *)
LEMMA HeldType == TypeOK => Undelivered \in Nat
  BY SizesAssumption DEF TypeOK, Undelivered, Segment

(* A job or a reactor event that leaves lwIP where it is.                   *)
LEMMA JobKeepsInv ==
  ASSUME IInv, UNCHANGED <<lw, seg, quitting>>,
         lw \notin {"sent_cb", "recv_cb", "fin_cb"},
         ClientInv(c', 0, Undelivered),
         DeadAgrees(c) => DeadAgrees(c)',
         lw = "accept" => c'.buf_used = 0
  PROVE  IInv'
<1>1. TypeOK'
  BY DEF IInv, TypeOK, ClientInv
<1>2. InFlightAck' = 0 /\ Undelivered' = Undelivered
  BY DEF InFlightAck, Undelivered
<1>3. ClientInv(c, InFlightAck, Undelivered)'
  BY <1>2
<1>4. StageInv'
  BY DEF IInv, StageInv, DeadAgrees
<1> QED
  BY <1>1, <1>3, <1>4 DEF IInv

(* A change of dead_client alone does not matter to ClientInv.              *)
LEMMA SetDead ==
  ASSUME NEW d, NEW ack, NEW held, ClientInv(d, ack, held), NEW b \in BOOLEAN
  PROVE  LET e == [d EXCEPT !.dead_client = b]
         IN  /\ ClientInv(e, ack, held)
             /\ e.dead_client = b /\ e.client_closed = d.client_closed
             /\ e.send_st = d.send_st /\ e.recv_st = d.recv_st
             /\ e.buf_used = d.buf_used
<1> DEFINE e == [d EXCEPT !.dead_client = b]
<1>1. e \in Client
  BY Zenon DEF ClientInv, Client
<1>2. /\ e.freed = d.freed /\ e.pcb = d.pcb /\ e.recv_cb = d.recv_cb
      /\ e.sent_cb = d.sent_cb /\ e.err_cb = d.err_cb /\ e.refused = d.refused
      /\ e.client_closed = d.client_closed /\ e.socks_up = d.socks_up
      /\ e.socks_closed = d.socks_closed
      /\ e.socks_recv_waiting = d.socks_recv_waiting /\ e.send_st = d.send_st
      /\ e.recv_st = d.recv_st /\ e.rcv_wnd = d.rcv_wnd
      /\ e.unacked = d.unacked /\ e.buf_used = d.buf_used
      /\ e.socks_recv_buf_used = d.socks_recv_buf_used
      /\ e.socks_recv_buf_sent = d.socks_recv_buf_sent
      /\ e.socks_recv_tcp_pending = d.socks_recv_tcp_pending
      /\ e.send_len = d.send_len /\ e.recv_len = d.recv_len
      /\ e.dead_client = b
  BY Zenon DEF ClientInv, Client
<1> HIDE DEF e
<1>3. FlagsAgree(e) /\ SendingAgrees(e)
  BY <1>2 DEF ClientInv, FlagsAgree, SendingAgrees
<1>4. ReceivingAgrees(e) /\ CountersAgree(e, ack, held)
  BY <1>2 DEF ClientInv, ReceivingAgrees, CountersAgree
<1> QED
  BY <1>1, <1>2, <1>3, <1>4 DEF ClientInv, e

(* Events of SOCKS and of its socket keep the invariant.                    *)
LEMMA SocksStepInv == IInv /\ (SocksEvent \/ SendStep \/ RecvStep \/ DoneStep) => IInv'
<1> SUFFICES ASSUME IInv, SocksEvent \/ SendStep \/ RecvStep \/ DoneStep
             PROVE  IInv'
  OBVIOUS
<1> USE DEF DeadAgrees
<1>0. ClientInv(c, InFlightAck, Undelivered) /\ TypeOK /\ StageInv
  BY DEF IInv
<1>a. ASSUME Idle \/ JobPending \/ lw = "accept"
      PROVE  /\ lw \notin {"sent_cb", "recv_cb", "fin_cb"}
             /\ InFlightAck = 0 /\ ClientInv(c, 0, Undelivered)
  BY <1>0, <1>a DEF StageInv, Idle, InFlightAck
<1>b. lw = "accept" => c.buf_used = 0
  BY <1>0 DEF StageInv
<1>c. Undelivered \in Nat
  BY <1>0, HeldType
<1>1. ASSUME SocksUp PROVE IInv'
  <2>1. ClientInv(c, 0, Undelivered) /\ lw \notin {"sent_cb", "recv_cb", "fin_cb"}
    BY <1>1, <1>a DEF SocksUp
  <2>2. /\ ClientInv(c', 0, Undelivered)
        /\ c'.client_closed = c.client_closed /\ c'.dead_client = c.dead_client
        /\ c'.buf_used = c.buf_used
    BY <1>1, <2>1, SocksUpHandler DEF SocksUp
  <2> QED
    BY <1>1, <1>b, <2>1, <2>2, JobKeepsInv DEF SocksUp
<1>2. ASSUME NEW nomem \in BOOLEAN, SocksError(nomem) \/ TransferError(nomem)
      PROVE  IInv'
  <2>1. ClientInv(c, 0, Undelivered) /\ lw \notin {"sent_cb", "recv_cb", "fin_cb"}
    BY <1>2, <1>a DEF SocksError, TransferError, SendRuns, RecvRuns, JobPending
  <2>2. ~c.socks_closed
    BY <1>2, <2>1 DEF SocksError, TransferError, SendRuns, RecvRuns, ClientInv,
                      SendingAgrees, ReceivingAgrees
  <2>3. /\ ClientInv(c', 0, Undelivered)
        /\ DeadAgrees(c) => DeadAgrees(c')
        /\ c'.buf_used = c.buf_used
    <3>1. c' = client_free_socks(c, nomem)
      BY <1>2 DEF SocksError, TransferError
    <3>2. /\ c \in Client /\ FlagsAgree(c) /\ CountersAgree(c, 0, Undelivered)
          /\ c.socks_up /\ ~c.client_closed /\ c.socks_recv_buf_used > 0 =>
               /\ c.socks_recv_waiting
               /\ c.socks_recv_buf_sent < c.socks_recv_buf_used
               /\ c.socks_recv_tcp_pending > 0
      BY <2>1 DEF ClientInv, ReceivingAgrees
    <3> QED
      BY <2>2, <3>1, <3>2, FreeSocks
  <2> QED
    BY <1>2, <1>b, <2>1, <2>3, JobKeepsInv DEF SocksError, TransferError
<1>3. ASSUME NEW n \in 1 .. TCP_WND, SendWritten(n) PROVE IInv'
  <2>1. ClientInv(c, 0, Undelivered) /\ lw \notin {"sent_cb", "recv_cb", "fin_cb"}
    BY <1>3, <1>a DEF SendWritten, SendRuns, JobPending
  <2>2. n \in 0 .. TCP_WND /\ n > 0
    BY SizesAssumption
  <2>3. c' \in Client
    BY <1>3, <2>1, <2>2, Zenon DEF SendWritten, ClientInv, Client, IfState
  <2>4. /\ c'.freed = c.freed /\ c'.pcb = c.pcb /\ c'.recv_cb = c.recv_cb
        /\ c'.sent_cb = c.sent_cb /\ c'.err_cb = c.err_cb
        /\ c'.refused = c.refused /\ c'.client_closed = c.client_closed
        /\ c'.dead_client = c.dead_client /\ c'.socks_up = c.socks_up
        /\ c'.socks_closed = c.socks_closed
        /\ c'.socks_recv_waiting = c.socks_recv_waiting
        /\ c'.recv_st = c.recv_st /\ c'.rcv_wnd = c.rcv_wnd
        /\ c'.unacked = c.unacked /\ c'.buf_used = c.buf_used
        /\ c'.socks_recv_buf_used = c.socks_recv_buf_used
        /\ c'.socks_recv_buf_sent = c.socks_recv_buf_sent
        /\ c'.socks_recv_tcp_pending = c.socks_recv_tcp_pending
        /\ c'.recv_len = c.recv_len
        /\ c'.send_st = "done" /\ c'.send_len = n
    BY <1>3, <2>1, Zenon DEF SendWritten, ClientInv, Client
  <2>5. c.send_st # "none" /\ n <= c.send_len
    BY <1>3 DEF SendWritten, SendRuns
  <2>6. FlagsAgree(c') /\ ReceivingAgrees(c') /\ CountersAgree(c', 0, Undelivered)
    BY <2>1, <2>4 DEF ClientInv, FlagsAgree, ReceivingAgrees, CountersAgree
  <2>7. SendingAgrees(c')
    BY <2>1, <2>2, <2>4, <2>5 DEF ClientInv, Client, SendingAgrees
  <2>8. ClientInv(c', 0, Undelivered)
    BY <2>3, <2>6, <2>7 DEF ClientInv
  <2> QED
    BY <1>3, <1>b, <2>1, <2>4, <2>8, JobKeepsInv DEF SendWritten
<1>4. ASSUME SendAgain PROVE IInv'
  <2>1. ClientInv(c, 0, Undelivered) /\ lw \notin {"sent_cb", "recv_cb", "fin_cb"}
    BY <1>4, <1>a DEF SendAgain, JobPending
  <2>3. c' \in Client
    BY <1>4, <2>1, Zenon DEF SendAgain, ClientInv, Client, IfState
  <2>4. /\ c'.freed = c.freed /\ c'.pcb = c.pcb /\ c'.recv_cb = c.recv_cb
        /\ c'.sent_cb = c.sent_cb /\ c'.err_cb = c.err_cb
        /\ c'.refused = c.refused /\ c'.client_closed = c.client_closed
        /\ c'.dead_client = c.dead_client /\ c'.socks_up = c.socks_up
        /\ c'.socks_closed = c.socks_closed
        /\ c'.socks_recv_waiting = c.socks_recv_waiting
        /\ c'.recv_st = c.recv_st /\ c'.rcv_wnd = c.rcv_wnd
        /\ c'.unacked = c.unacked /\ c'.buf_used = c.buf_used
        /\ c'.socks_recv_buf_used = c.socks_recv_buf_used
        /\ c'.socks_recv_buf_sent = c.socks_recv_buf_sent
        /\ c'.socks_recv_tcp_pending = c.socks_recv_tcp_pending
        /\ c'.send_len = c.send_len /\ c'.recv_len = c.recv_len
        /\ c.send_st = "op" /\ c'.send_st = "busy"
    BY <1>4, <2>1, Zenon DEF SendAgain, ClientInv, Client
  <2>6. FlagsAgree(c') /\ ReceivingAgrees(c') /\ CountersAgree(c', 0, Undelivered)
    BY <2>1, <2>4 DEF ClientInv, FlagsAgree, ReceivingAgrees, CountersAgree
  <2>7. SendingAgrees(c')
    BY <2>1, <2>4 DEF ClientInv, SendingAgrees
  <2>8. ClientInv(c', 0, Undelivered)
    BY <2>3, <2>6, <2>7 DEF ClientInv
  <2> QED
    BY <1>4, <1>b, <2>1, <2>4, <2>8, JobKeepsInv DEF SendAgain
<1>5. ASSUME NEW n \in 1 .. CLIENT_SOCKS_RECV_BUF_SIZE, RecvRead(n) PROVE IInv'
  <2>1. ClientInv(c, 0, Undelivered) /\ lw \notin {"sent_cb", "recv_cb", "fin_cb"}
    BY <1>5, <1>a DEF RecvRead, RecvRuns, JobPending
  <2>2. n \in 0 .. CLIENT_SOCKS_RECV_BUF_SIZE /\ n > 0
    BY SizesAssumption
  <2>3. c' \in Client
    BY <1>5, <2>1, <2>2, Zenon DEF RecvRead, ClientInv, Client, IfState
  <2>4. /\ c'.freed = c.freed /\ c'.pcb = c.pcb /\ c'.recv_cb = c.recv_cb
        /\ c'.sent_cb = c.sent_cb /\ c'.err_cb = c.err_cb
        /\ c'.refused = c.refused /\ c'.client_closed = c.client_closed
        /\ c'.dead_client = c.dead_client /\ c'.socks_up = c.socks_up
        /\ c'.socks_closed = c.socks_closed
        /\ c'.socks_recv_waiting = c.socks_recv_waiting
        /\ c'.send_st = c.send_st /\ c'.rcv_wnd = c.rcv_wnd
        /\ c'.unacked = c.unacked /\ c'.buf_used = c.buf_used
        /\ c'.socks_recv_buf_used = c.socks_recv_buf_used
        /\ c'.socks_recv_buf_sent = c.socks_recv_buf_sent
        /\ c'.socks_recv_tcp_pending = c.socks_recv_tcp_pending
        /\ c'.send_len = c.send_len
        /\ c'.recv_st = "done" /\ c'.recv_len = n
    BY <1>5, <2>1, Zenon DEF RecvRead, ClientInv, Client
  <2>5. c.recv_st # "none"
    BY <1>5 DEF RecvRead, RecvRuns
  <2>6. FlagsAgree(c') /\ SendingAgrees(c') /\ CountersAgree(c', 0, Undelivered)
    BY <2>1, <2>4 DEF ClientInv, FlagsAgree, SendingAgrees, CountersAgree
  <2>7. ReceivingAgrees(c')
    BY <2>1, <2>2, <2>4, <2>5 DEF ClientInv, ReceivingAgrees
  <2>8. ClientInv(c', 0, Undelivered)
    BY <2>3, <2>6, <2>7 DEF ClientInv
  <2> QED
    BY <1>5, <1>b, <2>1, <2>4, <2>8, JobKeepsInv DEF RecvRead
<1>6. ASSUME RecvAgain PROVE IInv'
  <2>1. ClientInv(c, 0, Undelivered) /\ lw \notin {"sent_cb", "recv_cb", "fin_cb"}
    BY <1>6, <1>a DEF RecvAgain, JobPending
  <2>3. c' \in Client
    BY <1>6, <2>1, Zenon DEF RecvAgain, ClientInv, Client, IfState
  <2>4. /\ c'.freed = c.freed /\ c'.pcb = c.pcb /\ c'.recv_cb = c.recv_cb
        /\ c'.sent_cb = c.sent_cb /\ c'.err_cb = c.err_cb
        /\ c'.refused = c.refused /\ c'.client_closed = c.client_closed
        /\ c'.dead_client = c.dead_client /\ c'.socks_up = c.socks_up
        /\ c'.socks_closed = c.socks_closed
        /\ c'.socks_recv_waiting = c.socks_recv_waiting
        /\ c'.send_st = c.send_st /\ c'.rcv_wnd = c.rcv_wnd
        /\ c'.unacked = c.unacked /\ c'.buf_used = c.buf_used
        /\ c'.socks_recv_buf_used = c.socks_recv_buf_used
        /\ c'.socks_recv_buf_sent = c.socks_recv_buf_sent
        /\ c'.socks_recv_tcp_pending = c.socks_recv_tcp_pending
        /\ c'.send_len = c.send_len /\ c'.recv_len = c.recv_len
        /\ c.recv_st = "op" /\ c'.recv_st = "busy"
    BY <1>6, <2>1, Zenon DEF RecvAgain, ClientInv, Client
  <2>6. FlagsAgree(c') /\ SendingAgrees(c') /\ CountersAgree(c', 0, Undelivered)
    BY <2>1, <2>4 DEF ClientInv, FlagsAgree, SendingAgrees, CountersAgree
  <2>7. ReceivingAgrees(c')
    BY <2>1, <2>4 DEF ClientInv, ReceivingAgrees
  <2>8. ClientInv(c', 0, Undelivered)
    BY <2>3, <2>6, <2>7 DEF ClientInv
  <2> QED
    BY <1>6, <1>b, <2>1, <2>4, <2>8, JobKeepsInv DEF RecvAgain
<1>7. ASSUME NEW nomem \in BOOLEAN, SendDone(nomem) PROVE IInv'
  <2>1. ClientInv(c, 0, Undelivered) /\ lw \notin {"sent_cb", "recv_cb", "fin_cb"}
    BY <1>7, <1>a DEF SendDone, JobPending
  <2>2. ClientInv(c', 0, Undelivered) /\ (DeadAgrees(c) => DeadAgrees(c'))
    BY <1>7, <1>c, <2>1, SendHandlerDone DEF SendDone
  <2>3. lw # "accept"
    BY <1>7, <1>b, <2>1 DEF SendDone, ClientInv, SendingAgrees
  <2> QED
    BY <1>7, <2>1, <2>2, <2>3, JobKeepsInv DEF SendDone
<1>8. ASSUME NEW wr \in WriteResult, NEW out \in BOOLEAN, RecvDone(wr, out)
      PROVE  IInv'
  <2>1. ClientInv(c, 0, Undelivered) /\ lw \notin {"sent_cb", "recv_cb", "fin_cb"}
    BY <1>8, <1>a DEF RecvDone, JobPending
  <2>2. /\ ClientInv(c', 0, Undelivered) /\ (DeadAgrees(c) => DeadAgrees(c'))
        /\ c'.buf_used = c.buf_used
    BY <1>8, <2>1, RecvHandlerDone DEF RecvDone
  <2> QED
    BY <1>8, <1>b, <2>1, <2>2, JobKeepsInv DEF RecvDone
<1> QED
  BY <1>1, <1>2, <1>3, <1>4, <1>5, <1>6, <1>7, <1>8
     DEF SocksEvent, SendStep, RecvStep, DoneStep

(* The steps of tcp_input keep the invariant.                               *)
LEMMA LwipStepInv == IInv /\ LwipStep => IInv'
<1> SUFFICES ASSUME IInv, LwipStep
             PROVE  IInv'
  OBVIOUS
<1>0. ClientInv(c, InFlightAck, Undelivered) /\ TypeOK /\ StageInv
  BY DEF IInv
<1>a. seg \in Segment /\ quitting \in BOOLEAN /\ c \in Client
  BY <1>0 DEF TypeOK
<1>b. seg.len \in Nat /\ seg.len <= TCP_WND /\ seg.ack \in Nat /\ seg.fin \in BOOLEAN
  BY <1>a, SizesAssumption DEF Segment
<1>c. NoSegment \in Segment
  BY SizesAssumption DEF NoSegment, Segment
<1> DEFINE finheld == IF seg.fin THEN 1 ELSE 0
<1>1. ASSUME NEW wr \in WriteResult, NEW out \in BOOLEAN, NEW nomem \in BOOLEAN,
             SentCallback(wr, out, nomem)
      PROVE  IInv'
  <2>1. /\ lw = "sent_cb" /\ ~c.client_closed /\ ~JobPending
        /\ ClientInv(c, seg.ack, seg.len + finheld)
        /\ Undelivered = seg.len + finheld
    BY <1>0, <1>1 DEF SentCallback, StageInv, InFlightAck, Undelivered
  <2>2. CASE seg.ack = 0 \/ ~c.sent_cb
    <3>1. seg.ack = 0
      BY <1>b, <2>1, <2>2 DEF ClientInv, FlagsAgree, CountersAgree
    <3>2. c' = c /\ lw' = "recv_cb" /\ seg' = seg /\ quitting' = quitting
      BY <1>1, <2>2 DEF SentCallback, Continue
    <3>3. InFlightAck' = 0 /\ Undelivered' = seg.len + finheld
      BY <3>2 DEF InFlightAck, Undelivered
    <3>4. StageInv'
      BY <2>1, <3>2 DEF StageInv, JobPending
    <3>5. ClientInv(c, InFlightAck, Undelivered)'
      BY <2>1, <3>1, <3>2, <3>3
    <3> QED
      BY <1>a, <3>2, <3>4, <3>5 DEF IInv, TypeOK, LwipState
  <2>3. CASE ~(seg.ack = 0 \/ ~c.sent_cb)
    <3> DEFINE d == client_sent_func(c, seg.ack, wr, out, nomem)
               stage == IF d.recv_st = "op" /\ c.recv_st # "op"
                        THEN "sent" ELSE "recv_cb"
    <3>1. c.socks_up
      BY <2>1, <2>3 DEF ClientInv, FlagsAgree
    <3>2. /\ ClientInv(d, 0, seg.len + finheld)
          /\ ~d.client_closed =>
               /\ d.send_st = c.send_st
               /\ d.recv_st = c.recv_st \/ (c.recv_st = "none" /\ d.recv_st = "op")
      BY <1>b, <2>1, <3>1, SentFunc
    <3>3. /\ c' = [d EXCEPT !.dead_client = d.client_closed]
          /\ lw' = IF d.client_closed THEN "idle" ELSE stage
          /\ seg' = IF d.client_closed THEN NoSegment ELSE seg
          /\ quitting' = quitting
      BY <1>1, <2>3 DEF SentCallback, Continue
    <3>4. d.client_closed \in BOOLEAN
      BY <3>2 DEF ClientInv, Client
    <3> HIDE DEF d
    <3>5. /\ ClientInv(c', 0, seg.len + finheld)
          /\ c'.dead_client = d.client_closed /\ c'.client_closed = d.client_closed
          /\ c'.send_st = d.send_st /\ c'.recv_st = d.recv_st
      BY <3>2, <3>3, <3>4, SetDead
    <3>6. CASE d.client_closed
      <4>1. lw' = "idle" /\ seg' = NoSegment
        BY <3>3, <3>6
      <4>2. ClientInv(c', InFlightAck', Undelivered')
        BY <3>5, <3>6 DEF ClientInv, CountersAgree
      <4>3. StageInv'
        BY <4>1 DEF StageInv
      <4> QED
        BY <1>a, <1>c, <3>3, <3>5, <4>1, <4>2, <4>3 DEF IInv, TypeOK, LwipState, ClientInv
    <3>7. CASE ~d.client_closed
      <4>1. lw' = stage /\ seg' = seg
        BY <3>3, <3>7
      <4>2. InFlightAck' = 0 /\ Undelivered' = seg.len + finheld
        BY <4>1 DEF InFlightAck, Undelivered
      <4>3. ClientInv(c', InFlightAck', Undelivered')
        BY <3>5, <4>2
      <4>4. lw' = "recv_cb" => ~c'.client_closed /\ ~JobPending'
        BY <2>1, <3>2, <3>5, <3>7, <4>1 DEF JobPending
      <4>5. lw' = "sent" => (c'.dead_client <=> c'.client_closed)
        BY <3>5
      <4>6. StageInv'
        BY <4>1, <4>4, <4>5 DEF StageInv
      <4> QED
        BY <1>a, <3>3, <3>5, <4>1, <4>3, <4>6 DEF IInv, TypeOK, LwipState, ClientInv
    <3> QED
      BY <3>4, <3>6, <3>7
  <2> QED
    BY <2>2, <2>3
<1>2. ASSUME RecvCallback PROVE IInv'
  <2>1. /\ lw = "recv_cb" /\ ~c.client_closed /\ ~JobPending
        /\ ClientInv(c, 0, finheld + seg.len)
    BY <1>0, <1>2, <1>b DEF RecvCallback, StageInv, InFlightAck, Undelivered
  <2>2. CASE seg.len = 0
    <3>1. c' = c /\ lw' = "fin_cb" /\ seg' = seg /\ quitting' = quitting
      BY <1>2, <1>b, <2>2 DEF RecvCallback, Continue
    <3>2. InFlightAck' = 0 /\ Undelivered' = finheld + seg.len
      BY <2>2, <3>1 DEF InFlightAck, Undelivered
    <3>3. StageInv'
      BY <2>1, <3>1 DEF StageInv, JobPending
    <3>4. ClientInv(c, InFlightAck, Undelivered)'
      BY <2>1, <3>1, <3>2
    <3> QED
      BY <1>a, <3>1, <3>3, <3>4 DEF IInv, TypeOK, LwipState
  <2>3. CASE seg.len > 0 /\ ~c.recv_cb
    <3>1. /\ c' = tcp_recved(c, seg.len) /\ lw' = "fin_cb" /\ seg' = seg
          /\ quitting' = quitting
      BY <1>2, <1>b, <2>3 DEF RecvCallback, Continue
    <3>2. /\ c.rcv_wnd + seg.len \in 0 .. TCP_WND
          /\ Smaller(c.rcv_wnd + seg.len, TCP_WND) = c.rcv_wnd + seg.len
      BY <1>a, <1>b, <2>1, SizesAssumption DEF ClientInv, Client, CountersAgree, Smaller
    <3>3. c' \in Client
      BY <1>a, <3>1, <3>2, Zenon DEF Client, tcp_recved
    <3>4. /\ c'.freed = c.freed /\ c'.pcb = c.pcb /\ c'.recv_cb = c.recv_cb
          /\ c'.sent_cb = c.sent_cb /\ c'.err_cb = c.err_cb
          /\ c'.refused = c.refused /\ c'.client_closed = c.client_closed
          /\ c'.dead_client = c.dead_client /\ c'.socks_up = c.socks_up
          /\ c'.socks_closed = c.socks_closed
          /\ c'.socks_recv_waiting = c.socks_recv_waiting
          /\ c'.send_st = c.send_st /\ c'.recv_st = c.recv_st
          /\ c'.unacked = c.unacked /\ c'.buf_used = c.buf_used
          /\ c'.socks_recv_buf_used = c.socks_recv_buf_used
          /\ c'.socks_recv_buf_sent = c.socks_recv_buf_sent
          /\ c'.socks_recv_tcp_pending = c.socks_recv_tcp_pending
          /\ c'.send_len = c.send_len /\ c'.recv_len = c.recv_len
          /\ c'.rcv_wnd = c.rcv_wnd + seg.len
      BY <1>a, <3>1, <3>2, Zenon DEF Client, tcp_recved
    <3>5. FlagsAgree(c') /\ SendingAgrees(c') /\ ReceivingAgrees(c')
      BY <2>1, <3>4 DEF ClientInv, FlagsAgree, SendingAgrees, ReceivingAgrees
    <3>6. InFlightAck' = 0 /\ Undelivered' = finheld
      BY <3>1 DEF InFlightAck, Undelivered
    <3>7. CountersAgree(c', 0, finheld)
      BY <1>a, <1>b, <2>1, <3>4 DEF ClientInv, Client, CountersAgree
    <3>8. ClientInv(c', InFlightAck', Undelivered')
      BY <3>3, <3>5, <3>6, <3>7 DEF ClientInv
    <3>9. StageInv'
      BY <2>1, <3>1, <3>4 DEF StageInv, JobPending
    <3> QED
      BY <1>a, <3>1, <3>3, <3>8, <3>9 DEF IInv, TypeOK, LwipState
  <2>4. CASE seg.len > 0 /\ c.recv_cb
    <3> DEFINE d == client_recv_func(c, seg.len)
    <3>1. /\ seg.len <= TCP_WND - c.buf_used
          /\ ClientInv(d, 0, finheld)
          /\ d.client_closed = c.client_closed
          /\ d.recv_st = c.recv_st
          /\ ~(c.buf_used = 0 /\ c.socks_up) => d.send_st = c.send_st
      BY <1>b, <2>1, <2>4, RecvFunc
    <3>2. ~(seg.len > TCP_WND - c.buf_used)
      BY <1>a, <1>b, <3>1, SizesAssumption DEF Client
    <3>3. /\ c' = [d EXCEPT !.dead_client = FALSE] /\ seg' = seg
          /\ lw' = (IF c.buf_used = 0 /\ c.socks_up THEN "recv" ELSE "fin_cb")
          /\ quitting' = quitting
      BY <1>2, <1>b, <2>4, <3>2 DEF RecvCallback, Continue
    <3> HIDE DEF d
    <3>4. /\ ClientInv(c', 0, finheld)
          /\ ~c'.dead_client /\ c'.client_closed = d.client_closed
          /\ c'.send_st = d.send_st /\ c'.recv_st = d.recv_st
      BY <3>1, <3>3, SetDead
    <3>5. InFlightAck' = 0 /\ Undelivered' = finheld
      BY <3>3 DEF InFlightAck, Undelivered
    <3>6. lw' = "fin_cb" => ~c'.client_closed /\ ~JobPending'
      BY <2>1, <3>1, <3>3, <3>4 DEF JobPending
    <3>7. lw' = "recv" => (c'.dead_client <=> c'.client_closed)
      BY <2>1, <3>1, <3>4
    <3>8. StageInv'
      BY <3>3, <3>6, <3>7 DEF StageInv
    <3>9. ClientInv(c', InFlightAck', Undelivered')
      BY <3>4, <3>5
    <3> QED
      BY <1>a, <3>3, <3>4, <3>8, <3>9 DEF IInv, TypeOK, LwipState, ClientInv
  <2> QED
    BY <1>b, <2>2, <2>3, <2>4
<1>3. ASSUME NEW nomem \in BOOLEAN, FinCallback(nomem) PROVE IInv'
  <2> DEFINE d == [c EXCEPT !.rcv_wnd = IF seg.fin /\ @ # TCP_WND THEN @ + 1 ELSE @]
  <2>1. /\ lw = "fin_cb" /\ ~c.client_closed /\ ~JobPending
        /\ ClientInv(c, 0, finheld)
    BY <1>0, <1>3 DEF FinCallback, StageInv, InFlightAck, Undelivered
  <2>2. /\ c' = (IF seg.fin /\ c.recv_cb THEN client_free_client(d, nomem) ELSE d)
        /\ lw' = "idle" /\ seg' = NoSegment /\ quitting' = quitting
    BY <1>3 DEF FinCallback
  <2>3. (IF seg.fin /\ c.rcv_wnd # TCP_WND THEN c.rcv_wnd + 1 ELSE c.rcv_wnd)
          \in 0 .. TCP_WND
    BY <1>a, SizesAssumption DEF Client
  <2>4. d \in Client
    BY <1>a, <2>3, Zenon DEF Client
  <2>5. /\ d.freed = c.freed /\ d.pcb = c.pcb /\ d.recv_cb = c.recv_cb
        /\ d.sent_cb = c.sent_cb /\ d.err_cb = c.err_cb
        /\ d.refused = c.refused /\ d.client_closed = c.client_closed
        /\ d.dead_client = c.dead_client /\ d.socks_up = c.socks_up
        /\ d.socks_closed = c.socks_closed
        /\ d.socks_recv_waiting = c.socks_recv_waiting
        /\ d.send_st = c.send_st /\ d.recv_st = c.recv_st
        /\ d.unacked = c.unacked /\ d.buf_used = c.buf_used
        /\ d.socks_recv_buf_used = c.socks_recv_buf_used
        /\ d.socks_recv_buf_sent = c.socks_recv_buf_sent
        /\ d.socks_recv_tcp_pending = c.socks_recv_tcp_pending
        /\ d.send_len = c.send_len /\ d.recv_len = c.recv_len
    BY <1>a, Zenon DEF Client
  <2>6. d.rcv_wnd = IF seg.fin /\ c.rcv_wnd # TCP_WND THEN c.rcv_wnd + 1 ELSE c.rcv_wnd
    BY <1>a, Zenon DEF Client
  <2> HIDE DEF d
  <2>7. FlagsAgree(d) /\ SendingAgrees(d) /\ ReceivingAgrees(d)
    BY <2>1, <2>5 DEF ClientInv, FlagsAgree, SendingAgrees, ReceivingAgrees
  <2>8. CountersAgree(d, 0, 0)
    BY <1>a, <1>b, <2>1, <2>5, <2>6, SizesAssumption DEF ClientInv, Client, CountersAgree
  <2>9. InFlightAck' = 0 /\ Undelivered' = 0
    BY <2>2 DEF InFlightAck, Undelivered, NoSegment
  <2>10. ClientInv(c', 0, 0)
    <3>1. ClientInv(d, 0, 0)
      BY <2>4, <2>7, <2>8 DEF ClientInv
    <3>2. /\ ~d.freed /\ ~d.refused
          /\ d.recv_st # "none" =>
               d.socks_up /\ ~d.socks_closed /\ d.socks_recv_buf_used = -1
          /\ d.recv_st = "done" => d.recv_len > 0
      BY <2>1, <2>5, <2>7 DEF FlagsAgree, ReceivingAgrees
    <3>3. ClientInv(client_free_client(d, nomem), 0, 0)
      BY <2>4, <2>7, <3>2, CloseClient
    <3> QED
      BY <2>2, <3>1, <3>3
  <2>11. StageInv'
    BY <2>2 DEF StageInv
  <2> QED
    BY <1>a, <1>c, <2>2, <2>9, <2>10, <2>11 DEF IInv, TypeOK, LwipState, ClientInv
<1>4. ASSUME CallbackReturn PROVE IInv'
  <2>1. /\ lw \in {"accept", "sent", "recv"} /\ ~JobPending
        /\ c.dead_client <=> c.client_closed
        /\ ClientInv(c, 0, Undelivered)
    BY <1>0, <1>4 DEF CallbackReturn, StageInv, InFlightAck
  <2>2. CASE c.client_closed
    <3>1. c' = c /\ lw' = "idle" /\ seg' = NoSegment /\ quitting' = quitting
      BY <1>4, <2>1, <2>2 DEF CallbackReturn, Continue
    <3>2. ClientInv(c', InFlightAck', Undelivered')
      BY <2>1, <2>2, <3>1 DEF ClientInv, CountersAgree
    <3>3. StageInv'
      BY <3>1 DEF StageInv
    <3> QED
      BY <1>a, <1>c, <3>1, <3>2, <3>3 DEF IInv, TypeOK, LwipState
  <2>3. CASE ~c.client_closed /\ lw # "accept"
    <3>1. /\ c' = c /\ seg' = seg /\ quitting' = quitting
          /\ lw' = (IF lw = "recv" THEN "fin_cb" ELSE "recv_cb")
      BY <1>4, <2>1, <2>3 DEF CallbackReturn, Continue
    <3>2. InFlightAck' = 0 /\ Undelivered' = Undelivered
      BY <2>1, <2>3, <3>1 DEF InFlightAck, Undelivered
    <3>3. StageInv'
      BY <2>1, <2>3, <3>1 DEF StageInv, JobPending
    <3>4. ClientInv(c', InFlightAck', Undelivered')
      BY <2>1, <3>1, <3>2
    <3> QED
      BY <1>a, <3>1, <3>3, <3>4 DEF IInv, TypeOK, LwipState
  <2>4. CASE ~c.client_closed /\ lw = "accept"
    <3>1. /\ c' = [c EXCEPT !.rcv_wnd = @ - seg.len - finheld,
                            !.pcb = IF seg.fin THEN "cw" ELSE @]
          /\ seg' = seg /\ quitting' = quitting /\ lw' = "recv_cb"
      BY <1>4, <2>1, <2>4 DEF CallbackReturn, Continue
    <3>2. /\ Undelivered = 0 /\ c.buf_used = 0 /\ seg.len + finheld <= TCP_WND
          /\ c.rcv_wnd = TCP_WND
      BY <1>0, <1>a, <2>1, <2>4, SizesAssumption
         DEF Undelivered, StageInv, ClientInv, CountersAgree, Client
    <3>3. c.rcv_wnd - seg.len - finheld \in 0 .. TCP_WND
      BY <1>b, <3>2, SizesAssumption
    <3>4. c' \in Client
      BY <1>a, <3>1, <3>3, Zenon DEF Client, PcbState
    <3>5. /\ c'.freed = c.freed /\ c'.recv_cb = c.recv_cb
          /\ c'.sent_cb = c.sent_cb /\ c'.err_cb = c.err_cb
          /\ c'.refused = c.refused /\ c'.client_closed = c.client_closed
          /\ c'.dead_client = c.dead_client /\ c'.socks_up = c.socks_up
          /\ c'.socks_closed = c.socks_closed
          /\ c'.socks_recv_waiting = c.socks_recv_waiting
          /\ c'.send_st = c.send_st /\ c'.recv_st = c.recv_st
          /\ c'.unacked = c.unacked /\ c'.buf_used = c.buf_used
          /\ c'.socks_recv_buf_used = c.socks_recv_buf_used
          /\ c'.socks_recv_buf_sent = c.socks_recv_buf_sent
          /\ c'.socks_recv_tcp_pending = c.socks_recv_tcp_pending
          /\ c'.send_len = c.send_len /\ c'.recv_len = c.recv_len
          /\ c'.rcv_wnd = c.rcv_wnd - seg.len - finheld
      BY <1>a, <3>1, Zenon DEF Client
    <3>6. c'.pcb = c.pcb \/ c'.pcb = "cw"
      BY <1>a, <3>1, Zenon DEF Client
    <3>7. FlagsAgree(c')
      BY <2>1, <2>4, <3>5, <3>6 DEF ClientInv, FlagsAgree
    <3>8. SendingAgrees(c') /\ ReceivingAgrees(c')
      BY <2>1, <3>5 DEF ClientInv, SendingAgrees, ReceivingAgrees
    <3>9. InFlightAck' = 0 /\ Undelivered' = seg.len + finheld
      BY <3>1 DEF InFlightAck, Undelivered
    <3>10. CountersAgree(c', 0, seg.len + finheld)
      BY <1>a, <1>b, <2>1, <3>2, <3>5, SizesAssumption DEF ClientInv, Client, CountersAgree
    <3>11. StageInv'
      BY <2>1, <2>4, <3>1, <3>5 DEF StageInv, JobPending
    <3>12. ClientInv(c', InFlightAck', Undelivered')
      BY <3>4, <3>7, <3>8, <3>9, <3>10 DEF ClientInv
    <3> QED
      BY <1>a, <3>1, <3>4, <3>11, <3>12 DEF IInv, TypeOK, LwipState
  <2> QED
    BY <2>2, <2>3, <2>4
<1> QED
  BY <1>1, <1>2, <1>3, <1>4 DEF LwipStep

(* A new connection, a new segment, or the end of the connection.           *)
LEMMA PeerStepInv == IInv /\ PeerStep => IInv'
<1> SUFFICES ASSUME IInv, PeerStep
             PROVE  IInv'
  OBVIOUS
<1>0. ClientInv(c, InFlightAck, Undelivered) /\ TypeOK /\ StageInv
  BY DEF IInv
<1>a. c \in Client /\ seg \in Segment /\ quitting \in BOOLEAN
  BY <1>0 DEF TypeOK
<1>b. lw = "idle" => ClientInv(c, 0, 0)
  BY <1>0 DEF InFlightAck, Undelivered
<1>1. ASSUME NEW n \in 0 .. TCP_WND, NEW fin \in BOOLEAN, Accept(n, fin)
      PROVE  IInv'
  <2> DEFINE p == new_pcb(c)
  <2>1. lw = "idle" /\ ~JobPending /\ c.freed
    BY <1>1 DEF Accept, Idle
  <2>2. TCP_WND \in 0 .. TCP_WND /\ 0 \in 0 .. TCP_SND_BUF /\ 0 \in 0 .. TCP_WND
    BY SizesAssumption
  <2>3. p \in Client
    BY <1>a, <2>2, Zenon DEF Client, PcbState, new_pcb
  <2>4. /\ p.pcb = "est" /\ p.rcv_wnd = TCP_WND /\ p.unacked = 0
        /\ ~p.refused /\ ~p.sent_cb
        /\ p.send_st = c.send_st /\ p.recv_st = c.recv_st
    BY <1>a, Zenon DEF Client, new_pcb
  <2>5. /\ c' = [p EXCEPT !.freed = FALSE, !.recv_cb = TRUE, !.err_cb = TRUE,
                          !.client_closed = FALSE, !.dead_client = FALSE,
                          !.buf_used = 0,
                          !.socks_up = FALSE, !.socks_closed = FALSE]
        /\ lw' = "accept" /\ seg' = [ack |-> 0, len |-> n, fin |-> fin]
        /\ n + (IF fin THEN 1 ELSE 0) <= TCP_WND
        /\ quitting' = quitting
    BY <1>1 DEF Accept
  <2> HIDE DEF p
  <2>6. c' \in Client
    BY <2>2, <2>3, <2>5, Zenon DEF Client
  <2>7. /\ ~c'.freed /\ c'.recv_cb /\ c'.err_cb /\ ~c'.client_closed
        /\ ~c'.dead_client /\ c'.buf_used = 0 /\ ~c'.socks_up /\ ~c'.socks_closed
        /\ c'.pcb = p.pcb /\ c'.rcv_wnd = p.rcv_wnd /\ c'.unacked = p.unacked
        /\ c'.refused = p.refused /\ c'.sent_cb = p.sent_cb
        /\ c'.send_st = p.send_st /\ c'.recv_st = p.recv_st
    BY <2>3, <2>5, Zenon DEF Client
  <2>8. c.send_st = "none" /\ c.recv_st = "none"
    BY <1>b, <2>1 DEF ClientInv, FlagsAgree, SendingAgrees, ReceivingAgrees
  <2>9. FlagsAgree(c') /\ SendingAgrees(c') /\ ReceivingAgrees(c')
    BY <2>4, <2>7, <2>8 DEF FlagsAgree, SendingAgrees, ReceivingAgrees
  <2>10. CountersAgree(c', 0, 0)
    BY <2>4, <2>7, SizesAssumption DEF CountersAgree
  <2>11. InFlightAck' = 0 /\ Undelivered' = 0
    BY <2>5 DEF InFlightAck, Undelivered
  <2>12. seg' \in Segment /\ seg'.len = n /\ seg'.fin = fin
    BY <2>2, <2>5, Zenon DEF Segment
  <2>13. StageInv'
    BY <2>5, <2>7, <2>12 DEF StageInv
  <2>14. ClientInv(c', InFlightAck', Undelivered')
    BY <2>6, <2>9, <2>10, <2>11 DEF ClientInv
  <2> QED
    BY <1>a, <2>5, <2>6, <2>12, <2>13, <2>14 DEF IInv, TypeOK, LwipState
<1>2. ASSUME NEW ack \in 0 .. TCP_SND_BUF, NEW n \in 0 .. TCP_WND,
             NEW fin \in BOOLEAN, SegmentIn(ack, n, fin)
      PROVE  IInv'
  <2> DEFINE finlen == IF fin THEN 1 ELSE 0
  <2>1. lw = "idle" /\ ~JobPending /\ c.pcb \in {"est", "cw"} /\ ClientInv(c, 0, 0)
    BY <1>b, <1>2 DEF SegmentIn, Idle, PcbLive
  <2>2. ack <= c.unacked /\ n + finlen <= c.rcv_wnd
    BY <1>2 DEF SegmentIn
  <2>3. /\ c' = [c EXCEPT !.unacked = @ - ack, !.rcv_wnd = @ - n - finlen,
                          !.pcb = IF fin THEN "cw" ELSE @]
        /\ lw' = "sent_cb" /\ seg' = [ack |-> ack, len |-> n, fin |-> fin]
        /\ quitting' = quitting
    BY <1>2 DEF SegmentIn
  <2>4. c.unacked - ack \in 0 .. TCP_SND_BUF /\ c.rcv_wnd - n - finlen \in 0 .. TCP_WND
    BY <1>a, <2>2, SizesAssumption DEF Client
  <2>5. c' \in Client
    BY <1>a, <2>3, <2>4, Zenon DEF Client, PcbState
  <2>6. /\ c'.freed = c.freed /\ c'.recv_cb = c.recv_cb
        /\ c'.sent_cb = c.sent_cb /\ c'.err_cb = c.err_cb
        /\ c'.refused = c.refused /\ c'.client_closed = c.client_closed
        /\ c'.dead_client = c.dead_client /\ c'.socks_up = c.socks_up
        /\ c'.socks_closed = c.socks_closed
        /\ c'.socks_recv_waiting = c.socks_recv_waiting
        /\ c'.send_st = c.send_st /\ c'.recv_st = c.recv_st
        /\ c'.buf_used = c.buf_used
        /\ c'.socks_recv_buf_used = c.socks_recv_buf_used
        /\ c'.socks_recv_buf_sent = c.socks_recv_buf_sent
        /\ c'.socks_recv_tcp_pending = c.socks_recv_tcp_pending
        /\ c'.send_len = c.send_len /\ c'.recv_len = c.recv_len
        /\ c'.unacked = c.unacked - ack /\ c'.rcv_wnd = c.rcv_wnd - n - finlen
    BY <1>a, <2>3, Zenon DEF Client
  <2>7. c'.pcb = c.pcb \/ c'.pcb = "cw"
    BY <1>a, <2>3, Zenon DEF Client
  <2>8. ~c.client_closed
    BY <2>1 DEF ClientInv, FlagsAgree
  <2>9. FlagsAgree(c')
    BY <2>1, <2>6, <2>7, <2>8 DEF ClientInv, FlagsAgree
  <2>10. SendingAgrees(c') /\ ReceivingAgrees(c')
    BY <2>1, <2>6 DEF ClientInv, SendingAgrees, ReceivingAgrees
  <2>11. seg' \in Segment /\ seg'.ack = ack /\ seg'.len = n /\ seg'.fin = fin
    BY <2>3, Zenon DEF Segment
  <2>12. InFlightAck' = ack /\ Undelivered' = n + finlen
    BY <2>3, <2>11 DEF InFlightAck, Undelivered
  <2>13. CountersAgree(c', ack, n + finlen)
    BY <1>a, <2>1, <2>2, <2>6, SizesAssumption DEF ClientInv, Client, CountersAgree
  <2>14. StageInv'
    BY <2>1, <2>3, <2>6, <2>8 DEF StageInv, JobPending
  <2>15. ClientInv(c', InFlightAck', Undelivered')
    BY <2>5, <2>9, <2>10, <2>12, <2>13 DEF ClientInv
  <2> QED
    BY <1>a, <2>3, <2>5, <2>11, <2>14, <2>15 DEF IInv, TypeOK, LwipState
<1>3. ASSUME ConnectionError PROVE IInv'
  <2> DEFINE d == [unset_callbacks(c) EXCEPT !.pcb = "err"]
  <2>1. /\ lw = "idle" /\ c.pcb \in {"est", "cw"} /\ ClientInv(c, 0, 0)
        /\ UNCHANGED <<lw, seg, quitting>>
    BY <1>b, <1>3 DEF ConnectionError, Idle, PcbLive
  <2>2. c.err_cb /\ ~c.freed
    BY <2>1 DEF ClientInv, FlagsAgree
  <2>3. c' = client_handle_freed_client(d)
    BY <1>3, <2>2 DEF ConnectionError
  <2>4. d \in Client
    BY <1>a, Zenon DEF Client, PcbState, unset_callbacks
  <2>5. /\ d.freed = c.freed /\ d.refused = c.refused
        /\ d.client_closed = c.client_closed /\ d.dead_client = c.dead_client
        /\ d.socks_up = c.socks_up /\ d.socks_closed = c.socks_closed
        /\ d.socks_recv_waiting = c.socks_recv_waiting
        /\ d.send_st = c.send_st /\ d.recv_st = c.recv_st
        /\ d.rcv_wnd = c.rcv_wnd /\ d.unacked = c.unacked
        /\ d.buf_used = c.buf_used
        /\ d.socks_recv_buf_used = c.socks_recv_buf_used
        /\ d.socks_recv_buf_sent = c.socks_recv_buf_sent
        /\ d.socks_recv_tcp_pending = c.socks_recv_tcp_pending
        /\ d.send_len = c.send_len /\ d.recv_len = c.recv_len
        /\ d.pcb = "err" /\ ~d.err_cb /\ ~d.recv_cb /\ ~d.sent_cb
    BY <1>a, Zenon DEF Client, unset_callbacks
  <2> HIDE DEF d
  <2>6. PcbReleased(d)
    BY <2>1, <2>2, <2>4, <2>5
       DEF PcbReleased, ClientInv, FlagsAgree, SendingAgrees, ReceivingAgrees
  <2>7. ClientInv(c', 0, Undelivered) /\ c'.client_closed /\ c'.dead_client
    BY <2>3, <2>6, HandleFreedClient
  <2> QED
    BY <2>1, <2>7, JobKeepsInv DEF DeadAgrees
<1> QED
  BY <1>1, <1>2, <1>3 DEF PeerStep

(* client_murder closes and frees whatever is left.                         *)
LEMMA TerminateInv == IInv /\ Terminate => IInv'
<1> SUFFICES ASSUME IInv, Terminate
             PROVE  IInv'
  OBVIOUS
<1>1. /\ lw = "idle" /\ c \in Client /\ FlagsAgree(c)
      /\ lw' = lw /\ seg' = seg /\ seg \in Segment /\ quitting' = TRUE
      /\ ClientInv(c, 0, 0)
  BY DEF IInv, TypeOK, Terminate, Idle, ClientInv, InFlightAck, Undelivered
<1>2. InFlightAck' = 0 /\ Undelivered' = 0
  BY <1>1 DEF InFlightAck, Undelivered
<1>3. CASE c.freed
  <2>1. c' = c
    BY <1>3 DEF Terminate
  <2> QED
    BY <1>1, <1>2, <2>1 DEF IInv, TypeOK, StageInv, LwipState
<1>4. CASE ~c.freed
  <2> DEFINE e == IF c.client_closed THEN c
                  ELSE [tcp_abort(unset_callbacks(c)) EXCEPT
                          !.dead_client = TRUE, !.client_closed = TRUE]
             f == IF e.socks_closed THEN e ELSE release_socks(e)
  <2>1. c' = client_dealloc(f)
    BY <1>4 DEF Terminate, client_murder
  <2>2. e \in Client
    <3>1. tcp_abort(unset_callbacks(c)) \in Client
      BY <1>1, Zenon DEF Client, PcbState, tcp_abort, unset_callbacks
    <3>2. [tcp_abort(unset_callbacks(c)) EXCEPT
             !.dead_client = TRUE, !.client_closed = TRUE] \in Client
      BY <3>1, Zenon DEF Client
    <3> QED
      BY <1>1, <3>2, Zenon
  <2>3. /\ e.client_closed /\ e.socks_closed = c.socks_closed
        /\ e.refused = c.refused /\ e.send_st = c.send_st /\ e.recv_st = c.recv_st
    BY <1>1, Zenon DEF Client, tcp_abort, unset_callbacks
  <2>4. e.pcb \notin {"est", "cw"} /\ ~e.err_cb /\ ~e.recv_cb /\ ~e.sent_cb
    BY <1>1 DEF Client, FlagsAgree, tcp_abort, unset_callbacks
  <2> HIDE DEF e
  <2>5. f \in Client
    <3>1. release_socks(e) \in Client
      BY <2>2, Zenon DEF Client, IfState, release_socks
    <3> QED
      BY <2>2, <3>1, Zenon
  <2>6. /\ f.client_closed /\ f.refused = e.refused /\ f.pcb = e.pcb
        /\ f.err_cb = e.err_cb /\ f.recv_cb = e.recv_cb /\ f.sent_cb = e.sent_cb
    BY <2>2, <2>3, Zenon DEF Client, release_socks
  <2>7. f.socks_closed /\ (f.send_st = "none" \/ f.send_st = c.send_st)
        /\ (f.recv_st = "none" \/ f.recv_st = c.recv_st)
    BY <2>2, <2>3, Zenon DEF Client, release_socks
  <2>8. c.socks_closed => c.send_st = "none" /\ c.recv_st = "none"
    BY <1>1 DEF ClientInv, SendingAgrees, ReceivingAgrees
  <2>9. ~c.socks_closed => f.send_st = "none" /\ f.recv_st = "none"
    BY <2>2, <2>3, Zenon DEF Client, release_socks
  <2>10. f.send_st = "none" /\ f.recv_st = "none"
    BY <2>7, <2>8, <2>9
  <2> HIDE DEF f
  <2>11. c' \in Client
    BY <2>1, <2>5, Zenon DEF Client, client_dealloc
  <2>12. /\ c'.freed /\ c'.client_closed = f.client_closed
         /\ c'.refused = f.refused /\ c'.pcb = f.pcb
         /\ c'.err_cb = f.err_cb /\ c'.recv_cb = f.recv_cb /\ c'.sent_cb = f.sent_cb
         /\ c'.socks_closed = f.socks_closed
         /\ c'.send_st = f.send_st /\ c'.recv_st = f.recv_st
    BY <2>1, <2>5, Zenon DEF Client, client_dealloc
  <2>13. FlagsAgree(c')
    BY <1>1, <2>3, <2>4, <2>6, <2>7, <2>12 DEF FlagsAgree
  <2>14. SendingAgrees(c') /\ ReceivingAgrees(c') /\ CountersAgree(c', 0, 0)
    BY <2>6, <2>7, <2>10, <2>12 DEF SendingAgrees, ReceivingAgrees, CountersAgree
  <2>15. ClientInv(c', InFlightAck', Undelivered')
    BY <1>2, <2>11, <2>13, <2>14 DEF ClientInv
  <2> QED
    BY <1>1, <2>11, <2>15 DEF IInv, TypeOK, StageInv, LwipState
<1> QED
  BY <1>3, <1>4

-----------------------------------------------------------------------------
(* The theorems.                                                           *)

(* IInv holds in every state of the relay: it holds initially and every     *)
(* action keeps it.                                                         *)
THEOREM Invariance == Spec => []IInv
<1>1. Init => IInv
  BY InitInv
<1>2. IInv /\ [Next]_vars => IInv'
  <2> SUFFICES ASSUME IInv, [Next]_vars
               PROVE  IInv'
    OBVIOUS
  <2>1. CASE UNCHANGED vars
    BY <2>1 DEF vars, IInv, TypeOK, ClientInv, FlagsAgree, SendingAgrees,
                ReceivingAgrees, CountersAgree, InFlightAck, Undelivered,
                StageInv, JobPending
  <2>2. CASE Exited
    BY <2>1, <2>2 DEF Exited
  <2> QED
    BY <2>1, <2>2, SocksStepInv, LwipStepInv, PeerStepInv, TerminateInv DEF Next
<1> QED
  BY <1>1, <1>2, PTL DEF Spec

(* Every counter stays within its buffer and every flag is a flag: in       *)
(* particular buf_used, socks_recv_buf_used and socks_recv_tcp_pending.     *)
THEOREM TypeCorrect == Spec => []TypeOK
<1>1. IInv => TypeOK
  BY DEF IInv
<1> QED
  BY <1>1, Invariance, PTL

(* client_recv_func always finds room in buf, whatever TCP_WND is.          *)
THEOREM WindowBalanced == Spec => []WindowBalance
<1>1. IInv => WindowBalance
  BY DEF IInv, ClientInv, FlagsAgree, CountersAgree, WindowBalance, PcbLive
<1> QED
  BY <1>1, Invariance, PTL

(* socks_recv_tcp_pending counts exactly the bytes lwIP still has queued.   *)
THEOREM PendingBalanced == Spec => []PendingBalance
<1>1. IInv => PendingBalance
  BY DEF IInv, ClientInv, FlagsAgree, CountersAgree, PendingBalance, PcbLive,
         InFlightAck
<1> QED
  BY <1>1, Invariance, PTL

(* No assertion at the entry of a callback or of a done handler can fail.   *)
THEOREM AssertionsHold == Spec => []CallbackPreconditions
<1>1. IInv => CallbackPreconditions
  <2> SUFFICES ASSUME IInv PROVE CallbackPreconditions
    OBVIOUS
  <2>1. /\ c \in Client /\ seg \in Segment
        /\ FlagsAgree(c) /\ SendingAgrees(c) /\ ReceivingAgrees(c)
        /\ CountersAgree(c, InFlightAck, Undelivered) /\ StageInv
    BY DEF IInv, TypeOK, ClientInv
  <2>2. ASSUME lw = "sent_cb", seg.ack > 0
        PROVE  /\ c.sent_cb /\ c.socks_up /\ ~c.client_closed
               /\ seg.ack <= c.socks_recv_tcp_pending
               /\ c.socks_recv_buf_used > 0 =>
                    /\ c.socks_recv_waiting
                    /\ c.socks_recv_buf_sent < c.socks_recv_buf_used
    <3>1. ~c.client_closed /\ InFlightAck = seg.ack
      BY <2>1, <2>2 DEF StageInv, InFlightAck
    <3>2. c.unacked \in Nat /\ seg.ack \in Nat
      BY <2>1, SizesAssumption DEF Client, Segment
    <3>3. c.socks_up /\ seg.ack <= c.socks_recv_tcp_pending
      BY <2>1, <2>2, <3>1, <3>2 DEF CountersAgree
    <3> QED
      BY <2>1, <3>1, <3>3 DEF FlagsAgree, ReceivingAgrees
  <2>3. lw = "recv_cb" /\ seg.len > 0 /\ c.recv_cb /\ c.socks_up =>
          ~c.socks_closed /\ (c.buf_used = 0 => c.send_st = "none")
    BY <2>1 DEF FlagsAgree, SendingAgrees
  <2> QED
    BY <2>1, <2>2, <2>3 DEF CallbackPreconditions, SendingAgrees, ReceivingAgrees
<1> QED
  BY <1>1, Invariance, PTL

(* Both flows of a connection stay in balance, whatever the sizes of the    *)
(* window, of the send buffer and of socks_recv_buf are.                    *)
THEOREM FlowsBalanced == Spec => []FlowBalanced
<1>1. TypeOK /\ WindowBalance /\ PendingBalance /\ CallbackPreconditions => FlowBalanced
  BY DEF FlowBalanced
<1> QED
  BY <1>1, TypeCorrect, WindowBalanced, PendingBalanced, AssertionsHold, PTL

(* lwIP never goes on with a pcb that is gone and never calls back into a   *)
(* client that is closed or freed.                                          *)
THEOREM ClosedNotUsed == Spec => []NoUseAfterClose
<1>1. IInv => NoUseAfterClose
  BY DEF IInv, TypeOK, LwipState, ClientInv, FlagsAgree, SendingAgrees,
         ReceivingAgrees, StageInv, NoUseAfterClose, PcbLive, JobPending
<1> QED
  BY <1>1, Invariance, PTL

(* An allocated client always has something to wait for.                    *)
THEOREM WakeupsKept == Spec => []NoLostWakeup
<1>1. IInv => NoLostWakeup
  <2> SUFFICES ASSUME IInv, Idle, ~c.freed
               PROVE  NoLostWakeup
    BY DEF NoLostWakeup
  <2>1. /\ c \in Client /\ InFlightAck = 0
        /\ FlagsAgree(c) /\ SendingAgrees(c) /\ ReceivingAgrees(c)
        /\ CountersAgree(c, 0, Undelivered)
    BY DEF IInv, TypeOK, ClientInv, Idle, InFlightAck
  <2>2. c.unacked \in Nat /\ c.send_st \in IfState /\ c.recv_st \in IfState
    BY <2>1, SizesAssumption DEF Client
  <2>3. c.send_st \in {"none", "busy"} /\ c.recv_st \in {"none", "busy"}
    BY <2>2 DEF Idle, JobPending, IfState
  <2>4. c.socks_closed /\ ~c.client_closed => c.unacked > 0 /\ c.sent_cb
    BY <2>1, <2>2 DEF FlagsAgree, ReceivingAgrees, CountersAgree
  <2>5. c.socks_up /\ ~c.client_closed /\ c.socks_recv_buf_used > 0 =>
          c.unacked > 0 /\ c.sent_cb
    BY <2>1, <2>2 DEF FlagsAgree, ReceivingAgrees, CountersAgree
  <2> QED
    BY <2>1, <2>3, <2>4, <2>5
       DEF NoLostWakeup, FlagsAgree, SendingAgrees, ReceivingAgrees
<1> QED
  BY <1>1, Invariance, PTL

-----------------------------------------------------------------------------
(* What the functions do to the two pipes of ByteRelay, seen from a struct:  *)
(* toSocks, toApp and session of TcpRelay, of any struct d.                  *)
ForSocks(d) == IF ~d.socks_closed THEN d.buf_used ELSE 0
Queued(d) == IF d.socks_recv_buf_used > 0
             THEN d.socks_recv_buf_used - d.socks_recv_buf_sent ELSE 0
ForApp(d) == IF ~d.client_closed /\ d.socks_up
             THEN d.socks_recv_tcp_pending + Queued(d) ELSE 0

(* The fields a function that closes a side leaves alone.                     *)
Kept(d, e) ==
  /\ e.buf_used = d.buf_used /\ e.socks_up = d.socks_up /\ e.unacked = d.unacked
  /\ e.socks_recv_buf_used = d.socks_recv_buf_used
  /\ e.socks_recv_buf_sent = d.socks_recv_buf_sent
  /\ e.socks_recv_tcp_pending = d.socks_recv_tcp_pending

(* From d to e the application's side closes, and SOCKS with it unless there  *)
(* are bytes for it.                                                          *)
AppGone(d, e) ==
  /\ e.client_closed /\ (e.socks_closed <=> d.socks_closed \/ d.buf_used = 0)
  /\ e.buf_used = d.buf_used /\ e.socks_up = d.socks_up

(* Closing the application's side.  tcp_close resets only a connection whose  *)
(* window is not fully open.                                                  *)
LEMMA FreedView ==
  ASSUME NEW d \in Client
  PROVE  LET e == client_handle_freed_client(d)
         IN  AppGone(d, e) /\ Kept(d, e) /\ e.pcb = d.pcb
<1> DEFINE e == client_handle_freed_client(d)
           g == [d EXCEPT !.dead_client = TRUE, !.client_closed = TRUE]
<1>1. /\ g \in Client /\ g.client_closed /\ g.socks_closed = d.socks_closed
      /\ g.pcb = d.pcb /\ Kept(d, g)
  BY Zenon DEF Client, Kept
<1>2. d.buf_used \in Nat /\ d.socks_closed \in BOOLEAN
  BY SizesAssumption DEF Client
<1> HIDE DEF g
<1>3. CASE g.buf_used > 0 /\ ~g.socks_closed
  <2>1. e = g
    BY <1>3 DEF client_handle_freed_client, g
  <2> QED BY <1>1, <1>2, <1>3, <2>1 DEF AppGone, Kept
<1>4. CASE ~(g.buf_used > 0 /\ ~g.socks_closed)
  <2> DEFINE h == IF g.socks_closed THEN g ELSE release_socks(g)
  <2>1. e = client_dealloc(h)
    BY <1>4 DEF client_handle_freed_client, g
  <2>a. LET r == release_socks(g)
        IN  /\ r \in Client /\ r.socks_closed /\ r.client_closed = g.client_closed
            /\ r.pcb = g.pcb /\ Kept(g, r)
    BY <1>1, Zenon DEF Client, IfState, release_socks, Kept
  <2>2. h \in Client /\ h.socks_closed /\ h.client_closed /\ h.pcb = g.pcb /\ Kept(g, h)
    BY <1>1, <2>a DEF Kept
  <2> HIDE DEF h
  <2>3. e.socks_closed /\ e.client_closed /\ e.pcb = h.pcb /\ Kept(h, e)
    BY <2>1, <2>2, Zenon DEF Client, client_dealloc, Kept
  <2> HIDE DEF e
  <2>4. Kept(d, e) /\ e.pcb = d.pcb
    BY <1>1, <2>2, <2>3 DEF Kept
  <2> QED BY <1>1, <1>2, <1>4, <2>3, <2>4 DEF AppGone, Kept, e
<1> QED BY <1>3, <1>4

LEMMA CloseView ==
  ASSUME NEW d \in Client, NEW nomem \in BOOLEAN
  PROVE  LET e == client_free_client(d, nomem)
             f == client_abort_client(d)
         IN  /\ AppGone(d, e) /\ Kept(d, e) /\ e.pcb \in {"fin", "rst", "abrt"}
             /\ e.pcb = "rst" => d.rcv_wnd # TCP_WND
             /\ AppGone(d, f) /\ Kept(d, f) /\ f.pcb = "abrt"
<1> DEFINE u == unset_callbacks(d)
           g == tcp_close(u, nomem)
           h == tcp_abort(u)
<1>1. /\ u \in Client /\ u.socks_closed = d.socks_closed /\ u.rcv_wnd = d.rcv_wnd
      /\ Kept(d, u)
  BY Zenon DEF Client, unset_callbacks, Kept
<1> HIDE DEF u
<1>2. /\ g \in Client /\ g.socks_closed = u.socks_closed /\ g.pcb \in {"fin", "rst", "abrt"}
      /\ Kept(u, g)
  BY <1>1, Zenon DEF Client, PcbState, tcp_close, tcp_abort, Kept
<1>3. g.pcb = "rst" => u.rcv_wnd # TCP_WND
  BY <1>1 DEF Client, tcp_close, tcp_abort
<1>4. h \in Client /\ h.socks_closed = u.socks_closed /\ h.pcb = "abrt" /\ Kept(u, h)
  BY <1>1, Zenon DEF Client, PcbState, tcp_abort, Kept
<1>5. /\ client_free_client(d, nomem) = client_handle_freed_client(g)
      /\ client_abort_client(d) = client_handle_freed_client(h)
  BY DEF client_free_client, client_abort_client, u
<1> HIDE DEF g, h
<1> QED
  BY <1>1, <1>2, <1>3, <1>4, <1>5, FreedView DEF AppGone, Kept

(* client_free_socks: the application stays as long as there are bytes for it. *)
LEMMA FreeSocksView ==
  ASSUME NEW d \in Client, NEW nomem \in BOOLEAN, ~d.socks_closed,
         d.socks_up /\ ~d.client_closed /\ d.socks_recv_buf_used > 0 =>
           d.socks_recv_buf_sent < d.socks_recv_buf_used
  PROVE  LET e == client_free_socks(d, nomem)
         IN  /\ e.socks_closed /\ Kept(d, e)
             /\ e.client_closed <=> d.client_closed \/ ForApp(d) = 0
             /\ ~e.client_closed => ForApp(e) = ForApp(d)
             /\ e.pcb = d.pcb \/ e.pcb = "abrt" \/ (e.pcb \in {"fin", "rst"} /\ ForApp(d) = 0)
             /\ e.pcb = "rst" /\ d.pcb # "rst" => d.rcv_wnd # TCP_WND
<1> DEFINE g == release_socks(IF d.socks_up /\ ~d.client_closed
                              THEN [d EXCEPT !.recv_cb = FALSE] ELSE d)
           waits == /\ g.socks_up
                    /\ g.socks_recv_buf_used >= 0 \/ g.socks_recv_tcp_pending > 0
                    /\ ~g.client_closed
           e == client_free_socks(d, nomem)
<1>1. LET u == [d EXCEPT !.recv_cb = FALSE]
      IN  u \in Client /\ u.pcb = d.pcb /\ u.rcv_wnd = d.rcv_wnd /\ Kept(d, u)
          /\ u.client_closed = d.client_closed
  BY Zenon DEF Client, Kept
<1>2. \A u \in Client : LET r == release_socks(u)
                        IN  /\ r \in Client /\ r.pcb = u.pcb /\ r.rcv_wnd = u.rcv_wnd
                            /\ Kept(u, r) /\ r.client_closed = u.client_closed
                            /\ r.socks_closed
  BY Zenon DEF Client, IfState, release_socks, Kept
<1>3. /\ g \in Client /\ g.socks_closed /\ Kept(d, g) /\ g.client_closed = d.client_closed
      /\ g.pcb = d.pcb /\ g.rcv_wnd = d.rcv_wnd
  BY <1>1, <1>2 DEF Kept
<1>4. /\ d.socks_recv_tcp_pending \in Nat /\ d.socks_recv_buf_sent \in Nat
      /\ d.socks_recv_buf_used = -1 \/ d.socks_recv_buf_used \in Nat \ {0}
  BY SizesAssumption DEF Client
<1> HIDE DEF g
<1>5. waits <=> ~d.client_closed /\ ForApp(d) # 0
  BY <1>3, <1>4 DEF Kept, ForApp, Queued
<1>6. CASE waits
  <2>1. e = g
    BY <1>6 DEF client_free_socks, g
  <2> QED BY <1>3, <1>5, <1>6, <2>1 DEF Kept, ForApp, Queued
<1>7. CASE ~waits /\ ~g.client_closed
  <2>1. e = client_free_client(g, nomem)
    BY <1>7 DEF client_free_socks, g
  <2>2. /\ AppGone(g, e) /\ Kept(g, e) /\ e.pcb \in {"fin", "rst", "abrt"}
        /\ e.pcb = "rst" => g.rcv_wnd # TCP_WND
    BY <1>3, <2>1, CloseView
  <2> HIDE DEF e
  <2>3. Kept(d, e) /\ e.socks_closed /\ e.client_closed
    BY <1>3, <2>2 DEF Kept, AppGone
  <2> QED BY <1>3, <1>5, <1>7, <2>2, <2>3 DEF e
<1>8. CASE g.client_closed
  <2>1. e = client_dealloc(g)
    BY <1>8 DEF client_free_socks, g
  <2>2. e.socks_closed /\ e.client_closed /\ e.pcb = g.pcb /\ Kept(g, e)
    BY <1>3, <1>8, <2>1, Zenon DEF Client, client_dealloc, Kept
  <2> HIDE DEF e
  <2>3. Kept(d, e)
    BY <1>3, <2>2 DEF Kept
  <2> QED BY <1>3, <1>8, <2>2, <2>3 DEF e
<1> QED BY <1>6, <1>7, <1>8

(* client_socks_send_handler_done: SOCKS took send_len bytes, and is closed    *)
(* with the last of them if the application is gone.                           *)
LEMMA SendDoneView ==
  ASSUME NEW d \in Client, NEW nomem \in BOOLEAN, ~d.socks_closed,
         0 < d.send_len, d.send_len <= d.buf_used
  PROVE  LET e == client_socks_send_handler_done(d, nomem)
         IN  /\ e.buf_used = d.buf_used - d.send_len
             /\ e.client_closed = d.client_closed /\ e.socks_up = d.socks_up
             /\ e.socks_closed <=> d.client_closed /\ e.buf_used = 0
             /\ ForApp(e) = ForApp(d) /\ e.pcb = d.pcb
<1> DEFINE n == d.send_len
           g == [d EXCEPT !.send_st = "none", !.buf_used = @ - n]
           r == tcp_recved(g, n)
           f == IF g.client_closed THEN g ELSE r
           e == client_socks_send_handler_done(d, nomem)
<1>1. n \in Nat /\ d.buf_used - n \in 0 .. TCP_WND /\ d.rcv_wnd + n \in Nat
  BY SizesAssumption DEF Client
<1>2. g \in Client
  BY <1>1, Zenon DEF Client, IfState
<1>3. /\ g.client_closed = d.client_closed /\ g.socks_closed = d.socks_closed
      /\ g.pcb = d.pcb /\ g.socks_up = d.socks_up /\ g.rcv_wnd = d.rcv_wnd
      /\ g.socks_recv_buf_used = d.socks_recv_buf_used
      /\ g.socks_recv_buf_sent = d.socks_recv_buf_sent
      /\ g.socks_recv_tcp_pending = d.socks_recv_tcp_pending
      /\ g.buf_used = d.buf_used - n
  BY Zenon DEF Client
<1> HIDE DEF g
<1>4. Smaller(g.rcv_wnd + n, TCP_WND) \in 0 .. TCP_WND
  BY <1>1, <1>3, SizesAssumption DEF Smaller
<1>5. /\ r \in Client /\ r.client_closed = g.client_closed
      /\ r.socks_closed = g.socks_closed /\ r.pcb = g.pcb /\ r.socks_up = g.socks_up
      /\ r.socks_recv_buf_used = g.socks_recv_buf_used
      /\ r.socks_recv_buf_sent = g.socks_recv_buf_sent
      /\ r.socks_recv_tcp_pending = g.socks_recv_tcp_pending
      /\ r.buf_used = g.buf_used
  BY <1>2, <1>4, Zenon DEF Client, tcp_recved
<1> HIDE DEF r
<1>6. /\ f \in Client /\ f.client_closed = d.client_closed
      /\ ~f.socks_closed /\ f.pcb = d.pcb /\ f.socks_up = d.socks_up
      /\ f.socks_recv_buf_used = d.socks_recv_buf_used
      /\ f.socks_recv_buf_sent = d.socks_recv_buf_sent
      /\ f.socks_recv_tcp_pending = d.socks_recv_tcp_pending
      /\ f.buf_used = d.buf_used - n
  BY <1>2, <1>3, <1>5
<1>7. ForApp(f) = ForApp(d)
  BY <1>6 DEF ForApp, Queued
<1>8. e = IF f.buf_used > 0 THEN client_send_to_socks(f)
          ELSE IF f.client_closed THEN client_free_socks(f, nomem) ELSE f
  BY DEF client_socks_send_handler_done, g, r
<1> HIDE DEF f, e
<1>9. CASE f.buf_used > 0
  <2>1. /\ e.client_closed = f.client_closed /\ e.socks_closed = f.socks_closed
        /\ e.pcb = f.pcb /\ Kept(f, e)
    BY <1>6, <1>8, <1>9, Zenon DEF Client, IfState, client_send_to_socks, Kept
  <2> QED BY <1>6, <1>7, <1>9, <2>1 DEF Kept, ForApp, Queued, e
<1>10. CASE ~(f.buf_used > 0) /\ f.client_closed
  <2>1. f.buf_used = 0
    BY <1>1, <1>6, <1>10
  <2>2. e = client_free_socks(f, nomem)
    BY <1>8, <1>10
  <2>3. /\ e.socks_closed /\ Kept(f, e) /\ e.client_closed
        /\ e.pcb = f.pcb \/ e.pcb = "abrt" \/ e.pcb \in {"fin", "rst"}
    BY <1>6, <1>10, <2>2, FreeSocksView
  <2>4. e.pcb = f.pcb
    <3> DEFINE u == release_socks(f)
    <3>1. u \in Client /\ u.pcb = f.pcb /\ u.client_closed = f.client_closed
      BY <1>6, Zenon DEF Client, IfState, release_socks
    <3>2. e = client_dealloc(u)
      BY <1>10, <2>2, <3>1 DEF client_free_socks
    <3> HIDE DEF u
    <3> QED BY <3>1, <3>2, Zenon DEF Client, client_dealloc
  <2> QED BY <1>6, <1>7, <1>10, <2>1, <2>3, <2>4 DEF Kept, ForApp, Queued, e
<1>11. CASE ~(f.buf_used > 0) /\ ~f.client_closed
  BY <1>1, <1>6, <1>7, <1>8, <1>11 DEF e
<1> QED BY <1>9, <1>10, <1>11

(* From d to e no side closes, SOCKS does not come up, and nothing is said of   *)
(* the bytes for the application.                                             *)
StillOpen(d, e) ==
  /\ e.client_closed = d.client_closed /\ e.socks_closed = d.socks_closed
  /\ e.socks_up = d.socks_up /\ e.buf_used = d.buf_used /\ e.pcb = d.pcb

(* client_socks_recv_send_out moves bytes from the buffer into lwIP, or aborts.  *)
LEMMA SendOutView ==
  ASSUME NEW d \in Client, NEW wr \in WriteResult, NEW out \in BOOLEAN,
         d.socks_up, ~d.client_closed, d.unacked <= d.socks_recv_tcp_pending,
         d.socks_recv_tcp_pending <= d.unacked,
         d.socks_recv_buf_used > 0, d.socks_recv_buf_sent < d.socks_recv_buf_used
  PROVE  LET e == client_socks_recv_send_out(d, wr, out)
         IN  /\ e.client_closed => AppGone(d, e) /\ e.pcb = "abrt"
             /\ ~e.client_closed => /\ StillOpen(d, e) /\ ForApp(e) = ForApp(d)
                                    /\ e \in Client
<1> DEFINE to_write == Smaller(d.socks_recv_buf_used - d.socks_recv_buf_sent,
                               TCP_SND_BUF - d.unacked)
           written == IF wr = "ok" THEN to_write ELSE 0
           g == [d EXCEPT !.socks_recv_buf_sent = @ + written,
                          !.socks_recv_tcp_pending = @ + written,
                          !.unacked = @ + written]
           more == g.socks_recv_buf_sent < g.socks_recv_buf_used
           fails == \/ wr = "fail" /\ to_write > 0
                    \/ ~out
                    \/ more /\ g.socks_recv_tcp_pending = 0
           e == client_socks_recv_send_out(d, wr, out)
<1>1. /\ d.socks_recv_buf_sent + written \in 0 .. CLIENT_SOCKS_RECV_BUF_SIZE
      /\ d.socks_recv_tcp_pending + written \in 0 .. TCP_SND_BUF
      /\ d.unacked + written \in 0 .. TCP_SND_BUF
      /\ written \in Nat /\ written <= d.socks_recv_buf_used - d.socks_recv_buf_sent
  BY SizesAssumption DEF Client, Smaller
<1>2. g \in Client
  BY <1>1, Zenon DEF Client
<1>3. /\ StillOpen(d, g) /\ g.socks_recv_buf_used = d.socks_recv_buf_used
      /\ g.socks_recv_buf_sent = d.socks_recv_buf_sent + written
      /\ g.socks_recv_tcp_pending = d.socks_recv_tcp_pending + written
  BY Zenon DEF Client, StillOpen
<1>4. e = IF fails THEN client_abort_client(g)
          ELSE IF more THEN [g EXCEPT !.socks_recv_waiting = TRUE]
          ELSE [g EXCEPT !.socks_recv_buf_used = -1]
  BY DEF client_socks_recv_send_out
<1>5. /\ d.socks_recv_tcp_pending \in Nat /\ d.socks_recv_buf_sent \in Nat
      /\ d.socks_recv_buf_used \in Nat
  BY SizesAssumption DEF Client
<1> HIDE DEF g, written
<1>6. ForApp(d) = d.socks_recv_tcp_pending + d.socks_recv_buf_used - d.socks_recv_buf_sent
  BY <1>5 DEF ForApp, Queued
<1>7. CASE fails
  <2>1. e = client_abort_client(g)
    BY <1>4, <1>7
  <2>2. AppGone(g, e) /\ e.pcb = "abrt"
    BY <1>2, <2>1, CloseView
  <2> QED BY <1>3, <2>2 DEF AppGone, StillOpen
<1>8. CASE ~fails /\ more
  <2>1. e = [g EXCEPT !.socks_recv_waiting = TRUE]
    BY <1>4, <1>8
  <2>2. e \in Client /\ StillOpen(g, e) /\ Kept(g, e)
    BY <1>2, <2>1, Zenon DEF Client, StillOpen, Kept
  <2> HIDE DEF e
  <2>3. StillOpen(d, e)
    BY <1>3, <2>2 DEF StillOpen
  <2>4. ForApp(e) = g.socks_recv_tcp_pending + g.socks_recv_buf_used - g.socks_recv_buf_sent
    BY <1>1, <1>3, <1>5, <2>2, <2>3 DEF ForApp, Queued, Kept, StillOpen
  <2>5. ForApp(e) = ForApp(d)
    BY <1>1, <1>3, <1>5, <1>6, <2>4
  <2> QED BY <2>2, <2>3, <2>5 DEF StillOpen, e
<1>9. CASE ~fails /\ ~more
  <2>1. e = [g EXCEPT !.socks_recv_buf_used = -1]
    BY <1>4, <1>9
  <2>2. /\ e \in Client /\ StillOpen(g, e) /\ e.socks_recv_buf_used = -1
        /\ e.socks_recv_tcp_pending = g.socks_recv_tcp_pending
    BY <1>2, <2>1, Zenon DEF Client, StillOpen
  <2> HIDE DEF e
  <2>3. StillOpen(d, e)
    BY <1>3, <2>2 DEF StillOpen
  <2>4. ForApp(e) = g.socks_recv_tcp_pending
    BY <1>1, <1>3, <1>5, <2>2, <2>3 DEF ForApp, Queued, StillOpen
  <2>5. ForApp(e) = ForApp(d)
    BY <1>1, <1>3, <1>5, <1>6, <1>9, <2>4
  <2> QED BY <2>2, <2>3, <2>5 DEF StillOpen, e
<1> QED BY <1>7, <1>8, <1>9

LEMMA InitiateView ==
  ASSUME NEW d \in Client
  PROVE  LET e == client_socks_recv_initiate(d) IN StillOpen(d, e) /\ ForApp(e) = ForApp(d)
<1> DEFINE e == client_socks_recv_initiate(d)
<1>1. StillOpen(d, e) /\ Kept(d, e)
  BY Zenon DEF Client, client_socks_recv_initiate, StillOpen, Kept
<1> HIDE DEF e
<1>2. ForApp(e) = ForApp(d)
  BY <1>1 DEF StillOpen, Kept, ForApp, Queued
<1> QED BY <1>1, <1>2 DEF e

(* client_socks_recv_handler_done: recv_len more bytes for the application, or an *)
(* abort; nothing is kept for an application that is gone.                      *)
LEMMA RecvDoneView ==
  ASSUME NEW d, NEW held, ClientInv(d, 0, held), d.recv_st = "done",
         NEW wr \in WriteResult, NEW out \in BOOLEAN
  PROVE  LET r == client_socks_recv_handler_done(d, wr, out)
         IN  /\ d.client_closed => StillOpen(d, r) /\ ForApp(r) = 0
             /\ ~d.client_closed /\ r.client_closed => AppGone(d, r) /\ r.pcb = "abrt"
             /\ ~d.client_closed /\ ~r.client_closed =>
                  StillOpen(d, r) /\ ForApp(r) = ForApp(d) + d.recv_len
<1> DEFINE e == [d EXCEPT !.recv_st = "none"]
           g == [e EXCEPT !.socks_recv_buf_used = d.recv_len,
                          !.socks_recv_buf_sent = 0,
                          !.socks_recv_waiting = FALSE]
           f == client_socks_recv_send_out(g, wr, out)
           r == client_socks_recv_handler_done(d, wr, out)
<1>1. r = IF e.client_closed THEN e
          ELSE IF ~f.client_closed /\ f.socks_recv_buf_used = -1
               THEN client_socks_recv_initiate(f)
          ELSE f
  BY DEF client_socks_recv_handler_done
<1>2. e \in Client
  BY Zenon DEF ClientInv, Client, IfState
<1>3. StillOpen(d, e) /\ Kept(d, e)
  BY Zenon DEF ClientInv, Client, StillOpen, Kept
<1>4. /\ d.recv_len \in 1 .. CLIENT_SOCKS_RECV_BUF_SIZE
      /\ 0 \in 0 .. CLIENT_SOCKS_RECV_BUF_SIZE
  BY SizesAssumption DEF ClientInv, Client, ReceivingAgrees
<1>5. d.socks_up /\ ~d.socks_closed /\ d.socks_recv_buf_used = -1
  BY DEF ClientInv, ReceivingAgrees
<1>6. d.socks_recv_tcp_pending \in Nat /\ d.unacked \in Nat
  BY SizesAssumption DEF ClientInv, Client
<1> HIDE DEF e
<1>7. g \in Client
  BY <1>2, <1>4, Zenon DEF Client
<1>8. /\ StillOpen(e, g) /\ g.socks_recv_buf_used = d.recv_len
      /\ g.socks_recv_buf_sent = 0 /\ g.unacked = e.unacked
      /\ g.socks_recv_tcp_pending = e.socks_recv_tcp_pending
  BY <1>2, Zenon DEF Client, StillOpen
<1> HIDE DEF g
<1>9. CASE d.client_closed
  <2>1. r = e
    BY <1>1, <1>3, <1>9 DEF StillOpen
  <2> QED BY <1>3, <1>9, <2>1 DEF StillOpen, ForApp
<1>10. CASE ~d.client_closed
  <2>1. d.socks_recv_tcp_pending = d.unacked
    BY <1>5, <1>6, <1>10 DEF ClientInv, CountersAgree
  <2>2. /\ g.socks_up /\ ~g.client_closed /\ g.socks_recv_tcp_pending = g.unacked
        /\ g.unacked \in Nat
    BY <1>3, <1>5, <1>6, <1>8, <1>10, <2>1 DEF StillOpen, Kept
  <2>3. ForApp(g) = ForApp(d) + d.recv_len
    BY <1>3, <1>4, <1>5, <1>6, <1>8, <1>10, <2>2 DEF ForApp, Queued, Kept
  <2>4. /\ f.client_closed => AppGone(g, f) /\ f.pcb = "abrt"
        /\ ~f.client_closed => StillOpen(g, f) /\ ForApp(f) = ForApp(g) /\ f \in Client
    BY <1>4, <1>7, <1>8, <2>2, SendOutView
  <2> HIDE DEF f
  <2>5. r = f \/ (~f.client_closed /\ r = client_socks_recv_initiate(f))
    BY <1>1, <1>3, <1>10 DEF StillOpen
  <2>6. CASE r = f
    BY <1>3, <1>8, <1>10, <2>3, <2>4, <2>6 DEF StillOpen, AppGone
  <2>7. CASE ~f.client_closed /\ r = client_socks_recv_initiate(f)
    <3>1. StillOpen(f, r) /\ ForApp(r) = ForApp(f)
      BY <2>4, <2>7, InitiateView
    <3> HIDE DEF r
    <3> QED BY <1>3, <1>8, <1>10, <2>3, <2>4, <2>7, <3>1 DEF StillOpen, r
  <2> QED BY <2>5, <2>6, <2>7
<1> QED BY <1>9, <1>10

(* BSOCKSCLIENT_EVENT_UP: there is nothing for the application yet.             *)
LEMMA UpView ==
  ASSUME NEW d \in Client
  PROVE  LET e == client_socks_up(d)
         IN  /\ e.socks_up /\ e.client_closed = d.client_closed
             /\ e.socks_closed = d.socks_closed /\ e.buf_used = d.buf_used
             /\ e.pcb = d.pcb /\ ForApp(e) = 0
<1> DEFINE g == [d EXCEPT !.socks_recv_buf_used = -1,
                          !.socks_recv_tcp_pending = 0,
                          !.sent_cb = IF d.client_closed THEN @ ELSE TRUE,
                          !.socks_up = TRUE]
           s == client_send_to_socks(g)
           f == IF g.buf_used > 0 THEN s ELSE g
           i == client_socks_recv_initiate(f)
           e == client_socks_up(d)
<1>1. 0 \in 0 .. TCP_SND_BUF
  BY SizesAssumption
<1>2. /\ g \in Client /\ g.socks_up /\ g.client_closed = d.client_closed
      /\ g.socks_closed = d.socks_closed /\ g.buf_used = d.buf_used /\ g.pcb = d.pcb
      /\ g.socks_recv_buf_used = -1 /\ g.socks_recv_tcp_pending = 0
  BY <1>1, Zenon DEF Client
<1>3. e = IF f.client_closed THEN f ELSE i
  BY DEF client_socks_up
<1>a. g \in Client
  BY <1>2
<1> HIDE DEF g
<1>4. s \in Client /\ StillOpen(g, s) /\ Kept(g, s)
  BY <1>a, Zenon DEF Client, IfState, client_send_to_socks, StillOpen, Kept
<1> HIDE DEF s
<1>5. f \in Client /\ StillOpen(g, f) /\ Kept(g, f)
  BY <1>2, <1>4 DEF StillOpen, Kept
<1> HIDE DEF f
<1>6. StillOpen(f, i) /\ Kept(f, i)
  BY <1>5, Zenon DEF Client, client_socks_recv_initiate, StillOpen, Kept
<1> HIDE DEF i
<1>7. StillOpen(g, e) /\ Kept(g, e)
  BY <1>3, <1>5, <1>6 DEF StillOpen, Kept
<1> HIDE DEF e
<1>8. ForApp(e) = 0
  BY <1>2, <1>7 DEF Kept, ForApp, Queued
<1> QED BY <1>2, <1>7, <1>8 DEF StillOpen, e

(* client_sent_func: the application took n bytes, or its side closes; in an       *)
(* orderly way only if nothing is left for it.                                   *)
LEMMA SentView ==
  ASSUME NEW d, NEW n \in Nat, NEW held, ClientInv(d, n, held),
         ~d.client_closed, d.socks_up,
         NEW wr \in WriteResult, NEW out \in BOOLEAN, NEW nomem \in BOOLEAN
  PROVE  LET r == client_sent_func(d, n, wr, out, nomem)
         IN  /\ r.client_closed =>
                  /\ AppGone(d, r)
                  /\ r.pcb \in {"fin", "rst"} =>
                       r.unacked = 0 /\ r.socks_recv_buf_used = -1
                  /\ r.pcb = "rst" => d.rcv_wnd # TCP_WND
             /\ ~r.client_closed => StillOpen(d, r) /\ ForApp(r) = ForApp(d) - n
<1> DEFINE e == [d EXCEPT !.socks_recv_tcp_pending = @ - n]
           g == [e EXCEPT !.socks_recv_waiting = FALSE]
           f == client_socks_recv_send_out(g, wr, out)
           r == client_sent_func(d, n, wr, out, nomem)
<1>1. r = IF e.socks_recv_buf_used > 0
          THEN IF /\ ~f.client_closed
                  /\ f.socks_recv_buf_used = -1
                  /\ ~f.socks_closed
               THEN client_socks_recv_initiate(f)
               ELSE f
          ELSE IF e.socks_closed /\ e.socks_recv_tcp_pending = 0
               THEN client_free_client(e, nomem)
               ELSE e
  BY DEF client_sent_func
<1>2. /\ d.socks_recv_tcp_pending - n = d.unacked
      /\ d.socks_recv_tcp_pending - n \in 0 .. TCP_SND_BUF
      /\ d.unacked \in Nat /\ d.socks_recv_tcp_pending \in Nat
      /\ d.socks_recv_buf_sent \in Nat
      /\ d.socks_recv_buf_used = -1 \/ d.socks_recv_buf_used \in Nat \ {0}
  BY SizesAssumption DEF ClientInv, Client, CountersAgree
<1>3. /\ e \in Client /\ StillOpen(d, e)
      /\ e.socks_recv_tcp_pending = d.socks_recv_tcp_pending - n
      /\ e.unacked = d.unacked /\ e.rcv_wnd = d.rcv_wnd
      /\ e.socks_recv_buf_used = d.socks_recv_buf_used
      /\ e.socks_recv_buf_sent = d.socks_recv_buf_sent
  BY <1>2, Zenon DEF ClientInv, Client, StillOpen
<1> HIDE DEF e
<1>4. ForApp(e) = ForApp(d) - n
  BY <1>2, <1>3 DEF StillOpen, ForApp, Queued
<1>5. CASE e.socks_recv_buf_used > 0
  <2>1. g \in Client /\ StillOpen(e, g) /\ Kept(e, g)
    BY <1>3, Zenon DEF Client, StillOpen, Kept
  <2> HIDE DEF g
  <2>2. ForApp(g) = ForApp(e)
    BY <2>1 DEF StillOpen, Kept, ForApp, Queued
  <2>3. d.socks_recv_buf_sent < d.socks_recv_buf_used
    BY <1>3, <1>5 DEF ClientInv, ReceivingAgrees
  <2>4. /\ g.socks_up /\ ~g.client_closed /\ g.unacked = g.socks_recv_tcp_pending
        /\ g.unacked \in Nat /\ g.socks_recv_buf_used > 0
        /\ g.socks_recv_buf_sent < g.socks_recv_buf_used
    BY <1>2, <1>3, <1>5, <2>1, <2>3 DEF StillOpen, Kept
  <2>5. /\ f.client_closed => AppGone(g, f) /\ f.pcb = "abrt"
        /\ ~f.client_closed => StillOpen(g, f) /\ ForApp(f) = ForApp(g) /\ f \in Client
    BY <2>1, <2>4, SendOutView
  <2> HIDE DEF f
  <2>6. r = f \/ (~f.client_closed /\ r = client_socks_recv_initiate(f))
    BY <1>1, <1>5
  <2>7. CASE r = f
    BY <1>3, <1>4, <2>1, <2>2, <2>5, <2>7 DEF StillOpen, AppGone
  <2>8. CASE ~f.client_closed /\ r = client_socks_recv_initiate(f)
    <3>1. StillOpen(f, r) /\ ForApp(r) = ForApp(f)
      BY <2>5, <2>8, InitiateView
    <3> HIDE DEF r
    <3> QED BY <1>3, <1>4, <2>1, <2>2, <2>5, <2>8, <3>1 DEF StillOpen, r
  <2> QED BY <2>6, <2>7, <2>8
<1>6. CASE ~(e.socks_recv_buf_used > 0) /\ e.socks_closed /\ e.socks_recv_tcp_pending = 0
  <2>1. r = client_free_client(e, nomem)
    BY <1>1, <1>6
  <2>2. AppGone(e, r) /\ Kept(e, r) /\ (r.pcb = "rst" => e.rcv_wnd # TCP_WND)
    BY <1>3, <2>1, CloseView
  <2> HIDE DEF r
  <2>3. r.client_closed /\ AppGone(d, r) /\ (r.pcb = "rst" => d.rcv_wnd # TCP_WND)
    BY <1>3, <2>2 DEF AppGone, StillOpen
  <2>4. r.unacked = 0 /\ r.socks_recv_buf_used = -1
    BY <1>2, <1>3, <1>6, <2>2 DEF Kept
  <2> QED BY <2>3, <2>4 DEF r
<1>7. CASE ~(e.socks_recv_buf_used > 0)
           /\ ~(e.socks_closed /\ e.socks_recv_tcp_pending = 0)
  <2>1. r = e
    BY <1>1, <1>7
  <2> QED BY <1>3, <1>4, <2>1 DEF StillOpen
<1> QED BY <1>5, <1>6, <1>7

LEMMA RecvView ==
  ASSUME NEW d \in Client, NEW n \in Nat, d.buf_used + n <= TCP_WND
  PROVE  LET e == client_recv_func(d, n)
         IN  /\ e.client_closed = d.client_closed /\ e.socks_closed = d.socks_closed
             /\ e.socks_up = d.socks_up /\ e.pcb = d.pcb
             /\ e.buf_used = d.buf_used + n /\ ForApp(e) = ForApp(d) /\ e \in Client
<1> DEFINE g == [d EXCEPT !.buf_used = @ + n]
           s == client_send_to_socks(g)
           e == client_recv_func(d, n)
<1>1. d.buf_used + n \in 0 .. TCP_WND
  BY SizesAssumption DEF Client
<1>2. /\ g \in Client /\ g.socks_up = d.socks_up /\ g.client_closed = d.client_closed
      /\ g.socks_closed = d.socks_closed /\ g.buf_used = d.buf_used + n /\ g.pcb = d.pcb
      /\ g.socks_recv_buf_used = d.socks_recv_buf_used
      /\ g.socks_recv_buf_sent = d.socks_recv_buf_sent
      /\ g.socks_recv_tcp_pending = d.socks_recv_tcp_pending
  BY <1>1, Zenon DEF Client
<1>3. e = IF g.buf_used = n /\ g.socks_up THEN s ELSE g
  BY DEF client_recv_func
<1>a. g \in Client
  BY <1>2
<1> HIDE DEF g
<1>4. s \in Client /\ StillOpen(g, s) /\ Kept(g, s)
  BY <1>a, Zenon DEF Client, IfState, client_send_to_socks, StillOpen, Kept
<1> HIDE DEF s
<1>5. e \in Client /\ StillOpen(g, e) /\ Kept(g, e)
  BY <1>2, <1>3, <1>4 DEF StillOpen, Kept
<1> HIDE DEF e
<1>6. ForApp(e) = ForApp(d)
  BY <1>2, <1>5 DEF StillOpen, Kept, ForApp, Queued
<1> QED BY <1>2, <1>5, <1>6 DEF StillOpen, e

-----------------------------------------------------------------------------
(* What a step does to the two pipes, as a relation between structs: each is a   *)
(* step of ByteRelay, of SocksSession, or seen by neither.                       *)
Unseen(d, e) ==
  /\ e.client_closed = d.client_closed /\ e.socks_closed = d.socks_closed
  /\ e.socks_up = d.socks_up /\ e.buf_used = d.buf_used /\ ForApp(e) = ForApp(d)

Opens(d, e) ==
  /\ d.client_closed /\ d.socks_closed /\ ~e.client_closed /\ ~e.socks_closed
  /\ ~e.socks_up /\ e.buf_used = 0

ComesUp(d, e) ==
  /\ ~d.socks_closed /\ ~d.socks_up /\ e.socks_up
  /\ e.client_closed = d.client_closed /\ e.socks_closed = d.socks_closed
  /\ e.buf_used = d.buf_used /\ ForApp(e) = 0

FromApp(d, e) ==
  /\ ~d.client_closed /\ ~d.socks_closed /\ e.buf_used > d.buf_used
  /\ e.client_closed = d.client_closed /\ e.socks_closed = d.socks_closed
  /\ e.socks_up = d.socks_up /\ ForApp(e) = ForApp(d)

FromSocks(d, e) ==
  /\ ~d.client_closed /\ ~d.socks_closed /\ ForApp(e) > ForApp(d) /\ StillOpen(d, e)

IntoSocks(d, e) ==
  /\ ~d.socks_closed /\ e.buf_used < d.buf_used
  /\ e.client_closed = d.client_closed /\ e.socks_up = d.socks_up
  /\ e.socks_closed <=> d.client_closed /\ e.buf_used = 0
  /\ ForApp(e) = ForApp(d)

IntoApp(d, e) ==
  ~d.client_closed /\ ForApp(e) < ForApp(d) /\ StillOpen(d, e)

AppEnds(d, e) == ~d.client_closed /\ AppGone(d, e)

SocksEnds(d, e) ==
  /\ ~d.socks_closed /\ e.socks_closed /\ Kept(d, e)
  /\ e.client_closed <=> d.client_closed \/ ForApp(d) = 0
  /\ ~e.client_closed => ForApp(e) = ForApp(d)

(* The steps other than those of SocksFailure and Terminate.                     *)
Visible(d, e) ==
  \/ Unseen(d, e) \/ Opens(d, e) \/ ComesUp(d, e) \/ FromApp(d, e) \/ FromSocks(d, e)
  \/ IntoSocks(d, e) \/ IntoApp(d, e) \/ AppEnds(d, e)

(* What tcp_close may have been called for.                                       *)
Orderly ==
  PcbLive /\ c'.pcb \in {"fin", "rst"} =>
    /\ lw # "fin_cb" => c'.unacked = 0 /\ (c'.socks_up => c'.socks_recv_buf_used = -1)
    /\ c'.pcb = "rst" => c.buf_used > 0 \/ seg.len > 0 \/ (seg.fin /\ lw # "fin_cb")

(* The process that was told to end has freed its client and left lwIP.           *)
Ended == quitting => lw = "idle" /\ c.freed

(* Nothing happens after that.                                                    *)
LEMMA StopsForGood == IInv /\ Ended /\ quitting /\ [Next]_vars => UNCHANGED vars
<1> SUFFICES ASSUME IInv, Ended, quitting, [Next]_vars PROVE UNCHANGED vars
  OBVIOUS
<1>1. lw = "idle" /\ c.freed
  BY DEF Ended
<1>2. ~JobPending /\ c.send_st = "none" /\ c.recv_st = "none"
  BY <1>1 DEF IInv, ClientInv, FlagsAgree, SendingAgrees, ReceivingAgrees, JobPending
<1>3. ~Idle /\ ~SendRuns /\ ~RecvRuns
  BY <1>2 DEF Idle, SendRuns, RecvRuns
<1>4. ~SocksEvent /\ ~SendStep /\ ~RecvStep /\ ~DoneStep
  BY <1>1, <1>2, <1>3 DEF SocksEvent, SocksUp, SocksError, SendStep, SendWritten, SendAgain,
     RecvStep, RecvRead, RecvAgain, DoneStep, SendDone, RecvDone, TransferError
<1>5. ~LwipStep /\ ~PeerStep /\ ~Terminate
  BY <1>1, <1>3 DEF LwipStep, SentCallback, RecvCallback, FinCallback, CallbackReturn,
     PeerStep, Accept, SegmentIn, ConnectionError, Terminate
<1> QED BY <1>4, <1>5 DEF Next, Exited

LEMMA EndedStep == IInv /\ Ended /\ [Next]_vars => Ended'
<1> SUFFICES ASSUME IInv, Ended, [Next]_vars, quitting' PROVE lw' = "idle" /\ c'.freed
  BY DEF Ended
<1>1. CASE quitting
  BY <1>1, StopsForGood DEF Ended, vars
<1>2. CASE ~quitting
  <2>1. Terminate
    BY <1>2 DEF Next, vars, SocksEvent, SocksUp, SocksError, SendStep, SendWritten, SendAgain,
       RecvStep, RecvRead, RecvAgain, DoneStep, SendDone, RecvDone, TransferError,
       LwipStep, SentCallback, RecvCallback, FinCallback, CallbackReturn,
       PeerStep, Accept, SegmentIn, ConnectionError, Exited
  <2>2. lw' = "idle"
    BY <2>1 DEF Terminate, Idle
  <2>3. \A d \in Client : client_dealloc(d).freed
    BY Zenon DEF Client, client_dealloc
  <2>4. CASE c.freed
    BY <2>1, <2>2, <2>4 DEF Terminate
  <2>5. CASE ~c.freed
    <3> DEFINE m == [tcp_abort(unset_callbacks(c)) EXCEPT
                       !.dead_client = TRUE, !.client_closed = TRUE]
               e == IF c.client_closed THEN c ELSE m
               f == IF e.socks_closed THEN e ELSE release_socks(e)
    <3>1. c \in Client
      BY DEF IInv, TypeOK
    <3>2. tcp_abort(unset_callbacks(c)) \in Client
      BY <3>1, Zenon DEF Client, PcbState, tcp_abort, unset_callbacks
    <3>3. m \in Client
      BY <3>2, Zenon DEF Client
    <3> HIDE DEF m
    <3>4. e \in Client
      BY <3>1, <3>3
    <3>5. c' = client_dealloc(f)
      BY <2>1, <2>5 DEF Terminate, client_murder, m
    <3> HIDE DEF e
    <3>6. release_socks(e) \in Client
      BY <3>4, Zenon DEF Client, IfState, release_socks
    <3>7. f \in Client
      BY <3>4, <3>6
    <3> QED BY <2>2, <2>3, <3>5, <3>7
  <2> QED BY <2>4, <2>5
<1> QED BY <1>1, <1>2 DEF IInv, TypeOK

(* A step that changes no field but those of the interfaces, of lwIP and of the    *)
(* dead variable is not seen.                                                    *)
LEMMA UnseenFields ==
  ASSUME NEW d, NEW e, Kept(d, e),
         e.client_closed = d.client_closed, e.socks_closed = d.socks_closed
  PROVE  Unseen(d, e)
  BY DEF Unseen, Kept, ForApp, Queued

(* Events and jobs of SOCKS.                                                     *)
LEMMA SocksSeen ==
  ASSUME IInv, SocksEvent \/ SendStep \/ RecvStep \/ DoneStep
  PROVE  /\ Visible(c, c') \/ (SocksFailure /\ SocksEnds(c, c'))
         /\ Orderly
<1>0. /\ ClientInv(c, InFlightAck, Undelivered) /\ c \in Client /\ lw \in LwipState
      /\ StageInv /\ seg.ack \in Nat /\ seg.len \in Nat /\ Undelivered \in Nat
  BY HeldType, SizesAssumption DEF IInv, TypeOK, Segment
<1>a. InFlightAck = 0 \/ (lw = "sent_cb" /\ ~JobPending /\ ~Idle)
  BY <1>0 DEF InFlightAck, StageInv, Idle
<1>b. c.send_st # "none" => ~c.socks_closed /\ 0 < c.send_len /\ c.send_len <= c.buf_used
  BY <1>0 DEF ClientInv, SendingAgrees
<1>c. c.socks_up /\ ~c.client_closed /\ c.socks_recv_buf_used > 0 =>
        c.socks_recv_buf_sent < c.socks_recv_buf_used
  BY <1>0 DEF ClientInv, ReceivingAgrees
<1>d. c.recv_st # "none" => ~c.socks_closed
  BY <1>0 DEF ClientInv, ReceivingAgrees
<1>e. PcbLive <=> ~c.client_closed
  BY <1>0 DEF ClientInv, FlagsAgree, PcbLive
<1>f. c.client_closed \in BOOLEAN /\ c.socks_closed \in BOOLEAN
  BY <1>0 DEF Client
<1>1. ASSUME SocksUp PROVE Visible(c, c') /\ Orderly
  <2>1. c' = client_socks_up(c) /\ ~c.socks_closed /\ ~c.socks_up
    BY <1>1 DEF SocksUp
  <2>2. /\ c'.socks_up /\ c'.client_closed = c.client_closed
        /\ c'.socks_closed = c.socks_closed /\ c'.buf_used = c.buf_used
        /\ c'.pcb = c.pcb /\ ForApp(c') = 0
    BY <1>0, <2>1, UpView
  <2> QED BY <2>1, <2>2 DEF Visible, ComesUp, Orderly, PcbLive
<1>2. ASSUME NEW nomem \in BOOLEAN, SocksError(nomem) \/ TransferError(nomem)
      PROVE  SocksFailure /\ SocksEnds(c, c') /\ Orderly
  <2>1. c' = client_free_socks(c, nomem) /\ ~c.socks_closed
    BY <1>2, <1>b, <1>d DEF SocksError, TransferError, SendRuns, RecvRuns
  <2>2. /\ c'.socks_closed /\ Kept(c, c')
        /\ c'.client_closed <=> c.client_closed \/ ForApp(c) = 0
        /\ ~c'.client_closed => ForApp(c') = ForApp(c)
        /\ c'.pcb = c.pcb \/ c'.pcb = "abrt" \/ (c'.pcb \in {"fin", "rst"} /\ ForApp(c) = 0)
        /\ c'.pcb = "rst" /\ c.pcb # "rst" => c.rcv_wnd # TCP_WND
    BY <1>0, <1>c, <2>1, FreeSocksView
  <2>3. SocksFailure /\ SocksEnds(c, c')
    BY <1>2, <2>1, <2>2 DEF SocksFailure, SocksEnds
  <2>4. lw \in {"idle", "accept", "sent", "recv"} /\ InFlightAck = 0
    BY <1>0, <1>2, <1>a DEF SocksError, TransferError, SendRuns, RecvRuns, JobPending, StageInv,
       Idle, LwipState
  <2>5. ASSUME PcbLive, c'.pcb \in {"fin", "rst"}
        PROVE  /\ c'.unacked = 0 /\ (c'.socks_up => c'.socks_recv_buf_used = -1)
               /\ c'.pcb = "rst" => c.buf_used > 0 \/ seg.len > 0 \/ (seg.fin /\ lw # "fin_cb")
    <3>1. ForApp(c) = 0 /\ ~c.client_closed
      BY <1>e, <2>2, <2>5 DEF PcbLive
    <3>2. /\ c.unacked \in Nat /\ c.socks_recv_tcp_pending \in Nat
          /\ c.socks_recv_buf_sent \in Nat
          /\ c.socks_recv_buf_used = -1 \/ c.socks_recv_buf_used \in Nat \ {0}
          /\ c.buf_used \in Nat /\ c.rcv_wnd \in Nat
      BY <1>0, SizesAssumption DEF Client
    <3>3. c.socks_up => c.socks_recv_tcp_pending = c.unacked
      BY <1>0, <2>4, <3>1, <3>2 DEF ClientInv, CountersAgree
    <3>4. c.unacked = 0 /\ (c.socks_up => c.socks_recv_buf_used = -1)
      <4>1. CASE c.socks_up
        BY <1>c, <3>1, <3>2, <3>3, <4>1 DEF ForApp, Queued
      <4>2. CASE ~c.socks_up
        BY <1>0, <3>1, <4>2 DEF ClientInv, CountersAgree
      <4> QED BY <4>1, <4>2
    <3>5. c'.unacked = 0 /\ (c'.socks_up => c'.socks_recv_buf_used = -1)
      BY <2>2, <3>4 DEF Kept
    <3>6. ASSUME c'.pcb = "rst" PROVE c.buf_used > 0 \/ seg.len > 0 \/ (seg.fin /\ lw # "fin_cb")
      <4>1. c.rcv_wnd # TCP_WND
        BY <2>2, <2>5, <3>6 DEF PcbLive
      <4>2. c.rcv_wnd + c.buf_used + Undelivered = TCP_WND
        BY <1>0, <3>1 DEF ClientInv, CountersAgree
      <4>3. c.buf_used > 0 \/ Undelivered > 0
        BY <1>0, <3>2, <4>1, <4>2, SizesAssumption
      <4> QED BY <1>0, <2>4, <4>3 DEF Undelivered
    <3> QED BY <3>5, <3>6
  <2> QED BY <2>3, <2>5 DEF Orderly
<1>3. ASSUME SendStep \/ RecvStep PROVE Visible(c, c') /\ Orderly
  <2>1. /\ Kept(c, c') /\ c'.pcb = c.pcb
        /\ c'.client_closed = c.client_closed /\ c'.socks_closed = c.socks_closed
    <3>1. \A n : LET e == [c EXCEPT !.send_st = "done", !.send_len = n]
                 IN  /\ Kept(c, e) /\ e.pcb = c.pcb
                     /\ e.client_closed = c.client_closed /\ e.socks_closed = c.socks_closed
      BY <1>0, Zenon DEF Client, Kept
    <3>2. LET e == [c EXCEPT !.send_st = "busy"]
          IN  /\ Kept(c, e) /\ e.pcb = c.pcb
              /\ e.client_closed = c.client_closed /\ e.socks_closed = c.socks_closed
      BY <1>0, Zenon DEF Client, Kept
    <3>3. \A n : LET e == [c EXCEPT !.recv_st = "done", !.recv_len = n]
                 IN  /\ Kept(c, e) /\ e.pcb = c.pcb
                     /\ e.client_closed = c.client_closed /\ e.socks_closed = c.socks_closed
      BY <1>0, Zenon DEF Client, Kept
    <3>4. LET e == [c EXCEPT !.recv_st = "busy"]
          IN  /\ Kept(c, e) /\ e.pcb = c.pcb
              /\ e.client_closed = c.client_closed /\ e.socks_closed = c.socks_closed
      BY <1>0, Zenon DEF Client, Kept
    <3>5. ASSUME SendStep
          PROVE  \/ \E n : c' = [c EXCEPT !.send_st = "done", !.send_len = n]
                 \/ c' = [c EXCEPT !.send_st = "busy"]
      BY <3>5, Zenon DEF SendStep, SendWritten, SendAgain
    <3>6. ASSUME RecvStep
          PROVE  \/ \E n : c' = [c EXCEPT !.recv_st = "done", !.recv_len = n]
                 \/ c' = [c EXCEPT !.recv_st = "busy"]
      BY <3>6, Zenon DEF RecvStep, RecvRead, RecvAgain
    <3>7. CASE SendStep
      BY <3>1, <3>2, <3>5, <3>7, Zenon
    <3>8. CASE RecvStep
      BY <3>3, <3>4, <3>6, <3>8, Zenon
    <3> QED BY <1>3, <3>7, <3>8
  <2> QED BY <2>1, UnseenFields DEF Visible, Orderly, PcbLive
<1>4. ASSUME NEW nomem \in BOOLEAN, SendDone(nomem) PROVE Visible(c, c') /\ Orderly
  <2>1. c' = client_socks_send_handler_done(c, nomem) /\ c.send_st # "none"
    BY <1>4 DEF SendDone
  <2>2. /\ c'.buf_used = c.buf_used - c.send_len
        /\ c'.client_closed = c.client_closed /\ c'.socks_up = c.socks_up
        /\ c'.socks_closed <=> c.client_closed /\ c'.buf_used = 0
        /\ ForApp(c') = ForApp(c) /\ c'.pcb = c.pcb
    BY <1>0, <1>b, <2>1, SendDoneView
  <2>3. c.send_len \in Nat /\ c.buf_used \in Nat
    BY <1>0, SizesAssumption DEF Client
  <2>4. IntoSocks(c, c')
    BY <1>b, <2>1, <2>2, <2>3 DEF IntoSocks
  <2> QED BY <2>2, <2>4 DEF Visible, Orderly, PcbLive
<1>5. ASSUME NEW wr \in WriteResult, NEW out \in BOOLEAN, RecvDone(wr, out)
      PROVE  Visible(c, c') /\ Orderly
  <2>1. c' = client_socks_recv_handler_done(c, wr, out) /\ c.recv_st = "done"
    BY <1>5 DEF RecvDone
  <2>2. ClientInv(c, 0, Undelivered)
    BY <1>0, <1>a, <2>1 DEF JobPending
  <2>3. /\ c.client_closed => StillOpen(c, c') /\ ForApp(c') = 0
        /\ ~c.client_closed /\ c'.client_closed => AppGone(c, c') /\ c'.pcb = "abrt"
        /\ ~c.client_closed /\ ~c'.client_closed =>
             StillOpen(c, c') /\ ForApp(c') = ForApp(c) + c.recv_len
    BY <2>1, <2>2, RecvDoneView
  <2>4. ~c.socks_closed /\ c.recv_len > 0 /\ c.recv_len \in Nat
    BY <1>0, <2>1, SizesAssumption DEF ClientInv, ReceivingAgrees, Client
  <2>5. CASE c.client_closed
    BY <2>3, <2>5 DEF Visible, Unseen, StillOpen, ForApp, Orderly, PcbLive
  <2>6. CASE ~c.client_closed /\ c'.client_closed
    BY <2>3, <2>6 DEF Visible, AppEnds, Orderly
  <2>7. CASE ~c.client_closed /\ ~c'.client_closed
    <3>1. ForApp(c) \in Int
      BY <1>0, SizesAssumption DEF Client, ForApp, Queued
    <3>2. FromSocks(c, c')
      BY <2>3, <2>4, <2>7, <3>1 DEF FromSocks
    <3> QED BY <2>3, <2>7, <3>2 DEF Visible, Orderly, PcbLive, StillOpen
  <2> QED BY <2>5, <2>6, <2>7
<1> QED
  BY <1>1, <1>2, <1>3, <1>4, <1>5 DEF SocksEvent, DoneStep

(* lwIP's steps inside tcp_input.                                                *)
LEMMA LwipSeen == IInv /\ LwipStep => Visible(c, c') /\ Orderly
<1> SUFFICES ASSUME IInv, LwipStep PROVE Visible(c, c') /\ Orderly
  OBVIOUS
<1>0. /\ ClientInv(c, InFlightAck, Undelivered) /\ c \in Client /\ StageInv
      /\ seg.ack \in Nat /\ seg.len \in Nat /\ seg.fin \in BOOLEAN
  BY SizesAssumption DEF IInv, TypeOK, Segment
<1>a. PcbLive <=> ~c.client_closed
  BY <1>0 DEF ClientInv, FlagsAgree, PcbLive
<1>b. c.rcv_wnd \in Nat /\ c.buf_used \in Nat /\ ForApp(c) \in Int /\ TCP_WND \in Nat
  BY <1>0, SizesAssumption DEF Client, ForApp, Queued
<1>1. ASSUME NEW wr \in WriteResult, NEW out \in BOOLEAN, NEW nomem \in BOOLEAN,
             SentCallback(wr, out, nomem)
      PROVE  Visible(c, c') /\ Orderly
  <2>1. /\ lw = "sent_cb" /\ ~c.client_closed /\ InFlightAck = seg.ack
        /\ Undelivered = seg.len + (IF seg.fin THEN 1 ELSE 0)
    BY <1>0, <1>1 DEF SentCallback, StageInv, InFlightAck, Undelivered
  <2>2. CASE seg.ack = 0 \/ ~c.sent_cb
    <3>1. c' = c
      BY <1>1, <2>2 DEF SentCallback
    <3> QED BY <3>1 DEF Visible, Unseen, Orderly, PcbLive
  <2>3. CASE ~(seg.ack = 0 \/ ~c.sent_cb)
    <3> DEFINE d == client_sent_func(c, seg.ack, wr, out, nomem)
    <3>1. c.socks_up /\ ClientInv(c, seg.ack, Undelivered)
      BY <1>0, <2>1, <2>3 DEF ClientInv, FlagsAgree
    <3>2. /\ d.client_closed =>
               /\ AppGone(c, d)
               /\ d.pcb \in {"fin", "rst"} => d.unacked = 0 /\ d.socks_recv_buf_used = -1
               /\ d.pcb = "rst" => c.rcv_wnd # TCP_WND
          /\ ~d.client_closed => StillOpen(c, d) /\ ForApp(d) = ForApp(c) - seg.ack
      <4>1. seg.ack \in Nat /\ ClientInv(c, seg.ack, Undelivered) /\ ~c.client_closed /\ c.socks_up
        BY <1>0, <2>1, <3>1
      <4> QED BY <4>1, SentView, Zenon
    <3>3. ClientInv(d, 0, Undelivered)
      BY <1>0, <2>1, <3>1, SentFunc
    <3>4. c' = [d EXCEPT !.dead_client = d.client_closed]
      BY <1>1, <2>3 DEF SentCallback
    <3> HIDE DEF d
    <3>5. /\ Kept(d, c') /\ c'.client_closed = d.client_closed
          /\ c'.socks_closed = d.socks_closed /\ c'.pcb = d.pcb
      BY <3>3, <3>4, Zenon DEF ClientInv, Client, Kept
    <3>6. CASE d.client_closed
      <4>1. AppEnds(c, c')
        BY <2>1, <3>2, <3>5, <3>6 DEF AppEnds, AppGone, Kept
      <4>2. c'.pcb = "rst" => c.buf_used > 0 \/ seg.len > 0 \/ (seg.fin /\ lw # "fin_cb")
        <5>1. c.rcv_wnd + c.buf_used + Undelivered = TCP_WND
          BY <2>1, <3>1 DEF ClientInv, CountersAgree
        <5> QED BY <1>0, <1>b, <2>1, <3>2, <3>5, <3>6, <5>1
      <4>3. c'.pcb \in {"fin", "rst"} =>
              c'.unacked = 0 /\ (c'.socks_up => c'.socks_recv_buf_used = -1)
        BY <3>2, <3>5, <3>6 DEF Kept
      <4> QED BY <4>1, <4>2, <4>3 DEF Visible, Orderly
    <3>7. CASE ~d.client_closed
      <4>1. StillOpen(c, c') /\ ForApp(c') = ForApp(c) - seg.ack
        BY <3>2, <3>5, <3>7 DEF StillOpen, Kept, ForApp, Queued
      <4>2. IntoApp(c, c')
        BY <1>0, <1>b, <2>1, <2>3, <4>1 DEF IntoApp
      <4> QED BY <4>1, <4>2 DEF Visible, StillOpen, Orderly, PcbLive
    <3> QED BY <3>6, <3>7
  <2> QED BY <2>2, <2>3
<1>2. ASSUME RecvCallback PROVE Visible(c, c') /\ Orderly
  <2>1. /\ lw = "recv_cb" /\ ~c.client_closed
        /\ Undelivered = seg.len + (IF seg.fin THEN 1 ELSE 0)
    BY <1>0, <1>2 DEF RecvCallback, StageInv, Undelivered
  <2>2. c.rcv_wnd + c.buf_used + Undelivered = TCP_WND
    BY <1>0, <2>1 DEF ClientInv, CountersAgree
  <2>3. CASE seg.len = 0
    <3>1. c' = c
      BY <1>2, <2>3 DEF RecvCallback
    <3> QED BY <3>1 DEF Visible, Unseen, Orderly, PcbLive
  <2>4. CASE seg.len # 0 /\ ~c.recv_cb
    <3>1. c' = tcp_recved(c, seg.len)
      BY <1>2, <2>4 DEF RecvCallback
    <3>2. /\ Kept(c, c') /\ c'.pcb = c.pcb
          /\ c'.client_closed = c.client_closed /\ c'.socks_closed = c.socks_closed
      BY <1>0, <3>1, Zenon DEF Client, tcp_recved, Kept
    <3> QED BY <3>2, UnseenFields DEF Visible, Orderly, PcbLive
  <2>5. CASE seg.len # 0 /\ c.recv_cb
    <3> DEFINE e == client_recv_func(c, seg.len)
    <3>1. seg.len <= TCP_WND - c.buf_used /\ c.buf_used + seg.len <= TCP_WND
      BY <1>0, <1>b, <2>1, <2>2
    <3>2. c' = [e EXCEPT !.dead_client = FALSE]
      <4>1. ~(seg.len > TCP_WND - c.buf_used)
        BY <1>0, <1>b, <3>1
      <4> QED BY <1>2, <2>5, <4>1, Zenon DEF RecvCallback
    <3>3. /\ e.client_closed = c.client_closed /\ e.socks_closed = c.socks_closed
          /\ e.socks_up = c.socks_up /\ e.pcb = c.pcb
          /\ e.buf_used = c.buf_used + seg.len /\ ForApp(e) = ForApp(c) /\ e \in Client
      BY <1>0, <3>1, RecvView
    <3> HIDE DEF e
    <3>4. /\ Kept(e, c') /\ c'.client_closed = e.client_closed
          /\ c'.socks_closed = e.socks_closed /\ c'.pcb = e.pcb
      BY <3>2, <3>3, Zenon DEF Client, Kept
    <3>5. ForApp(c') = ForApp(c)
      BY <3>3, <3>4 DEF Kept, ForApp, Queued
    <3>6. ~c.socks_closed
      BY <1>0, <2>5 DEF ClientInv, FlagsAgree
    <3>7. FromApp(c, c')
      BY <1>0, <1>b, <2>1, <2>5, <3>3, <3>4, <3>5, <3>6 DEF FromApp, Kept
    <3> QED BY <3>3, <3>4, <3>7 DEF Visible, Orderly, PcbLive
  <2> QED BY <2>3, <2>4, <2>5
<1>3. ASSUME NEW nomem \in BOOLEAN, FinCallback(nomem) PROVE Visible(c, c') /\ Orderly
  <2> DEFINE d == [c EXCEPT !.rcv_wnd = IF seg.fin /\ @ # TCP_WND THEN @ + 1 ELSE @]
  <2>1. lw = "fin_cb" /\ ~c.client_closed /\ Undelivered = (IF seg.fin THEN 1 ELSE 0)
    BY <1>0, <1>3 DEF FinCallback, StageInv, Undelivered
  <2>2. c.rcv_wnd + c.buf_used + Undelivered = TCP_WND
    BY <1>0, <2>1 DEF ClientInv, CountersAgree
  <2>3. (IF seg.fin /\ c.rcv_wnd # TCP_WND THEN c.rcv_wnd + 1 ELSE c.rcv_wnd) \in 0 .. TCP_WND
    BY <1>0, <1>b, <2>1, <2>2
  <2>4. /\ d \in Client /\ Kept(c, d) /\ d.client_closed = c.client_closed
        /\ d.socks_closed = c.socks_closed /\ d.pcb = c.pcb
        /\ d.rcv_wnd = IF seg.fin /\ c.rcv_wnd # TCP_WND THEN c.rcv_wnd + 1 ELSE c.rcv_wnd
    BY <1>0, <2>3, Zenon DEF Client, Kept
  <2>5. c' = IF seg.fin /\ c.recv_cb THEN client_free_client(d, nomem) ELSE d
    BY <1>3 DEF FinCallback
  <2> HIDE DEF d
  <2>6. CASE seg.fin /\ c.recv_cb
    <3>1. c' = client_free_client(d, nomem)
      BY <2>5, <2>6
    <3>2. AppGone(d, c') /\ (c'.pcb = "rst" => d.rcv_wnd # TCP_WND)
      BY <2>4, <3>1, CloseView
    <3>3. AppEnds(c, c')
      BY <2>1, <2>4, <3>2 DEF AppEnds, AppGone, Kept
    <3>4. c'.pcb = "rst" => c.buf_used > 0
      BY <1>b, <2>1, <2>2, <2>4, <2>6, <3>2
    <3> QED BY <2>1, <3>3, <3>4 DEF Visible, Orderly
  <2>7. CASE ~(seg.fin /\ c.recv_cb)
    BY <2>4, <2>5, <2>7, UnseenFields DEF Visible, Orderly, PcbLive
  <2> QED BY <2>6, <2>7
<1>4. ASSUME CallbackReturn PROVE Visible(c, c') /\ Orderly
  <2> DEFINE e == [c EXCEPT !.rcv_wnd = @ - seg.len - (IF seg.fin THEN 1 ELSE 0),
                            !.pcb = IF seg.fin THEN "cw" ELSE @]
  <2>1. c' = c \/ (c' = e /\ lw = "accept")
    BY <1>4 DEF CallbackReturn
  <2>2. /\ Kept(c, e) /\ e.client_closed = c.client_closed /\ e.socks_closed = c.socks_closed
        /\ e.pcb = IF seg.fin THEN "cw" ELSE c.pcb
    BY <1>0, Zenon DEF Client, Kept
  <2> HIDE DEF e
  <2>3. /\ Kept(c, c') /\ c'.client_closed = c.client_closed
        /\ c'.socks_closed = c.socks_closed /\ c'.pcb \in {"cw", c.pcb}
    BY <2>1, <2>2 DEF Kept
  <2> QED BY <2>3, UnseenFields DEF Visible, Orderly, PcbLive
<1> QED
  BY <1>1, <1>2, <1>3, <1>4 DEF LwipStep

(* New connections, segments, errors of the connection, and the end.               *)
LEMMA PeerSeen == IInv /\ PeerStep => Visible(c, c') /\ Orderly
<1> SUFFICES ASSUME IInv, PeerStep PROVE Visible(c, c') /\ Orderly
  OBVIOUS
<1>0. ClientInv(c, InFlightAck, Undelivered) /\ c \in Client
  BY DEF IInv, TypeOK
<1>1. ASSUME NEW n \in 0 .. TCP_WND, NEW fin \in BOOLEAN, Accept(n, fin)
      PROVE  Visible(c, c') /\ Orderly
  <2>1. c.client_closed /\ c.socks_closed /\ c.pcb \notin {"est", "cw"}
    BY <1>0, <1>1 DEF Accept, ClientInv, FlagsAgree
  <2> DEFINE d == new_pcb(c)
  <2>2. d \in Client
    <3>1. TCP_WND \in 0 .. TCP_WND /\ 0 \in 0 .. TCP_SND_BUF
      BY SizesAssumption
    <3> QED BY <1>0, <3>1, Zenon DEF Client, PcbState, new_pcb
  <2>3. c' = [d EXCEPT !.freed = FALSE, !.recv_cb = TRUE, !.err_cb = TRUE,
                       !.client_closed = FALSE, !.dead_client = FALSE, !.buf_used = 0,
                       !.socks_up = FALSE, !.socks_closed = FALSE]
    BY <1>1 DEF Accept
  <2> HIDE DEF d
  <2>4. ~c'.client_closed /\ ~c'.socks_closed /\ ~c'.socks_up /\ c'.buf_used = 0
    BY <2>2, <2>3, Zenon DEF Client
  <2> QED BY <2>1, <2>4 DEF Visible, Opens, Orderly, PcbLive
<1>2. ASSUME NEW ack \in 0 .. TCP_SND_BUF, NEW n \in 0 .. TCP_WND, NEW fin \in BOOLEAN,
             SegmentIn(ack, n, fin)
      PROVE  Visible(c, c') /\ Orderly
  <2>1. /\ c'.buf_used = c.buf_used /\ c'.socks_up = c.socks_up
        /\ c'.socks_recv_buf_used = c.socks_recv_buf_used
        /\ c'.socks_recv_buf_sent = c.socks_recv_buf_sent
        /\ c'.socks_recv_tcp_pending = c.socks_recv_tcp_pending
        /\ c'.client_closed = c.client_closed /\ c'.socks_closed = c.socks_closed
        /\ c'.pcb = IF fin THEN "cw" ELSE c.pcb
    BY <1>0, <1>2, Zenon DEF SegmentIn, Client
  <2>2. ForApp(c') = ForApp(c)
    BY <2>1 DEF ForApp, Queued
  <2> QED BY <2>1, <2>2 DEF Visible, Unseen, Orderly, PcbLive
<1>3. ASSUME ConnectionError PROVE Visible(c, c') /\ Orderly
  <2> DEFINE u == unset_callbacks(c)
             d == [u EXCEPT !.pcb = "err"]
  <2>1. ~c.client_closed /\ c.err_cb
    BY <1>0, <1>3 DEF ConnectionError, PcbLive, ClientInv, FlagsAgree
  <2>2. c' = client_handle_freed_client(d)
    BY <1>3, <2>1 DEF ConnectionError
  <2>3. u \in Client /\ Kept(c, u) /\ u.socks_closed = c.socks_closed
    BY <1>0, Zenon DEF Client, unset_callbacks, Kept
  <2> HIDE DEF u
  <2>4. d \in Client /\ Kept(u, d) /\ d.socks_closed = u.socks_closed /\ d.pcb = "err"
    BY <2>3, Zenon DEF Client, PcbState, Kept
  <2> HIDE DEF d
  <2>5. AppGone(d, c') /\ c'.pcb = "err"
    BY <2>2, <2>4, FreedView
  <2>6. AppEnds(c, c')
    BY <2>1, <2>3, <2>4, <2>5 DEF AppEnds, AppGone, Kept
  <2> QED BY <2>5, <2>6 DEF Visible, Orderly
<1> QED
  BY <1>1, <1>2, <1>3 DEF PeerStep

LEMMA TerminateSeen ==
  IInv /\ Terminate =>
    /\ c'.client_closed /\ c'.socks_closed
    /\ c'.pcb \in {c.pcb, "abrt"} /\ quitting' = TRUE
<1> SUFFICES ASSUME IInv, Terminate
             PROVE  c'.client_closed /\ c'.socks_closed /\ c'.pcb \in {c.pcb, "abrt"}
  BY DEF Terminate
<1>1. c \in Client /\ FlagsAgree(c)
  BY DEF IInv, TypeOK, ClientInv
<1>2. CASE c.freed
  BY <1>1, <1>2 DEF Terminate, FlagsAgree
<1>3. CASE ~c.freed
  <2> DEFINE a == tcp_abort(unset_callbacks(c))
             m == [a EXCEPT !.dead_client = TRUE, !.client_closed = TRUE]
             e == IF c.client_closed THEN c ELSE m
             r == release_socks(e)
             f == IF e.socks_closed THEN e ELSE r
  <2>1. c' = client_dealloc(f)
    BY <1>3 DEF Terminate, client_murder
  <2>2. a \in Client /\ a.pcb = "abrt"
    BY <1>1, Zenon DEF Client, PcbState, tcp_abort, unset_callbacks
  <2> HIDE DEF a
  <2>3. m \in Client /\ m.pcb = "abrt" /\ m.client_closed
    BY <2>2, Zenon DEF Client
  <2> HIDE DEF m
  <2>4. e \in Client /\ e.pcb \in {c.pcb, "abrt"} /\ e.client_closed
    BY <1>1, <2>3
  <2> HIDE DEF e
  <2>5. r \in Client /\ r.pcb = e.pcb /\ r.client_closed = e.client_closed /\ r.socks_closed
    BY <2>4, Zenon DEF Client, IfState, release_socks
  <2> HIDE DEF r
  <2>6. f \in Client /\ f.pcb = e.pcb /\ f.client_closed /\ f.socks_closed
    BY <2>4, <2>5
  <2> HIDE DEF f
  <2>7. c'.pcb = f.pcb /\ c'.client_closed = f.client_closed /\ c'.socks_closed = f.socks_closed
    BY <2>1, <2>6, Zenon DEF Client, client_dealloc
  <2> QED BY <2>4, <2>6, <2>7
<1> QED BY <1>2, <1>3

(* All steps.                                                                    *)
LEMMA StepSeen ==
  ASSUME IInv, [Next]_vars
  PROVE  /\ \/ Visible(c, c') /\ quitting' = quitting
            \/ SocksFailure /\ SocksEnds(c, c') /\ quitting' = quitting
            \/ Terminate /\ c'.client_closed /\ c'.socks_closed /\ quitting' = TRUE
         /\ Orderly
<1>1. CASE SocksEvent \/ SendStep \/ RecvStep \/ DoneStep
  <2>1. quitting' = quitting
    BY <1>1 DEF SocksEvent, SocksUp, SocksError, SendStep, SendWritten, SendAgain,
       RecvStep, RecvRead, RecvAgain, DoneStep, SendDone, RecvDone, TransferError
  <2> QED BY <1>1, <2>1, SocksSeen
<1>2. CASE LwipStep
  <2>1. quitting' = quitting
    BY <1>2 DEF LwipStep, SentCallback, RecvCallback, FinCallback, CallbackReturn
  <2> QED BY <1>2, <2>1, LwipSeen
<1>3. CASE PeerStep
  <2>1. quitting' = quitting
    BY <1>3 DEF PeerStep, Accept, SegmentIn, ConnectionError
  <2> QED BY <1>3, <2>1, PeerSeen
<1>4. CASE Terminate
  BY <1>4, TerminateSeen DEF Orderly, PcbLive
<1>5. CASE Exited \/ UNCHANGED vars
  <2>1. c' = c /\ quitting' = quitting
    BY <1>5 DEF Exited, vars
  <2> QED BY <2>1 DEF Visible, Unseen, Orderly, PcbLive
<1> QED BY <1>1, <1>2, <1>3, <1>4, <1>5 DEF Next

(* Closing a side loses no byte the other side was told is safe, for every window   *)
(* and buffer size: client_handle_freed_client and client_free_socks keep the other  *)
(* side open as long as it has bytes to get, and tcp_close resets only a connection  *)
(* with unread bytes.                                                               *)
THEOREM BytesKept == Spec => NothingDropped
<1>1. IInv /\ [Next]_vars =>
        /\ [~c.socks_closed /\ c'.socks_closed =>
              c'.buf_used = 0 \/ SocksFailure \/ Terminate]_vars
        /\ [PcbLive /\ c'.pcb \in {"fin", "rst"} /\ lw # "fin_cb" =>
              c'.unacked = 0 /\ (c'.socks_up => c'.socks_recv_buf_used = -1)]_vars
        /\ [PcbLive /\ c'.pcb = "rst" =>
              c.buf_used > 0 \/ seg.len > 0 \/ (seg.fin /\ lw # "fin_cb")]_vars
  <2> SUFFICES ASSUME IInv, [Next]_vars
               PROVE  /\ ~c.socks_closed /\ c'.socks_closed =>
                           c'.buf_used = 0 \/ SocksFailure \/ Terminate
                      /\ PcbLive /\ c'.pcb \in {"fin", "rst"} /\ lw # "fin_cb" =>
                           c'.unacked = 0 /\ (c'.socks_up => c'.socks_recv_buf_used = -1)
                      /\ PcbLive /\ c'.pcb = "rst" =>
                           c.buf_used > 0 \/ seg.len > 0 \/ (seg.fin /\ lw # "fin_cb")
    OBVIOUS
  <2>1. /\ Visible(c, c') \/ SocksFailure \/ Terminate
        /\ Orderly
    BY StepSeen
  <2>2. Visible(c, c') /\ ~c.socks_closed /\ c'.socks_closed => c'.buf_used = 0
    BY DEF Visible, Unseen, Opens, ComesUp, FromApp, FromSocks, IntoSocks, IntoApp, AppEnds,
           AppGone, StillOpen
  <2> QED BY <2>1, <2>2 DEF Orderly
<1> QED
  BY <1>1, Invariance, PTL DEF Spec, NothingDropped, DrainToSocks, DrainToClient,
                               ResetOnlyWithUnreadBytes

(* TcpRelay's mapping is the one the relations above speak of.                      *)
LEMMA Mapping ==
  /\ toSocks = ForSocks(c) /\ toApp = ForApp(c)
  /\ toSocks' = ForSocks(c') /\ toApp' = ForApp(c')
  BY DEF toSocks, toApp, app, socks, ForSocks, ForApp, Queued

LEMMA PipeSizes ==
  ASSUME NEW d \in Client, ReceivingAgrees(d)
  PROVE  /\ d.buf_used \in 0 .. TCP_WND
         /\ ForApp(d) \in 0 .. TCP_SND_BUF + CLIENT_SOCKS_RECV_BUF_SIZE
         /\ ~d.client_closed /\ d.socks_closed => ForApp(d) > 0
         /\ d.client_closed \in BOOLEAN /\ d.socks_closed \in BOOLEAN /\ d.socks_up \in BOOLEAN
  BY SizesAssumption DEF Client, ReceivingAgrees, ForApp, Queued

(* Every step is a step of the byte relay.                                           *)
LEMMA RelayStep ==
  ASSUME IInv, IInv', Ended, [Next]_vars PROVE [Relay!Next]_Relay!relay
<1>1. /\ c \in Client /\ ReceivingAgrees(c) /\ c' \in Client /\ ReceivingAgrees(c')
      /\ FlagsAgree(c) /\ quitting \in BOOLEAN
  BY DEF IInv, TypeOK, ClientInv
<1>2. /\ c.buf_used \in 0 .. TCP_WND /\ c'.buf_used \in 0 .. TCP_WND
      /\ ForApp(c) \in 0 .. TCP_SND_BUF + CLIENT_SOCKS_RECV_BUF_SIZE
      /\ ForApp(c') \in 0 .. TCP_SND_BUF + CLIENT_SOCKS_RECV_BUF_SIZE
      /\ ~c'.client_closed /\ c'.socks_closed => ForApp(c') > 0
      /\ c.client_closed \in BOOLEAN /\ c.socks_closed \in BOOLEAN
      /\ c'.client_closed \in BOOLEAN /\ c'.socks_closed \in BOOLEAN
  BY <1>1, PipeSizes
<1>3. /\ app = ~c.client_closed /\ socks = ~c.socks_closed /\ running = ~quitting
      /\ app' = ~c'.client_closed /\ socks' = ~c'.socks_closed /\ running' = ~quitting'
  BY DEF app, socks, running
<1>4. TCP_SND_BUF + CLIENT_SOCKS_RECV_BUF_SIZE \in Nat /\ TCP_WND \in Nat
  BY SizesAssumption
<1>5. ASSUME quitting, quitting' = quitting, Visible(c, c') \/ SocksEnds(c, c')
      PROVE  UNCHANGED Relay!relay
  <2>1. UNCHANGED vars
    BY <1>5, StopsForGood
  <2>2. c' = c
    BY <2>1 DEF vars
  <2> QED BY <1>3, <1>5, <2>2, Mapping DEF Relay!relay
<1>6. ASSUME ~quitting, quitting' = quitting, Visible(c, c') \/ SocksEnds(c, c')
      PROVE  Relay!Step \/ UNCHANGED Relay!relay
  <2>1. running = TRUE /\ running' = TRUE
    BY <1>1, <1>3, <1>6
  <2>2. CASE Unseen(c, c')
    BY <1>3, <2>1, <2>2, Mapping DEF Unseen, ForSocks, Relay!relay
  <2>3. CASE Opens(c, c')
    <3>1. Relay!Open
      BY <1>2, <1>3, <2>3, Mapping DEF Opens, ForSocks, ForApp, Relay!Open
    <3> QED BY <3>1 DEF Relay!Step
  <2>4. CASE ComesUp(c, c')
    <3>1. ForApp(c) = 0
      BY <2>4 DEF ComesUp, ForApp
    <3> QED BY <1>3, <2>1, <2>4, <3>1, Mapping DEF ComesUp, ForSocks, Relay!relay
  <2>5. CASE FromApp(c, c')
    <3>1. Relay!AppBytes
      <4>1. toSocks' \in toSocks + 1 .. TCP_WND
        BY <1>2, <1>4, <2>5, Mapping DEF FromApp, ForSocks
      <4> QED BY <2>5, <4>1, Mapping DEF FromApp, app, socks, Relay!AppBytes
    <3> QED BY <3>1 DEF Relay!Step
  <2>6. CASE FromSocks(c, c')
    <3>1. Relay!SocksBytes
      <4>1. toApp' \in toApp + 1 .. TCP_SND_BUF + CLIENT_SOCKS_RECV_BUF_SIZE
        BY <1>2, <1>4, <2>6, Mapping DEF FromSocks
      <4> QED
        BY <2>6, <4>1, Mapping DEF FromSocks, StillOpen, ForSocks, app, socks, Relay!SocksBytes
    <3> QED BY <3>1 DEF Relay!Step
  <2>7. CASE IntoSocks(c, c')
    <3>1. ForSocks(c) = c.buf_used /\ ForSocks(c') = c'.buf_used
      BY <1>2, <2>7 DEF IntoSocks, ForSocks
    <3>2. socks' <=> (app \/ c'.buf_used > 0)
      BY <1>2, <2>7 DEF IntoSocks, app, socks
    <3>a. toSocks > 0 /\ toSocks' \in 0 .. toSocks - 1
      BY <1>2, <2>7, <3>1, Mapping DEF IntoSocks
    <3>3. Relay!SocksTakes
      BY <2>7, <3>1, <3>2, <3>a, Mapping DEF IntoSocks, app, socks, Relay!SocksTakes
    <3> QED BY <3>3 DEF Relay!Step
  <2>8. CASE IntoApp(c, c')
    <3>1. ForSocks(c') = ForSocks(c)
      BY <2>8 DEF IntoApp, StillOpen, ForSocks
    <3>2. app' <=> (socks \/ ForApp(c') > 0)
      BY <1>2, <2>8 DEF IntoApp, StillOpen, app, socks
    <3>a. toApp > 0 /\ toApp' \in 0 .. toApp - 1
      BY <1>2, <2>8, Mapping DEF IntoApp
    <3>3. Relay!AppTakes
      BY <2>8, <3>1, <3>2, <3>a, Mapping DEF IntoApp, StillOpen, app, socks, Relay!AppTakes
    <3> QED BY <3>3 DEF Relay!Step
  <2>9. CASE AppEnds(c, c')
    <3>1. ForSocks(c') = ForSocks(c) /\ ForApp(c') = 0
      BY <1>2, <2>9 DEF AppEnds, AppGone, ForSocks, ForApp
    <3>2. socks' <=> (socks /\ ForSocks(c) > 0)
      BY <1>2, <2>9 DEF AppEnds, AppGone, ForSocks, socks
    <3>3. Relay!AppCloses
      BY <2>9, <3>1, <3>2, Mapping DEF AppEnds, AppGone, app, socks, Relay!AppCloses
    <3> QED BY <3>3 DEF Relay!Step
  <2>10. CASE SocksEnds(c, c')
    <3>1. ForSocks(c') = 0 /\ ForApp(c') = IF app' THEN ForApp(c) ELSE 0
      BY <1>2, <1>3, <2>10 DEF SocksEnds, ForSocks, ForApp
    <3>2. app' <=> (app /\ ForApp(c) > 0)
      BY <1>2, <2>10 DEF SocksEnds, app
    <3>3. Relay!SocksCloses
      BY <2>10, <3>1, <3>2, Mapping DEF SocksEnds, app, socks, Relay!SocksCloses
    <3> QED BY <3>3 DEF Relay!Step
  <2> QED
    BY <1>6, <2>2, <2>3, <2>4, <2>5, <2>6, <2>7, <2>8, <2>9, <2>10 DEF Visible
<1>7. ASSUME Terminate, c'.client_closed, c'.socks_closed, quitting' = TRUE
      PROVE  Relay!Kill
  BY <1>3, <1>7, Mapping DEF Terminate, Idle, ForSocks, ForApp, Relay!Kill
<1>8. Relay!Step /\ quitting' = quitting /\ ~quitting => Relay!Next
  BY <1>1 DEF Relay!Next, running
<1> QED
  BY <1>1, <1>5, <1>6, <1>7, <1>8, StepSeen DEF Relay!Next

(* And every step is one of the user of a BSocksClient.                              *)
LEMMA SessionStep ==
  ASSUME IInv, IInv', [Next]_vars PROVE [Session!Next]_session
<1>1. /\ c.socks_up \in BOOLEAN /\ c.socks_closed \in BOOLEAN
      /\ c'.socks_up \in BOOLEAN /\ c'.socks_closed \in BOOLEAN
  BY DEF IInv, TypeOK, Client
<1>2. /\ session = IF c.socks_closed THEN "none" ELSE IF c.socks_up THEN "up" ELSE "connecting"
      /\ session' = IF c'.socks_closed THEN "none"
                    ELSE IF c'.socks_up THEN "up" ELSE "connecting"
  BY DEF session
<1>3. \/ c'.socks_closed
      \/ c'.socks_closed = c.socks_closed /\ c'.socks_up = c.socks_up
      \/ Opens(c, c') \/ ComesUp(c, c')
  BY <1>1, StepSeen DEF Visible, Unseen, FromApp, FromSocks, IntoSocks, IntoApp, AppEnds,
     AppGone, StillOpen, SocksEnds
<1> QED
  BY <1>1, <1>2, <1>3 DEF Opens, ComesUp, Session!Next, Session!Open, Session!Up, Session!Close

(* The relay implements both its contracts, step by step, for every window and buffer *)
(* size: it is a pipe of bounded capacity in each direction that lasts as long as a    *)
(* side has bytes to be given, and it uses BSocksClient as its header asks.            *)
THEOREM ImplementsContracts == Spec => Contracts
<1>1. Init => Relay!Init /\ Session!Init /\ Ended
  BY DEF Init, Relay!Init, Session!Init, Ended, app, socks, running, toSocks, toApp, session
<1>2. Spec => []Ended
  BY <1>1, EndedStep, Invariance, PTL DEF Spec
<1>3. IInv /\ IInv' /\ Ended /\ [Next]_vars => [Relay!Next]_Relay!relay /\ [Session!Next]_session
  BY RelayStep, SessionStep
<1> QED
  BY <1>1, <1>2, <1>3, Invariance, PTL
  DEF Spec, Contracts, RelaySpec, SessionSpec, Relay!Spec, Session!Spec

-----------------------------------------------------------------------------
(* The DNS gateway, for every set of ports and servers and every number of queries.   *)

LEMMA OutstandingFinite ==
  ASSUME GatewayTypeOK, NEW p \in Ports
  PROVE  IsFiniteSet(Outstanding(p)) /\ Cardinality(Outstanding(p)) \in Nat
<1>1. Outstanding(p) \subseteq atGw
  BY DEF Outstanding
<1>2. IsFiniteSet(Outstanding(p))
  BY <1>1, FS_Subset DEF GatewayTypeOK
<1>3. QED BY <1>2, FS_CardinalityType

LEMMA GatewayInitInv == GatewayInit => GatewayIInv
<1> SUFFICES ASSUME GatewayInit PROVE GatewayIInv
  OBVIOUS
<1>1. GatewayTypeOK
  <2>1. IsFiniteSet(atGw)
    BY FS_EmptySet DEF GatewayInit
  <2>2. tree \in [Ports -> Entry]
    <3>1. \A e \in [remote_addr : Servers, count : {0}] : e \in Entry
      BY DEF Entry
    <3>2. QED BY <3>1 DEF GatewayInit
  <2>3. QED BY <2>1, <2>2 DEF GatewayInit, GatewayTypeOK
<1>2. ASSUME NEW p \in Ports PROVE Outstanding(p) = {} /\ tree[p].count = 0
  BY DEF GatewayInit, Outstanding
<1>3. CountCovers
  <2>1. Cardinality({}) = 0
    BY FS_EmptySet
  <2>2. \A p \in Ports : lost[p] = 0
    BY DEF GatewayInit
  <2>3. QED BY <1>2, <2>1, <2>2 DEF CountCovers
<1>4. QED BY <1>1, <1>2, <1>3 DEF GatewayIInv, NoStrayAnswer, AskedAgrees, GatewayInit

(* A query leaves pdnsd.                                                     *)
LEMMA QueryLeaves ==
  ASSUME GatewayTypeOK, NEW q \in atGw, atGw' = atGw \ {q}
  PROVE  /\ IsFiniteSet(atGw') /\ atGw' \subseteq Query /\ q.port \in Ports
         /\ Cardinality(Outstanding(q.port)') = Cardinality(Outstanding(q.port)) - 1
         /\ Cardinality(Outstanding(q.port)) > 0
         /\ \A p \in Ports : p # q.port => Outstanding(p)' = Outstanding(p)
         /\ \A p \in Ports : Outstanding(p)' \subseteq Outstanding(p)
<1>1. q.port \in Ports
  BY DEF GatewayTypeOK, Query
<1>2. IsFiniteSet(Outstanding(q.port))
  BY <1>1, OutstandingFinite
<1>3. Outstanding(q.port)' = Outstanding(q.port) \ {q} /\ q \in Outstanding(q.port)
  BY DEF Outstanding
<1>4. /\ Cardinality(Outstanding(q.port)') = Cardinality(Outstanding(q.port)) - 1
      /\ Cardinality(Outstanding(q.port)) > 0
  <2>1. Cardinality(Outstanding(q.port) \ {q}) = Cardinality(Outstanding(q.port)) - 1
    BY <1>2, <1>3, FS_RemoveElement
  <2>2. Cardinality(Outstanding(q.port)) # 0
    BY <1>2, <1>3, FS_EmptySet
  <2>3. QED BY <1>1, <1>3, <2>1, <2>2, OutstandingFinite
<1>5. IsFiniteSet(atGw') /\ atGw' \subseteq Query
  BY FS_RemoveElement DEF GatewayTypeOK
<1>6. QED BY <1>1, <1>4, <1>5 DEF Outstanding

LEMMA GatewayNextInv == GatewayIInv /\ [GatewayNext]_gatewayVars => GatewayIInv'
<1> SUFFICES ASSUME GatewayIInv, [GatewayNext]_gatewayVars PROVE GatewayIInv'
  OBVIOUS
<1>0. GatewayTypeOK /\ CountCovers /\ NoStrayAnswer /\ AskedAgrees
  BY DEF GatewayIInv
<1>1. ASSUME NEW q \in Query, ToDns(q) PROVE GatewayIInv'
  <2> DEFINE p == q.port
  <2>0. p \in Ports /\ q.server \in Servers
    BY DEF Query
  <2>a. /\ ~treeFreed /\ treeFreed' = treeFreed /\ q \notin atGw /\ atGw' = atGw \cup {q}
        /\ lost' = lost /\ stray' = stray
        /\ insert_connection(p, q.server)
        /\ asked' = [asked EXCEPT ![p] = IF Outstanding(p) = {} /\ lost[p] = 0
                                         THEN {q.server} ELSE asked[p] \cup {q.server}]
    BY <1>1 DEF ToDns
  <2>b. tree' = [tree EXCEPT ![p] = IF tree[p].count > 0
                                    THEN [remote_addr |-> tree[p].remote_addr, count |-> tree[p].count + 1]
                                    ELSE [remote_addr |-> q.server, count |-> 1]]
    BY <2>a DEF insert_connection, find_connection
  <2>2. tree[p] \in Entry /\ tree[p].count \in Nat
    BY <1>0, <2>0 DEF GatewayTypeOK, Entry
  <2>3. /\ tree'[p] \in Entry
        /\ tree'[p].count = tree[p].count + 1
        /\ tree[p].count > 0 => tree'[p].remote_addr = tree[p].remote_addr
        /\ tree[p].count = 0 => tree'[p].remote_addr = q.server
        /\ tree' \in [Ports -> Entry]
        /\ \A r \in Ports : r # p => tree'[r] = tree[r]
    <3> DEFINE e == IF tree[p].count > 0 THEN [remote_addr |-> tree[p].remote_addr, count |-> tree[p].count + 1]
                    ELSE [remote_addr |-> q.server, count |-> 1]
    <3>1. /\ e \in Entry /\ e.count = tree[p].count + 1
          /\ tree[p].count > 0 => e.remote_addr = tree[p].remote_addr
          /\ tree[p].count = 0 => e.remote_addr = q.server
      BY <2>0, <2>2 DEF Entry
    <3>2. tree' = [tree EXCEPT ![p] = e]
      BY <2>a, <2>b
    <3> HIDE DEF e
    <3>3. QED BY <1>0, <2>0, <3>1, <3>2 DEF GatewayTypeOK
  <2>4. /\ asked' \in [Ports -> SUBSET Servers]
        /\ q.server \in asked'[p]
        /\ \A r \in Ports : r # p => asked'[r] = asked[r]
        /\ asked'[p] # {q.server} => asked[p] \subseteq asked'[p]
        /\ (Outstanding(p) # {} \/ lost[p] # 0) => asked[p] \subseteq asked'[p]
    BY <1>0, <2>0, <2>a, <2>b DEF GatewayTypeOK
  <2>5. IsFiniteSet(atGw') /\ atGw' \subseteq Query
    BY <1>0, <2>a, <2>b, FS_AddElement DEF GatewayTypeOK
  <2>6. /\ Outstanding(p)' = Outstanding(p) \cup {q} /\ q \notin Outstanding(p)
        /\ \A r \in Ports : r # p => Outstanding(r)' = Outstanding(r)
    BY <2>a, <2>b DEF Outstanding
  <2>7. Cardinality(Outstanding(p)') = Cardinality(Outstanding(p)) + 1
    BY <1>0, <2>0, <2>6, OutstandingFinite, FS_AddElement
  <2>8. GatewayTypeOK'
    BY <1>0, <2>a, <2>b, <2>3, <2>4, <2>5 DEF GatewayTypeOK
  <2>9. CountCovers'
    <3>1. ASSUME NEW r \in Ports
          PROVE  tree'[r].count = Cardinality(Outstanding(r)') + lost'[r]
      <4>1. tree[r].count = Cardinality(Outstanding(r)) + lost[r]
        BY <1>0, <2>a, <2>b DEF CountCovers
      <4>2. CASE r = p
        BY <1>0, <2>0, <2>a, <2>b, <2>3, <2>7, <4>1, <4>2, OutstandingFinite DEF GatewayTypeOK
      <4>3. CASE r # p
        BY <2>a, <2>b, <2>3, <2>6, <4>1, <4>3
      <4>4. QED BY <4>2, <4>3
    <3>2. QED BY <3>1 DEF CountCovers
  <2>10. AskedAgrees'
    <3>1. ASSUME NEW r \in Ports
          PROVE  /\ \A x \in Outstanding(r)' : x.server \in asked'[r]
                 /\ tree'[r].count > 0 => tree'[r].remote_addr \in asked'[r]
      <4>1. /\ \A x \in Outstanding(r) : x.server \in asked[r]
            /\ tree[r].count > 0 => tree[r].remote_addr \in asked[r]
        BY <1>0, <2>a, <2>b DEF AskedAgrees
      <4>2. CASE r = p
        <5>1. tree[p].count = Cardinality(Outstanding(p)) + lost[p]
          BY <1>0, <2>0, <2>a, <2>b DEF CountCovers
        <5>2. tree[p].count > 0 => Outstanding(p) # {} \/ lost[p] # 0
          BY <5>1, FS_EmptySet
        <5>3. \A x \in Outstanding(r)' : x.server \in asked'[r]
          BY <2>4, <2>6, <4>1, <4>2
        <5>4. tree'[r].remote_addr \in asked'[r]
          BY <2>2, <2>3, <2>4, <4>1, <4>2, <5>2
        <5>5. QED BY <5>3, <5>4
      <4>3. CASE r # p
        BY <2>3, <2>4, <2>6, <4>1, <4>3
      <4>4. QED BY <4>2, <4>3
    <3>2. QED BY <3>1 DEF AskedAgrees
  <2>11. QED BY <1>0, <2>a, <2>b, <2>8, <2>9, <2>10 DEF GatewayIInv, NoStrayAnswer
<1>2. ASSUME NEW q \in Query, FromDns(q) PROVE GatewayIInv'
  <2> DEFINE p == q.port
  <2>1. /\ ~treeFreed /\ treeFreed' = treeFreed /\ q \in atGw /\ atGw' = atGw \ {q}
        /\ lost' = lost /\ asked' = asked
    BY <1>2 DEF FromDns
  <2>2. /\ IsFiniteSet(atGw') /\ atGw' \subseteq Query /\ p \in Ports
        /\ Cardinality(Outstanding(p)') = Cardinality(Outstanding(p)) - 1
        /\ Cardinality(Outstanding(p)) > 0
        /\ \A r \in Ports : r # p => Outstanding(r)' = Outstanding(r)
        /\ \A r \in Ports : Outstanding(r)' \subseteq Outstanding(r)
    BY <1>0, <2>1, QueryLeaves
  <2>3. tree[p].count > 0 /\ tree[p] \in Entry /\ tree[p].count \in Nat
    BY <1>0, <2>1, <2>2, OutstandingFinite DEF CountCovers, GatewayTypeOK, Entry
  <2>4. tree' = [tree EXCEPT ![p] = [tree[p] EXCEPT !.count = tree[p].count - 1]]
        /\ stray' = stray
    BY <1>2, <2>3 DEF FromDns, find_connection, remove_connection
  <2>5. /\ tree' \in [Ports -> Entry]
        /\ tree'[p].count = tree[p].count - 1
        /\ tree'[p].remote_addr = tree[p].remote_addr
        /\ \A r \in Ports : r # p => tree'[r] = tree[r]
    <3> DEFINE e == [tree[p] EXCEPT !.count = tree[p].count - 1]
    <3>1. e \in Entry /\ e.count = tree[p].count - 1 /\ e.remote_addr = tree[p].remote_addr
      BY <2>3 DEF Entry
    <3>2. tree' = [tree EXCEPT ![p] = e]
      BY <2>4
    <3> HIDE DEF e
    <3>3. QED BY <1>0, <2>2, <3>1, <3>2 DEF GatewayTypeOK
  <2>6. GatewayTypeOK'
    BY <1>0, <2>1, <2>2, <2>4, <2>5 DEF GatewayTypeOK
  <2>7. CountCovers'
    <3>1. ASSUME NEW r \in Ports
          PROVE  tree'[r].count = Cardinality(Outstanding(r)') + lost'[r]
      <4>1. tree[r].count = Cardinality(Outstanding(r)) + lost[r]
        BY <1>0, <2>1 DEF CountCovers
      <4>2. CASE r = p
        BY <1>0, <2>1, <2>2, <2>5, <4>1, <4>2, OutstandingFinite DEF GatewayTypeOK
      <4>3. CASE r # p
        BY <2>1, <2>2, <2>5, <4>1, <4>3
      <4>4. QED BY <4>2, <4>3
    <3>2. QED BY <3>1 DEF CountCovers
  <2>8. AskedAgrees'
    <3>1. ASSUME NEW r \in Ports
          PROVE  /\ \A x \in Outstanding(r)' : x.server \in asked'[r]
                 /\ tree'[r].count > 0 => tree'[r].remote_addr \in asked'[r]
      <4>1. /\ \A x \in Outstanding(r) : x.server \in asked[r]
            /\ tree[r].count > 0 => tree[r].remote_addr \in asked[r]
        BY <1>0, <2>1 DEF AskedAgrees
      <4>2. CASE r = p
        BY <2>1, <2>2, <2>3, <2>5, <4>1, <4>2
      <4>3. CASE r # p
        BY <2>1, <2>2, <2>5, <4>1, <4>3
      <4>4. QED BY <4>2, <4>3
    <3>2. QED BY <3>1 DEF AskedAgrees
  <2>9. QED BY <1>0, <2>4, <2>6, <2>7, <2>8 DEF GatewayIInv, NoStrayAnswer
<1>3. ASSUME NEW q \in Query, Lose(q) PROVE GatewayIInv'
  <2> DEFINE p == q.port
  <2>1. /\ q \in atGw /\ atGw' = atGw \ {q} /\ tree' = tree /\ treeFreed' = treeFreed
        /\ stray' = stray /\ asked' = asked /\ lost' = [lost EXCEPT ![p] = lost[p] + 1]
    BY <1>3 DEF Lose
  <2>2. /\ IsFiniteSet(atGw') /\ atGw' \subseteq Query /\ p \in Ports
        /\ Cardinality(Outstanding(p)') = Cardinality(Outstanding(p)) - 1
        /\ Cardinality(Outstanding(p)) > 0
        /\ \A r \in Ports : r # p => Outstanding(r)' = Outstanding(r)
        /\ \A r \in Ports : Outstanding(r)' \subseteq Outstanding(r)
    BY <1>0, <2>1, QueryLeaves
  <2>3. /\ lost' \in [Ports -> Nat] /\ lost'[p] = lost[p] + 1
        /\ \A r \in Ports : r # p => lost'[r] = lost[r]
    BY <1>0, <2>1, <2>2 DEF GatewayTypeOK
  <2>4. GatewayTypeOK'
    BY <1>0, <2>1, <2>2, <2>3 DEF GatewayTypeOK
  <2>5. CountCovers'
    <3>1. ASSUME NEW r \in Ports, ~treeFreed
          PROVE  tree'[r].count = Cardinality(Outstanding(r)') + lost'[r]
      <4>1. tree[r].count = Cardinality(Outstanding(r)) + lost[r]
        BY <1>0, <3>1 DEF CountCovers
      <4>2. CASE r = p
        BY <1>0, <2>1, <2>2, <2>3, <4>1, <4>2, OutstandingFinite DEF GatewayTypeOK
      <4>3. CASE r # p
        BY <2>1, <2>2, <2>3, <4>1, <4>3
      <4>4. QED BY <4>2, <4>3
    <3>2. QED BY <2>1, <3>1 DEF CountCovers
  <2>6. AskedAgrees'
    BY <1>0, <2>1, <2>2 DEF AskedAgrees
  <2>7. QED BY <1>0, <2>1, <2>4, <2>5, <2>6 DEF GatewayIInv, NoStrayAnswer
<1>4. CASE free_connections
  <2>1. GatewayTypeOK'
    BY <1>0, <1>4 DEF free_connections, GatewayTypeOK, Entry
  <2>2. QED BY <1>0, <1>4, <2>1 DEF free_connections, GatewayIInv, CountCovers, AskedAgrees, NoStrayAnswer
<1>5. CASE UNCHANGED gatewayVars
  BY <1>0, <1>5 DEF gatewayVars, GatewayIInv, GatewayTypeOK, CountCovers, AskedAgrees, NoStrayAnswer, Outstanding
<1>6. QED BY <1>1, <1>2, <1>3, <1>4, <1>5 DEF GatewayNext, GatewayExited

(* The inductive invariant, for every set of ports and servers.              *)
THEOREM GatewayInvariance == GatewaySpec => []GatewayIInv
  BY GatewayInitInv, GatewayNextInv, PTL DEF GatewaySpec

(* The count of an entry is the number of answers to come plus the number     *)
(* that never will.                                                           *)
THEOREM GatewayCountsCovered == GatewaySpec => []CountCovers
<1>1. GatewayIInv => CountCovers
  BY DEF GatewayIInv
<1>2. QED BY <1>1, GatewayInvariance, PTL

(* No answer of pdnsd is without an entry.                                    *)
THEOREM GatewayAnswersFound == GatewaySpec => []NoStrayAnswer
<1>1. GatewayIInv => NoStrayAnswer
  BY DEF GatewayIInv
<1>2. QED BY <1>1, GatewayInvariance, PTL

(* An answer under a wrong server needs a port that asked both without a      *)
(* pause.                                                                     *)
THEOREM GatewayAnswersAttributed == GatewaySpec => AnswerAttributed
<1> DEFINE A == answered' # answered /\ answered'.from # answered'.meant =>
                  {answered'.from, answered'.meant} \subseteq asked[answered'.port]
<1>1. ASSUME GatewayIInv, [GatewayNext]_gatewayVars PROVE [A]_gatewayVars
  <2>1. CASE UNCHANGED gatewayVars
    BY <2>1
  <2>2. ASSUME NEW q \in Query, FromDns(q) PROVE A
    <3>1. CASE answered' = answered
      BY <3>1
    <3>2. CASE answered' # answered
      <4>1. /\ tree[q.port].count > 0 /\ ~treeFreed /\ q \in atGw /\ q.port \in Ports
            /\ answered' = [port |-> q.port, meant |-> q.server,
                            from |-> tree[q.port].remote_addr]
        BY <2>2, <3>2 DEF FromDns, find_connection, Query
      <4>2. q \in Outstanding(q.port)
        BY <4>1 DEF Outstanding
      <4>3. QED BY <1>1, <4>1, <4>2 DEF GatewayIInv, AskedAgrees
    <3>3. QED BY <3>1, <3>2
  <2>3. ASSUME NEW q \in Query, ToDns(q) \/ Lose(q) PROVE A
    BY <2>3 DEF ToDns, Lose
  <2>4. CASE free_connections
    BY <2>4 DEF free_connections
  <2>5. QED BY <1>1, <2>1, <2>2, <2>3, <2>4 DEF GatewayNext, GatewayExited
<1>2. QED BY <1>1, GatewayInvariance, PTL DEF GatewaySpec, AnswerAttributed
=============================================================================
