---------------------------- MODULE ParallelQuery ----------------------------
(***************************************************************************)
(* p_recursive_query of pdnsd (pdnsd/src/dns_query.c): one thread asks the    *)
(* servers of a list, global.par_queries more of them whenever those asked so *)
(* far have not answered in time, and waits for all the open queries with one *)
(* poll().  A query is a state machine, p_query_sm, that may go over from TCP  *)
(* to UDP or back, and p_exec_query looks at the reply.                       *)
(*                                                                         *)
(* The network and the memory are free to let every call fail.  A reply is     *)
(* abstracted to what the callers look at: its result code and whether it is   *)
(* marked as failed or truncated.  The lists ns and serv are given back        *)
(* together with the answer they came with.  One step is one pass through a    *)
(* loop body, or one call of p_query_sm with what is made of its result.       *)
(***************************************************************************)
EXTENDS Integers, FiniteSets, FiniteSetsExt, Sequences

CONSTANTS NumServers,       \* DA_NEL(q)
          ParQueries,       \* global.par_queries
          Settings,         \* global.query_method, and the servers' trusted and edns_query
          MaxTimeout,       \* bound: the timeout of a server
          GlobalTimeout     \* global.timeout

ASSUME ParallelQueryAssumption ==
  /\ NumServers \in Nat \ {0} /\ ParQueries \in Nat \ {0}
  /\ Settings \subseteq [ qm : {"TCP_ONLY", "UDP_ONLY", "TCP_UDP", "UDP_TCP"},
                          trusted : BOOLEAN, edns : BOOLEAN ]
  /\ MaxTimeout \in Nat \ {0} /\ GlobalTimeout \in Nat

VARIABLES pc, site, i,      \* where the function is; which loop; its index
          j, dc, mc,        \* start of the batch, end of the done queries, end of the batch
          q, open, bad,     \* the queries; open descriptors; what was closed or freed twice
          rv, qse, save, serv, ents,  \* result, its server, entsave, servers to ask; live entries
          polls, ev, ic, nev,         \* the poll array, its ready places, the scan, nevents
          left, waited, total,        \* time to the end of poll(), since ts, since ts0
          best              \* history: the best quality of an unsatisfactory answer

loop == <<pc, site, i, j, dc, mc>>
queries == <<q, open, bad>>
result == <<rv, qse, save, serv, ents>>
polling == <<polls, ev, ic, nev>>
time == <<left, waited, total>>
vars == <<loop, queries, result, polling, time, best>>

Server == 0 .. NumServers - 1
Fd == 1 .. NumServers
None == -1

Reading == {"TCPREAD", "UDPRECEIVE"}
Writing == {"TCPWRITE"}
Starting == {"TCPINITIAL", "UDPINITIAL"}

Query == [ state : {"INITIAL", "DONE", "CANCELED"} \cup Starting \cup Writing \cup Reading,
           qm : {"TCP_ONLY", "UDP_ONLY", "TCP_UDP", "UDP_TCP"},
           timeout : 1 .. MaxTimeout, sock : Fd \cup {None},
           msg : {"null", "live", "freed"},
           recvbuf : {"null", "live", "kept", "freed"},  \* "kept": allocated for an earlier reply
           part : BOOLEAN,      \* st->iolen > 0
           rd : BOOLEAN, trusted : BOOLEAN, edns : BOOLEAN ]

NoAnswer == [qual |-> None, serv |-> FALSE]
Allocated == {"live", "kept"}

(* "REFUSED" stands for the codes of a discarded reply that no caller tells apart  *)
(* (RC_FORMAT, RC_NOTSUPP, RC_REFUSED, ...); "again" is -1.                      *)
Code == {"OK", "NAMEERR", "SERVFAIL", "REFUSED", "FATALERR", "CACHED", "STALE", "again"}
Twice == {"sock", "msg", "recvbuf", "emptied"}

TypeOK ==
  /\ pc \in {"visit", "exec", "advance", "build", "poll", "assert", "done", "cancel", "finish",
             "ask", "returned"}
  /\ site \in {"init", "timeout", "events"} /\ {i, j, dc, mc} \subseteq 0 .. NumServers
  /\ q \in [Server -> Query] /\ open \subseteq Fd /\ bad \subseteq Twice
  /\ rv \in Code /\ qse \in Server \cup {None} /\ ents \in 0 .. 2
  /\ save \in [qual : {None} \cup 0 .. 15, serv : BOOLEAN] /\ serv \in BOOLEAN
  /\ polls \in Seq(Fd) /\ ev \subseteq 1 .. NumServers
  /\ ic \in 0 .. NumServers /\ nev \in 0 .. NumServers
  /\ left \in 0 .. (IF GlobalTimeout > MaxTimeout THEN GlobalTimeout ELSE MaxTimeout)
  /\ waited \in 0 .. MaxTimeout /\ total \in 0 .. GlobalTimeout
  /\ best \in {None} \cup 0 .. 15

Lesser(a, b) == IF a < b THEN a ELSE b
Greater(a, b) == IF a > b THEN a ELSE b

(* add_qserv for every server, and the start of p_recursive_query.             *)
Init ==
  /\ pc = "visit" /\ site = "init" /\ i = 0 /\ j = 0 /\ dc = 0
  /\ mc = Lesser(ParQueries, NumServers)
  /\ \E m \in Settings, t \in [Server -> 1 .. MaxTimeout] :
       q = [k \in Server |->
              [state |-> "INITIAL", qm |-> m.qm, timeout |-> t[k], sock |-> None,
               msg |-> "null", recvbuf |-> "null", part |-> FALSE,
               rd |-> FALSE, trusted |-> m.trusted, edns |-> m.edns]]
  /\ open = {} /\ bad = {}
  /\ rv = "SERVFAIL" /\ qse = None /\ save = NoAnswer /\ serv = FALSE /\ ents = 0
  /\ polls = <<>> /\ ev = {} /\ ic = 0 /\ nev = 0
  /\ left = 0 /\ waited = 0 /\ total = 0 /\ best = None

-----------------------------------------------------------------------------
(* A call in progress: the query, the descriptors, what was given back twice,   *)
(* the value returned and, with an answer, st->failed (0 at the start of every   *)
(* query) and st->tc.  Fields that nothing reads any more are reset.            *)
Call == [q |-> q[i], open |-> open, bad |-> bad, rv |-> "again", failed |-> 0, tc |-> FALSE]

Ret(c, s, v) == [c EXCEPT !.q.state = s, !.rv = v]
Over(c, v) == [Ret(c, "DONE", v) EXCEPT !.q.part = FALSE, !.q.rd = FALSE]
Blame(c, what, isTwice) == IF isTwice THEN c.bad \cup {what} ELSE c.bad
Close(c) == [c EXCEPT !.open = @ \ {c.q.sock}, !.q.sock = None,
                      !.bad = Blame(c, "sock", c.q.sock \notin c.open)]
FreeMsg(c) == [c EXCEPT !.q.msg = "freed", !.bad = Blame(c, "msg", c.q.msg = "freed")]
FreeBuf(c) == [c EXCEPT !.q.recvbuf = "freed",
                        !.bad = Blame(c, "recvbuf", c.q.recvbuf = "freed")]
Realloc(c, b) == [c EXCEPT !.q.recvbuf = b,
                           !.bad = Blame(c, "recvbuf", c.q.recvbuf = "freed")]

(* realloc_or_cleanup with size 0: realloc has freed the buffer when it returns   *)
(* NULL, and pdnsd_free frees it again.                                         *)
ReallocEmpty(c) == [c EXCEPT !.q.recvbuf = "null",
                             !.bad = @ \cup {IF c.q.recvbuf = "kept" THEN "emptied" ELSE "recvbuf"}]
Socket(c) == LET s == Min(Fd \ c.open) IN [c EXCEPT !.q.sock = s, !.open = @ \cup {s}]
NoSocket(c) == [c EXCEPT !.q.sock = None]

switch_to_udp(st) == [st EXCEPT !.qm = "UDP_ONLY", !.state = "UDPINITIAL"]
switch_to_tcp(st) == [st EXCEPT !.qm = "TCP_ONLY", !.state = "INITIAL"]

tentative_tcp_query(st) ==
  /\ st.qm = "TCP_UDP"
  /\ st.state = "TCPWRITE" \/ (st.state = "TCPREAD" /\ ~st.part)

(* The method of a query that is over is not looked at.                        *)
Settled(st) == IF st.state = "DONE" THEN [st EXCEPT !.qm = "TCP_ONLY"] ELSE st

Broken(c) == {Over(c, "SERVFAIL")}
Again(c) == {[c EXCEPT !.rv = "again"]}

(* QS_UDPINITIAL: no socket; bind, connect or send fails; the query is sent.   *)
UdpInitial(c) ==
  LET s == Socket(c)
  IN Broken(NoSocket(c)) \cup Broken(Close(s)) \cup {Ret(s, "UDPRECEIVE", "again")}

(* QS_UDPRECEIVE: no memory; recv fails; an answer with another id; the answer. *)
UdpReceive(c) ==
  LET b == Realloc(c, "live")
  IN {Over(Close(Realloc(c, "null")), "FATALERR")} \cup Broken(Close(b))
     \cup Again(b) \cup {Ret(Close(b), "DONE", "OK")}

(* The label tcp_failed.                                                      *)
TcpFailed(c) ==
  IF c.q.qm = "TCP_UDP" THEN UdpInitial([c EXCEPT !.q = switch_to_udp(@)]) ELSE Broken(c)

(* QS_TCPREAD past the two bytes of the length.  A length of 0 in a buffer that is *)
(* new reads nothing and is an answer as well, too short for Reply.              *)
TcpBody(c) == Again(c) \cup TcpFailed(Close(c)) \cup {Ret(Close(c), "DONE", "OK")}

(* The length is the server's choice, and it may be 0 for the second reply that    *)
(* is read into one buffer.  Then, unless the allocator stops the process at once, *)
(* the query goes on as after a lack of memory.                                 *)
TcpRead(c) ==
  IF c.q.part THEN TcpBody(c)
  ELSE Again(c) \cup TcpFailed(Close(c))
       \cup {Over(Close(Realloc(c, "null")), "FATALERR")}
       \cup TcpBody([Realloc(c, "live") EXCEPT !.q.part = TRUE])
       \cup (IF c.q.recvbuf \in Allocated THEN {Over(Close(ReallocEmpty(c)), "FATALERR")} ELSE {})

TcpWrite(c) ==
  LET w == [c EXCEPT !.q.state = "TCPWRITE"]
  IN Again(w) \cup Again([w EXCEPT !.q.part = TRUE])
     \cup Broken(Close(w)) \cup (IF w.q.part THEN {} ELSE TcpFailed(Close(w)))
     \cup TcpRead([w EXCEPT !.q.state = "TCPREAD", !.q.part = FALSE])

TcpInitial(c) ==
  LET s == [Socket(c) EXCEPT !.q.part = FALSE]
  IN Broken(NoSocket(c)) \cup Broken(Close(s)) \cup {Ret(s, "TCPWRITE", "again")}
     \cup TcpFailed(Close(s)) \cup TcpWrite(s)

p_query_sm(c) ==
  CASE c.q.state = "TCPINITIAL" -> TcpInitial(c)
    [] c.q.state = "TCPWRITE" -> TcpWrite(c)
    [] c.q.state = "TCPREAD" -> TcpRead(c)
    [] c.q.state = "UDPINITIAL" -> UdpInitial(c)
    [] c.q.state = "UDPRECEIVE" -> UdpReceive(c)

First(st) == IF st.qm \in {"UDP_ONLY", "UDP_TCP"} THEN "UDPINITIAL" ELSE "TCPINITIAL"

(* The records of a reply are read: it may answer another question, deny the    *)
(* name, turn out to be useless, or be an answer, marked as failed or not.       *)
Parsed(c) ==
  LET f == FreeBuf(FreeMsg(c))
  IN {Over(f, v) : v \in {"SERVFAIL", "NAMEERR", "FATALERR"}}
     \cup UNION {{[Over(f, "OK") EXCEPT !.failed = d, !.tc = t] : t \in BOOLEAN} : d \in {0, 1, 3}}

(* resetstate_tryagain: the receive buffer stays allocated.                     *)
Retry(c) == [Ret(c, First(c.q), "retry") EXCEPT !.q.recvbuf = "kept"]

(* The reply is thrown away, with the server's code if it has one; it is asked for *)
(* again, without recursion or without the EDNS record; or it is read.           *)
Reply(c) ==
  {Over(FreeBuf(FreeMsg(c)), v) : v \in {"SERVFAIL", "REFUSED"}} \cup Parsed(c)
  \cup (IF c.q.rd THEN {[Retry(c) EXCEPT !.q.rd = FALSE]} ELSE {})
  \cup (IF c.q.edns THEN {[Retry(c) EXCEPT !.q.edns = FALSE]} ELSE {})

Exec(c) ==
  UNION {CASE r.rv = "again" -> {r}
           [] r.rv = "OK" -> Reply(r)
           [] OTHER -> {Over(FreeBuf(FreeMsg(r)), r.rv)} : r \in p_query_sm(c)}

(* "retry" stands for the jump back to tryagain within p_exec_query.            *)
p_exec_query(c) ==
  IF c.q.state = "INITIAL"
  THEN {Over(c, "FATALERR")}
       \cup Exec([c EXCEPT !.q.msg = "live", !.q.recvbuf = "null", !.q.rd = c.q.trusted,
                           !.q.state = First(c.q)])
  ELSE Exec(c)

(* p_cancel_query.                                                            *)
p_cancel_query(c) ==
  CASE c.q.state \in Reading \cup Writing -> Ret(FreeMsg(FreeBuf(Close(c))), "CANCELED", c.rv)
    [] c.q.state \in Starting -> Ret(FreeMsg(FreeBuf(c)), "CANCELED", c.rv)
    [] OTHER -> c

(* What auth_ok may say of an answer.                                         *)
auth_ok(c) == IF c.failed > 1 THEN {0} ELSE {-1, 0, 1}

Quality(c, authok) == authok * 8 + (3 - c.failed) * 2 + (IF c.tc THEN 0 ELSE 1)

-----------------------------------------------------------------------------
(* Moving between the loops.                                                  *)
At(p, s, k) == pc' = p /\ site' = s /\ i' = k
NoPoll == polls' = <<>> /\ ev' = {} /\ ic' = 0 /\ nev' = 0

(* The next round of for (j=0; j<nq; j += parqueries), or the end of the loop.  *)
NextBatch(d) ==
  /\ dc' = d /\ left' = 0 /\ waited' = 0 /\ NoPoll
  /\ IF j + ParQueries < NumServers
     THEN /\ j' = j + ParQueries /\ mc' = Lesser(j + 2 * ParQueries, NumServers)
          /\ At("visit", "init", d)
     ELSE At("cancel", "init", 0) /\ UNCHANGED <<j, mc>>
  /\ UNCHANGED total

(* do { ... } while (dc<mc).                                                  *)
NextRound(d) ==
  IF d < mc THEN /\ At("build", "init", d) /\ dc' = d /\ NoPoll /\ left' = 0
                 /\ waited' = (IF site = "init" THEN 0 ELSE waited)      \* ts=time(NULL)
                 /\ UNCHANGED <<j, mc, total>>
  ELSE NextBatch(d)

(* The first loop: start the queries of this batch.                            *)
VisitInit ==
  /\ pc = "visit" /\ site = "init"
  /\ At(IF i >= j THEN "exec" ELSE "advance", "init", i)
  /\ UNCHANGED <<j, dc, mc, queries, result, polling, time, best>>

Active(k) == q[k].state # "DONE"

(* Mutant: only the queries of this batch are polled.                          *)
Mut_Build_batch ==
  /\ pc = "build" /\ i < mc /\ At("build", "init", i + 1)
  /\ IF Active(i) /\ i >= j
     THEN /\ polls' = Append(polls, q[i].sock)
          /\ left' = Greater(left, q[i].timeout)
     ELSE UNCHANGED <<polls, left>>
  /\ UNCHANGED <<j, dc, mc, queries, result, ev, ic, nev, waited, total, best>>

(* The loop that builds the poll array; left is the maxto of the code.          *)
Build ==
  /\ pc = "build" /\ i < mc /\ At("build", "init", i + 1)
  /\ IF Active(i)
     THEN /\ polls' = Append(polls, q[i].sock)
          /\ left' = IF i >= j THEN Greater(left, q[i].timeout) ELSE left
     ELSE UNCHANGED <<polls, left>>
  /\ UNCHANGED <<j, dc, mc, queries, result, ev, ic, nev, waited, total, best>>

(* "Don't use the global timeout if there are TCP queries we might want to       *)
(* retry using UDP."                                                          *)
UseGlobal == mc = NumServers /\ \A k \in j .. mc - 1 : ~tentative_tcp_query(q[k])

(* Mutant: the global timeout is not looked at.                                *)
Mut_CallPoll_no_global ==
  /\ pc = "build" /\ i = mc /\ rv' = "SERVFAIL"
  /\ IF polls = <<>> THEN NextBatch(mc)
     ELSE /\ left' = Greater(left - waited, 0) /\ At("poll", "init", 0)
          /\ UNCHANGED <<j, dc, mc, polling, waited, total>>
  /\ UNCHANGED <<queries, qse, save, serv, ents, best>>

(* poll() is called, unless all the queries are over.  rv was set before the     *)
(* array was built.                                                           *)
CallPoll ==
  /\ pc = "build" /\ i = mc /\ rv' = "SERVFAIL"
  /\ LET maxto == left - waited
         wait == IF UseGlobal THEN Greater(GlobalTimeout - total, maxto) ELSE maxto
     IN IF polls = <<>> THEN NextBatch(mc)
        ELSE /\ left' = Greater(wait, 0) /\ At("poll", "init", 0)
             /\ UNCHANGED <<j, dc, mc, polling, waited, total>>
  /\ UNCHANGED <<queries, qse, save, serv, ents, best>>

(* The clock.  waited and total stop where no comparison tells them apart.       *)
Pass == waited' = Lesser(waited + 1, MaxTimeout) /\ total' = Lesser(total + 1, GlobalTimeout)

Tick ==
  /\ pc = "poll" /\ left > 0 /\ left' = left - 1 /\ Pass
  /\ UNCHANGED <<loop, queries, result, polling, best>>

(* poll() comes back late, or auth_ok has asked other servers meanwhile.         *)
Late ==
  /\ (pc = "poll" /\ left = 0) \/ (pc = "advance" /\ rv = "OK")
  /\ Pass /\ <<waited, total>>' # <<waited, total>>
  /\ UNCHANGED <<loop, queries, result, polling, left, best>>

PollEvents ==
  /\ pc = "poll"
  /\ \E e \in SUBSET (1 .. Len(polls)) \ {{}} : ev' = e /\ nev' = Cardinality(e)
  /\ left' = 0 /\ At("visit", "events", dc)
  /\ UNCHANGED <<j, dc, mc, queries, result, polls, ic, waited, total, best>>

PollFails ==
  /\ pc = "poll" /\ At("done", "events", 0) /\ NoPoll /\ left' = 0
  /\ UNCHANGED <<j, dc, mc, queries, result, waited, total, best>>

PollTimeout ==
  /\ pc = "poll" /\ left = 0 /\ At("visit", "timeout", j) /\ NoPoll
  /\ UNCHANGED <<j, dc, mc, queries, result, time, best>>

(* Mutant: the TCP socket is not closed.                                       *)
Mut_VisitTimeout_no_close ==
  /\ pc = "visit" /\ site = "timeout"
  /\ IF tentative_tcp_query(q[i])
     THEN /\ q' = [q EXCEPT ![i] = switch_to_udp(@)] /\ UNCHANGED <<open, bad>>
          /\ nev' = nev + 1 /\ At("exec", site, i)
     ELSE At("advance", site, i) /\ UNCHANGED <<queries, nev>>
  /\ UNCHANGED <<j, dc, mc, result, polls, ev, ic, time, best>>

(* The loop after a timeout: a TCP query that has had no answer at all goes over *)
(* to UDP.                                                                    *)
VisitTimeout ==
  /\ pc = "visit" /\ site = "timeout"
  /\ IF tentative_tcp_query(q[i])
     THEN LET c == Close(Call)
          IN /\ q' = [q EXCEPT ![i] = switch_to_udp(c.q)] /\ open' = c.open /\ bad' = c.bad
             /\ nev' = nev + 1 /\ At("exec", site, i)
     ELSE At("advance", site, i) /\ UNCHANGED <<queries, nev>>
  /\ UNCHANGED <<j, dc, mc, result, polls, ev, ic, time, best>>

(* The loop over the events: find the query in the poll array, from where the    *)
(* last one was found.                                                        *)
VisitEvent ==
  /\ pc = "visit" /\ site = "events"
  /\ LET at == {k \in ic + 1 .. Len(polls) : polls[k] = q[i].sock}
     IN CASE ~Active(i) -> At("advance", site, i) /\ UNCHANGED <<ic, nev>>
          [] Active(i) /\ at = {} -> At("assert", site, i) /\ UNCHANGED <<ic, nev>>
          [] Active(i) /\ at # {} ->
               /\ ic' = Min(at)
               /\ IF Min(at) \in ev THEN nev' = nev - 1 /\ At("exec", site, i)
                  ELSE At("advance", site, i) /\ UNCHANGED nev
  /\ UNCHANGED <<j, dc, mc, queries, result, polls, ev, time, best>>

(* "recheck, this might have changed after the last p_exec_query".               *)
DoneCount == IF q[i].state = "DONE" /\ i = dc THEN dc + 1 ELSE dc

AdvanceInit ==
  /\ pc = "advance" /\ site = "init"
  /\ IF i + 1 < mc
     THEN /\ At("visit", site, i + 1) /\ dc' = DoneCount
          /\ UNCHANGED <<j, mc, polling, time>>
     ELSE NextRound(DoneCount)
  /\ UNCHANGED <<queries, result, best>>

AdvanceTimeout ==
  /\ pc = "advance" /\ site = "timeout"
  /\ IF i + 1 < mc THEN At("visit", site, i + 1) /\ UNCHANGED <<j, dc, mc, polling, time>>
     ELSE IF mc = NumServers /\ nev > 0 /\ total < GlobalTimeout THEN NextRound(dc)
     ELSE NextBatch(dc)
  /\ UNCHANGED <<queries, result, best>>

AdvanceEvent ==
  /\ pc = "advance" /\ site = "events"
  /\ IF i + 1 < mc
     THEN /\ At("visit", site, i + 1) /\ dc' = DoneCount
          /\ UNCHANGED <<j, mc, polling, time, rv>>
     ELSE IF nev > 0
     THEN /\ At("done", site, 0) /\ dc' = DoneCount /\ rv' = "SERVFAIL" /\ NoPoll
          /\ UNCHANGED <<j, mc, time>>
     ELSE NextRound(DoneCount) /\ UNCHANGED rv
  /\ UNCHANGED <<queries, qse, save, serv, ents, best>>
-----------------------------------------------------------------------------
(* What is made of the value of p_exec_query, the same in all three loops but    *)
(* for mc: "No need to cancel queries beyond i".                              *)
Leave(v) ==
  /\ At("done", site, 0) /\ rv' = v /\ mc' = IF site = "init" THEN i ELSE mc
  /\ NoPoll /\ UNCHANGED <<j, dc>>

Stay(p, v) ==
  /\ At(p, site, i) /\ rv' = v /\ UNCHANGED <<j, dc, mc, polling>>

(* Mutant: the last answer is kept, not the best one.                          *)
Mut_save_last(qual, srv) ==
  /\ save' = [qual |-> qual, serv |-> srv] /\ qse' = i
  /\ ents' = IF save.qual = None THEN ents + 1 ELSE ents

(* save_query_result: the better of two unsatisfactory answers is kept.          *)
save_query_result(qual, srv) ==
  IF save.qual = None \/ qual > save.qual
  THEN /\ save' = [qual |-> qual, serv |-> srv] /\ qse' = i
       /\ ents' = IF save.qual = None THEN ents + 1 ELSE ents
  ELSE UNCHANGED <<save, qse, ents>>

Answered(c) ==
  \E authok \in auth_ok(c) : \E srv \in (IF authok = 1 THEN BOOLEAN ELSE {FALSE}) :
    LET more == c.q.qm = "UDP_TCP" /\ c.tc
    IN \/ /\ authok = -1 /\ Leave("FATALERR")      \* free_ent_return_failed
          /\ q' = [q EXCEPT ![i] = Settled(c.q)] /\ UNCHANGED <<qse, save, serv, ents, best>>
       \/ /\ authok = 1 /\ c.failed = 0 /\ ~more /\ Leave("OK")
          /\ q' = [q EXCEPT ![i] = Settled(c.q)] /\ qse' = i /\ serv' = srv /\ ents' = ents + 1
          /\ UNCHANGED <<save, best>>
       \/ /\ authok = 0 \/ (authok = 1 /\ (c.failed # 0 \/ more))
          /\ save_query_result(Quality(c, authok), srv)
          /\ best' = Greater(best, Quality(c, authok))
          /\ q' = [q EXCEPT ![i] = IF more THEN switch_to_tcp(c.q) ELSE Settled(c.q)]
          /\ Stay(IF more THEN "exec" ELSE "advance", "OK") /\ UNCHANGED serv

ExecQuery ==
  /\ pc = "exec"
  /\ \E c \in p_exec_query(Call) :
       /\ open' = c.open /\ bad' = c.bad
       /\ \/ c.rv = "OK" /\ Answered(c)
          \/ /\ c.rv # "OK" /\ q' = [q EXCEPT ![i] = Settled(c.q)]
             /\ CASE c.rv = "retry" -> Stay("exec", rv)
                  [] c.rv \in {"again", "SERVFAIL", "REFUSED"} -> Stay("advance", c.rv)
                  [] c.rv \in {"NAMEERR", "FATALERR"} -> Leave(c.rv)
             /\ UNCHANGED <<qse, save, serv, ents, best>>
  /\ UNCHANGED time

(* The label done: the saved answer is not needed.                             *)
Done ==
  /\ pc = "done" /\ At("cancel", "init", 0)
  /\ save' = NoAnswer /\ ents' = IF save = NoAnswer THEN ents ELSE ents - 1
  /\ UNCHANGED <<j, dc, mc, queries, rv, qse, serv, polling, time, best>>

Cancel ==
  /\ pc = "cancel" /\ At("finish", "init", 0)
  /\ LET c == [k \in dc .. mc - 1 |->
                 p_cancel_query([Call EXCEPT !.q = q[k]])]
         closed(k) == open \ c[k].open
     IN /\ q' = [k \in Server |-> IF k \in DOMAIN c THEN c[k].q ELSE q[k]]
        /\ open' = open \ UNION {closed(k) : k \in DOMAIN c}
        /\ bad' = (bad \cup UNION {c[k].bad : k \in DOMAIN c})
                   \cup {t \in {"sock"} :
                          \E k, n \in DOMAIN c : k # n /\ closed(k) \cap closed(n) # {}}
  /\ UNCHANGED <<j, dc, mc, result, polling, time, best>>

(* The saved answer is better than none; a fatal error becomes a failure.        *)
Finish ==
  /\ pc = "finish"
  /\ LET saved == save # NoAnswer
         ask == IF saved THEN save.serv ELSE rv = "OK" /\ serv
     IN /\ rv' = IF saved THEN "OK" ELSE IF rv = "FATALERR" THEN "SERVFAIL" ELSE rv
        /\ At(IF ask THEN "ask" ELSE "returned", "init", 0)
  /\ UNCHANGED <<j, dc, mc, queries, qse, save, serv, ents, polling, time, best>>

(* The authoritative servers are asked (p_dns_cached_resolve, for the same name  *)
(* and one hop less); keep: the first answer claimed aa or ra.  The codes are those *)
(* of this function itself, and -1 takes the nested call a global timeout.        *)
AskAuthority ==
  /\ pc = "ask" /\ At("returned", "init", 0)
  /\ \E r \in Code \ {"FATALERR"}, keep \in BOOLEAN :
       LET fallback == keep /\ r \notin {"OK", "CACHED", "NAMEERR"}
       IN /\ rv' = IF fallback THEN "OK" ELSE r
          /\ ents' = ents - (IF fallback THEN 0 ELSE 1)
                          + (IF r \in {"OK", "CACHED", "STALE"} /\ ~fallback THEN 1 ELSE 0)
          /\ total' = IF r = "again" THEN GlobalTimeout ELSE total
  /\ UNCHANGED <<j, dc, mc, queries, qse, save, serv, polling, left, waited, best>>

Returned == pc = "returned" /\ UNCHANGED vars

Step ==
  \/ VisitInit \/ VisitTimeout \/ VisitEvent \/ AdvanceInit \/ AdvanceTimeout \/ AdvanceEvent
  \/ Build \/ CallPoll \/ ExecQuery \/ Done \/ Cancel \/ Finish \/ AskAuthority

Next == Step \/ Tick \/ Late \/ PollEvents \/ PollFails \/ PollTimeout \/ Returned

Spec == Init /\ [][Next]_vars

-----------------------------------------------------------------------------
(* A query that waits for its socket has an open one of its own and its message; *)
(* one that is over has given back its socket and both its buffers.  Whichever way *)
(* TCP, UDP and the retries follow each other (p_query_sm, p_exec_query,          *)
(* p_cancel_query), one thing only is ever given back twice: the receive buffer of  *)
(* a query that was asked again, when the new reply has length 0                 *)
(* (realloc_or_cleanup).                                                       *)
ResourcesOwned ==
  LET waiting == {k \in Server : q[k].state \in Reading \cup Writing}
  IN /\ bad \subseteq {"emptied"}
     /\ open = {q[k].sock : k \in waiting} /\ Cardinality(open) = Cardinality(waiting)
     /\ \A k \in waiting : q[k].msg = "live"
     /\ \A k \in Server : q[k].state \in {"INITIAL", "DONE", "CANCELED"} =>
                            q[k].msg # "live" /\ q[k].recvbuf \notin Allocated

(* While the events of a poll() are handled, those still counted in nevents are   *)
(* the ready places of the array not yet passed: the assertion "file descriptor   *)
(* not found in poll() array" holds, and no event is left over at the end of the   *)
(* loop, although queries close and open sockets on the way.                     *)
EventsMatched ==
  /\ pc # "assert"
  /\ site = "events" /\ pc \in {"visit", "exec", "advance"} =>
       /\ nev = Cardinality({k \in ev : k > ic})
       /\ pc = "advance" /\ i + 1 = mc => nev = 0

(* When p_recursive_query returns, no socket is open, no message or receive       *)
(* buffer is allocated, and the one entry alive is the one given to the caller.    *)
NothingLeft ==
  pc = "returned" =>
    /\ open = {} /\ \A k \in Server : q[k].msg # "live" /\ q[k].recvbuf \notin Allocated
    /\ ents = IF rv \in {"OK", "CACHED", "STALE"} THEN 1 ELSE 0

(* The codes the comment on the callers does not list ("RC_OK ... RC_CACHED or      *)
(* RC_STALE ... RC_NAMEERR or RC_SERVFAIL").  -1, a query that is not finished, is    *)
(* returned only when the global timeout is over.  A server's own failure code is    *)
(* returned only when every server was asked and none gave any answer, unless it is   *)
(* what the authoritative servers asked last gave.                                *)
ReturnsCode ==
  LET askedLast == IF save # NoAnswer THEN save.serv ELSE serv
  IN pc = "returned" =>
       /\ rv = "again" => total = GlobalTimeout
       /\ rv = "REFUSED" /\ ~askedLast =>
            best = None /\ \A k \in Server : q[k].state # "INITIAL"

(* The resources of p_recursive_query are accounted for at every step and at its    *)
(* end, and so is a result that its callers do not expect.                         *)
Accounted == TypeOK /\ ResourcesOwned /\ NothingLeft /\ ReturnsCode

(* The answer that is used for want of a satisfactory one is the best of all that  *)
(* came, and a result is never used without a server it came from (qse).          *)
BestKept ==
  /\ save # NoAnswer => save.qual = best
  /\ pc = "finish" /\ (save # NoAnswer \/ rv = "OK") => qse # None /\ ents = 1

(* The loop over the servers gives up only when all have been asked, and, as long  *)
(* as one of them may still answer, not before the global timeout and the timeout   *)
(* of every such server of the last batch are over; an answer that came is not lost. *)
GivesUpLast ==
  [][ pc' = "cancel" /\ pc \in {"advance", "build"} =>
        /\ \A k \in Server : q[k].state # "INITIAL"
        /\ best # None => save # NoAnswer
        /\ (\E k \in Server : Active(k)) =>
             /\ total = GlobalTimeout
             /\ \A k \in j .. mc - 1 : (Active(k) => waited >= q[k].timeout)
    ]_vars

=============================================================================
