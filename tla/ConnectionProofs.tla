-------------------------- MODULE ConnectionProofs --------------------------
(***************************************************************************)
(* Proofs about Connection: its inductive invariant, from it that no        *)
(* handler is surprised, no operation forgotten and no byte miscounted, and *)
(* that a connection implements Stream.                                     *)
(***************************************************************************)
EXTENDS Connection, TLAPS

(* The job j is pending in the connection t; no job is pending twice.         *)
Has(t, j) == \E i \in DOMAIN t.jobs : t.jobs[i] = j
Distinct(t) == \A i, k \in DOMAIN t.jobs : t.jobs[i] = t.jobs[k] => i = k

(* The jobs pending are those the interfaces wait for.                        *)
JobsAgree(t) ==
  /\ Distinct(t)
  /\ \A d \in Dir : /\ Has(t, OpJob[d]) <=> t.if[d] = "op"
                    /\ Has(t, DoneJob[d]) <=> t.if[d] = "done"
  /\ Has(t, "recv_job") => t.if["recv"] = "busy"
  /\ Has(t, "connector") => t.phase = "connecting"

(* The events waited for are those of operations under way.                   *)
WaitsAgree(t) ==
  t.phase = "up" /\ ~t.hupd =>
    /\ \A d \in Dir : WaitEvent[d] \in t.wait => t.if[d] = "busy"
    /\ Has(t, "recv_job") => "read" \notin t.wait

(* Something will take up the operation under way in direction d.             *)
Wake(t, d) ==
  t.if[d] = "busy" =>
    \/ ~t.hupd /\ WaitEvent[d] \in t.wait
    \/ d = "recv" /\ Has(t, "recv_job")

(* An operation is as long as was asked for, and done in part or in whole.    *)
Lengths(t) ==
  \A d \in Dir :
    /\ t.count[d] <= Limit[d]
    /\ t.if[d] # "none" => t.len[d] \in 1 .. MaxLen
    /\ t.if[d] = "done" => t.done[d] \in 1 .. t.len[d]

Phases(t) ==
  /\ t.phase # "up" => \A d \in Dir : t.if[d] = "none"
  /\ t.phase = "connecting" => ~t.hupd /\ \A d \in Dir : t.total[d] = 0

(* An epoll result still stands when it is dispatched.                        *)
Results(t, n) ==
  /\ n.rst => n.err
  /\ t.hupd => t.ev = {}
  /\ "hup" \in t.ev => n.rst
  /\ "error" \in t.ev => n.err
  /\ "error" \in t.ev /\ "hup" \notin t.ev => ~n.rst /\ \A d \in Dir : t.count[d] = 0
  /\ t.phase = "over" => t.ev = {}

Bytes(t, n) ==
  t.phase # "over" =>
    /\ n.out = t.total["send"] + (IF t.if["send"] = "done" THEN t.done["send"] ELSE 0)
    /\ n.sent = t.total["recv"] + (IF t.if["recv"] = "done" THEN t.done["recv"] ELSE 0) + n.in

(* All but that the operations under way will be taken up.                    *)
Core(t, n) ==
  /\ t \in Conn /\ n \in Net
  /\ JobsAgree(t) /\ WaitsAgree(t) /\ Lengths(t) /\ Phases(t)
  /\ Results(t, n) /\ Bytes(t, n)

Good(t, n) == Core(t, n) /\ \A d \in Dir : Wake(t, d)

IInv == Good(c, net)

-----------------------------------------------------------------------------
(* The job list.                                                            *)

LEMMA SetJob ==
  ASSUME NEW t, NEW u, NEW j \in Job, t.jobs \in Seq(Job), u.jobs = <<j>> \o t.jobs
  PROVE  /\ u.jobs \in Seq(Job)
         /\ \A k : Has(u, k) <=> (k = j \/ Has(t, k))
         /\ Distinct(t) /\ ~Has(t, j) => Distinct(u)
<1> DEFINE m == Len(t.jobs)
<1>1. u.jobs \in Seq(Job) /\ Len(u.jobs) = m + 1 /\ m \in Nat
  OBVIOUS
<1>2. u.jobs[1] = j /\ \A i \in 1 .. m : u.jobs[i + 1] = t.jobs[i]
  OBVIOUS
<1>3. DOMAIN u.jobs = 1 .. m + 1 /\ DOMAIN t.jobs = 1 .. m
  BY <1>1
<1>4. \A i \in 2 .. m + 1 : i - 1 \in 1 .. m /\ u.jobs[i] = t.jobs[i - 1]
  BY <1>1, <1>2
<1>5. \A k : Has(u, k) <=> (k = j \/ Has(t, k))
  <2> SUFFICES ASSUME NEW k PROVE Has(u, k) <=> (k = j \/ Has(t, k))
    OBVIOUS
  <2>1. ASSUME Has(u, k) PROVE k = j \/ Has(t, k)
    <3> PICK i \in 1 .. m + 1 : u.jobs[i] = k
      BY <2>1, <1>3 DEF Has
    <3>1. i = 1 \/ i \in 2 .. m + 1
      BY <1>1
    <3> QED BY <3>1, <1>2, <1>3, <1>4 DEF Has
  <2>2. ASSUME Has(t, k) PROVE Has(u, k)
    <3> PICK i \in 1 .. m : t.jobs[i] = k
      BY <2>2, <1>3 DEF Has
    <3>1. i + 1 \in 1 .. m + 1
      BY <1>1
    <3> QED BY <3>1, <1>2, <1>3 DEF Has
  <2>3. Has(u, j)
    <3>1. 1 \in 1 .. m + 1
      BY <1>1
    <3> QED BY <3>1, <1>2, <1>3 DEF Has
  <2> QED BY <2>1, <2>2, <2>3
<1>6. ASSUME Distinct(t), ~Has(t, j) PROVE Distinct(u)
  <2> SUFFICES ASSUME NEW i \in 1 .. m + 1, NEW k \in 1 .. m + 1, u.jobs[i] = u.jobs[k]
               PROVE  i = k
    BY <1>3 DEF Distinct
  <2>1. \A h \in 1 .. m : t.jobs[h] # j
    BY <1>6, <1>3 DEF Has
  <2>2. CASE i = 1 /\ k = 1
    BY <2>2
  <2>3. CASE i = 1 /\ k # 1
    BY <2>3, <2>1, <1>1, <1>2, <1>4
  <2>4. CASE i # 1 /\ k = 1
    BY <2>4, <2>1, <1>1, <1>2, <1>4
  <2>5. CASE i # 1 /\ k # 1
    <3>1. i - 1 \in 1 .. m /\ k - 1 \in 1 .. m /\ t.jobs[i - 1] = t.jobs[k - 1]
      BY <2>5, <1>1, <1>4
    <3>2. i - 1 = k - 1
      BY <3>1, <1>6, <1>3 DEF Distinct
    <3> QED BY <3>2
  <2> QED BY <2>2, <2>3, <2>4, <2>5
<1> QED BY <1>1, <1>5, <1>6

LEMMA PopJob ==
  ASSUME NEW t, NEW u, t.jobs \in Seq(Job), t.jobs # <<>>, Distinct(t), u.jobs = Tail(t.jobs)
  PROVE  /\ u.jobs \in Seq(Job)
         /\ Head(t.jobs) \in Job /\ Has(t, Head(t.jobs))
         /\ \A k : Has(u, k) <=> (Has(t, k) /\ k # Head(t.jobs))
         /\ Distinct(u)
<1> DEFINE m == Len(t.jobs)
<1>1. m \in Nat /\ m >= 1 /\ u.jobs \in Seq(Job) /\ Len(u.jobs) = m - 1
  OBVIOUS
<1>2. Head(t.jobs) = t.jobs[1] /\ \A i \in 1 .. m - 1 : u.jobs[i] = t.jobs[i + 1]
  OBVIOUS
<1>3. DOMAIN u.jobs = 1 .. m - 1 /\ DOMAIN t.jobs = 1 .. m
  BY <1>1
<1>4. 1 \in 1 .. m /\ t.jobs[1] \in Job
  BY <1>1
<1>5. \A k : Has(u, k) <=> (Has(t, k) /\ k # Head(t.jobs))
  <2> SUFFICES ASSUME NEW k PROVE Has(u, k) <=> (Has(t, k) /\ k # Head(t.jobs))
    OBVIOUS
  <2>1. ASSUME Has(u, k) PROVE Has(t, k) /\ k # Head(t.jobs)
    <3> PICK i \in 1 .. m - 1 : u.jobs[i] = k
      BY <2>1, <1>3 DEF Has
    <3>1. i + 1 \in 1 .. m /\ i + 1 # 1 /\ t.jobs[i + 1] = k
      BY <1>1, <1>2
    <3> QED BY <3>1, <1>2, <1>3, <1>4 DEF Has, Distinct
  <2>2. ASSUME Has(t, k), k # Head(t.jobs) PROVE Has(u, k)
    <3> PICK i \in 1 .. m : t.jobs[i] = k
      BY <2>2, <1>3 DEF Has
    <3>1. i - 1 \in 1 .. m - 1 /\ (i - 1) + 1 = i
      BY <2>2, <1>1, <1>2
    <3> QED BY <3>1, <1>2, <1>3 DEF Has
  <2> QED BY <2>1, <2>2
<1>6. Distinct(u)
  <2> SUFFICES ASSUME NEW i \in 1 .. m - 1, NEW k \in 1 .. m - 1, u.jobs[i] = u.jobs[k]
               PROVE  i = k
    BY <1>3 DEF Distinct
  <2>1. i + 1 \in 1 .. m /\ k + 1 \in 1 .. m /\ t.jobs[i + 1] = t.jobs[k + 1]
    BY <1>1, <1>2
  <2>2. i + 1 = k + 1
    BY <2>1, <1>3 DEF Distinct
  <2> QED BY <2>2
<1> QED BY <1>1, <1>2, <1>3, <1>4, <1>5, <1>6 DEF Has
-----------------------------------------------------------------------------
(* The functions.                                                           *)

(* The fields of a connection.                                               *)
LEMMA Fields ==
  ASSUME NEW t \in Conn
  PROVE  /\ t.phase \in {"connecting", "up", "over"}
         /\ t.if \in [Dir -> {"none", "op", "busy", "done"}]
         /\ t.len \in [Dir -> Nat] /\ t.done \in [Dir -> Nat] /\ t.count \in [Dir -> Nat]
         /\ t.wait \in SUBSET {"read", "write"} /\ t.hupd \in BOOLEAN
         /\ t.jobs \in Seq(Job) /\ t.ev \in SUBSET Event /\ t.total \in [Dir -> Nat]
  BY DEF Conn

(* What SetIf and BPending_Set change.                                       *)
LEMMA SetIfFields ==
  ASSUME NEW t \in Conn, NEW d \in Dir, NEW state \in {"none", "op", "busy", "done"}
  PROVE  LET u == SetIf(t, d, state)
         IN  /\ u \in Conn
             /\ u.phase = t.phase /\ u.len = t.len /\ u.done = t.done /\ u.count = t.count
             /\ u.hupd = t.hupd /\ u.jobs = t.jobs /\ u.ev = t.ev /\ u.total = t.total
             /\ u.wait = t.wait /\ u.if = [t.if EXCEPT ![d] = state]
             /\ \A e \in Dir : u.if[e] = IF e = d THEN state ELSE t.if[e]
<1> DEFINE st == [t.if EXCEPT ![d] = state]
<1>1. st \in [Dir -> {"none", "op", "busy", "done"}]
  BY Fields
<1>2. \A e \in Dir : st[e] = IF e = d THEN state ELSE t.if[e]
  BY Fields
<1>3. SetIf(t, d, state) = [t EXCEPT !.if = st]
  BY DEF SetIf
<1> HIDE DEF st
<1>4. [t EXCEPT !.if = st] \in Conn
  BY <1>1, Zenon DEF Conn
<1> QED BY <1>2, <1>3, <1>4 DEF Conn, st

LEMMA SetFields ==
  ASSUME NEW t \in Conn, NEW j \in Job
  PROVE  LET u == BPending_Set(t, j)
         IN  /\ u \in Conn
             /\ u.phase = t.phase /\ u.len = t.len /\ u.done = t.done /\ u.count = t.count
             /\ u.hupd = t.hupd /\ u.if = t.if /\ u.ev = t.ev /\ u.total = t.total
             /\ u.wait = t.wait /\ u.jobs = <<j>> \o t.jobs
<1> DEFINE js == <<j>> \o t.jobs
<1>1. js \in Seq(Job)
  BY Fields
<1>2. BPending_Set(t, j) = [t EXCEPT !.jobs = js]
  BY DEF BPending_Set
<1> HIDE DEF js
<1>3. [t EXCEPT !.jobs = js] \in Conn
  BY <1>1, Zenon DEF Conn
<1> QED BY <1>2, <1>3 DEF Conn, js

(* A connection that is over is as it must be.                               *)
LEMMA FreeGood ==
  ASSUME NEW t \in Conn, NEW n \in Net, n.rst => n.err
  PROVE  Good(Free(t), n) /\ Free(t).phase = "over" /\ Free(t).total = t.total
         /\ \A d \in Dir : Free(t).if[d] = "none"
<1> USE ConnectionAssumption
<1> DEFINE f == Free(t)
<1>1. None \in [Dir -> Nat] /\ \A d \in Dir : None[d] = 0
  BY DEF None
<1>2. <<>> \in Seq(Job) /\ {} \in SUBSET Event /\ {} \in SUBSET {"read", "write"}
  OBVIOUS
<1>3. [d \in Dir |-> "none"] \in [Dir -> {"none", "op", "busy", "done"}]
  OBVIOUS
<1>4. f \in Conn
  BY <1>1, <1>2, <1>3, Zenon DEF Free, Async_Free, Conn
<1>5. /\ f.phase = "over" /\ f.count = None /\ f.ev = {} /\ f.jobs = <<>> /\ f.wait = {}
      /\ f.total = t.total /\ f.if = [d \in Dir |-> "none"]
  BY DEF Free, Async_Free, Conn
<1>6. \A k : ~Has(f, k)
  BY <1>5 DEF Has
<1>7. Distinct(f)
  BY <1>5 DEF Distinct
<1>8. \A d \in Dir : f.if[d] = "none" /\ f.count[d] = 0
  BY <1>1, <1>5
<1>9. \A d \in Dir : 0 <= Limit[d]
  BY DEF Dir, Limit
<1> HIDE DEF f
<1>10. JobsAgree(f)
  BY <1>6, <1>7, <1>8 DEF JobsAgree
<1>11. WaitsAgree(f) /\ Lengths(f) /\ Phases(f) /\ Results(f, n) /\ Bytes(f, n)
  BY <1>5, <1>8, <1>9 DEF WaitsAgree, Lengths, Phases, Results, Bytes
<1>12. \A d \in Dir : Wake(f, d)
  BY <1>8 DEF Wake
<1>13. Good(f, n) /\ f.phase = "over" /\ f.total = t.total /\ \A d \in Dir : f.if[d] = "none"
  BY <1>4, <1>5, <1>8, <1>10, <1>11, <1>12 DEF Good, Core
<1> QED BY <1>13 DEF f

(* A transfer that cannot be made now is waited for.                          *)
LEMMA WaitForGood ==
  ASSUME NEW t, NEW n, NEW d \in Dir, Core(t, n), t.if[d] = "busy", ~t.hupd,
         \A e \in Dir : e # d => Wake(t, e),
         d = "recv" => ~Has(t, "recv_job")
  PROVE  Good(WaitFor(t, d), n)
<1> DEFINE w == WaitFor(t, d)
<1>1. t \in Conn
  BY DEF Core
<1>2. t.wait \cup {WaitEvent[d]} \in SUBSET {"read", "write"}
  BY <1>1, Fields DEF WaitEvent, Dir
<1>3. w \in Conn
  BY <1>1, <1>2, Zenon DEF WaitFor, Conn
<1>4. /\ w.phase = t.phase /\ w.if = t.if /\ w.len = t.len /\ w.done = t.done
      /\ w.count = t.count /\ w.hupd = t.hupd /\ w.jobs = t.jobs /\ w.ev = t.ev
      /\ w.total = t.total /\ w.wait = t.wait \cup {WaitEvent[d]}
  BY <1>1 DEF WaitFor, Conn
<1> HIDE DEF w
<1>5. \A k : Has(w, k) <=> Has(t, k)
  BY <1>4 DEF Has
<1>6. JobsAgree(w)
  BY <1>4, <1>5 DEF Core, JobsAgree, Distinct
<1>7. \A e \in Dir : WaitEvent[e] = WaitEvent[d] => e = d
  BY DEF WaitEvent, Dir
<1>8. WaitsAgree(w)
  <2> SUFFICES ASSUME w.phase = "up", ~w.hupd
               PROVE  /\ \A e \in Dir : WaitEvent[e] \in w.wait => w.if[e] = "busy"
                      /\ Has(w, "recv_job") => "read" \notin w.wait
    BY DEF WaitsAgree
  <2>1. \A e \in Dir : WaitEvent[e] \in w.wait => w.if[e] = "busy"
    BY <1>4, <1>7 DEF Core, WaitsAgree
  <2>2. ASSUME Has(w, "recv_job") PROVE "read" \notin w.wait
    <3>1. d = "send" /\ WaitEvent[d] = "write"
      BY <2>2, <1>5 DEF Dir, WaitEvent
    <3> QED BY <3>1, <2>2, <1>4, <1>5 DEF Core, WaitsAgree
  <2> QED BY <2>1, <2>2
<1>9. Lengths(w) /\ Phases(w) /\ Results(w, n) /\ Bytes(w, n)
  BY <1>4 DEF Core, Lengths, Phases, Results, Bytes
<1>10. \A e \in Dir : Wake(w, e)
  BY <1>4, <1>5 DEF Wake
<1>11. Good(w, n)
  BY <1>3, <1>6, <1>8, <1>9, <1>10 DEF Good, Core
<1> QED BY <1>11 DEF w

(* BReactorLimit_Increment, where it is not refused.                          *)
LEMMA IncrementCore ==
  ASSUME NEW t, NEW n, NEW d \in Dir, Core(t, n), ~Exhausted(t, d), ~(n.err /\ ~n.rst)
  PROVE  LET u == BReactorLimit_Increment(t, d)
         IN  /\ Core(u, n)
             /\ u.phase = t.phase /\ u.if = t.if /\ u.len = t.len /\ u.done = t.done
             /\ u.hupd = t.hupd /\ u.jobs = t.jobs /\ u.ev = t.ev /\ u.total = t.total
             /\ u.wait = t.wait
<1> DEFINE u == BReactorLimit_Increment(t, d)
<1>1. t \in Conn /\ n \in Net
  BY DEF Core
<1>2. CASE t.hupd
  BY <1>2 DEF BReactorLimit_Increment
<1>3. CASE ~t.hupd
  <2> DEFINE k == [t.count EXCEPT ![d] = t.count[d] + 1]
  <2>1. k \in [Dir -> Nat]
    BY <1>1, Fields
  <2>2. u = [t EXCEPT !.count = k]
    BY <1>3 DEF BReactorLimit_Increment
  <2>3. \A e \in Dir : k[e] <= Limit[e]
    <3>1. Limit[d] \in Nat /\ t.count[d] \in Nat /\ t.count[d] < Limit[d]
      BY <1>1, <1>3, Fields, ConnectionAssumption DEF Exhausted, Limit, Dir
    <3>2. \A e \in Dir : t.count[e] <= Limit[e]
      BY DEF Core, Lengths
    <3> QED BY <3>1, <3>2, <1>1, Fields
  <2> HIDE DEF k
  <2>4. u \in Conn
    BY <1>1, <2>1, <2>2, Zenon DEF Conn
  <2>5. /\ u.phase = t.phase /\ u.if = t.if /\ u.len = t.len /\ u.done = t.done
        /\ u.hupd = t.hupd /\ u.jobs = t.jobs /\ u.ev = t.ev /\ u.total = t.total
        /\ u.wait = t.wait /\ u.count = k
    BY <1>1, <2>2 DEF Conn
  <2> HIDE DEF u
  <2>6. JobsAgree(u) /\ WaitsAgree(u)
    BY <2>5 DEF Core, JobsAgree, WaitsAgree, Has, Distinct
  <2>7. Lengths(u) /\ Phases(u) /\ Bytes(u, n)
    BY <2>3, <2>5 DEF Core, Lengths, Phases, Bytes
  <2>8. Results(u, n)
    BY <2>5 DEF Core, Results
  <2> QED BY <1>1, <2>4, <2>5, <2>6, <2>7, <2>8 DEF Core, u
<1> QED BY <1>2, <1>3

(* A transfer that was made is reported by a job.                             *)
LEMMA DoneGood ==
  ASSUME NEW t, NEW d \in Dir, NEW k \in 1 .. t.len[d], Core(t, net),
         t.phase = "up", t.if[d] = "busy",
         \A e \in Dir : e # d => Wake(t, e),
         d = "recv" => ~Has(t, "recv_job"),
         t.hupd \/ WaitEvent[d] \notin t.wait,
         d = "send" => k <= net.room,
         d = "recv" => k <= net.in
  PROVE  /\ Good(Done(t, d, k), Moved(d, k))
         /\ Done(t, d, k).phase = t.phase /\ Done(t, d, k).len = t.len
         /\ Done(t, d, k).total = t.total
         /\ Done(t, d, k).if = [t.if EXCEPT ![d] = "done"]
<1> DEFINE u == Done(t, d, k)
           m == Moved(d, k)
           dn == [t.done EXCEPT ![d] = k]
           st == [t.if EXCEPT ![d] = "done"]
           js == <<DoneJob[d]>> \o t.jobs
<1>1. t \in Conn /\ net \in Net
  BY DEF Core
<1>2. t.len[d] \in Nat /\ k \in Nat
  BY <1>1, Fields
<1>3. dn \in [Dir -> Nat] /\ st \in [Dir -> {"none", "op", "busy", "done"}] /\ js \in Seq(Job)
  <2>1. DoneJob[d] \in Job
    BY DEF DoneJob, Dir, Job
  <2> QED BY <1>1, <1>2, <2>1, Fields
<1>4. /\ u.phase = t.phase /\ u.if = st /\ u.len = t.len /\ u.done = dn
      /\ u.hupd = t.hupd /\ u.jobs = js /\ u.ev = t.ev /\ u.total = t.total
      /\ u.wait = t.wait /\ u.count = t.count
  BY <1>1 DEF Done, BPending_Set, SetIf, Conn
<1>5. u \in Conn
  <2>1. [t EXCEPT !.done = dn] \in Conn
    <3> HIDE DEF dn
    <3> QED BY <1>1, <1>3, Zenon DEF Conn
  <2>2. SetIf([t EXCEPT !.done = dn], d, "done") \in Conn
    BY <2>1, SetIfFields
  <2>3. DoneJob[d] \in Job
    BY DEF DoneJob, Dir, Job
  <2> QED BY <2>2, <2>3, SetFields DEF Done
<1>6. /\ m \in Net /\ m.rst = net.rst /\ m.err = net.err
      /\ d = "send" => m.out = net.out + k /\ m.sent = net.sent /\ m.in = net.in
      /\ d = "recv" => m.out = net.out /\ m.sent = net.sent /\ m.in = net.in - k
  <2>1. CASE d = "send"
    <3>1. net.room - k \in Nat /\ net.out + k \in Nat
      BY <1>1, <1>2, <2>1 DEF Net
    <3>2. [net EXCEPT !.room = net.room - k, !.out = net.out + k] \in Net
      BY <1>1, <3>1, Zenon DEF Net
    <3> QED BY <1>1, <2>1, <3>2 DEF Moved, Net
  <2>2. CASE d = "recv"
    <3>1. net.in - k \in Nat
      BY <1>1, <1>2, <2>2 DEF Net
    <3>2. [net EXCEPT !.in = net.in - k] \in Net
      BY <1>1, <3>1, Zenon DEF Net
    <3> QED BY <1>1, <2>2, <3>2 DEF Moved, Net
  <2> QED BY <2>1, <2>2 DEF Dir
<1>7. \A e \in Dir : st[e] = IF e = d THEN "done" ELSE t.if[e]
  BY <1>1, Fields
<1>8. \A e \in Dir : dn[e] = IF e = d THEN k ELSE t.done[e]
  BY <1>1, Fields
<1>9. DoneJob[d] \in Job /\ ~Has(t, DoneJob[d])
  BY DEF Core, JobsAgree, DoneJob, Dir, Job
<1> HIDE DEF u, m, st, dn
<1>10. /\ \A j : Has(u, j) <=> (j = DoneJob[d] \/ Has(t, j))
       /\ Distinct(u)
  <2>1. t.jobs \in Seq(Job) /\ u.jobs = <<DoneJob[d]>> \o t.jobs
    BY <1>1, <1>4, Fields
  <2>2. Distinct(t)
    BY DEF Core, JobsAgree
  <2> QED BY <1>9, <2>1, <2>2, SetJob
<1>11. JobsAgree(u)
  <2>1. \A e \in Dir : OpJob[e] # DoneJob[d] /\ (DoneJob[e] = DoneJob[d] => e = d)
    BY DEF OpJob, DoneJob, Dir
  <2>2. DoneJob[d] # "recv_job" /\ DoneJob[d] # "connector"
    BY DEF DoneJob, Dir
  <2>3. Has(u, "recv_job") => u.if["recv"] = "busy"
    BY <1>4, <1>7, <1>10, <2>2 DEF Core, JobsAgree, Dir
  <2>4. Has(u, "connector") => u.phase = "connecting"
    BY <1>4, <1>10, <2>2 DEF Core, JobsAgree
  <2>5. \A e \in Dir : (Has(u, OpJob[e]) <=> u.if[e] = "op")
    BY <1>4, <1>7, <1>10, <2>1 DEF Core, JobsAgree
  <2>6. \A e \in Dir : (Has(u, DoneJob[e]) <=> u.if[e] = "done")
    BY <1>4, <1>7, <1>10, <2>1 DEF Core, JobsAgree
  <2> QED BY <1>10, <2>3, <2>4, <2>5, <2>6 DEF JobsAgree
<1>12. WaitsAgree(u)
  <2>1. DoneJob[d] # "recv_job"
    BY DEF DoneJob, Dir
  <2> QED BY <1>4, <1>7, <1>10, <2>1 DEF Core, WaitsAgree
<1>13. Lengths(u)
  BY <1>4, <1>7, <1>8 DEF Core, Lengths
<1>14. Phases(u) /\ Results(u, m)
  BY <1>4, <1>6 DEF Core, Phases, Results
<1>15. Bytes(u, m)
  <2>0. /\ net.out = t.total["send"] + (IF t.if["send"] = "done" THEN t.done["send"] ELSE 0)
        /\ net.sent = t.total["recv"] + (IF t.if["recv"] = "done" THEN t.done["recv"] ELSE 0)
                        + net.in
    BY DEF Core, Bytes
  <2>1. net.in \in Nat /\ net.out \in Nat /\ net.sent \in Nat
        /\ t.total["send"] \in Nat /\ t.total["recv"] \in Nat
        /\ t.done["send"] \in Nat /\ t.done["recv"] \in Nat
    BY <1>1, Fields DEF Net, Dir
  <2>2. CASE d = "send"
    <3>1. /\ t.if["send"] = "busy" /\ st["send"] = "done" /\ dn["send"] = k
          /\ st["recv"] = t.if["recv"] /\ dn["recv"] = t.done["recv"]
      BY <1>7, <1>8, <2>2 DEF Dir
    <3>2. net.out = t.total["send"]
      BY <2>0, <2>1, <3>1
    <3>3. m.out = u.total["send"] + (IF u.if["send"] = "done" THEN u.done["send"] ELSE 0)
      <4>1. m.out = net.out + k
        BY <1>6, <2>2
      <4>2. /\ u.total["send"] = t.total["send"]
            /\ u.if["send"] = "done" /\ u.done["send"] = k
        BY <1>4, <3>1
      <4> QED BY <3>2, <4>1, <4>2
    <3>4. m.sent = u.total["recv"] + (IF u.if["recv"] = "done" THEN u.done["recv"] ELSE 0) + m.in
      BY <1>4, <1>6, <2>0, <2>2, <3>1
    <3> QED BY <3>3, <3>4 DEF Bytes
  <2>3. CASE d = "recv"
    <3>1. /\ t.if["recv"] = "busy" /\ st["recv"] = "done" /\ dn["recv"] = k
          /\ st["send"] = t.if["send"] /\ dn["send"] = t.done["send"]
      BY <1>7, <1>8, <2>3 DEF Dir
    <3>2. net.sent = t.total["recv"] + net.in
      BY <2>0, <2>1, <3>1
    <3>3. m.out = u.total["send"] + (IF u.if["send"] = "done" THEN u.done["send"] ELSE 0)
      BY <1>4, <1>6, <2>0, <2>3, <3>1
    <3>4. m.sent = u.total["recv"] + (IF u.if["recv"] = "done" THEN u.done["recv"] ELSE 0) + m.in
      <4>1. m.sent = net.sent /\ m.in = net.in - k
        BY <1>6, <2>3
      <4>2. /\ u.total["recv"] = t.total["recv"]
            /\ u.if["recv"] = "done" /\ u.done["recv"] = k
        BY <1>4, <3>1
      <4>3. net.sent = t.total["recv"] + k + (net.in - k)
        BY <1>2, <2>1, <3>2
      <4> QED BY <4>1, <4>2, <4>3
    <3> QED BY <3>3, <3>4 DEF Bytes
  <2> QED BY <2>2, <2>3 DEF Dir
<1>16. \A e \in Dir : Wake(u, e)
  BY <1>4, <1>7, <1>10 DEF Wake
<1>17. Good(u, m)
  BY <1>5, <1>6, <1>11, <1>12, <1>13, <1>14, <1>15, <1>16 DEF Good, Core
<1> QED BY <1>4, <1>17 DEF u, m, st

(* The user of the connection t sees nothing of the step to u, or its end.     *)
Unseen(t, u) ==
  /\ u.total = t.total
  /\ \/ u.phase = "over" /\ \A e \in Dir : u.if[e] = "none"
     \/ /\ u.phase = t.phase /\ u.len = t.len
        /\ \A e \in Dir : u.if[e] = "none" <=> t.if[e] = "none"

LEMMA Results_n ==
  ASSUME NEW d \in Dir, NEW len \in Nat, net \in Net, NEW k \in Result(d, len)
  PROVE  /\ k \in Int
         /\ k > 0 => /\ k \in 1 .. len /\ ~(net.err /\ ~net.rst)
                     /\ d = "send" => k <= net.room
                     /\ d = "recv" => k <= net.in
         /\ k = AGAIN => ~(net.err /\ ~net.rst)
  BY DEF Result, AGAIN, Net, Dir

(* connection_send and connection_recv.                                       *)
LEMMA TransferGood ==
  ASSUME NEW t, NEW d \in Dir, Core(t, net), t.phase = "up", t.if[d] = "busy",
         \A e \in Dir : e # d => Wake(t, e),
         d = "recv" => ~Has(t, "recv_job"),
         t.hupd \/ WaitEvent[d] \notin t.wait,
         Transfer(t, d)
  PROVE  Good(c', net') /\ Unseen(t, c')
<1>1. t \in Conn /\ net \in Net /\ (net.rst => net.err)
  BY DEF Core, Results
<1>2. t.len[d] \in Nat
  BY <1>1, Fields
<1>3. PICK k \in Result(d, t.len[d]) :
        /\ c' = IF d = "send" THEN connection_send(t, k) ELSE connection_recv(t, k)
        /\ net' = IF Exhausted(t, d) \/ k <= 0 THEN net ELSE Moved(d, k)
  BY DEF Transfer
<1> DEFINE u == BReactorLimit_Increment(t, d)
<1>4. /\ k \in Int
      /\ k > 0 => /\ k \in 1 .. t.len[d] /\ ~(net.err /\ ~net.rst)
                  /\ d = "send" => k <= net.room
                  /\ d = "recv" => k <= net.in
      /\ k = AGAIN => ~(net.err /\ ~net.rst)
  BY <1>1, <1>2, Results_n
<1>5. CASE Exhausted(t, d)
  <2>1. c' = WaitFor(t, d) /\ net' = net
    BY <1>3, <1>5 DEF connection_send, connection_recv, Dir
  <2>2. ~t.hupd
    BY <1>5 DEF Exhausted
  <2>3. Good(c', net')
    BY <2>1, <2>2, WaitForGood
  <2> QED BY <1>1, <2>1, <2>3 DEF Unseen, WaitFor, Conn
<1>6. CASE ~Exhausted(t, d) /\ k = AGAIN /\ ~t.hupd
  <2>1. c' = WaitFor(u, d) /\ net' = net
    BY <1>3, <1>6 DEF connection_send, connection_recv, Dir, AGAIN
  <2>2. /\ Core(u, net)
        /\ u.phase = t.phase /\ u.if = t.if /\ u.len = t.len /\ u.hupd = t.hupd
        /\ u.jobs = t.jobs /\ u.total = t.total /\ u.wait = t.wait
    BY <1>4, <1>6, IncrementCore
  <2> HIDE DEF u
  <2>3. Good(c', net')
    <3>1. \A e \in Dir : e # d => Wake(u, e)
      BY <2>2 DEF Wake, Has
    <3>2. d = "recv" => ~Has(u, "recv_job")
      BY <2>2 DEF Has
    <3> QED BY <1>6, <2>1, <2>2, <3>1, <3>2, WaitForGood
  <2>4. u \in Conn
    BY <2>2 DEF Core
  <2> QED BY <2>1, <2>2, <2>3, <2>4 DEF Unseen, WaitFor, Conn
<1>7. CASE ~Exhausted(t, d) /\ ~(k = AGAIN /\ ~t.hupd) /\ k <= 0
  <2>1. d = "send" => k < 0
    BY <1>3, <1>7, <1>2 DEF Result, AGAIN
  <2>2. c' = Free(t) /\ net' = net
    BY <1>3, <1>4, <1>7, <2>1 DEF connection_send, connection_recv, Dir
  <2> QED BY <1>1, <2>2, FreeGood DEF Unseen
<1>8. CASE ~Exhausted(t, d) /\ k > 0
  <2>1. c' = Done(u, d, k) /\ net' = Moved(d, k)
    BY <1>3, <1>4, <1>8 DEF connection_send, connection_recv, Dir, AGAIN
  <2>2. /\ Core(u, net)
        /\ u.phase = t.phase /\ u.if = t.if /\ u.len = t.len /\ u.hupd = t.hupd
        /\ u.jobs = t.jobs /\ u.total = t.total /\ u.wait = t.wait
    BY <1>4, <1>8, IncrementCore
  <2> HIDE DEF u
  <2>3. \A e \in Dir : e # d => Wake(u, e)
    BY <2>2 DEF Wake, Has
  <2>4. d = "recv" => ~Has(u, "recv_job")
    BY <2>2 DEF Has
  <2>5. /\ Good(Done(u, d, k), Moved(d, k))
        /\ Done(u, d, k).phase = u.phase /\ Done(u, d, k).len = u.len
        /\ Done(u, d, k).total = u.total
        /\ Done(u, d, k).if = [u.if EXCEPT ![d] = "done"]
    BY <1>4, <1>8, <2>2, <2>3, <2>4, DoneGood
  <2>6. \A e \in Dir : [u.if EXCEPT ![d] = "done"][e] = "none" <=> t.if[e] = "none"
    BY <1>1, <2>2, Fields
  <2> QED BY <2>1, <2>2, <2>5, <2>6 DEF Unseen
<1> QED BY <1>4, <1>5, <1>6, <1>7, <1>8

(* ... with an error pending.                                                 *)
LEMMA TransferDies ==
  ASSUME NEW t \in Conn, NEW d \in Dir, net \in Net, net.err, ~net.rst,
         ~Exhausted(t, d), ~t.hupd, Transfer(t, d)
  PROVE  c' = Free(t) /\ net' = net
<1>1. PICK k \in Result(d, t.len[d]) :
        /\ c' = IF d = "send" THEN connection_send(t, k) ELSE connection_recv(t, k)
        /\ net' = IF Exhausted(t, d) \/ k <= 0 THEN net ELSE Moved(d, k)
  BY DEF Transfer
<1>2. k = -1
  BY <1>1 DEF Result, Dir
<1>3. k # AGAIN /\ k < 0 /\ k <= 0
  BY <1>2 DEF AGAIN
<1>4. CASE d = "send"
  BY <1>1, <1>3, <1>4 DEF connection_send
<1>5. CASE d = "recv"
  BY <1>1, <1>3, <1>5 DEF connection_recv
<1> QED BY <1>4, <1>5 DEF Dir

-----------------------------------------------------------------------------
(* The actions.                                                             *)

LEMMA InitGood == Init => IInv
<1> SUFFICES ASSUME Init PROVE Good(c, net)
  BY DEF IInv
<1> USE ConnectionAssumption
<1>1. PICK at_once \in BOOLEAN :
        /\ c = Start(IF at_once THEN <<"connector">> ELSE <<>>,
                     IF at_once THEN {} ELSE {"write"})
        /\ net = [ room |-> IF at_once THEN Room ELSE 0, out |-> 0, in |-> 0, sent |-> 0,
                   fin |-> FALSE, rst |-> FALSE, err |-> FALSE ]
  BY DEF Init
<1>2. None \in [Dir -> Nat] /\ \A d \in Dir : None[d] = 0
  BY DEF None
<1>3. /\ c.phase = "connecting" /\ c.if = [d \in Dir |-> "none"] /\ c.total = None
      /\ c.count = None /\ c.len = None /\ c.done = None /\ c.hupd = FALSE /\ c.ev = {}
      /\ c.jobs = (IF at_once THEN <<"connector">> ELSE <<>>)
      /\ c.wait = (IF at_once THEN {} ELSE {"write"})
  BY <1>1 DEF Start
<1>4. c.jobs \in Seq(Job)
  <2>1. <<"connector">> \in Seq(Job) /\ <<>> \in Seq(Job)
    BY DEF Job
  <2> QED BY <1>3, <2>1
<1>5. c \in Conn
  BY <1>1, <1>2, <1>3, <1>4 DEF Start, Conn
<1>6. net \in Net /\ net.out = 0 /\ net.in = 0 /\ net.sent = 0 /\ net.rst = FALSE
  BY <1>1 DEF Net
<1>7. \A k : Has(c, k) => k = "connector"
  BY <1>3 DEF Has
<1>8. Distinct(c)
  BY <1>3 DEF Distinct
<1>9. \A d \in Dir : OpJob[d] # "connector" /\ DoneJob[d] # "connector" /\ 0 <= Limit[d]
  BY DEF OpJob, DoneJob, Dir, Limit
<1>10. \A d \in Dir : c.if[d] = "none" /\ c.count[d] = 0 /\ c.total[d] = 0
  BY <1>2, <1>3
<1>11. JobsAgree(c)
  BY <1>3, <1>7, <1>8, <1>9, <1>10 DEF JobsAgree
<1>12. Lengths(c) /\ Phases(c) /\ WaitsAgree(c) /\ Results(c, net)
  BY <1>3, <1>6, <1>9, <1>10 DEF Lengths, Phases, WaitsAgree, Results
<1>13. Bytes(c, net)
  BY <1>3, <1>6, <1>10 DEF Bytes, Dir
<1> QED BY <1>5, <1>6, <1>10, <1>11, <1>12, <1>13 DEF Good, Core, Wake

(* The state in which the first job is run.                                  *)
LEMMA Popped ==
  ASSUME IInv, c.jobs # <<>>
  PROVE  LET t == [c EXCEPT !.jobs = Tail(c.jobs)]
         IN  /\ t \in Conn
             /\ t.phase = c.phase /\ t.if = c.if /\ t.len = c.len /\ t.done = c.done
             /\ t.count = c.count /\ t.hupd = c.hupd /\ t.ev = c.ev /\ t.total = c.total
             /\ t.wait = c.wait /\ t.jobs = Tail(c.jobs)
             /\ Has(c, Head(c.jobs))
             /\ \A k : Has(t, k) <=> (Has(c, k) /\ k # Head(c.jobs))
             /\ Distinct(t)
<1> DEFINE t == [c EXCEPT !.jobs = Tail(c.jobs)]
<1>1. c \in Conn /\ Distinct(c)
  BY DEF IInv, Good, Core, JobsAgree
<1>2. c.jobs \in Seq(Job)
  BY <1>1, Fields
<1>3. /\ t.phase = c.phase /\ t.if = c.if /\ t.len = c.len /\ t.done = c.done
      /\ t.count = c.count /\ t.hupd = c.hupd /\ t.ev = c.ev /\ t.total = c.total
      /\ t.wait = c.wait /\ t.jobs = Tail(c.jobs)
  BY <1>1 DEF Conn
<1>4. /\ t.jobs \in Seq(Job)
      /\ Has(c, Head(c.jobs))
      /\ \A k : Has(t, k) <=> (Has(c, k) /\ k # Head(c.jobs))
      /\ Distinct(t)
  <2> HIDE DEF t
  <2> QED BY <1>1, <1>2, <1>3, PopJob
<1>5. t \in Conn
  <2> DEFINE js == Tail(c.jobs)
  <2>1. js \in Seq(Job) /\ t = [c EXCEPT !.jobs = js]
    BY <1>3, <1>4
  <2> HIDE DEF js
  <2> QED BY <1>1, <2>1, Zenon DEF Conn
<1> QED BY <1>3, <1>4, <1>5

(* What the step to c' is to the user.                                        *)
Step == Unseen(c, c') \/ S!Connected \/ \E d \in Dir : S!Ask(d) \/ S!Answer(d)

LEMMA ConnectorGood ==
  ASSUME NEW t, NEW is_error, Core(t, net), t.phase = "connecting", ~Has(t, "connector"),
         t.total = c.total, t.if = c.if, t.len = c.len, c.phase = t.phase,
         connector_handler(t, is_error)
  PROVE  Good(c', net') /\ Step
<1>1. t \in Conn /\ net \in Net /\ (net.rst => net.err) /\ net' = net
  BY DEF Core, Results, connector_handler
<1>2. CASE c' = Free(t)
  BY <1>1, <1>2, FreeGood DEF Step, Unseen
<1>3. CASE c' = BConnection_Init(t)
  <2>1. "up" \in {"connecting", "up", "over"} /\ {} \in SUBSET {"read", "write"}
    OBVIOUS
  <2>2. c' \in Conn
    BY <1>1, <1>3, <2>1, Zenon DEF BConnection_Init, Conn
  <2>3. /\ c'.phase = "up" /\ c'.wait = {} /\ c'.if = t.if /\ c'.len = t.len
        /\ c'.done = t.done /\ c'.count = t.count /\ c'.hupd = t.hupd /\ c'.ev = t.ev
        /\ c'.total = t.total /\ c'.jobs = t.jobs
    BY <1>1, <1>3 DEF BConnection_Init, Conn
  <2> DEFINE u == c'
  <2>4. u \in Conn /\ u.phase = "up" /\ u.wait = {} /\ u.if = t.if /\ u.len = t.len
        /\ u.done = t.done /\ u.count = t.count /\ u.hupd = t.hupd /\ u.ev = t.ev
        /\ u.total = t.total /\ u.jobs = t.jobs
    BY <2>2, <2>3
  <2> HIDE DEF u
  <2>5. \A k : Has(u, k) <=> Has(t, k)
    BY <2>4 DEF Has
  <2>6. JobsAgree(u)
    BY <2>4, <2>5 DEF Core, JobsAgree, Distinct
  <2>7. WaitsAgree(u) /\ Lengths(u) /\ Phases(u) /\ Results(u, net) /\ Bytes(u, net)
    BY <2>4 DEF Core, WaitsAgree, Lengths, Phases, Results, Bytes
  <2>8. \A d \in Dir : Wake(u, d)
    BY <2>4 DEF Core, Phases, Wake
  <2>9. Good(u, net)
    BY <1>1, <2>4, <2>6, <2>7, <2>8 DEF Good, Core
  <2>10. S!Connected
    BY <2>3 DEF S!Connected, Asked
  <2> QED BY <1>1, <2>9, <2>10 DEF Step, u
<1> QED BY <1>2, <1>3 DEF connector_handler

LEMMA ExecuteJobGood == IInv /\ ExecuteJob => Good(c', net') /\ Step
<1> SUFFICES ASSUME IInv, ExecuteJob PROVE Good(c', net') /\ Step
  OBVIOUS
<1> DEFINE j == Head(c.jobs)
           t == [c EXCEPT !.jobs = Tail(c.jobs)]
<1>1. c.jobs # <<>>
  BY DEF ExecuteJob
<1>2. /\ t \in Conn
      /\ t.phase = c.phase /\ t.if = c.if /\ t.len = c.len /\ t.done = c.done
      /\ t.count = c.count /\ t.hupd = c.hupd /\ t.ev = c.ev /\ t.total = c.total
      /\ t.wait = c.wait /\ t.jobs = Tail(c.jobs)
      /\ Has(c, j)
      /\ \A k : Has(t, k) <=> (Has(c, k) /\ k # j)
      /\ Distinct(t)
  BY <1>1, Popped
<1>3. \/ j = "connector" /\ connector_handler(t, FALSE)
      \/ \E d \in Dir : j = OpJob[d] /\ Transfer(SetIf(t, d, "busy"), d)
      \/ \E d \in Dir :
           /\ j = DoneJob[d]
           /\ c' = [SetIf(t, d, "none") EXCEPT
                      !.total = [t.total EXCEPT ![d] = t.total[d] + t.done[d]]]
           /\ UNCHANGED net
      \/ j = "recv_job" /\ Transfer(t, "recv")
  BY DEF ExecuteJob
<1> HIDE DEF j, t
<1>4. Core(c, net) /\ c \in Conn /\ net \in Net /\ \A d \in Dir : Wake(c, d)
  BY DEF IInv, Good, Core
<1>5. \A d, e \in Dir : /\ OpJob[d] # DoneJob[e]
                       /\ (OpJob[d] = OpJob[e] => d = e) /\ (DoneJob[d] = DoneJob[e] => d = e)
                       /\ OpJob[d] \notin {"connector", "recv_job"}
                       /\ DoneJob[d] \notin {"connector", "recv_job"}
  BY DEF OpJob, DoneJob, Dir
<1>6. CASE j \in {"connector", "recv_job"}
  <2>1. Core(t, net)
    <3>1. JobsAgree(t)
      BY <1>2, <1>4, <1>5, <1>6 DEF Core, JobsAgree
    <3>2. WaitsAgree(t) /\ Lengths(t) /\ Phases(t) /\ Results(t, net) /\ Bytes(t, net)
      BY <1>2, <1>4 DEF Core, WaitsAgree, Lengths, Phases, Results, Bytes
    <3> QED BY <1>2, <1>4, <3>1, <3>2 DEF Core
  <2>2. CASE j = "connector"
    <3>1. connector_handler(t, FALSE)
      BY <1>3, <1>5, <2>2
    <3>2. c.phase = "connecting" /\ ~Has(t, "connector")
      BY <1>2, <1>4, <2>2 DEF Core, JobsAgree
    <3> QED BY <1>2, <2>1, <3>1, <3>2, ConnectorGood
  <2>3. CASE j = "recv_job"
    <3>1. Transfer(t, "recv")
      BY <1>3, <1>5, <2>3
    <3>2. t.if["recv"] = "busy" /\ ~Has(t, "recv_job") /\ t.phase = "up"
      BY <1>2, <1>4, <2>3 DEF Core, JobsAgree, Phases, Dir
    <3>3. \A e \in Dir : e # "recv" => Wake(t, e)
      BY <1>2, <1>4 DEF Wake
    <3>4. t.hupd \/ WaitEvent["recv"] \notin t.wait
      BY <1>2, <1>4, <2>3, <3>2 DEF Core, WaitsAgree, WaitEvent
    <3>5. "recv" \in Dir
      BY DEF Dir
    <3>6. Good(c', net') /\ Unseen(t, c')
      BY <2>1, <3>1, <3>2, <3>3, <3>4, <3>5, TransferGood
    <3> QED BY <1>2, <3>6 DEF Step, Unseen
  <2> QED BY <1>6, <2>2, <2>3
<1>7. ASSUME NEW d \in Dir, j = OpJob[d] PROVE Good(c', net') /\ Step
  <2> DEFINE s == SetIf(t, d, "busy")
  <2>1. Transfer(s, d)
    <3>1. PICK e \in Dir : j = OpJob[e] /\ Transfer(SetIf(t, e, "busy"), e)
      BY <1>3, <1>5, <1>7
    <3> QED BY <1>5, <1>7, <3>1
  <2>2. /\ s \in Conn
        /\ s.phase = t.phase /\ s.len = t.len /\ s.done = t.done /\ s.count = t.count
        /\ s.hupd = t.hupd /\ s.jobs = t.jobs /\ s.ev = t.ev /\ s.total = t.total
        /\ s.wait = t.wait /\ s.if = [t.if EXCEPT ![d] = "busy"]
        /\ \A e \in Dir : s.if[e] = IF e = d THEN "busy" ELSE t.if[e]
    BY <1>2, SetIfFields
  <2> HIDE DEF s
  <2>3. c.if[d] = "op" /\ c.phase = "up"
    BY <1>2, <1>4, <1>7 DEF Core, JobsAgree, Phases
  <2>4. \A k : Has(s, k) <=> (Has(c, k) /\ k # OpJob[d])
    <3>1. \A k : Has(s, k) <=> Has(t, k)
      BY <2>2 DEF Has
    <3> QED BY <1>2, <1>7, <3>1
  <2>5. JobsAgree(s)
    <3>1. Distinct(s)
      BY <1>2, <2>2 DEF Distinct
    <3>2. \A e \in Dir : Has(s, OpJob[e]) <=> s.if[e] = "op"
      BY <1>2, <1>4, <1>5, <2>2, <2>4 DEF Core, JobsAgree
    <3>3. \A e \in Dir : Has(s, DoneJob[e]) <=> s.if[e] = "done"
      BY <1>2, <1>4, <1>5, <2>2, <2>3, <2>4 DEF Core, JobsAgree
    <3>4. Has(s, "recv_job") => s.if["recv"] = "busy"
      BY <1>2, <1>4, <2>2, <2>4 DEF Core, JobsAgree, Dir
    <3>5. Has(s, "connector") => s.phase = "connecting"
      BY <1>2, <1>4, <2>2, <2>4 DEF Core, JobsAgree
    <3> QED BY <3>1, <3>2, <3>3, <3>4, <3>5 DEF JobsAgree
  <2>6. WaitsAgree(s)
    BY <1>2, <1>4, <2>2, <2>4 DEF Core, WaitsAgree
  <2>7. Lengths(s) /\ Phases(s) /\ Results(s, net)
    BY <1>2, <1>4, <2>2, <2>3 DEF Core, Lengths, Phases, Results
  <2>8. Bytes(s, net)
    BY <1>2, <1>4, <2>2, <2>3 DEF Core, Bytes, Dir
  <2>9. Core(s, net)
    BY <1>4, <2>2, <2>5, <2>6, <2>7, <2>8 DEF Core
  <2>10. \A e \in Dir : e # d => Wake(s, e)
    BY <1>2, <1>4, <1>5, <2>2, <2>4 DEF Wake
  <2>11. d = "recv" => ~Has(s, "recv_job")
    BY <1>4, <2>3, <2>4 DEF Core, JobsAgree
  <2>12. s.hupd \/ WaitEvent[d] \notin s.wait
    BY <1>2, <1>4, <2>2, <2>3 DEF Core, WaitsAgree
  <2>13. Good(c', net') /\ Unseen(s, c')
    BY <1>2, <2>1, <2>2, <2>3, <2>9, <2>10, <2>11, <2>12, TransferGood
  <2>14. \A e \in Dir : s.if[e] = "none" <=> c.if[e] = "none"
    BY <1>2, <2>2, <2>3
  <2> QED BY <1>2, <2>2, <2>13, <2>14 DEF Step, Unseen
<1>8. ASSUME NEW d \in Dir, j = DoneJob[d] PROVE Good(c', net') /\ Step
  <2> DEFINE s == SetIf(t, d, "none")
             tot == [t.total EXCEPT ![d] = t.total[d] + t.done[d]]
  <2>1. c' = [s EXCEPT !.total = tot] /\ net' = net
    <3>1. PICK e \in Dir : /\ j = DoneJob[e]
                           /\ c' = [SetIf(t, e, "none") EXCEPT
                                      !.total = [t.total EXCEPT ![e] = t.total[e] + t.done[e]]]
                           /\ UNCHANGED net
      BY <1>3, <1>5, <1>8
    <3>2. e = d
      BY <1>5, <1>8, <3>1
    <3> QED BY <3>1, <3>2
  <2>2. /\ s \in Conn
        /\ s.phase = t.phase /\ s.len = t.len /\ s.done = t.done /\ s.count = t.count
        /\ s.hupd = t.hupd /\ s.jobs = t.jobs /\ s.ev = t.ev /\ s.total = t.total
        /\ s.wait = t.wait /\ s.if = [t.if EXCEPT ![d] = "none"]
        /\ \A e \in Dir : s.if[e] = IF e = d THEN "none" ELSE t.if[e]
    BY <1>2, SetIfFields
  <2>3. /\ tot \in [Dir -> Nat]
        /\ \A e \in Dir : tot[e] = IF e = d THEN t.total[d] + t.done[d] ELSE t.total[e]
    BY <1>2, Fields
  <2> HIDE DEF s, tot
  <2>4. c' \in Conn
    BY <2>1, <2>2, <2>3, Zenon DEF Conn
  <2> DEFINE u == c'
  <2>5. /\ u \in Conn /\ u.phase = t.phase /\ u.len = t.len /\ u.done = t.done
        /\ u.count = t.count /\ u.hupd = t.hupd /\ u.jobs = t.jobs /\ u.ev = t.ev
        /\ u.total = tot /\ u.wait = t.wait /\ u.if = s.if
    BY <2>1, <2>2, <2>4 DEF Conn
  <2>6. c.if[d] = "done" /\ c.phase = "up"
    BY <1>2, <1>4, <1>8 DEF Core, JobsAgree, Phases
  <2>6a. c.len[d] \in 1 .. MaxLen /\ c.done[d] \in 1 .. c.len[d]
    BY <1>4, <2>6 DEF Core, Lengths
  <2>7. S!Answer(d)
    <3>1. Asked[d] = c.len[d] /\ Asked[d] > 0
      BY <2>6, <2>6a, ConnectionAssumption DEF Asked
    <3>2. Asked' = [Asked EXCEPT ![d] = 0]
      <4>1. \A e \in Dir : c'.if[e] = (IF e = d THEN "none" ELSE c.if[e]) /\ c'.len[e] = c.len[e]
        BY <1>2, <2>2, <2>5
      <4> QED BY <4>1 DEF Asked
    <3>3. c'.total = [c.total EXCEPT ![d] = c.total[d] + c.done[d]]
      BY <1>2, <2>5 DEF tot
    <3> QED BY <1>2, <2>5, <2>6, <2>6a, <3>1, <3>2, <3>3 DEF S!Answer
  <2> HIDE DEF u
  <2>8. \A k : Has(u, k) <=> (Has(c, k) /\ k # DoneJob[d])
    <3>1. \A k : Has(u, k) <=> Has(t, k)
      BY <2>5 DEF Has
    <3> QED BY <1>2, <1>8, <3>1
  <2>9. JobsAgree(u)
    <3>1. Distinct(u)
      BY <1>2, <2>5 DEF Distinct
    <3>2. \A e \in Dir : Has(u, OpJob[e]) <=> u.if[e] = "op"
      BY <1>2, <1>4, <1>5, <2>2, <2>5, <2>6, <2>8 DEF Core, JobsAgree
    <3>3. \A e \in Dir : Has(u, DoneJob[e]) <=> u.if[e] = "done"
      BY <1>2, <1>4, <1>5, <2>2, <2>5, <2>8 DEF Core, JobsAgree
    <3>4. Has(u, "recv_job") => u.if["recv"] = "busy"
      BY <1>2, <1>4, <2>2, <2>5, <2>6, <2>8 DEF Core, JobsAgree, Dir
    <3>5. Has(u, "connector") => u.phase = "connecting"
      BY <1>2, <1>4, <2>5, <2>8 DEF Core, JobsAgree
    <3> QED BY <3>1, <3>2, <3>3, <3>4, <3>5 DEF JobsAgree
  <2>10. WaitsAgree(u)
    BY <1>2, <1>4, <2>2, <2>5, <2>6, <2>8 DEF Core, WaitsAgree
  <2>11. Lengths(u) /\ Phases(u) /\ Results(u, net)
    BY <1>2, <1>4, <2>2, <2>5, <2>6 DEF Core, Lengths, Phases, Results
  <2>12. Bytes(u, net)
    <3>1. /\ c.total["send"] \in Nat /\ c.total["recv"] \in Nat
          /\ c.done["send"] \in Nat /\ c.done["recv"] \in Nat
          /\ net.out \in Nat /\ net.in \in Nat /\ net.sent \in Nat
      BY <1>4, Fields DEF Dir, Net
    <3>2. CASE d = "send"
      BY <1>2, <1>4, <2>2, <2>3, <2>5, <2>6, <3>1, <3>2 DEF Core, Bytes, Dir
    <3>3. CASE d = "recv"
      BY <1>2, <1>4, <2>2, <2>3, <2>5, <2>6, <3>1, <3>3 DEF Core, Bytes, Dir
    <3> QED BY <3>2, <3>3 DEF Dir
  <2>13. \A e \in Dir : Wake(u, e)
    BY <1>2, <1>4, <1>5, <2>2, <2>5, <2>8 DEF Wake
  <2>14. Good(u, net)
    BY <1>4, <2>5, <2>9, <2>10, <2>11, <2>12, <2>13 DEF Good, Core
  <2> QED BY <2>1, <2>7, <2>14 DEF Step, u
<1> QED BY <1>3, <1>6, <1>7, <1>8

(* A change of the counts and of the epoll result alone.                      *)
LEMMA WaitedGood ==
  ASSUME IInv, NEW u \in Conn, Results(u, net),
         u.phase = c.phase, u.if = c.if, u.len = c.len, u.done = c.done, u.hupd = c.hupd,
         u.jobs = c.jobs, u.total = c.total, u.wait = c.wait,
         \A d \in Dir : u.count[d] \in {0, c.count[d]}
  PROVE  Good(u, net) /\ Unseen(c, u)
<1>1. Core(c, net) /\ c \in Conn /\ net \in Net /\ \A d \in Dir : Wake(c, d)
  BY DEF IInv, Good, Core
<1>2. \A k : Has(u, k) <=> Has(c, k)
  BY DEF Has
<1>3. JobsAgree(u)
  BY <1>1, <1>2 DEF Core, JobsAgree, Distinct
<1>4. WaitsAgree(u) /\ Phases(u) /\ Bytes(u, net)
  BY <1>1, <1>2 DEF Core, WaitsAgree, Phases, Bytes
<1>5. Lengths(u)
  <2>1. \A d \in Dir : 0 <= Limit[d]
    BY ConnectionAssumption DEF Limit, Dir
  <2> QED BY <1>1, <2>1 DEF Core, Lengths
<1>6. \A d \in Dir : Wake(u, d)
  BY <1>1, <1>2 DEF Wake
<1> QED BY <1>1, <1>3, <1>4, <1>5, <1>6 DEF Good, Core, Unseen

LEMMA NoneType == None \in [Dir -> Nat] /\ \A d \in Dir : None[d] = 0
  BY DEF None

LEMMA WaitGood == IInv /\ (Wait \/ WaitOther) => Good(c', net') /\ Step
<1> SUFFICES ASSUME IInv, Wait \/ WaitOther PROVE Good(c', net') /\ Step
  OBVIOUS
<1>1. c \in Conn /\ net \in Net /\ Results(c, net)
  BY DEF IInv, Good, Core
<1>2. CASE Wait
  <2> DEFINE events == Ready \cap (c.wait \cup {"error", "hup"})
             u == [c EXCEPT !.ev = events, !.count = None]
  <2>1. c' = u /\ net' = net /\ c.phase # "over" /\ ~c.hupd
    BY <1>2 DEF Wait
  <2>2. events \in SUBSET Event
    BY DEF Ready, Event
  <2>3. /\ "hup" \in events <=> net.rst
        /\ "error" \in events <=> net.err
    BY DEF Ready
  <2> HIDE DEF events
  <2>4. u \in Conn
    BY <1>1, <2>2, NoneType, Zenon DEF Conn
  <2>5. /\ u.phase = c.phase /\ u.if = c.if /\ u.len = c.len /\ u.done = c.done
        /\ u.hupd = c.hupd /\ u.jobs = c.jobs /\ u.total = c.total /\ u.wait = c.wait
        /\ u.ev = events /\ u.count = None
    BY <1>1 DEF Conn
  <2> HIDE DEF u
  <2>6. Results(u, net)
    BY <1>1, <2>1, <2>3, <2>5, NoneType DEF Results
  <2>7. Good(u, net) /\ Unseen(c, u)
    BY <2>4, <2>5, <2>6, NoneType, WaitedGood
  <2> QED BY <2>1, <2>7 DEF Step
<1>3. CASE WaitOther
  <2> DEFINE u == [c EXCEPT !.count = None]
  <2>1. c' = u /\ net' = net /\ c.ev = {}
    BY <1>3 DEF WaitOther
  <2>2. u \in Conn
    BY <1>1, NoneType, Zenon DEF Conn
  <2>3. /\ u.phase = c.phase /\ u.if = c.if /\ u.len = c.len /\ u.done = c.done
        /\ u.hupd = c.hupd /\ u.jobs = c.jobs /\ u.total = c.total /\ u.wait = c.wait
        /\ u.ev = c.ev /\ u.count = None
    BY <1>1 DEF Conn
  <2> HIDE DEF u
  <2>4. Results(u, net)
    BY <1>1, <2>1, <2>3 DEF Results
  <2>5. Good(u, net) /\ Unseen(c, u)
    BY <2>2, <2>3, <2>4, NoneType, WaitedGood
  <2> QED BY <2>1, <2>5 DEF Step
<1> QED BY <1>2, <1>3

(* The calls of connection_fd_handler, when they need not fail.                *)
LEMMA HandlerGood ==
  ASSUME NEW t, NEW hs \in BOOLEAN, NEW hr \in BOOLEAN, Core(t, net), t.phase = "up",
         t.jobs = <<>>,
         hs => t.if["send"] = "busy" /\ (t.hupd \/ "write" \notin t.wait),
         hr => t.if["recv"] = "busy" /\ (t.hupd \/ "read" \notin t.wait),
         ~hs => Wake(t, "send"), ~hr => Wake(t, "recv"),
         \/ hs /\ Transfer(IF hr THEN BPending_Set(t, "recv_job") ELSE t, "send")
         \/ ~hs /\ hr /\ Transfer(t, "recv")
  PROVE  Good(c', net') /\ Unseen(t, c')
<1>1. t \in Conn /\ net \in Net
  BY DEF Core
<1>2. \A k : ~Has(t, k)
  BY DEF Has
<1>3. "send" \in Dir /\ "recv" \in Dir /\ \A e \in Dir : e = "send" \/ e = "recv"
  BY DEF Dir
<1>4. WaitEvent["send"] = "write" /\ WaitEvent["recv"] = "read"
  BY DEF WaitEvent
<1>5. CASE hs /\ hr
  <2> DEFINE s == BPending_Set(t, "recv_job")
  <2>1. Transfer(s, "send")
    BY <1>5
  <2>2. "recv_job" \in Job
    BY DEF Job
  <2>3. /\ s \in Conn
        /\ s.phase = t.phase /\ s.len = t.len /\ s.done = t.done /\ s.count = t.count
        /\ s.hupd = t.hupd /\ s.if = t.if /\ s.ev = t.ev /\ s.total = t.total
        /\ s.wait = t.wait /\ s.jobs = <<"recv_job">> \o t.jobs
    BY <1>1, <2>2, SetFields
  <2> HIDE DEF s
  <2>4. (\A k : Has(s, k) <=> k = "recv_job") /\ Distinct(s)
    <3>1. s.jobs = <<"recv_job">>
      BY <2>3
    <3>2. \A k : Has(s, k) <=> k = "recv_job"
      BY <3>1 DEF Has
    <3> QED BY <3>1, <3>2 DEF Distinct
  <2>5. JobsAgree(s)
    <3>1. \A d \in Dir : OpJob[d] # "recv_job" /\ DoneJob[d] # "recv_job"
      BY DEF OpJob, DoneJob, Dir
    <3>2. \A d \in Dir : t.if[d] # "op" /\ t.if[d] # "done"
      BY <1>2 DEF Core, JobsAgree
    <3> QED BY <1>5, <2>3, <2>4, <3>1, <3>2 DEF JobsAgree
  <2>6. WaitsAgree(s)
    BY <1>5, <2>3 DEF Core, WaitsAgree
  <2>7. Lengths(s) /\ Phases(s) /\ Results(s, net) /\ Bytes(s, net)
    BY <2>3 DEF Core, Lengths, Phases, Results, Bytes
  <2>8. Core(s, net)
    BY <1>1, <2>3, <2>5, <2>6, <2>7 DEF Core
  <2>9. \A e \in Dir : e # "send" => Wake(s, e)
    BY <1>3, <2>4 DEF Wake
  <2>10. s.if["send"] = "busy" /\ s.phase = "up" /\ (s.hupd \/ WaitEvent["send"] \notin s.wait)
    BY <1>4, <1>5, <2>3
  <2>11. Good(c', net') /\ Unseen(s, c')
    BY <1>3, <2>1, <2>8, <2>9, <2>10, TransferGood
  <2> QED BY <2>3, <2>11 DEF Unseen
<1>6. CASE hs /\ ~hr
  <2>1. Transfer(t, "send")
    BY <1>6
  <2>2. \A e \in Dir : e # "send" => Wake(t, e)
    BY <1>3, <1>6
  <2> QED BY <1>3, <1>4, <1>6, <2>1, <2>2, TransferGood
<1>7. CASE ~hs /\ hr
  <2>1. Transfer(t, "recv")
    BY <1>7
  <2>2. \A e \in Dir : e # "recv" => Wake(t, e)
    BY <1>3, <1>7
  <2> QED BY <1>2, <1>3, <1>4, <1>7, <2>1, <2>2, TransferGood
<1> QED BY <1>5, <1>6, <1>7

LEMMA DispatchGood == IInv /\ Dispatch => Good(c', net') /\ Step
<1> SUFFICES ASSUME IInv, Dispatch PROVE Good(c', net') /\ Step
  OBVIOUS
<1> DEFINE events == c.ev \cap (c.wait \cup {"error", "hup"})
           t == [c EXCEPT !.ev = {}]
<1>1. Core(c, net) /\ c \in Conn /\ net \in Net /\ \A d \in Dir : Wake(c, d)
  BY DEF IInv, Good, Core
<1>2. c.jobs = <<>> /\ c.ev # {}
  BY DEF Dispatch
<1>3. \/ events = {} /\ c' = t /\ UNCHANGED net
      \/ events # {} /\ c.phase = "connecting" /\ connector_handler(t, net.err)
      \/ events # {} /\ c.phase = "up" /\ connection_fd_handler(t, events)
  BY DEF Dispatch
<1>4. t \in Conn
  <2>1. {} \in SUBSET Event
    OBVIOUS
  <2> QED BY <1>1, <2>1, Zenon DEF Conn
<1>5. /\ t.phase = c.phase /\ t.if = c.if /\ t.len = c.len /\ t.done = c.done
      /\ t.hupd = c.hupd /\ t.jobs = c.jobs /\ t.total = c.total /\ t.wait = c.wait
      /\ t.ev = {} /\ t.count = c.count
  BY <1>1 DEF Conn
<1>6. events \subseteq Event /\ events \subseteq c.ev
  BY <1>1, Fields
<1>6a. /\ "hup" \in events <=> "hup" \in c.ev
       /\ "error" \in events <=> "error" \in c.ev
       /\ \A e \in events : e \in c.wait \/ e \in {"error", "hup"}
       /\ \A e \in c.wait : e \in c.ev => e \in events
  OBVIOUS
<1> HIDE DEF t, events
<1>7. Results(t, net)
  BY <1>1, <1>5 DEF Core, Results
<1>8. Good(t, net) /\ Unseen(c, t)
  BY <1>4, <1>5, <1>7, WaitedGood
<1>9. CASE events = {} /\ c' = t /\ UNCHANGED net
  BY <1>8, <1>9 DEF Step
<1>10. CASE c.phase = "connecting" /\ connector_handler(t, net.err)
  <2>1. ~Has(t, "connector")
    BY <1>2, <1>5 DEF Has
  <2> QED BY <1>5, <1>8, <1>10, <2>1, ConnectorGood DEF Good
<1>11. CASE events # {} /\ c.phase = "up" /\ connection_fd_handler(t, events)
  <2> DEFINE w == t.wait \ events
             h == "hup" \in events
             u == [t EXCEPT !.wait = w, !.hupd = h]
             have(d) == \/ WaitEvent[d] \in events
                        \/ {"error", "hup"} \cap events # {} /\ u.if[d] = "busy"
  <2>1. \/ have("send") /\ Transfer(IF have("recv") THEN BPending_Set(u, "recv_job") ELSE u,
                                    "send")
        \/ ~have("send") /\ have("recv") /\ Transfer(u, "recv")
        \/ /\ ~have("send") /\ ~have("recv")
           /\ c' = IF u.hupd THEN u ELSE Free(u)
           /\ UNCHANGED net
    BY <1>11 DEF connection_fd_handler
  <2>2. w \in SUBSET {"read", "write"} /\ h \in BOOLEAN
    BY <1>4, Fields
  <2>3. u \in Conn
    <3> HIDE DEF w, h
    <3> QED BY <1>4, <2>2, Zenon DEF Conn
  <2>4. /\ u.phase = c.phase /\ u.if = c.if /\ u.len = c.len /\ u.done = c.done
        /\ u.hupd = h /\ u.jobs = c.jobs /\ u.total = c.total /\ u.wait = w
        /\ u.ev = {} /\ u.count = c.count
    BY <1>4, <1>5 DEF Conn
  <2> HIDE DEF u
  <2>5. ~c.hupd /\ c.phase = "up"
    BY <1>1, <1>2, <1>11 DEF Core, Results
  <2>6. \A k : ~Has(c, k) /\ ~Has(u, k)
    BY <1>2, <2>4 DEF Has
  <2>7. \A d \in Dir : c.if[d] = "busy" <=> WaitEvent[d] \in c.wait
    BY <1>1, <2>5, <2>6 DEF Core, WaitsAgree, Wake
  <2>8. \A d \in Dir : WaitEvent[d] \in events => WaitEvent[d] \in c.wait
    BY <1>6a DEF WaitEvent, Dir
  <2>9. Core(u, net)
    <3>1. JobsAgree(u)
      BY <1>1, <2>4, <2>6 DEF Core, JobsAgree, Distinct
    <3>2. WaitsAgree(u)
      BY <1>5, <2>4, <2>6, <2>7 DEF WaitsAgree
    <3>3. Lengths(u) /\ Phases(u) /\ Results(u, net) /\ Bytes(u, net)
      BY <1>1, <2>4, <2>5 DEF Core, Lengths, Phases, Results, Bytes
    <3> QED BY <1>1, <2>3, <3>1, <3>2, <3>3 DEF Core
  <2>10. "send" \in Dir /\ "recv" \in Dir
         /\ WaitEvent["send"] = "write" /\ WaitEvent["recv"] = "read"
    BY DEF Dir, WaitEvent
  <2>11. \A d \in Dir : have(d) => c.if[d] = "busy"
    BY <2>4, <2>7, <2>8
  <2>12. CASE h
    <3>1. \A d \in Dir : have(d) <=> c.if[d] = "busy"
      BY <2>4, <2>11, <2>12
    <3>2. u.hupd
      BY <2>4, <2>12
    <3> HIDE DEF have, h
    <3>3. \A d \in Dir : ~have(d) => Wake(u, d)
      BY <2>4, <3>1 DEF Wake
    <3>4. CASE ~have("send") /\ ~have("recv")
      <4>1. c' = u /\ net' = net
        BY <2>1, <3>2, <3>4
      <4>2. Good(u, net)
        BY <2>9, <3>3, <3>4 DEF Good, Dir
      <4> QED BY <2>4, <4>1, <4>2 DEF Step, Unseen
    <3>5. CASE have("send") \/ have("recv")
      <4> DEFINE hs == have("send")
                 hr == have("recv")
      <4>1. hs \in BOOLEAN /\ hr \in BOOLEAN
        BY DEF have
      <4>2. \/ hs /\ Transfer(IF hr THEN BPending_Set(u, "recv_job") ELSE u, "send")
            \/ ~hs /\ hr /\ Transfer(u, "recv")
        BY <2>1, <3>5
      <4>3. (hs => u.if["send"] = "busy") /\ (hr => u.if["recv"] = "busy")
            /\ (~hs => Wake(u, "send")) /\ (~hr => Wake(u, "recv"))
        BY <2>4, <2>10, <3>1, <3>3
      <4>4. u.phase = "up" /\ u.jobs = <<>>
        BY <1>2, <2>4, <2>5
      <4> HIDE DEF hs, hr
      <4>5. Good(c', net') /\ Unseen(u, c')
        BY <2>9, <3>2, <4>1, <4>2, <4>3, <4>4, HandlerGood
      <4> QED BY <2>4, <4>5 DEF Step, Unseen
    <3> QED BY <3>4, <3>5
  <2>13. CASE ~h /\ "error" \in events
    <3>1. net.err /\ ~net.rst /\ \A d \in Dir : c.count[d] = 0
      BY <1>1, <1>6a, <2>13 DEF Core, Results
    <3>2. \A d \in Dir : Limit[d] \in Nat /\ Limit[d] > 0
      BY ConnectionAssumption DEF Limit, Dir
    <3>3. ~u.hupd
      BY <2>4, <2>13
    <3> HIDE DEF have, h
    <3> DEFINE s == IF have("send") /\ have("recv") THEN BPending_Set(u, "recv_job") ELSE u
    <3>4. s \in Conn /\ s.count = u.count /\ ~s.hupd /\ s.total = u.total
      <4>1. "recv_job" \in Job
        BY DEF Job
      <4>2. BPending_Set(u, "recv_job") \in Conn
            /\ BPending_Set(u, "recv_job").count = u.count
            /\ BPending_Set(u, "recv_job").hupd = u.hupd
            /\ BPending_Set(u, "recv_job").total = u.total
        BY <2>3, <4>1, SetFields
      <4> QED BY <2>3, <3>3, <4>2
    <3>5. (\E d \in Dir : Transfer(s, d)) \/ (c' = Free(s) /\ net' = net)
      BY <2>1, <2>10, <3>3
    <3> HIDE DEF s
    <3>6. \A d \in Dir : ~Exhausted(s, d)
      BY <2>4, <3>1, <3>2, <3>4 DEF Exhausted
    <3>7. c' = Free(s) /\ net' = net
      BY <1>1, <3>1, <3>4, <3>5, <3>6, TransferDies
    <3> QED BY <1>1, <2>4, <3>1, <3>4, <3>7, FreeGood DEF Step, Unseen
  <2>14. CASE ~h /\ "error" \notin events
    <3>1. \A d \in Dir : have(d) <=> WaitEvent[d] \in events
      BY <2>14
    <3>2. \E d \in Dir : have(d)
      <4>1. PICK e \in events : e \in c.wait
        BY <1>6a, <1>11, <2>14
      <4>2. e = "write" \/ e = "read"
        BY <1>1, <4>1, Fields
      <4> QED BY <2>10, <3>1, <4>1, <4>2
    <3>3. ~u.hupd
      BY <2>4, <2>14
    <3> HIDE DEF have, h
    <3>4. \A d \in Dir : ~have(d) => Wake(u, d)
      BY <1>5, <2>4, <2>7, <3>1, <3>3 DEF Wake
    <3> DEFINE hs == have("send")
               hr == have("recv")
    <3>5. hs \in BOOLEAN /\ hr \in BOOLEAN
      BY DEF have
    <3>6. \/ hs /\ Transfer(IF hr THEN BPending_Set(u, "recv_job") ELSE u, "send")
          \/ ~hs /\ hr /\ Transfer(u, "recv")
      BY <2>1, <3>2 DEF Dir
    <3>7. (hs => u.if["send"] = "busy") /\ (hr => u.if["recv"] = "busy")
          /\ (~hs => Wake(u, "send")) /\ (~hr => Wake(u, "recv"))
          /\ (hs => "write" \notin u.wait) /\ (hr => "read" \notin u.wait)
      BY <2>4, <2>10, <2>11, <3>1, <3>4
    <3>8. u.phase = "up" /\ u.jobs = <<>>
      BY <1>2, <2>4, <2>5
    <3> HIDE DEF hs, hr
    <3>9. Good(c', net') /\ Unseen(u, c')
      BY <2>9, <3>5, <3>6, <3>7, <3>8, HandlerGood
    <3> QED BY <2>4, <3>9 DEF Step, Unseen
  <2> QED BY <2>12, <2>13, <2>14
<1> QED BY <1>3, <1>9, <1>10, <1>11

LEMMA AskGood == ASSUME NEW d \in Dir PROVE IInv /\ Ask(d) => Good(c', net') /\ Step
<1> SUFFICES ASSUME IInv, Ask(d) PROVE Good(c', net') /\ Step
  OBVIOUS
<1>1. Core(c, net) /\ c \in Conn /\ net \in Net /\ \A e \in Dir : Wake(c, e)
  BY DEF IInv, Good, Core
<1>2. PICK n \in 1 .. MaxLen :
        c' = BPending_Set(SetIf([c EXCEPT !.len = [c.len EXCEPT ![d] = n]], d, "op"), OpJob[d])
  BY DEF Ask
<1>3. c.phase = "up" /\ c.if[d] = "none" /\ net' = net
  BY DEF Ask
<1> DEFINE len == [c.len EXCEPT ![d] = n]
           a == [c EXCEPT !.len = len]
           b == SetIf(a, d, "op")
           u == BPending_Set(b, OpJob[d])
<1>4. n \in Nat /\ len \in [Dir -> Nat] /\ \A e \in Dir : len[e] = IF e = d THEN n ELSE c.len[e]
  BY <1>1, Fields, ConnectionAssumption
<1>5. c' = u
  BY <1>2
<1>6. OpJob[d] \in Job
  BY DEF OpJob, Dir, Job
<1> HIDE DEF len
<1>7. a \in Conn
  BY <1>1, <1>4, Zenon DEF Conn
<1>8. /\ a.phase = c.phase /\ a.if = c.if /\ a.len = len /\ a.done = c.done
      /\ a.hupd = c.hupd /\ a.jobs = c.jobs /\ a.total = c.total /\ a.wait = c.wait
      /\ a.ev = c.ev /\ a.count = c.count
  BY <1>1 DEF Conn
<1> HIDE DEF a
<1>9. /\ b \in Conn
      /\ b.phase = a.phase /\ b.len = a.len /\ b.done = a.done /\ b.count = a.count
      /\ b.hupd = a.hupd /\ b.jobs = a.jobs /\ b.ev = a.ev /\ b.total = a.total
      /\ b.wait = a.wait /\ b.if = [a.if EXCEPT ![d] = "op"]
      /\ \A e \in Dir : b.if[e] = IF e = d THEN "op" ELSE a.if[e]
  BY <1>7, SetIfFields
<1> HIDE DEF b
<1>10. /\ u \in Conn
       /\ u.phase = b.phase /\ u.len = b.len /\ u.done = b.done /\ u.count = b.count
       /\ u.hupd = b.hupd /\ u.if = b.if /\ u.ev = b.ev /\ u.total = b.total
       /\ u.wait = b.wait /\ u.jobs = <<OpJob[d]>> \o b.jobs
  BY <1>6, <1>9, SetFields
<1> HIDE DEF u
<1>11. /\ u.phase = c.phase /\ u.len = len /\ u.done = c.done /\ u.count = c.count
       /\ u.hupd = c.hupd /\ u.ev = c.ev /\ u.total = c.total /\ u.wait = c.wait
       /\ u.jobs = <<OpJob[d]>> \o c.jobs
       /\ \A e \in Dir : u.if[e] = IF e = d THEN "op" ELSE c.if[e]
  BY <1>8, <1>9, <1>10
<1>12. ~Has(c, OpJob[d]) /\ ~Has(c, DoneJob[d]) /\ Distinct(c) /\ c.jobs \in Seq(Job)
  BY <1>1, <1>3, Fields DEF Core, JobsAgree
<1>13. (\A k : Has(u, k) <=> (k = OpJob[d] \/ Has(c, k))) /\ Distinct(u)
  <2>1. c.jobs \in Seq(Job) /\ u.jobs = <<OpJob[d]>> \o c.jobs
    BY <1>11, <1>12
  <2>2. Distinct(c) /\ ~Has(c, OpJob[d])
    BY <1>12
  <2> QED BY <1>6, <2>1, <2>2, SetJob
<1>14. \A e \in Dir : /\ OpJob[d] # DoneJob[e] /\ (OpJob[d] = OpJob[e] => d = e)
                      /\ OpJob[d] \notin {"connector", "recv_job"}
  BY DEF OpJob, DoneJob, Dir
<1>15. JobsAgree(u)
  <2>1. \A e \in Dir : Has(u, OpJob[e]) <=> u.if[e] = "op"
    BY <1>1, <1>11, <1>13, <1>14 DEF Core, JobsAgree
  <2>2. \A e \in Dir : Has(u, DoneJob[e]) <=> u.if[e] = "done"
    BY <1>1, <1>3, <1>11, <1>13, <1>14 DEF Core, JobsAgree
  <2>3. Has(u, "recv_job") => u.if["recv"] = "busy"
    BY <1>1, <1>3, <1>11, <1>13, <1>14 DEF Core, JobsAgree, Dir
  <2>4. Has(u, "connector") => u.phase = "connecting"
    BY <1>1, <1>11, <1>13, <1>14 DEF Core, JobsAgree
  <2> QED BY <1>13, <2>1, <2>2, <2>3, <2>4 DEF JobsAgree
<1>16. WaitsAgree(u)
  BY <1>1, <1>3, <1>11, <1>13, <1>14 DEF Core, WaitsAgree
<1>17. Lengths(u)
  BY <1>1, <1>3, <1>4, <1>11 DEF Core, Lengths
<1>18. Phases(u) /\ Results(u, net)
  BY <1>1, <1>3, <1>11 DEF Core, Phases, Results
<1>19. Bytes(u, net)
  BY <1>1, <1>3, <1>11 DEF Core, Bytes, Dir
<1>20. \A e \in Dir : Wake(u, e)
  BY <1>1, <1>11, <1>13 DEF Wake
<1>21. Good(u, net)
  BY <1>1, <1>10, <1>15, <1>16, <1>17, <1>18, <1>19, <1>20 DEF Good, Core
<1>22. S!Ask(d)
  <2>1. Asked[d] = 0
    BY <1>3 DEF Asked
  <2>2. Asked' = [Asked EXCEPT ![d] = n]
    <3>1. \A e \in Dir : /\ c'.if[e] = (IF e = d THEN "op" ELSE c.if[e])
                         /\ c'.len[e] = (IF e = d THEN n ELSE c.len[e])
      BY <1>4, <1>5, <1>11
    <3> QED BY <3>1 DEF Asked
  <2>3. c'.phase = c.phase /\ c'.total = c.total
    BY <1>5, <1>11
  <2> QED BY <1>3, <2>1, <2>2, <2>3 DEF S!Ask
<1> QED BY <1>3, <1>5, <1>21, <1>22 DEF Step

(* Steps of the peer and of the network.                                      *)
Peer == PeerAccepts \/ PeerReads \/ PeerSends \/ PeerCloses \/ PeerResets \/ SocketError

LEMMA PeerGood == IInv /\ Peer => Good(c', net') /\ Step
<1> SUFFICES ASSUME IInv, Peer PROVE Good(c', net') /\ Step
  OBVIOUS
<1>1. Core(c, net) /\ c \in Conn /\ net \in Net /\ \A d \in Dir : Wake(c, d)
  BY DEF IInv, Good, Core
<1>2. c' = c
  BY DEF Peer, PeerAccepts, PeerReads, PeerSends, PeerCloses, PeerResets, SocketError
<1>3. Step
  BY <1>2 DEF Step, Unseen
<1>4. net.room \in Nat /\ net.in \in Nat /\ net.sent \in Nat /\ net.out \in Nat
      /\ net.rst \in BOOLEAN /\ net.err \in BOOLEAN /\ net.fin \in BOOLEAN
  BY <1>1 DEF Net
<1> DEFINE m == net'
<1> SUFFICES m \in Net /\ Results(c, m) /\ Bytes(c, m)
  BY <1>1, <1>2, <1>3 DEF Good, Core
<1>5. CASE PeerAccepts \/ PeerReads \/ PeerCloses
  <2>1. m \in Net
    <3>1. Room \in Nat /\ net.room + 1 \in Nat /\ TRUE \in BOOLEAN
      BY <1>4, ConnectionAssumption
    <3> QED BY <1>1, <1>5, <3>1, Zenon DEF PeerAccepts, PeerReads, PeerCloses, Net
  <2>2. /\ m.in = net.in /\ m.sent = net.sent /\ m.out = net.out /\ m.rst = net.rst
        /\ m.err = net.err
    BY <1>1, <1>5 DEF PeerAccepts, PeerReads, PeerCloses, Net
  <2> HIDE DEF m
  <2> QED BY <1>1, <2>1, <2>2 DEF Core, Results, Bytes
<1>6. CASE PeerSends
  <2>1. m \in Net
    <3>1. net.in + 1 \in Nat /\ net.sent + 1 \in Nat
      BY <1>4
    <3> QED BY <1>1, <1>6, <3>1, Zenon DEF PeerSends, Net
  <2>2. /\ m.in = net.in + 1 /\ m.sent = net.sent + 1 /\ m.out = net.out
        /\ m.rst = net.rst /\ m.err = net.err
    BY <1>1, <1>6 DEF PeerSends, Net
  <2> HIDE DEF m
  <2>3. Results(c, m)
    BY <1>1, <2>2 DEF Core, Results
  <2>4. c.total["recv"] \in Nat /\ c.done["recv"] \in Nat
    BY <1>1, Fields DEF Dir
  <2>5. Bytes(c, m)
    BY <1>1, <1>4, <2>2, <2>4 DEF Core, Bytes
  <2> QED BY <2>1, <2>3, <2>5
<1>7. CASE PeerResets \/ SocketError
  <2>1. m \in Net
    <3>1. TRUE \in BOOLEAN
      OBVIOUS
    <3> QED BY <1>1, <1>7, <3>1, Zenon DEF PeerResets, SocketError, Net
  <2>2. /\ m.in = net.in /\ m.sent = net.sent /\ m.out = net.out
        /\ m.rst \in {TRUE, net.rst} /\ m.err = TRUE /\ ~net.err
    BY <1>1, <1>7 DEF PeerResets, SocketError, Net
  <2> HIDE DEF m
  <2>3. ~net.rst /\ "hup" \notin c.ev /\ "error" \notin c.ev
    BY <1>1, <2>2 DEF Core, Results
  <2> QED BY <1>1, <2>1, <2>2, <2>3 DEF Core, Results, Bytes
<1> QED BY <1>5, <1>6, <1>7 DEF Peer

LEMMA UserFreesGood == IInv /\ UserFrees => Good(c', net') /\ Step
<1> SUFFICES ASSUME IInv, UserFrees PROVE Good(c', net') /\ Step
  OBVIOUS
<1>1. c \in Conn /\ net \in Net /\ (net.rst => net.err)
  BY DEF IInv, Good, Core, Results
<1>2. c' = Free(c) /\ net' = net
  BY DEF UserFrees
<1> QED BY <1>1, <1>2, FreeGood DEF Step, Unseen

-----------------------------------------------------------------------------
(* Every step keeps the invariant, and is one the user of a stream may see.    *)
LEMMA NextGood == IInv /\ [Next]_vars => IInv' /\ (Step \/ UNCHANGED c)
<1>1. ASSUME IInv, Next PROVE Good(c', net') /\ Step
  <2>1. CASE Loop
    BY <1>1, <2>1, ExecuteJobGood, WaitGood, DispatchGood DEF Loop
  <2>2. CASE WaitOther
    BY <1>1, <2>2, WaitGood
  <2>3. CASE UserFrees
    BY <1>1, <2>3, UserFreesGood
  <2>4. CASE \E d \in Dir : Ask(d)
    BY <1>1, <2>4, AskGood
  <2>5. CASE Peer
    BY <1>1, <2>5, PeerGood
  <2> QED BY <1>1, <2>1, <2>2, <2>3, <2>4, <2>5 DEF Next, Peer
<1>2. Good(c', net') => IInv'
  BY DEF IInv, Good, Core, JobsAgree, WaitsAgree, Lengths, Phases, Results, Bytes, Wake,
         Has, Distinct
<1>3. ASSUME IInv, UNCHANGED vars PROVE IInv'
  BY <1>3 DEF vars, IInv, Good, Core, JobsAgree, WaitsAgree, Lengths, Phases, Results, Bytes,
              Wake, Has, Distinct
<1> QED BY <1>1, <1>2, <1>3 DEF vars

(* The jobs, the events waited for, the epoll result, the lengths and the       *)
(* bytes of a connection agree with its interfaces in every reachable state.    *)
THEOREM Invariance == Spec => []IInv
<1>1. Init => IInv
  BY InitGood
<1>2. IInv /\ [Next]_vars => IInv'
  BY NextGood
<1> QED BY <1>1, <1>2, PTL DEF Spec

(* The fields have their types, and no limit is passed.                        *)
THEOREM TypeCorrect == Spec => []TypeOK
<1>1. IInv => TypeOK
  BY DEF IInv, Good, Core, Lengths, TypeOK
<1> QED BY <1>1, Invariance, PTL

(* No handler or job of the connection is called in a state in which its        *)
(* assertions fail.                                                            *)
THEOREM HandlersSafe == Spec => []HandlersExpected
<1>1. IInv => HandlersExpected
  BY DEF IInv, Good, Core, JobsAgree, WaitsAgree, Distinct, Has, HandlersExpected, Pending
<1> QED BY <1>1, Invariance, PTL

(* An operation under way is always waited for by the descriptor or a job.      *)
THEOREM WakeupsKept == Spec => []NoLostWakeup
<1>1. IInv => NoLostWakeup
  BY DEF IInv, Good, Wake, Has, NoLostWakeup, Pending
<1> QED BY <1>1, Invariance, PTL

(* The user is told of exactly the bytes that passed through the socket.        *)
THEOREM BytesCounted == Spec => []BytesExact
<1>1. IInv => BytesExact
  <2> SUFFICES ASSUME IInv, c.phase = "up"
               PROVE  /\ net.out = c.total["send"] + InDone("send")
                      /\ net.sent = c.total["recv"] + InDone("recv") + net.in
    BY DEF BytesExact
  <2> QED BY DEF IInv, Good, Core, Bytes, InDone
<1> QED BY <1>1, Invariance, PTL

(* Every operation is in one place, with its bytes counted once, whatever the   *)
(* limits, the buffers and the order of events are.                            *)
THEOREM OperationsKept == Spec => []OperationsTracked
<1>1. TypeOK /\ HandlersExpected /\ NoLostWakeup /\ BytesExact => OperationsTracked
  BY DEF OperationsTracked
<1> QED BY <1>1, TypeCorrect, HandlersSafe, WakeupsKept, BytesCounted, PTL

(* A connection is a Stream to its user: one answer for each operation asked    *)
(* for, of a part of it that is not empty, and silence once it is over.         *)
THEOREM ImplementsStream == Spec => StreamSpec
<1>1. Init => S!Init
  <2> SUFFICES ASSUME Init PROVE S!Init
    OBVIOUS
  <2>1. c.phase = "connecting" /\ c.if = [d \in Dir |-> "none"] /\ c.total = None
    BY DEF Init, Start
  <2>2. S!Dir = Dir
    BY DEF S!Dir, Dir
  <2>3. \A d \in Dir : c.if[d] = "none"
    BY <2>1
  <2> QED BY <2>1, <2>2, <2>3 DEF S!Init, Asked, None
<1>2. IInv /\ [Next]_vars => [S!Next]_S!vars
  <2> SUFFICES ASSUME IInv, [Next]_vars PROVE [S!Next]_S!vars
    OBVIOUS
  <2>1. Step \/ UNCHANGED c
    BY NextGood
  <2>2. S!Dir = Dir
    BY DEF S!Dir, Dir
  <2>3. CASE UNCHANGED c
    BY <2>3 DEF S!vars, Asked
  <2>4. CASE S!Connected \/ \E d \in Dir : S!Ask(d) \/ S!Answer(d)
    BY <2>2, <2>4 DEF S!Next
  <2>5. CASE Unseen(c, c')
    <3>1. c.phase # "up" => \A d \in Dir : c.if[d] = "none"
      BY DEF IInv, Good, Core, Phases
    <3>2. CASE c'.phase = "over" /\ \A e \in Dir : c'.if[e] = "none"
      <4>1. Asked' = [d \in Dir |-> 0] /\ c'.total = c.total
        BY <2>5, <3>2 DEF Asked, Unseen
      <4>2. CASE c.phase = "over"
        <5>1. Asked = [d \in Dir |-> 0]
          BY <3>1, <4>2 DEF Asked
        <5> QED BY <3>2, <4>1, <4>2, <5>1 DEF S!vars
      <4>3. CASE c.phase # "over"
        BY <2>2, <3>2, <4>1, <4>3 DEF S!Next, S!Over
      <4> QED BY <4>2, <4>3
    <3>3. CASE /\ c'.phase = c.phase /\ c'.len = c.len
               /\ \A e \in Dir : c'.if[e] = "none" <=> c.if[e] = "none"
      <4>1. Asked' = Asked /\ c'.total = c.total
        BY <2>5, <3>3 DEF Asked, Unseen
      <4> QED BY <3>3, <4>1 DEF S!vars
    <3> QED BY <2>5, <3>2, <3>3 DEF Unseen
  <2> QED BY <2>1, <2>3, <2>4, <2>5 DEF Step
<1> QED BY <1>1, <1>2, Invariance, PTL DEF Spec, StreamSpec, S!Spec
=============================================================================
