-------------------------- MODULE VpnServiceProofs --------------------------
(***************************************************************************)
(* Proofs about VpnService: for any number of binder threads, starts and    *)
(* deaths of the process, however the threads interleave, a daemon can      *)
(* always be found by its pid file, nothing is left behind once the service *)
(* is gone but by the races the properties name, and mRunning tells the     *)
(* truth about the descriptor.                                              *)
(*                                                                         *)
(* Three inductive invariants: Control, of the instances, the queue and the *)
(* threads; Daemons and Verticles, each of them relative to Control.         *)
(*                                                                         *)
(* Then VpnSwitch, the screen's view of the service, and Profiles: join and  *)
(* split by induction over indices, then the list and its settings.          *)
(***************************************************************************)
EXTENDS VpnService, VpnSwitch, Profiles, FunctionTheorems, FiniteSetTheorems,
        SequenceTheorems, WellFoundedInduction, TLAPS

-----------------------------------------------------------------------------
(* The queue of the main thread.                                           *)

Event == {"start", "sticky", "destroy"} \X Instance

(* onDestroy of i is queued.                                                *)
Ends(q, i) == \E k \in 1 .. Len(q) : q[k] = <<"destroy", i>>

(* The events are in the order of their instances, none newer than n.       *)
Sorted(q, n) == \A k \in 1 .. Len(q) : /\ q[k][2] <= n
                                       /\ \A l \in k .. Len(q) : q[k][2] <= q[l][2]

(* None is for an instance older than i.                                    *)
From(q, i) == \A k \in 1 .. Len(q) : i <= q[k][2]

(* Each start is of instance c, or onDestroy of its instance comes later.    *)
Closed(q, c) == \A k \in 1 .. Len(q) :
                  q[k][1] = "start" => \/ q[k][2] = c
                                       \/ \E l \in k .. Len(q) : q[l] = <<"destroy", q[k][2]>>

StartsIn(q) == {k \in 1 .. Len(q) : q[k][1] = "start"}

-----------------------------------------------------------------------------
(* Control.                                                                *)

(* Android will still call onDestroy of i, or knows it.                      *)
Pending(i) == i = cur \/ Ends(queue, i)

(* stopMe has not closed the descriptor, has not left Launcher.stop.          *)
BeforeClose == {"kill_tun2socks", "rm_tun2socks", "kill_pdnsd", "rm_pdnsd", "close_fd"}
BeforeUndeployed == BeforeClose \cup {"undeploy"}

(* A thread that is not idle works for an instance.                          *)
Busy == \A t \in Thread : pc[t] # "idle" => inst[t] \in Instance

(* Every instance was asked for by a start, or by a death; every launch by a *)
(* start that is no longer queued.                                           *)
Counted == /\ insts <= starts + deaths
           /\ cur \in {0, insts}
           /\ run + Cardinality(StartsIn(queue))
                  + (IF pc["main"] \in {"configure", "launch"} THEN 1 ELSE 0) <= starts
           /\ pc["main"] = "sendfd" => tries > 0

(* The main thread works for no later instance than the queue does.          *)
Ordered == /\ Sorted(queue, insts)
           /\ pc["main"] # "idle" => From(queue, inst["main"]) /\ inst["main"] <= insts

(* A start under way, or queued, is undone by an onDestroy unless Android     *)
(* still knows its instance.                                                 *)
Undone == /\ Closed(queue, cur)
          /\ pc["main"] \in StartPC => Pending(inst["main"])

(* So an open descriptor will be closed.                                     *)
Held == \A i \in Instance : fd[i] = "open" =>
          Pending(i) \/ (inst["main"] = i /\ pc["main"] \in BeforeClose)

Control == TypeOK /\ Busy /\ Counted /\ Ordered /\ Undone /\ Held

-----------------------------------------------------------------------------
(* Daemons.                                                                *)

(* A run has no process before it is launched, no tun2socks a descriptor     *)
(* before it was accepted, and one that waits at sock_path does wait.         *)
Fresh == /\ \A d \in Daemon, r \in Run : proc[d][r] # "none" => r <= run
         /\ \A r \in Run : got[r] # 0 => r <= run
         /\ pc["main"] \in {"pdnsd", "tun2socks"} =>
              run \in Run /\ proc["tun2socks"][run] = "none" /\ got[run] = 0
         /\ pc["main"] = "sendfd" => run \in Run
         /\ \A r \in Run : proc["tun2socks"][r] \in {"boot", "wait"} => got[r] = 0
         /\ path # 0 => proc["tun2socks"][path] = "wait"

(* A process that was not told to end is named by its pid file, but for the  *)
(* exceptions of DaemonNamed.                                                *)
Named == \A d \in Daemon, r \in Run :
           proc[d][r] # "none" /\ <<d, r>> \notin term =>
             pidfile[d] = r \/ <<d, r>> \in unread \/ (deaths > 0 /\ r < run)

(* The pid file names a process that was not told to end.                    *)
Standing(d) == /\ pidfile[d] # 0
               /\ proc[d][pidfile[d]] # "none"
               /\ <<d, pidfile[d]>> \notin term

(* Where the main thread has launched such a process, or not yet killed it.  *)
Launched == [tun2socks |-> {"sendfd", "kill_tun2socks"},
             pdnsd |-> {"tun2socks", "sendfd", "kill_tun2socks", "rm_tun2socks", "kill_pdnsd"}]

(* While the process lives, such a daemon belongs to the start under way, or *)
(* to an instance that runs and whose onDestroy will come before any start   *)
(* of another instance.                                                      *)
Owned == deaths = 0 =>
           \A d \in Daemon : Standing(d) =>
             \/ pc["main"] \in Launched[d]
             \/ /\ pc["main"] = "idle"
                /\ \E i \in Instance : /\ mRunning[i] /\ Pending(i)
                                       /\ i <= insts /\ From(queue, i)

(* While the descriptor is handed over, the pid file of tun2socks is that of *)
(* the last launch, or deleted.                                              *)
Handing == pc["main"] = "sendfd" => pidfile["tun2socks"] \in {0, run}

Daemons == Fresh /\ Named /\ Owned /\ Handing /\ RunningMeansServed

-----------------------------------------------------------------------------
(* Verticles.                                                              *)

(* A deployed verticle that lost no race has its ID in Launcher.ID, and no    *)
(* thread is about to clear it.                                              *)
Identified == \A r \in Run : vert[r] = "deployed" /\ r \notin raced =>
                r = ID /\ \A t \in Thread : pc[t] # "clear_id"

(* A verticle that lost no race will be undeployed.                           *)
Undeployable == (\E r \in Run : vert[r] \in {"deploying", "deployed"} /\ r \notin raced) =>
                  (\E i \in Instance : Pending(i)) \/ pc["main"] \in BeforeUndeployed

Verticles == Identified /\ Undeployable

-----------------------------------------------------------------------------
(* What a new event, and the end of one, do to the queue.                   *)

LEMMA TailFacts ==
  ASSUME NEW q \in Seq(Event), q # <<>>
  PROVE  /\ Tail(q) \in Seq(Event) /\ Len(q) \in Nat \ {0} /\ Len(Tail(q)) = Len(q) - 1
         /\ q[1] = Head(q) /\ Head(q) \in Event
         /\ \A k \in 1 .. Len(q) - 1 : Tail(q)[k] = q[k + 1]
OBVIOUS

LEMMA AppendFacts ==
  ASSUME NEW q \in Seq(Event), NEW e \in Event
  PROVE  /\ Append(q, e) \in Seq(Event) /\ Len(q) \in Nat /\ Len(Append(q, e)) = Len(q) + 1
         /\ Append(q, e)[Len(q) + 1] = e
         /\ \A k \in 1 .. Len(q) : Append(q, e)[k] = q[k]
OBVIOUS

LEMMA EndsAppend ==
  ASSUME NEW q \in Seq(Event), NEW e \in Event, NEW i
  PROVE  Ends(Append(q, e), i) <=> Ends(q, i) \/ e = <<"destroy", i>>
<1> DEFINE r == Append(q, e)
<1>1. /\ Len(q) \in Nat /\ Len(r) = Len(q) + 1 /\ r[Len(q) + 1] = e
      /\ \A k \in 1 .. Len(q) : r[k] = q[k]
  BY AppendFacts
<1> HIDE DEF r
<1>a. \A k \in 1 .. Len(r) : k = Len(q) + 1 \/ k \in 1 .. Len(q)
  BY <1>1
<1>b. 1 .. Len(q) \subseteq 1 .. Len(r) /\ Len(q) + 1 \in 1 .. Len(r)
  BY <1>1
<1>2. Ends(r, i) <=> Ends(q, i) \/ e = <<"destroy", i>>
  BY <1>1, <1>a, <1>b DEF Ends
<1> QED
  BY <1>2 DEF r

LEMMA EndsTail ==
  ASSUME NEW q \in Seq(Event), q # <<>>, NEW i
  PROVE  /\ Ends(Tail(q), i) => Ends(q, i)
         /\ Ends(q, i) => Head(q) = <<"destroy", i>> \/ Ends(Tail(q), i)
<1> DEFINE r == Tail(q)
<1>1. /\ Len(q) \in Nat \ {0} /\ Len(r) = Len(q) - 1 /\ q[1] = Head(q)
      /\ \A k \in 1 .. Len(q) - 1 : r[k] = q[k + 1]
  BY TailFacts
<1> HIDE DEF r
<1>2. ASSUME Ends(r, i) PROVE Ends(q, i)
  <2>1. PICK k \in 1 .. Len(r) : r[k] = <<"destroy", i>>
    BY <1>2 DEF Ends
  <2>2. k + 1 \in 1 .. Len(q) /\ q[k + 1] = <<"destroy", i>>
    BY <2>1, <1>1
  <2> QED
    BY <2>2 DEF Ends
<1>3. ASSUME NEW k \in 1 .. Len(q), q[k] = <<"destroy", i>>, k # 1
      PROVE  Ends(r, i)
  <2>1. k - 1 \in 1 .. Len(r) /\ r[k - 1] = q[k]
    BY <1>1, <1>3
  <2> QED
    BY <2>1, <1>3 DEF Ends
<1>4. Ends(q, i) => Head(q) = <<"destroy", i>> \/ Ends(r, i)
  BY <1>1, <1>3 DEF Ends
<1> QED
  BY <1>2, <1>4 DEF r

LEMMA EmptyQueue ==
  /\ \A i : ~Ends(<<>>, i) /\ From(<<>>, i) /\ Sorted(<<>>, i) /\ Closed(<<>>, i)
  /\ StartsIn(<<>>) = {}
BY DEF Ends, From, Sorted, Closed, StartsIn

LEMMA FromAppend ==
  ASSUME NEW q \in Seq(Event), NEW e \in Event, NEW i \in Nat, From(q, i), i <= e[2]
  PROVE  From(Append(q, e), i)
<1> DEFINE r == Append(q, e)
<1>1. /\ Len(q) \in Nat /\ Len(r) = Len(q) + 1 /\ r[Len(q) + 1] = e
      /\ \A k \in 1 .. Len(q) : r[k] = q[k]
  BY AppendFacts
<1> HIDE DEF r
<1>2. From(r, i)
  BY <1>1 DEF From
<1> QED
  BY <1>2 DEF r

LEMMA FromTail ==
  ASSUME NEW q \in Seq(Event), q # <<>>, NEW i, From(q, i)
  PROVE  From(Tail(q), i)
<1> DEFINE r == Tail(q)
<1>1. /\ Len(q) \in Nat \ {0} /\ Len(r) = Len(q) - 1
      /\ \A k \in 1 .. Len(q) - 1 : r[k] = q[k + 1]
  BY TailFacts
<1> HIDE DEF r
<1>2. From(r, i)
  BY <1>1 DEF From
<1> QED
  BY <1>2 DEF r

LEMMA SortedAppend ==
  ASSUME NEW q \in Seq(Event), NEW e \in Event, NEW n \in Nat, NEW m \in Nat,
         Sorted(q, n), n <= e[2], e[2] <= m
  PROVE  Sorted(Append(q, e), m)
<1> DEFINE r == Append(q, e)
<1>1. /\ Len(q) \in Nat /\ Len(r) = Len(q) + 1 /\ r[Len(q) + 1] = e
      /\ \A k \in 1 .. Len(q) : r[k] = q[k] /\ q[k] \in Event
  BY AppendFacts
<1> HIDE DEF r
<1>2. e[2] \in Nat /\ \A k \in 1 .. Len(q) : q[k][2] \in Nat
  BY <1>1, ServiceAssumption DEF Event, Instance
<1>3. ASSUME NEW k \in 1 .. Len(r)
      PROVE  r[k][2] <= m /\ \A l \in k .. Len(r) : r[k][2] <= r[l][2]
  <2>1. CASE k = Len(q) + 1
    BY <2>1, <1>1, <1>2
  <2>2. CASE k \in 1 .. Len(q)
    <3>1. r[k] = q[k] /\ q[k][2] <= n
      BY <2>2, <1>1 DEF Sorted
    <3>2. \A l \in k .. Len(q) : q[k][2] <= q[l][2]
      BY <2>2 DEF Sorted
    <3>3. \A l \in k .. Len(r) : l = Len(q) + 1 \/ (l \in k .. Len(q) /\ r[l] = q[l])
      BY <2>2, <1>1
    <3> QED
      BY <3>1, <3>2, <3>3, <2>2, <1>1, <1>2
  <2> QED
    BY <2>1, <2>2, <1>1
<1>4. Sorted(r, m)
  BY <1>3 DEF Sorted
<1> QED
  BY <1>4 DEF r

LEMMA SortedTail ==
  ASSUME NEW q \in Seq(Event), q # <<>>, NEW n, Sorted(q, n)
  PROVE  /\ Sorted(Tail(q), n) /\ From(Tail(q), Head(q)[2])
         /\ From(q, Head(q)[2]) /\ Head(q)[2] <= n
<1> DEFINE r == Tail(q)
<1>1. /\ Len(q) \in Nat \ {0} /\ Len(r) = Len(q) - 1 /\ q[1] = Head(q)
      /\ \A k \in 1 .. Len(q) - 1 : r[k] = q[k + 1]
  BY TailFacts
<1> HIDE DEF r
<1>2. From(q, Head(q)[2]) /\ Head(q)[2] <= n
  <2>1. 1 \in 1 .. Len(q)
    BY <1>1
  <2> QED
    BY <2>1, <1>1 DEF Sorted, From
<1>3. From(r, Head(q)[2])
  BY <1>1, <1>2 DEF From
<1>4. ASSUME NEW k \in 1 .. Len(r)
      PROVE  r[k][2] <= n /\ \A l \in k .. Len(r) : r[k][2] <= r[l][2]
  <2>1. k + 1 \in 1 .. Len(q) /\ r[k] = q[k + 1]
    BY <1>1
  <2>2. \A l \in k .. Len(r) : l + 1 \in k + 1 .. Len(q) /\ r[l] = q[l + 1]
    BY <1>1
  <2> QED
    BY <2>1, <2>2 DEF Sorted
<1>5. Sorted(r, n)
  BY <1>4 DEF Sorted
<1> QED
  BY <1>2, <1>3, <1>5 DEF r

(* A start of the known instance c may be queued; so may its onDestroy, and  *)
(* then Android forgets it, and may know another.                            *)
LEMMA ClosedAppend ==
  ASSUME NEW q \in Seq(Event), NEW e \in Event, NEW c, NEW b, Closed(q, c),
         e[1] = "start" => e[2] = b,
         b = c \/ e = <<"destroy", c>> \/ c \notin Instance
  PROVE  Closed(Append(q, e), b)
<1> DEFINE r == Append(q, e)
<1>1. /\ Len(q) \in Nat /\ Len(r) = Len(q) + 1 /\ r[Len(q) + 1] = e
      /\ \A k \in 1 .. Len(q) : r[k] = q[k] /\ q[k] \in Event
  BY AppendFacts
<1> HIDE DEF r
<1>2. ASSUME NEW k \in 1 .. Len(r), r[k][1] = "start"
      PROVE  r[k][2] = b \/ \E l \in k .. Len(r) : r[l] = <<"destroy", r[k][2]>>
  <2>1. CASE k = Len(q) + 1
    BY <2>1, <1>1, <1>2
  <2>2. CASE k \in 1 .. Len(q)
    <3>1. r[k] = q[k] /\ q[k][2] \in Instance
      BY <2>2, <1>1 DEF Event
    <3>2. q[k][2] = c \/ \E l \in k .. Len(q) : q[l] = <<"destroy", q[k][2]>>
      BY <2>2, <3>1, <1>2 DEF Closed
    <3>3. CASE q[k][2] = c
      <4>1. c = b \/ e = <<"destroy", c>>
        BY <3>3, <3>1
      <4>2. Len(q) + 1 \in k .. Len(r)
        BY <2>2, <1>1
      <4> QED
        BY <4>1, <4>2, <3>3, <3>1, <1>1
    <3>4. ASSUME NEW l \in k .. Len(q), q[l] = <<"destroy", q[k][2]>>
          PROVE  \E m \in k .. Len(r) : r[m] = <<"destroy", r[k][2]>>
      <4>1. l \in k .. Len(r) /\ r[l] = q[l]
        BY <2>2, <1>1
      <4> QED
        BY <4>1, <3>4, <3>1
    <3> QED
      BY <3>2, <3>3, <3>4, <3>1
  <2> QED
    BY <2>1, <2>2, <1>1
<1>3. Closed(r, b)
  BY <1>2 DEF Closed
<1> QED
  BY <1>3 DEF r

LEMMA ClosedTail ==
  ASSUME NEW q \in Seq(Event), q # <<>>, NEW c, Closed(q, c)
  PROVE  /\ Closed(Tail(q), c)
         /\ Head(q)[1] = "start" => Head(q)[2] = c \/ Ends(Tail(q), Head(q)[2])
<1> DEFINE r == Tail(q)
<1>1. /\ Len(q) \in Nat \ {0} /\ Len(r) = Len(q) - 1 /\ q[1] = Head(q) /\ Head(q) \in Event
      /\ \A k \in 1 .. Len(q) - 1 : r[k] = q[k + 1]
  BY TailFacts
<1>t. \A i : Ends(q, i) => Head(q) = <<"destroy", i>> \/ Ends(r, i)
  BY EndsTail
<1> HIDE DEF r
<1>2. ASSUME NEW k \in 1 .. Len(r), r[k][1] = "start"
      PROVE  r[k][2] = c \/ \E l \in k .. Len(r) : r[l] = <<"destroy", r[k][2]>>
  <2>1. k + 1 \in 1 .. Len(q) /\ r[k] = q[k + 1]
    BY <1>1
  <2>2. q[k + 1][2] = c \/ \E l \in k + 1 .. Len(q) : q[l] = <<"destroy", q[k + 1][2]>>
    BY <2>1, <1>2 DEF Closed
  <2>3. ASSUME NEW l \in k + 1 .. Len(q), q[l] = <<"destroy", q[k + 1][2]>>
        PROVE  \E m \in k .. Len(r) : r[m] = <<"destroy", r[k][2]>>
    <3>1. l - 1 \in k .. Len(r) /\ r[l - 1] = q[l]
      BY <1>1, <2>1
    <3> QED
      BY <3>1, <2>3, <2>1
  <2> QED
    BY <2>1, <2>2, <2>3
<1>3. ASSUME Head(q)[1] = "start", Head(q)[2] # c PROVE Ends(r, Head(q)[2])
  <2>1. 1 \in 1 .. Len(q) /\ q[1][1] = "start"
    BY <1>1, <1>3
  <2>2. \E l \in 1 .. Len(q) : q[l] = <<"destroy", q[1][2]>>
    BY <2>1, <1>1, <1>3 DEF Closed
  <2>3. Ends(q, Head(q)[2])
    BY <2>2, <1>1 DEF Ends
  <2>4. Head(q) # <<"destroy", Head(q)[2]>>
    <3>1. SUFFICES ASSUME Head(q) = <<"destroy", Head(q)[2]>> PROVE FALSE
      OBVIOUS
    <3>2. <<"destroy", Head(q)[2]>>[1] = "destroy"
      OBVIOUS
    <3> QED
      BY <3>1, <3>2, <1>3
  <2> QED
    BY <2>3, <2>4, <1>t
<1>4. Closed(r, c)
  BY <1>2 DEF Closed
<1> QED
  BY <1>3, <1>4 DEF r

LEMMA StartsAreFinite ==
  ASSUME NEW q \in Seq(Event)
  PROVE  IsFiniteSet(StartsIn(q)) /\ Cardinality(StartsIn(q)) \in Nat
<1>1. Len(q) \in Nat
  OBVIOUS
<1>2. IsFiniteSet(1 .. Len(q))
  BY <1>1, FS_Interval
<1>3. IsFiniteSet(StartsIn(q))
  BY <1>2, FS_Subset DEF StartsIn
<1> QED
  BY <1>3, FS_CardinalityType

LEMMA StartsAppend ==
  ASSUME NEW q \in Seq(Event), NEW e \in Event
  PROVE  /\ Cardinality(StartsIn(q)) \in Nat
         /\ Cardinality(StartsIn(Append(q, e)))
              = Cardinality(StartsIn(q)) + (IF e[1] = "start" THEN 1 ELSE 0)
<1> DEFINE r == Append(q, e)
<1>1. /\ Len(q) \in Nat /\ Len(r) = Len(q) + 1 /\ r[Len(q) + 1] = e
      /\ \A k \in 1 .. Len(q) : r[k] = q[k]
  BY AppendFacts
<1> HIDE DEF r
<1>2. IsFiniteSet(StartsIn(q)) /\ Len(q) + 1 \notin StartsIn(q)
  <2>1. IsFiniteSet(1 .. Len(q))
    BY <1>1, FS_Interval
  <2> QED
    BY <2>1, <1>1, FS_Subset DEF StartsIn
<1>3. StartsIn(r) = IF e[1] = "start" THEN StartsIn(q) \cup {Len(q) + 1} ELSE StartsIn(q)
  BY <1>1 DEF StartsIn
<1>4. Cardinality(StartsIn(q) \cup {Len(q) + 1}) = Cardinality(StartsIn(q)) + 1
  BY <1>2, FS_AddElement
<1>5. Cardinality(StartsIn(q)) \in Nat
  BY <1>2, FS_CardinalityType
<1> QED
  BY <1>3, <1>4, <1>5 DEF r

LEMMA StartsTail ==
  ASSUME NEW q \in Seq(Event), q # <<>>
  PROVE  /\ Cardinality(StartsIn(q)) \in Nat /\ Cardinality(StartsIn(Tail(q))) \in Nat
         /\ Cardinality(StartsIn(q))
              = Cardinality(StartsIn(Tail(q))) + (IF Head(q)[1] = "start" THEN 1 ELSE 0)
<1> DEFINE r == Tail(q)
           S == StartsIn(q) \ {1}
           f == [k \in StartsIn(r) |-> k + 1]
<1>1. /\ Len(q) \in Nat \ {0} /\ Len(r) = Len(q) - 1 /\ q[1] = Head(q)
      /\ \A k \in 1 .. Len(q) - 1 : r[k] = q[k + 1]
  BY TailFacts
<1> HIDE DEF r
<1>2. IsFiniteSet(StartsIn(q)) /\ IsFiniteSet(StartsIn(r))
  <2>1. IsFiniteSet(1 .. Len(q)) /\ IsFiniteSet(1 .. Len(r))
    BY <1>1, FS_Interval
  <2> QED
    BY <2>1, FS_Subset DEF StartsIn
<1>3. f \in Bijection(StartsIn(r), S)
  <2>1. \A k \in StartsIn(r) : k \in Nat /\ k + 1 \in S
    BY <1>1 DEF StartsIn
  <2>2. \A k \in S : k - 1 \in StartsIn(r) /\ k \in Nat /\ k = (k - 1) + 1
    BY <1>1 DEF StartsIn
  <2>3. f \in [StartsIn(r) -> S] /\ \A a, b \in StartsIn(r) : f[a] = f[b] => a = b
    BY <2>1
  <2>4. \A k \in S : \E a \in StartsIn(r) : f[a] = k
    BY <2>2
  <2> QED
    BY <2>3, <2>4, Fun_IsBij
<1> HIDE DEF f
<1>4. Cardinality(StartsIn(r)) = Cardinality(S) /\ IsFiniteSet(S)
  <2>1. IsFiniteSet(S)
    BY <1>2, FS_Subset
  <2> QED
    BY <1>2, <1>3, <2>1, FS_Bijection DEF ExistsBijection
<1>5. Cardinality(StartsIn(q)) \in Nat /\ Cardinality(StartsIn(r)) \in Nat
  BY <1>2, FS_CardinalityType
<1>6. 1 \in StartsIn(q) <=> Head(q)[1] = "start"
  BY <1>1 DEF StartsIn
<1>7. 1 \in StartsIn(q) => Cardinality(S) = Cardinality(StartsIn(q)) - 1
  BY <1>2, FS_RemoveElement
<1>8. 1 \notin StartsIn(q) => S = StartsIn(q)
  OBVIOUS
<1> HIDE DEF S
<1>9. Cardinality(StartsIn(q))
        = Cardinality(StartsIn(r)) + (IF Head(q)[1] = "start" THEN 1 ELSE 0)
  BY <1>4, <1>5, <1>6, <1>7, <1>8
<1> QED
  BY <1>5, <1>9 DEF r

-----------------------------------------------------------------------------
(* Types.                                                                  *)

LEMMA Labels ==
  /\ KillPC["tun2socks"] = "kill_tun2socks" /\ KillPC["pdnsd"] = "kill_pdnsd"
  /\ DeletePC["tun2socks"] = "rm_tun2socks" /\ DeletePC["pdnsd"] = "rm_pdnsd"
  /\ KilledPC["tun2socks"] = "kill_pdnsd" /\ KilledPC["pdnsd"] = "close_fd"
  /\ Launched["tun2socks"] = {"sendfd", "kill_tun2socks"}
  /\ Launched["pdnsd"] = {"tun2socks", "sendfd", "kill_tun2socks", "rm_tun2socks", "kill_pdnsd"}
BY DEF KillPC, DeletePC, KilledPC, Launched

LEMMA StopLabels ==
  StopPC = {"kill_tun2socks", "rm_tun2socks", "kill_pdnsd", "rm_pdnsd",
            "close_fd", "undeploy", "clear_id", "stop_self"}
BY Labels DEF StopPC, Daemon

(* The values of pc.                                                        *)
Label == {"idle"} \cup StartPC \cup StopPC

LEMMA Entered ==
  ASSUME TypeOK, NEW t \in Thread, NEW l \in Label, NEW i \in 0 .. MaxStarts + MaxDeaths,
         Enter(t, l, i)
  PROVE  /\ pc' \in [Thread -> Label] /\ inst' \in [Thread -> 0 .. MaxStarts + MaxDeaths]
         /\ pc'[t] = l /\ inst'[t] = i
         /\ \A u \in Thread : u # t => pc'[u] = pc[u] /\ inst'[u] = inst[u]
BY DEF TypeOK, Enter, Label

LEMMA Gone ==
  ASSUME TypeOK, NEW t \in Thread, NEW l \in Label, Goto(t, l)
  PROVE  /\ pc' \in [Thread -> Label] /\ inst' \in [Thread -> 0 .. MaxStarts + MaxDeaths]
         /\ pc'[t] = l /\ inst'[t] = IF l = "idle" THEN 0 ELSE inst[t]
         /\ \A u \in Thread : u # t => pc'[u] = pc[u] /\ inst'[u] = inst[u]
<1>1. (IF l = "idle" THEN 0 ELSE inst[t]) \in 0 .. MaxStarts + MaxDeaths
  BY ServiceAssumption DEF TypeOK
<1> QED
  BY <1>1, Entered DEF Goto

LEMMA Labelled ==
  /\ \A l \in StartPC \cup StopPC : l \in Label /\ l # "idle"
  /\ "idle" \in Label /\ "main" \in Thread
  /\ \A b \in Binder : b \in Thread /\ b # "main"
BY StopLabels, ServiceAssumption DEF Label, StartPC, Thread

LEMMA ProcTypes ==
  ASSUME TypeOK, NEW d, NEW r, NEW s \in {"none", "boot", "wait", "run"},
         proc' = [proc EXCEPT ![d][r] = s]
  PROVE  proc' \in [Daemon -> [Run -> {"none", "boot", "wait", "run"}]]
BY DEF TypeOK

LEMMA StartVpnTypes == ASSUME Control, startVpn PROVE TypeOK'
<1> USE DEF Control
<1>1. insts + 1 \in Instance /\ insts \in Nat /\ starts + 1 \in 0 .. MaxStarts
  BY ServiceAssumption DEF startVpn, Counted, TypeOK, Instance
<1>2. cur' \in Instance /\ <<"start", cur'>> \in Event
  BY <1>1 DEF startVpn, TypeOK, Event, Instance
<1>3. queue' \in Seq(Event)
  BY <1>2, AppendFacts DEF startVpn, TypeOK, Event
<1>4. insts' \in 0 .. MaxStarts + MaxDeaths /\ cur' \in 0 .. MaxStarts + MaxDeaths
  BY <1>1, <1>2 DEF startVpn, TypeOK, Instance
<1> QED
  BY <1>1, <1>3, <1>4 DEF startVpn, TypeOK, Event, launcherVars, nativeVars

LEMMA DieTypes ==
  ASSUME Control, deaths < MaxDeaths, Die, UNCHANGED <<starts, run, nativeVars>>
  PROVE  TypeOK'
<1> USE DEF Control
<1>1. insts + 1 \in Instance /\ insts \in Nat /\ deaths + 1 \in 0 .. MaxDeaths
  BY ServiceAssumption DEF Counted, TypeOK, Instance
<1>2. <<"sticky", insts + 1>> \in Event /\ insts + 1 \in 0 .. MaxStarts + MaxDeaths
  BY <1>1 DEF Event, Instance
<1>3. queue' \in Seq(Event) /\ insts' \in 0 .. MaxStarts + MaxDeaths
      /\ cur' \in 0 .. MaxStarts + MaxDeaths
  BY <1>1, <1>2, ServiceAssumption DEF Die, TypeOK
<1>4. /\ pc' \in [Thread -> {"idle"} \cup StartPC \cup StopPC]
      /\ inst' \in [Thread -> 0 .. MaxStarts + MaxDeaths] /\ tries' \in 0 .. SendAttempts
      /\ mRunning' \in [Instance -> BOOLEAN] /\ fd' \in [Instance -> {"none", "open"}]
      /\ vert' \in [Run -> {"none", "deploying", "deployed", "gone"}]
      /\ ID' \in 0 .. MaxStarts /\ raced' \subseteq Run /\ bound' \in 0 .. MaxStarts + MaxDeaths
  BY ServiceAssumption DEF Die
<1> QED
  BY <1>1, <1>3, <1>4 DEF Die, TypeOK, Event, nativeVars

(* A call enters or goes on: pc and inst keep their types.                   *)
LEMMA EnterTypes ==
  ASSUME TypeOK, NEW t \in Thread, NEW l \in Label, NEW i \in 0 .. MaxStarts + MaxDeaths,
         Enter(t, l, i)
  PROVE  /\ pc' \in [Thread -> {"idle"} \cup StartPC \cup StopPC]
         /\ inst' \in [Thread -> 0 .. MaxStarts + MaxDeaths]
BY Entered DEF Label

LEMMA GotoTypes ==
  ASSUME TypeOK, NEW t \in Thread, NEW l \in Label, Goto(t, l)
  PROVE  /\ pc' \in [Thread -> {"idle"} \cup StartPC \cup StopPC]
         /\ inst' \in [Thread -> 0 .. MaxStarts + MaxDeaths]
BY Gone DEF Label

LEMMA MainEventTypes == ASSUME Control, MainEvent PROVE TypeOK'
<1> USE DEF Control
<1>1. Head(queue) \in Event /\ Tail(queue) \in Seq(Event)
  BY TailFacts DEF MainEvent, TypeOK, Event
<1>2. Head(queue)[2] \in 0 .. MaxStarts + MaxDeaths
  BY <1>1 DEF Event, Instance
<1>3. "kill_tun2socks" \in Label /\ "configure" \in Label /\ "main" \in Thread
  BY Labelled, StopLabels DEF StartPC
<1>4. /\ pc' \in [Thread -> {"idle"} \cup StartPC \cup StopPC]
      /\ inst' \in [Thread -> 0 .. MaxStarts + MaxDeaths]
  BY <1>2, <1>3, EnterTypes DEF MainEvent, TypeOK
<1> QED
  BY <1>1, <1>4 DEF MainEvent, TypeOK, Event, launcherVars, nativeVars

LEMMA StartTypes ==
  ASSUME Control, configure \/ LauncherStart \/ ExecPdnsd \/ ExecTun2socks \/ sendfd
  PROVE  TypeOK'
<1> USE DEF Control
<1>1. /\ {"idle", "launch", "pdnsd", "tun2socks", "sendfd", "kill_tun2socks"} \subseteq Label
      /\ "main" \in Thread /\ pc["main"] # "idle" /\ inst["main"] \in Instance
  BY Labelled, StopLabels
     DEF StartPC, Label, Busy, configure, LauncherStart, ExecPdnsd, ExecTun2socks, sendfd
<1>2. CASE configure
  <2>1. fd' \in [Instance -> {"none", "open"}]
    BY <1>2 DEF configure, TypeOK
  <2>2. /\ pc' \in [Thread -> {"idle"} \cup StartPC \cup StopPC]
        /\ inst' \in [Thread -> 0 .. MaxStarts + MaxDeaths]
    BY <1>1, <1>2, GotoTypes DEF configure
  <2> QED
    BY <2>1, <2>2, <1>2 DEF configure, TypeOK, amsVars, launcherVars, nativeVars
<1>3. CASE LauncherStart
  <2>1. run + 1 \in Run /\ run + 1 \in 0 .. MaxStarts
    <3>1. Cardinality(StartsIn(queue)) \in Nat
      BY StartsAreFinite DEF TypeOK, Event
    <3> QED
      BY <1>3, <3>1, ServiceAssumption DEF LauncherStart, TypeOK, Counted, Run
  <2>2. vert' \in [Run -> {"none", "deploying", "deployed", "gone"}]
    BY <1>3, <2>1 DEF LauncherStart, TypeOK
  <2>3. /\ pc' \in [Thread -> {"idle"} \cup StartPC \cup StopPC]
        /\ inst' \in [Thread -> 0 .. MaxStarts + MaxDeaths]
    BY <1>1, <1>3, GotoTypes DEF LauncherStart
  <2> QED
    BY <2>1, <2>2, <2>3, <1>3 DEF LauncherStart, TypeOK, amsVars, nativeVars
<1>4. ASSUME NEW d \in Daemon, NEW s \in {"none", "boot", "run"}, Spawn(d, s)
      PROVE  /\ proc' \in [Daemon -> [Run -> {"none", "boot", "wait", "run"}]]
             /\ pidfile' \in [Daemon -> 0 .. MaxStarts]
  BY <1>4 DEF Spawn, TypeOK
<1>5. CASE ExecPdnsd
  <2>1. /\ proc' \in [Daemon -> [Run -> {"none", "boot", "wait", "run"}]]
        /\ pidfile' \in [Daemon -> 0 .. MaxStarts]
    <3>1. CASE UNCHANGED <<proc, pidfile>>
      BY <3>1 DEF TypeOK
    <3>2. CASE ~UNCHANGED <<proc, pidfile>>
      <4>1. \E s \in {"none", "boot", "run"} : Spawn("pdnsd", s)
        BY <3>2, <1>5 DEF ExecPdnsd
      <4>2. "pdnsd" \in Daemon
        BY DEF Daemon
      <4> QED
        BY <4>1, <4>2, <1>4
    <3> QED
      BY <3>1, <3>2
  <2>2. /\ pc' \in [Thread -> {"idle"} \cup StartPC \cup StopPC]
        /\ inst' \in [Thread -> 0 .. MaxStarts + MaxDeaths]
    BY <1>1, <1>5, GotoTypes DEF ExecPdnsd
  <2> QED
    BY <2>1, <2>2, <1>5 DEF ExecPdnsd, TypeOK, amsVars, launcherVars
<1>6. CASE ExecTun2socks
  <2>1. /\ proc' \in [Daemon -> [Run -> {"none", "boot", "wait", "run"}]]
        /\ pidfile' \in [Daemon -> 0 .. MaxStarts] /\ tries' \in 0 .. SendAttempts
    <3>1. CASE UNCHANGED <<proc, pidfile, tries>>
      BY <3>1 DEF TypeOK
    <3>2. CASE Spawn("tun2socks", "boot") /\ tries' = SendAttempts
      <4>1. "tun2socks" \in Daemon /\ "boot" \in {"none", "boot", "run"}
        BY DEF Daemon
      <4>2. tries' \in 0 .. SendAttempts
        BY <3>2, ServiceAssumption
      <4> QED
        BY <4>1, <4>2, <3>2, <1>4
    <3> QED
      BY <3>1, <3>2, <1>6 DEF ExecTun2socks
  <2>2. /\ pc' \in [Thread -> {"idle"} \cup StartPC \cup StopPC]
        /\ inst' \in [Thread -> 0 .. MaxStarts + MaxDeaths]
    BY <1>1, <1>6, GotoTypes DEF ExecTun2socks
  <2> QED
    BY <2>1, <2>2, <1>6 DEF ExecTun2socks, TypeOK, amsVars, launcherVars
<1>7. CASE sendfd
  <2>1. tries' \in 0 .. SendAttempts
    BY <1>7, ServiceAssumption DEF sendfd, TypeOK, Counted
  <2>a. proc' \in [Daemon -> [Run -> {"none", "boot", "wait", "run"}]]
    BY <1>7, ProcTypes DEF sendfd, TypeOK
  <2>b. got' \in [Run -> 0 .. MaxStarts + MaxDeaths]
    <3>1. inst["main"] \in 0 .. MaxStarts + MaxDeaths
      BY <1>1 DEF Instance
    <3> QED
      BY <1>7, <3>1 DEF sendfd, TypeOK
  <2>2. mRunning' \in [Instance -> BOOLEAN]
    BY <1>7 DEF sendfd, TypeOK
  <2>3. path' \in 0 .. MaxStarts
    BY <1>7, ServiceAssumption DEF sendfd, TypeOK
  <2>4. /\ pc' \in [Thread -> {"idle"} \cup StartPC \cup StopPC]
        /\ inst' \in [Thread -> 0 .. MaxStarts + MaxDeaths]
    BY <1>1, <1>7, GotoTypes DEF sendfd
  <2> QED
    BY <2>a, <2>b, <2>1, <2>2, <2>3, <2>4, <1>7 DEF sendfd, TypeOK, amsVars, launcherVars
<1> QED
  BY <1>2, <1>3, <1>5, <1>6, <1>7

LEMMA StopTypes == ASSUME Control, NEW t \in Thread, stopMe(t) PROVE TypeOK'
<1> USE DEF Control
<1>1. /\ {"idle", "kill_tun2socks", "rm_tun2socks", "kill_pdnsd", "rm_pdnsd",
          "close_fd", "undeploy", "clear_id", "stop_self"} \subseteq Label
      /\ \A d \in Daemon : DeletePC[d] \in Label /\ KilledPC[d] \in Label
  BY Labelled, StopLabels, Labels DEF Label, Daemon
<1>2. ASSUME NEW d \in Daemon, Kill(t, d) PROVE TypeOK'
  <2>1. proc' \in [Daemon -> [Run -> {"none", "boot", "wait", "run"}]]
    <3>1. proc[d][pidfile[d]] = "boot" \/ pidfile[d] = 0 \/ UNCHANGED proc
      <4>1. ASSUME proc[d][pidfile[d]] # "boot", pidfile[d] # 0 PROVE UNCHANGED proc
        BY <1>2, <4>1 DEF Kill, TypeOK
      <4> QED
        BY <4>1
    <3>2. ASSUME proc[d][pidfile[d]] = "boot", pidfile[d] # 0
          PROVE  proc' = [proc EXCEPT ![d][pidfile[d]] = "none"]
      BY <1>2, <3>2 DEF Kill, TypeOK
    <3>3. pidfile[d] = 0 => UNCHANGED proc
      BY <1>2 DEF Kill
    <3> QED
      BY <3>1, <3>2, <3>3, ProcTypes DEF TypeOK
  <2>2. term' \subseteq Process
    <3>1. pidfile[d] # 0 => <<d, pidfile[d]>> \in Process
      BY ServiceAssumption DEF TypeOK, Process, Run
    <3> QED
      BY <3>1, <1>2 DEF Kill, TypeOK, Alive
  <2>3. /\ pc' \in [Thread -> {"idle"} \cup StartPC \cup StopPC]
        /\ inst' \in [Thread -> 0 .. MaxStarts + MaxDeaths]
    BY <1>1, <1>2, GotoTypes DEF Kill
  <2> QED
    BY <2>1, <2>2, <2>3, <1>2 DEF Kill, TypeOK, amsVars, launcherVars
<1>3. ASSUME NEW d \in Daemon, DeletePidFile(t, d) PROVE TypeOK'
  <2>1. unread' \subseteq Process
    <3>1. pidfile[d] # 0 => <<d, pidfile[d]>> \in Process
      BY ServiceAssumption DEF TypeOK, Process, Run
    <3> QED
      BY <3>1, <1>3 DEF DeletePidFile, TypeOK, Alive
  <2>2. pidfile' \in [Daemon -> 0 .. MaxStarts]
    BY <1>3, ServiceAssumption DEF DeletePidFile, TypeOK
  <2>3. /\ pc' \in [Thread -> {"idle"} \cup StartPC \cup StopPC]
        /\ inst' \in [Thread -> 0 .. MaxStarts + MaxDeaths]
    BY <1>1, <1>3, GotoTypes DEF DeletePidFile
  <2> QED
    BY <2>1, <2>2, <2>3, <1>3 DEF DeletePidFile, TypeOK, amsVars, launcherVars
<1>4. CASE CloseFd(t)
  <2>1. fd' \in [Instance -> {"none", "open"}]
    BY <1>4 DEF CloseFd, TypeOK
  <2>2. /\ pc' \in [Thread -> {"idle"} \cup StartPC \cup StopPC]
        /\ inst' \in [Thread -> 0 .. MaxStarts + MaxDeaths]
    BY <1>1, <1>4, GotoTypes DEF CloseFd
  <2> QED
    BY <2>1, <2>2, <1>4 DEF CloseFd, TypeOK, amsVars, launcherVars, nativeVars
<1>5. CASE LauncherStop(t)
  <2>1. vert' \in [Run -> {"none", "deploying", "deployed", "gone"}] /\ raced' \subseteq Run
    BY <1>5 DEF LauncherStop, TypeOK
  <2>2. /\ pc' \in [Thread -> {"idle"} \cup StartPC \cup StopPC]
        /\ inst' \in [Thread -> 0 .. MaxStarts + MaxDeaths]
    BY <1>1, <1>5, GotoTypes DEF LauncherStop
  <2> QED
    BY <2>1, <2>2, <1>5 DEF LauncherStop, TypeOK, amsVars, nativeVars
<1>6. CASE LauncherStopThrows(t)
  <2>1. CASE t = "main"
    BY <2>1, <1>6, DieTypes DEF LauncherStopThrows
  <2>2. CASE t # "main"
    <3>1. raced' \subseteq Run
      BY <2>2, <1>6 DEF LauncherStopThrows, TypeOK
    <3>2. /\ pc' \in [Thread -> {"idle"} \cup StartPC \cup StopPC]
          /\ inst' \in [Thread -> 0 .. MaxStarts + MaxDeaths]
      BY <1>1, <2>2, <1>6, GotoTypes DEF LauncherStopThrows
    <3> QED
      BY <3>1, <3>2, <2>2, <1>6 DEF LauncherStopThrows, TypeOK, amsVars, nativeVars
  <2> QED
    BY <2>1, <2>2
<1>7. CASE ClearID(t)
  <2>1. ID' \in 0 .. MaxStarts
    BY <1>7, ServiceAssumption DEF ClearID
  <2>2. /\ pc' \in [Thread -> {"idle"} \cup StartPC \cup StopPC]
        /\ inst' \in [Thread -> 0 .. MaxStarts + MaxDeaths]
    BY <1>1, <1>7, GotoTypes DEF ClearID
  <2> QED
    BY <2>1, <2>2, <1>7 DEF ClearID, TypeOK, amsVars, nativeVars
<1>8. CASE StopSelf(t)
  <2>1. pc[t] # "idle" /\ inst[t] \in Instance
    BY <1>8 DEF StopSelf, Busy
  <2>2. cur = inst[t] => <<"destroy", cur>> \in Event
    BY <2>1 DEF Event
  <2>3. queue' \in Seq(Event) /\ cur' \in 0 .. MaxStarts + MaxDeaths
    BY <1>8, <2>2, AppendFacts, ServiceAssumption DEF StopSelf, TypeOK, Event
  <2>4. /\ pc' \in [Thread -> {"idle"} \cup StartPC \cup StopPC]
        /\ inst' \in [Thread -> 0 .. MaxStarts + MaxDeaths]
    BY <1>1, <1>8, GotoTypes DEF StopSelf
  <2> QED
    BY <2>3, <2>4, <1>8 DEF StopSelf, TypeOK, Event, launcherVars, nativeVars
<1> QED
  BY <1>2, <1>3, <1>4, <1>5, <1>6, <1>7, <1>8 DEF stopMe

LEMMA OtherTypes ==
  ASSUME Control,
         \/ onBind \/ Rest \/ UNCHANGED vars
         \/ \E b \in Binder : BinderStop(b) \/ onRevoke(b)
         \/ \E r \in Run : \/ Deployed(r) \/ DeployFails(r) \/ Listen(r)
                           \/ \E d \in Daemon : DaemonExits(d, r)
  PROVE  TypeOK'
<1> USE DEF Control
<1>1. CASE onBind
  BY <1>1 DEF onBind, TypeOK, launcherVars, nativeVars
<1>2. CASE Rest \/ UNCHANGED vars
  BY <1>2 DEF Rest, vars, TypeOK, amsVars, launcherVars, nativeVars
<1>3. ASSUME NEW b \in Binder, NEW i \in 0 .. MaxStarts + MaxDeaths, EnterStop(b, i)
      PROVE  /\ pc' \in [Thread -> {"idle"} \cup StartPC \cup StopPC]
             /\ inst' \in [Thread -> 0 .. MaxStarts + MaxDeaths]
  <2>1. "kill_tun2socks" \in Label /\ b \in Thread
    BY Labelled, StopLabels
  <2> QED
    BY <2>1, <1>3, EnterTypes DEF EnterStop
<1>4. ASSUME NEW b \in Binder, BinderStop(b) PROVE TypeOK'
  <2>1. /\ pc' \in [Thread -> {"idle"} \cup StartPC \cup StopPC]
        /\ inst' \in [Thread -> 0 .. MaxStarts + MaxDeaths]
    BY <1>3, <1>4 DEF BinderStop, TypeOK
  <2>2. bound' \in 0 .. MaxStarts + MaxDeaths
    BY <1>4, ServiceAssumption DEF BinderStop
  <2> QED
    BY <2>1, <2>2, <1>4 DEF BinderStop, TypeOK, launcherVars, nativeVars
<1>5. ASSUME NEW b \in Binder, onRevoke(b) PROVE TypeOK'
  <2>1. /\ pc' \in [Thread -> {"idle"} \cup StartPC \cup StopPC]
        /\ inst' \in [Thread -> 0 .. MaxStarts + MaxDeaths]
    BY <1>3, <1>5 DEF onRevoke, TypeOK
  <2>2. <<"destroy", cur>> \in Event
    BY <1>5, ServiceAssumption DEF onRevoke, TypeOK, Event, Instance
  <2>3. queue' \in Seq(Event) /\ cur' \in 0 .. MaxStarts + MaxDeaths
    BY <1>5, <2>2, AppendFacts, ServiceAssumption DEF onRevoke, TypeOK, Event
  <2> QED
    BY <2>1, <2>3, <1>5 DEF onRevoke, TypeOK, Event, launcherVars, nativeVars
<1>6. ASSUME NEW r \in Run, Deployed(r) PROVE TypeOK'
  <2>1. vert' \in [Run -> {"none", "deploying", "deployed", "gone"}]
    BY <1>6 DEF Deployed, TypeOK
  <2>2. raced' \subseteq Run
    BY <1>6 DEF Deployed, TypeOK
  <2>3. ID' \in 0 .. MaxStarts
    BY <1>6, ServiceAssumption DEF Deployed, Run
  <2> QED
    BY <2>1, <2>2, <2>3, <1>6 DEF Deployed, TypeOK, amsVars, nativeVars
<1>7. ASSUME NEW r \in Run, DeployFails(r) PROVE TypeOK'
  <2>1. vert' \in [Run -> {"none", "deploying", "deployed", "gone"}] /\ raced' \subseteq Run
    BY <1>7 DEF DeployFails, TypeOK
  <2> QED
    BY <2>1, <1>7 DEF DeployFails, TypeOK, amsVars, nativeVars
<1>8. ASSUME NEW r \in Run, Listen(r) PROVE TypeOK'
  <2>a. proc' \in [Daemon -> [Run -> {"none", "boot", "wait", "run"}]]
    BY <1>8, ProcTypes DEF Listen, TypeOK
  <2>1. unread' \subseteq Process
    BY <1>8 DEF Listen, TypeOK
  <2>2. path' \in 0 .. MaxStarts
    BY <1>8, ServiceAssumption DEF Listen, TypeOK, Run
  <2> QED
    BY <2>a, <2>1, <2>2, <1>8 DEF Listen, TypeOK, amsVars, launcherVars
<1>9. ASSUME NEW r \in Run, NEW d \in Daemon, DaemonExits(d, r) PROVE TypeOK'
  <2>1. /\ proc' \in [Daemon -> [Run -> {"none", "boot", "wait", "run"}]]
        /\ unread' \subseteq Process /\ term' \subseteq Process
    BY <1>9 DEF DaemonExits, TypeOK
  <2> QED
    BY <2>1, <1>9 DEF DaemonExits, TypeOK, amsVars, launcherVars
<1> QED
  BY <1>1, <1>2, <1>4, <1>5, <1>6, <1>7, <1>8, <1>9

-----------------------------------------------------------------------------
(* Control is inductive.                                                   *)

(* Steps that leave the main thread and the queue alone.                     *)
LEMMA ControlKept ==
  ASSUME Control, TypeOK', Busy',
         UNCHANGED <<starts, insts, cur, queue, tries, deaths, run>>,
         pc'["main"] = pc["main"], inst'["main"] = inst["main"],
         \A i \in Instance : fd'[i] = "open" => fd[i] = "open"
  PROVE  Control'
<1>1. Counted' /\ Ordered' /\ Undone'
  BY DEF Control, Counted, Ordered, Undone, Pending
<1>2. Held'
  BY DEF Control, Held, Pending
<1> QED
  BY <1>1, <1>2 DEF Control

(* Steps of the main thread that take nothing from the queue.                *)
LEMMA MainGoes ==
  ASSUME Control, TypeOK', Busy', NEW l, pc["main"] # "idle", pc'["main"] = l,
         l # "idle" => inst'["main"] = inst["main"],
         UNCHANGED <<starts, insts, cur, queue, deaths>>,
         run' + (IF l \in {"configure", "launch"} THEN 1 ELSE 0)
           <= run + (IF pc["main"] \in {"configure", "launch"} THEN 1 ELSE 0),
         l = "sendfd" => tries' > 0,
         l \in StartPC => pc["main"] \in StartPC,
         \A i \in Instance : fd'[i] = "open" =>
           \/ i = inst["main"] /\ pc["main"] \in StartPC
           \/ fd[i] = "open" /\ (pc["main"] \in BeforeClose /\ i = inst["main"] => l \in BeforeClose)
  PROVE  Control'
<1>1. Counted'
  <2>1. Cardinality(StartsIn(queue)) \in Nat
    BY StartsAreFinite DEF Control, TypeOK, Event
  <2>2. /\ insts' <= starts' + deaths' /\ cur' \in {0, insts'}
        /\ pc'["main"] = "sendfd" => tries' > 0
    BY DEF Control, Counted
  <2>3. run \in Nat /\ run' \in Nat /\ starts \in Nat
    BY ServiceAssumption DEF Control, TypeOK
  <2>4. run' + Cardinality(StartsIn(queue')) + (IF l \in {"configure", "launch"} THEN 1 ELSE 0)
          <= starts'
    BY <2>1, <2>3 DEF Control, Counted
  <2> QED
    BY <2>2, <2>4 DEF Counted
<1>2. Ordered' /\ Undone'
  <2>1. l # "idle" => From(queue', inst'["main"]) /\ inst'["main"] <= insts'
    BY DEF Control, Ordered
  <2>2. l \in StartPC => Pending(inst["main"])' /\ inst'["main"] = inst["main"]
    BY DEF Control, Undone, Pending, StartPC
  <2>3. Sorted(queue', insts') /\ Closed(queue', cur')
    BY DEF Control, Ordered, Undone
  <2> QED
    BY <2>1, <2>2, <2>3 DEF Ordered, Undone, Pending
<1>3. Held'
  <2>1. SUFFICES ASSUME NEW i \in Instance, fd'[i] = "open"
                 PROVE  Pending(i)' \/ (inst'["main"] = i /\ pc'["main"] \in BeforeClose)
    BY DEF Held
  <2>2. Pending(i)' <=> Pending(i)
    BY DEF Pending
  <2>3. CASE i = inst["main"] /\ pc["main"] \in StartPC
    BY <2>2, <2>3 DEF Control, Undone
  <2>4. CASE fd[i] = "open" /\ (pc["main"] \in BeforeClose /\ i = inst["main"] => l \in BeforeClose)
    <3>1. Pending(i) \/ (inst["main"] = i /\ pc["main"] \in BeforeClose)
      BY <2>4 DEF Control, Held
    <3> QED
      BY <2>2, <2>4, <3>1 DEF BeforeClose
  <2> QED
    BY <2>1, <2>3, <2>4
<1> QED
  BY <1>1, <1>2, <1>3 DEF Control

LEMMA StartVpnControl == ASSUME Control, startVpn PROVE Control'
<1>1. TypeOK'
  BY StartVpnTypes
<1> USE DEF Control
<1>2. UNCHANGED <<pc, inst, run, tries, fd, deaths>> /\ starts' = starts + 1
  BY DEF startVpn
<1> DEFINE c == cur'
<1>3. /\ c \in Instance /\ c = insts' /\ <<"start", c>> \in Event /\ insts' \in Nat
      /\ insts \in Nat /\ insts <= c /\ (cur = c \/ cur = 0) /\ insts' <= insts + 1
      /\ (cur # 0 => insts' = insts)
  <2>1. insts + 1 \in Instance /\ insts \in Nat
    BY ServiceAssumption DEF startVpn, Counted, TypeOK, Instance
  <2>2. CASE cur = 0
    BY <2>1, <2>2 DEF startVpn, Event, Instance
  <2>3. CASE cur # 0
    <3>1. cur = insts /\ c = cur /\ insts' = insts /\ c \in Instance
      BY <2>1, <2>3 DEF startVpn, Counted, TypeOK, Instance
    <3> QED
      BY <3>1, <2>1 DEF Event
  <2> QED
    BY <2>2, <2>3
<1>4. queue \in Seq(Event) /\ queue' = Append(queue, <<"start", c>>)
  BY DEF TypeOK, Event, startVpn
<1> HIDE DEF c
<1>5. Busy'
  BY <1>2 DEF Busy
<1>6. Counted'
  <2>1. /\ Cardinality(StartsIn(queue)) \in Nat
        /\ Cardinality(StartsIn(queue')) = Cardinality(StartsIn(queue)) + 1
    BY <1>3, <1>4, StartsAppend
  <2>2. run \in Nat /\ starts \in Nat /\ deaths \in Nat
    BY ServiceAssumption DEF TypeOK
  <2>3. cur' \in {0, insts'} /\ insts' <= starts' + deaths'
    BY <1>2, <1>3, <2>2 DEF Counted, c
  <2> QED
    BY <1>2, <2>1, <2>2, <2>3 DEF Counted
<1>7. Ordered'
  <2>1. Sorted(queue', insts')
    BY <1>3, <1>4, SortedAppend DEF Ordered
  <2>2. ASSUME pc["main"] # "idle" PROVE From(queue', inst["main"]) /\ inst["main"] <= insts'
    <3>1. /\ From(queue, inst["main"]) /\ inst["main"] <= insts /\ inst["main"] \in Nat
          /\ inst["main"] <= c
      <4>1. inst["main"] \in Instance
        BY <2>2, Labelled DEF Busy
      <4>2. inst["main"] \in Nat /\ inst["main"] <= insts
        BY <4>1, <2>2, ServiceAssumption DEF Instance, Ordered
      <4> QED
        BY <4>2, <2>2, <1>3 DEF Ordered
    <3>2. From(queue', inst["main"])
      BY <3>1, <1>3, <1>4, FromAppend
    <3> QED
      BY <3>1, <3>2, <1>3
  <2> QED
    BY <2>1, <2>2, <1>2 DEF Ordered
<1>8. \A i \in Instance : Pending(i) => Pending(i)'
  <2>1. SUFFICES ASSUME NEW i \in Instance, Pending(i) PROVE Pending(i)'
    OBVIOUS
  <2>2. i # 0
    BY ServiceAssumption DEF Instance
  <2> QED
    BY <2>1, <2>2, <1>3, <1>4, EndsAppend DEF Pending, c
<1>9. Undone'
  <2>1. cur = c \/ cur \notin Instance
    BY <1>3, ServiceAssumption DEF Instance
  <2>2. Closed(queue', c)
    BY <2>1, <1>3, <1>4, ClosedAppend DEF Undone
  <2>3. pc["main"] \in StartPC => inst["main"] \in Instance
    BY Labelled DEF Busy, StartPC
  <2> QED
    BY <2>2, <2>3, <1>2, <1>8 DEF Undone, c, Pending
<1>10. Held'
  <2>1. ASSUME NEW i \in Instance, fd'[i] = "open"
        PROVE  Pending(i)' \/ (inst'["main"] = i /\ pc'["main"] \in BeforeClose)
    BY <2>1, <1>2, <1>8 DEF Held
  <2> QED
    BY <2>1 DEF Held
<1> QED
  BY <1>1, <1>5, <1>6, <1>7, <1>9, <1>10

LEMMA DieControl ==
  ASSUME Control, deaths < MaxDeaths, Die, UNCHANGED <<starts, run, nativeVars>>
  PROVE  Control'
<1>1. TypeOK'
  BY DieTypes
<1> USE DEF Control
<1>2. /\ pc'["main"] = "idle" /\ \A t \in Thread : pc'[t] = "idle"
      /\ \A i \in Instance : fd'[i] = "none"
  BY Labelled DEF Die
<1>3. Busy' /\ Held'
  BY <1>2 DEF Busy, Held
<1>4. /\ run \in Nat /\ starts \in Nat /\ deaths \in Nat /\ insts \in Nat
      /\ deaths' = deaths + 1 /\ UNCHANGED <<run, starts>> /\ run <= starts
  <2>1. Cardinality(StartsIn(queue)) \in Nat
    BY StartsAreFinite DEF TypeOK, Event
  <2>2. run \in Nat /\ starts \in Nat /\ deaths \in Nat /\ insts \in Nat
    BY ServiceAssumption DEF TypeOK
  <2> QED
    BY <2>1, <2>2 DEF Counted, Die
<1>5. CASE cur = 0
  <2>1. queue' = <<>> /\ insts' = insts /\ cur' = 0
    BY <1>5 DEF Die
  <2>2. Cardinality(StartsIn(queue')) = 0
    BY <2>1, EmptyQueue, FS_EmptySet
  <2>3. Counted'
    BY <1>2, <1>4, <2>1, <2>2 DEF Counted
  <2>4. Ordered' /\ Undone'
    BY <2>1, <1>2, EmptyQueue DEF Ordered, Undone, StartPC
  <2> QED
    BY <2>3, <2>4, <1>1, <1>3
<1>6. CASE cur # 0
  <2>1. queue' = << <<"sticky", insts + 1>> >> /\ insts' = insts + 1 /\ cur' = insts + 1
    BY <1>6 DEF Die
  <2>2. StartsIn(queue') = {}
    BY <2>1 DEF StartsIn
  <2>3. Cardinality(StartsIn(queue')) = 0
    BY <2>2, FS_EmptySet
  <2>4. Counted'
    BY <1>2, <1>4, <2>1, <2>3 DEF Counted
  <2>5. Sorted(queue', insts') /\ Closed(queue', cur')
    BY <2>1, <1>4 DEF Sorted, Closed
  <2>6. Ordered' /\ Undone'
    BY <2>5, <1>2 DEF Ordered, Undone, StartPC
  <2> QED
    BY <2>4, <2>6, <1>1, <1>3
<1> QED
  BY <1>5, <1>6

LEMMA MainEventControl == ASSUME Control, MainEvent PROVE Control'
<1>1. TypeOK'
  BY MainEventTypes
<1> USE DEF Control
<1> DEFINE h == Head(queue)
<1>2. /\ pc["main"] = "idle" /\ queue \in Seq(Event) /\ queue # <<>> /\ queue' = Tail(queue)
      /\ UNCHANGED <<starts, insts, cur, deaths, run, tries, fd>>
  BY DEF MainEvent, TypeOK, Event
<1>3. h \in Event /\ h[2] \in Instance /\ h[1] \in {"start", "sticky", "destroy"}
  BY <1>2, TailFacts DEF Event
<1>4. /\ \/ h[1] = "destroy" /\ pc'["main"] = "kill_tun2socks" /\ inst'["main"] = h[2]
         \/ h[1] = "start" /\ pc'["main"] = "configure" /\ inst'["main"] = h[2]
         \/ h[1] # "destroy" /\ pc'["main"] = "idle"
      /\ \A t \in Thread : t # "main" => pc'[t] = pc[t] /\ inst'[t] = inst[t]
  <2>1. "kill_tun2socks" \in Label /\ "configure" \in Label /\ "main" \in Thread
    BY Labelled, StopLabels DEF StartPC
  <2>2. h[2] \in 0 .. MaxStarts + MaxDeaths
    BY <1>3 DEF Instance
  <2>3. CASE h[1] = "destroy" /\ Enter("main", "kill_tun2socks", h[2])
    BY <2>1, <2>2, <2>3, Entered
  <2>4. CASE h[1] = "start" /\ Enter("main", "configure", h[2])
    BY <2>1, <2>2, <2>4, Entered
  <2>5. CASE h[1] # "destroy" /\ UNCHANGED <<pc, inst>>
    BY <2>5, <1>2
  <2> QED
    BY <2>3, <2>4, <2>5 DEF MainEvent
<1>5. /\ Sorted(queue', insts) /\ From(queue', h[2]) /\ h[2] <= insts
      /\ Closed(queue', cur) /\ (h[1] = "start" => h[2] = cur \/ Ends(queue', h[2]))
  BY <1>2, SortedTail, ClosedTail DEF Ordered, Undone
<1>6. \A i \in Instance : Ends(queue, i) => h = <<"destroy", i>> \/ Ends(queue', i)
  BY <1>2, EndsTail
<1>7. /\ Cardinality(StartsIn(queue)) \in Nat /\ Cardinality(StartsIn(queue')) \in Nat
      /\ Cardinality(StartsIn(queue))
           = Cardinality(StartsIn(queue')) + (IF h[1] = "start" THEN 1 ELSE 0)
  BY <1>2, StartsTail
<1> HIDE DEF h
<1>8. Busy'
  BY <1>3, <1>4 DEF Busy
<1>9. Counted'
  <2>1. run \in Nat /\ starts \in Nat
    BY ServiceAssumption DEF TypeOK
  <2>2. run + Cardinality(StartsIn(queue)) <= starts
    BY <2>1, <1>2, <1>7 DEF Counted
  <2>3. pc'["main"] \in {"configure", "launch"} => h[1] = "start"
    BY <1>4
  <2>4. run' + Cardinality(StartsIn(queue'))
             + (IF pc'["main"] \in {"configure", "launch"} THEN 1 ELSE 0) <= starts'
    BY <2>1, <2>2, <2>3, <1>2, <1>7
  <2>5. pc'["main"] # "sendfd" /\ cur' \in {0, insts'} /\ insts' <= starts' + deaths'
    BY <1>2, <1>4 DEF Counted
  <2> QED
    BY <2>4, <2>5 DEF Counted
<1>10. Ordered'
  BY <1>2, <1>4, <1>5 DEF Ordered
<1>11. Undone'
  <2>1. pc'["main"] \in StartPC => h[1] = "start" /\ inst'["main"] = h[2]
    BY <1>4 DEF StartPC
  <2> QED
    BY <2>1, <1>2, <1>5 DEF Undone, Pending
<1>12. Held'
  <2>1. SUFFICES ASSUME NEW i \in Instance, fd'[i] = "open"
                 PROVE  Pending(i)' \/ (inst'["main"] = i /\ pc'["main"] \in BeforeClose)
    BY DEF Held
  <2>2. i = cur \/ Ends(queue, i)
    BY <2>1, <1>2 DEF Held, Pending, BeforeClose
  <2>3. CASE h = <<"destroy", i>>
    <3>1. h[1] = "destroy" /\ h[2] = i
      BY <2>3
    <3> QED
      BY <3>1, <1>4 DEF BeforeClose
  <2> QED
    BY <2>2, <2>3, <1>2, <1>6 DEF Pending
<1> QED
  BY <1>1, <1>8, <1>9, <1>10, <1>11, <1>12

(* Android forgets the instance it knows, and queues its onDestroy, in stopSelf *)
(* of stopMe or of super.onRevoke().                                          *)
Forgets == cur # 0 /\ cur' = 0 /\ queue' = Append(queue, <<"destroy", cur>>)

LEMMA ForgetsControl ==
  ASSUME Control, TypeOK', Busy', Forgets,
         UNCHANGED <<starts, insts, deaths, run, tries, fd>>,
         \/ pc'["main"] = pc["main"] /\ inst'["main"] = inst["main"]
         \/ pc'["main"] = "idle" /\ pc["main"] = "stop_self"
  PROVE  Control'
<1> USE DEF Control
<1>0. queue \in Seq(Event)
  BY DEF TypeOK, Event
<1> DEFINE e == <<"destroy", cur>>
<1>1. /\ cur' = 0 /\ queue' = Append(queue, e) /\ e \in Event /\ cur = insts
      /\ e[2] = cur /\ e[1] = "destroy" /\ insts \in Nat
  BY ServiceAssumption DEF Forgets, Event, Counted, TypeOK, Instance
<1>2. \A i : Pending(i) => Pending(i)'
  BY <1>1, <1>0, EndsAppend DEF Pending
<1>3. Sorted(queue', insts) /\ Closed(queue', 0)
  BY <1>1, <1>0, SortedAppend, ClosedAppend DEF Ordered, Undone
<1>4. Cardinality(StartsIn(queue')) = Cardinality(StartsIn(queue))
  BY <1>1, <1>0, StartsAppend
<1>5. Cardinality(StartsIn(queue)) \in Nat
  BY <1>0, StartsAreFinite
<1> HIDE DEF e
<1>6. Counted'
  <2>1. run \in Nat /\ starts \in Nat
    BY ServiceAssumption DEF TypeOK
  <2>2. (IF pc'["main"] \in {"configure", "launch"} THEN 1 ELSE 0)
          = (IF pc["main"] \in {"configure", "launch"} THEN 1 ELSE 0)
    OBVIOUS
  <2>3. run' + Cardinality(StartsIn(queue'))
           + (IF pc'["main"] \in {"configure", "launch"} THEN 1 ELSE 0) <= starts'
    BY <2>2, <1>4, <1>0 DEF Counted
  <2>4. pc'["main"] = "sendfd" => tries' > 0
    BY <1>0 DEF Counted
  <2> QED
    BY <2>3, <2>4, <1>1, <1>0 DEF Counted
<1>7. Ordered'
  <2>1. ASSUME pc'["main"] # "idle"
        PROVE  From(queue', inst'["main"]) /\ inst'["main"] <= insts'
    <3>1. /\ inst'["main"] = inst["main"] /\ From(queue, inst["main"])
          /\ inst["main"] <= insts /\ inst["main"] \in Instance
      BY <2>1, Labelled DEF Ordered, Busy
    <3>2. inst["main"] \in Nat
      BY <3>1, ServiceAssumption DEF Instance
    <3> QED
      BY <3>1, <3>2, <1>1, <1>0, FromAppend
  <2> QED
    BY <2>1, <1>3, <1>0 DEF Ordered
<1>8. Undone'
  <2>1. pc'["main"] \in StartPC => pc["main"] \in StartPC /\ inst'["main"] = inst["main"]
    BY DEF StartPC
  <2>2. pc'["main"] \in StartPC => Pending(inst["main"])'
    BY <2>1, <1>2 DEF Undone
  <2> QED
    BY <2>1, <2>2, <1>1, <1>3 DEF Undone, Pending
<1>9. Held'
  <2>1. ASSUME NEW i \in Instance, fd'[i] = "open"
        PROVE  Pending(i)' \/ (inst'["main"] = i /\ pc'["main"] \in BeforeClose)
    <3>1. Pending(i) \/ (inst["main"] = i /\ pc["main"] \in BeforeClose)
      BY <2>1, <1>0 DEF Held
    <3> QED
      BY <3>1, <1>2 DEF BeforeClose
  <2> QED
    BY <2>1 DEF Held
<1> QED
  BY <1>6, <1>7, <1>8, <1>9

LEMMA StopSelfControl == ASSUME Control, NEW t \in Thread, StopSelf(t) PROVE Control'
<1>1. TypeOK'
  BY StopTypes DEF stopMe
<1> USE DEF Control
<1>2. /\ pc[t] = "stop_self" /\ UNCHANGED <<starts, insts, deaths, run, tries, fd>>
      /\ inst[t] \in Instance /\ queue \in Seq(Event)
  BY DEF StopSelf, Busy, TypeOK, Event
<1>3. /\ pc'[t] = "idle"
      /\ \A u \in Thread : u # t => pc'[u] = pc[u] /\ inst'[u] = inst[u]
  <2>1. "idle" \in Label
    BY Labelled
  <2> QED
    BY <2>1, Gone DEF StopSelf
<1>4. /\ t = "main" => pc'["main"] = "idle" /\ pc["main"] = "stop_self"
      /\ t # "main" => pc'["main"] = pc["main"] /\ inst'["main"] = inst["main"]
  BY <1>2, <1>3, Labelled
<1>5. Busy'
  BY <1>3 DEF Busy
<1>6. CASE cur # inst[t]
  <2>1. UNCHANGED <<cur, queue>>
    BY <1>6 DEF StopSelf
  <2>2. CASE t # "main"
    BY <2>1, <2>2, <1>1, <1>2, <1>4, <1>5, ControlKept
  <2>3. CASE t = "main"
    <3>1. run \in Nat /\ run' = run
      BY <1>2, ServiceAssumption DEF TypeOK
    <3>2. pc["main"] = "stop_self" /\ pc'["main"] = "idle"
      BY <2>3, <1>4
    <3>3. run' + (IF "idle" \in {"configure", "launch"} THEN 1 ELSE 0)
            <= run + (IF pc["main"] \in {"configure", "launch"} THEN 1 ELSE 0)
      BY <3>1, <3>2
    <3>4. pc["main"] \notin BeforeClose /\ "idle" \notin StartPC
      BY <3>2 DEF BeforeClose, StartPC
    <3> QED
      BY <2>1, <3>2, <3>3, <3>4, <1>1, <1>2, <1>5, MainGoes
  <2> QED
    BY <2>2, <2>3
<1>7. CASE cur = inst[t]
  <2>1. Forgets
    BY <1>2, <1>7, ServiceAssumption DEF StopSelf, Forgets, Instance
  <2> QED
    BY <2>1, <1>1, <1>2, <1>4, <1>5, ForgetsControl
<1> QED
  BY <1>6, <1>7

(* onStartCommand past its first check, and a failed start's stopMe.          *)
LEMMA MainStartControl ==
  ASSUME Control, configure \/ LauncherStart \/ ExecPdnsd \/ ExecTun2socks \/ sendfd
  PROVE  Control'
<1>1. TypeOK'
  BY StartTypes
<1> USE DEF Control
<1>2. /\ {"idle", "launch", "pdnsd", "tun2socks", "sendfd", "kill_tun2socks"} \subseteq Label
      /\ "main" \in Thread /\ pc["main"] \in StartPC /\ pc["main"] # "idle"
      /\ inst["main"] \in Instance /\ pc["main"] \notin BeforeClose
      /\ run \in Nat /\ tries \in Nat
  <2>1. pc["main"] \in StartPC /\ "main" \in Thread
    BY Labelled DEF configure, LauncherStart, ExecPdnsd, ExecTun2socks, sendfd, StartPC
  <2>2. /\ {"idle", "launch", "pdnsd", "tun2socks", "sendfd", "kill_tun2socks"} \subseteq Label
        /\ pc["main"] # "idle" /\ pc["main"] \notin BeforeClose
    BY <2>1, Labelled, StopLabels DEF StartPC, BeforeClose
  <2>3. run \in Nat /\ tries \in Nat
    BY ServiceAssumption DEF TypeOK
  <2> QED
    BY <2>1, <2>2, <2>3 DEF Busy
<1>3. ASSUME NEW l \in {"idle", "launch", "pdnsd", "tun2socks", "sendfd", "kill_tun2socks"},
             Goto("main", l), UNCHANGED <<starts, insts, cur, queue, deaths>>,
             \A i \in Instance : fd'[i] = "open" => i = inst["main"] \/ fd[i] = "open",
             run' = run \/ (run' = run + 1 /\ pc["main"] = "launch"),
             l = "launch" => pc["main"] = "configure" /\ run' = run,
             l = "sendfd" => tries' > 0
      PROVE  Control'
  <2>1. /\ pc'["main"] = l /\ (l # "idle" => inst'["main"] = inst["main"])
        /\ \A u \in Thread : u # "main" => pc'[u] = pc[u] /\ inst'[u] = inst[u]
    BY <1>2, <1>3, Gone
  <2>2. Busy'
    BY <2>1, <1>2 DEF Busy
  <2>3. run' + (IF l \in {"configure", "launch"} THEN 1 ELSE 0)
          <= run + (IF pc["main"] \in {"configure", "launch"} THEN 1 ELSE 0)
    BY <1>2, <1>3
  <2>4. \A i \in Instance : fd'[i] = "open" =>
           \/ i = inst["main"] /\ pc["main"] \in StartPC
           \/ fd[i] = "open" /\ (pc["main"] \in BeforeClose /\ i = inst["main"] => l \in BeforeClose)
    BY <1>2, <1>3
  <2> QED
    BY <2>1, <2>2, <2>3, <2>4, <1>1, <1>2, <1>3, MainGoes
<1>4. CASE configure
  <2>1. \A i \in Instance : fd'[i] = "open" => i = inst["main"] \/ fd[i] = "open"
    BY <1>4 DEF configure, TypeOK
  <2> QED
    BY <2>1, <1>3, <1>4 DEF configure, amsVars
<1>5. CASE LauncherStart
  BY <1>3, <1>5 DEF LauncherStart, amsVars
<1>6. CASE ExecPdnsd
  BY <1>3, <1>6 DEF ExecPdnsd, amsVars
<1>7. CASE ExecTun2socks
  <2>1. SendAttempts > 0
    BY ServiceAssumption
  <2> QED
    BY <2>1, <1>3, <1>7 DEF ExecTun2socks, amsVars
<1>8. CASE sendfd
  <2>1. PICK l \in {"idle", "sendfd", "kill_tun2socks"} :
          Goto("main", l) /\ (l = "sendfd" => tries' = tries - 1 /\ tries # 1)
    BY <1>8 DEF sendfd
  <2>2. l = "sendfd" => tries' > 0
    BY <2>1, <1>2, <1>8 DEF Counted, sendfd
  <2> QED
    BY <2>1, <2>2, <1>3, <1>8 DEF sendfd, amsVars
<1> QED
  BY <1>4, <1>5, <1>6, <1>7, <1>8

(* stopMe up to stopSelf.                                                     *)
LEMMA StopControl ==
  ASSUME Control, NEW t \in Thread, stopMe(t)
  PROVE  Control'
<1>1. TypeOK'
  BY StopTypes
<1> USE DEF Control
<1>2. ASSUME NEW l \in StopPC \cup {"idle"}, Goto(t, l),
             pc[t] # "idle", pc[t] \notin StartPC,
             UNCHANGED <<starts, insts, cur, queue, tries, deaths, run>>,
             \A i \in Instance : fd'[i] = "open" =>
               fd[i] = "open" /\ (pc[t] \in BeforeClose /\ i = inst[t] => l \in BeforeClose)
      PROVE  Control'
  <2>1. l \in Label /\ l \notin StartPC
    BY StopLabels DEF Label, StartPC
  <2>2. /\ pc'[t] = l /\ (l # "idle" => inst'[t] = inst[t])
        /\ \A u \in Thread : u # t => pc'[u] = pc[u] /\ inst'[u] = inst[u]
    BY <2>1, <1>2, Gone
  <2>3. Busy'
    BY <2>2, <1>2 DEF Busy
  <2>4. CASE t # "main"
    <3>1. pc'["main"] = pc["main"] /\ inst'["main"] = inst["main"]
      BY <2>2, <2>4, Labelled
    <3> QED
      BY <3>1, <2>3, <1>1, <1>2, ControlKept
  <2>5. CASE t = "main"
    <3>1. run' + (IF l \in {"configure", "launch"} THEN 1 ELSE 0)
            <= run + (IF pc["main"] \in {"configure", "launch"} THEN 1 ELSE 0)
      <4>1. l \notin {"configure", "launch"}
        BY <2>1 DEF StartPC
      <4>2. run \in Nat /\ run' = run
        BY <1>2, ServiceAssumption DEF TypeOK
      <4> QED
        BY <4>1, <4>2
    <3>2. l # "sendfd"
      BY <2>1 DEF StartPC
    <3> QED
      BY <3>1, <3>2, <2>1, <2>2, <2>3, <2>5, <1>1, <1>2, MainGoes
  <2> QED
    BY <2>4, <2>5
<1>3. \A d \in Daemon : /\ DeletePC[d] \in StopPC /\ KilledPC[d] \in StopPC
                        /\ DeletePC[d] \in BeforeClose /\ KilledPC[d] \in BeforeClose
                        /\ KillPC[d] \in StopPC
  BY Labels, StopLabels DEF Daemon, BeforeClose
<1>4. \A l \in StopPC : l # "idle" /\ l \notin StartPC
  BY StopLabels DEF StartPC
<1>5. ASSUME NEW d \in Daemon, Kill(t, d) PROVE Control'
  BY <1>2, <1>3, <1>4, <1>5 DEF Kill, amsVars
<1>6. ASSUME NEW d \in Daemon, DeletePidFile(t, d) PROVE Control'
  BY <1>2, <1>3, <1>4, <1>6 DEF DeletePidFile, amsVars
<1>7. "close_fd" \in StopPC /\ "undeploy" \in StopPC /\ "clear_id" \in StopPC /\ "stop_self" \in StopPC
  BY StopLabels
<1>8. CASE CloseFd(t)
  <2>1. inst[t] \in Instance
    BY <1>8, <1>4, <1>7 DEF CloseFd, Busy
  <2>2. \A i \in Instance : fd'[i] = "open" => fd[i] = "open" /\ i # inst[t]
    BY <1>8, <2>1 DEF CloseFd, TypeOK
  <2> QED
    BY <2>2, <1>2, <1>4, <1>7, <1>8 DEF CloseFd, amsVars
<1>9. CASE LauncherStop(t)
  <2>1. "undeploy" \notin BeforeClose
    BY DEF BeforeClose
  <2> QED
    BY <2>1, <1>2, <1>4, <1>7, <1>9 DEF LauncherStop, amsVars
<1>10. CASE LauncherStopThrows(t)
  <2>1. CASE t = "main"
    BY <2>1, <1>10, DieControl DEF LauncherStopThrows
  <2>2. CASE t # "main"
    <3>1. "undeploy" \notin BeforeClose
      BY DEF BeforeClose
    <3> QED
      BY <3>1, <2>2, <1>2, <1>4, <1>7, <1>10 DEF LauncherStopThrows, amsVars
  <2> QED
    BY <2>1, <2>2
<1>11. CASE ClearID(t)
  <2>1. "clear_id" \notin BeforeClose
    BY DEF BeforeClose
  <2> QED
    BY <2>1, <1>2, <1>4, <1>7, <1>11 DEF ClearID, amsVars
<1>12. CASE StopSelf(t)
  BY <1>12, StopSelfControl
<1> QED
  BY <1>5, <1>6, <1>8, <1>9, <1>10, <1>11, <1>12 DEF stopMe

LEMMA OtherControl ==
  ASSUME Control,
         \/ onBind \/ Rest \/ UNCHANGED vars
         \/ \E b \in Binder : BinderStop(b) \/ onRevoke(b)
         \/ \E r \in Run : \/ Deployed(r) \/ DeployFails(r) \/ Listen(r)
                           \/ \E d \in Daemon : DaemonExits(d, r)
  PROVE  Control'
<1>1. TypeOK'
  BY OtherTypes
<1> USE DEF Control
<1>2. ASSUME UNCHANGED <<starts, insts, cur, queue, pc, inst, tries, deaths, run, fd>>
      PROVE  Control'
  <2>1. Busy'
    BY <1>2 DEF Busy
  <2> QED
    BY <2>1, <1>1, <1>2, ControlKept
<1>3. ASSUME NEW b \in Binder, NEW i \in Instance, EnterStop(b, i)
      PROVE  Busy' /\ pc'["main"] = pc["main"] /\ inst'["main"] = inst["main"]
  <2>1. "kill_tun2socks" \in Label /\ b \in Thread /\ b # "main" /\ "main" \in Thread
    BY Labelled, StopLabels
  <2>2. i \in 0 .. MaxStarts + MaxDeaths
    BY DEF Instance
  <2>3. /\ pc'[b] = "kill_tun2socks" /\ inst'[b] = i
        /\ \A u \in Thread : u # b => pc'[u] = pc[u] /\ inst'[u] = inst[u]
    BY <2>1, <2>2, <1>3, Entered DEF EnterStop
  <2>4. Busy'
    BY <2>3 DEF Busy
  <2>5. pc'["main"] = pc["main"] /\ inst'["main"] = inst["main"]
    BY <2>1, <2>3
  <2> QED
    BY <2>4, <2>5
<1>4. ASSUME NEW b \in Binder, BinderStop(b) PROVE Control'
  <2>1. bound \in Instance
    BY <1>4, ServiceAssumption DEF BinderStop, TypeOK, Instance
  <2> QED
    BY <2>1, <1>1, <1>3, <1>4, ControlKept DEF BinderStop
<1>5. ASSUME NEW b \in Binder, onRevoke(b) PROVE Control'
  <2>1. cur \in Instance
    BY <1>5, ServiceAssumption DEF onRevoke, TypeOK, Instance
  <2>2. Forgets
    BY <1>5 DEF onRevoke, Forgets
  <2> QED
    BY <2>1, <2>2, <1>1, <1>3, <1>5, ForgetsControl DEF onRevoke
<1>6. CASE onBind
  BY <1>2, <1>6 DEF onBind
<1>7. CASE Rest \/ UNCHANGED vars
  BY <1>2, <1>7 DEF Rest, vars, amsVars
<1>8. ASSUME NEW r \in Run, Deployed(r) \/ DeployFails(r) \/ Listen(r)
                              \/ \E d \in Daemon : DaemonExits(d, r)
      PROVE  Control'
  BY <1>2, <1>8 DEF Deployed, DeployFails, Listen, DaemonExits, amsVars
<1> QED
  BY <1>4, <1>5, <1>6, <1>7, <1>8

LEMMA ControlStep == Control /\ [Next]_vars => Control'
<1>1. SUFFICES ASSUME Control, [Next]_vars PROVE Control'
  OBVIOUS
<1>2. CASE startVpn
  BY <1>1, <1>2, StartVpnControl
<1>3. CASE ProcessKilled
  BY <1>1, <1>3, DieControl DEF ProcessKilled
<1>4. CASE MainStep
  BY <1>1, <1>4, MainEventControl, MainStartControl, StopControl, Labelled DEF MainStep
<1>5. ASSUME NEW b \in Binder, stopMe(b) PROVE Control'
  BY <1>1, <1>5, StopControl, Labelled
<1>6. CASE \/ onBind \/ Rest \/ UNCHANGED vars
           \/ \E b \in Binder : BinderStop(b) \/ onRevoke(b)
           \/ \E r \in Run : \/ Deployed(r) \/ DeployFails(r) \/ Listen(r)
                             \/ \E d \in Daemon : DaemonExits(d, r)
  BY <1>1, <1>6, OtherControl
<1> QED
  BY <1>1, <1>2, <1>3, <1>4, <1>5, <1>6 DEF Next

LEMMA ControlInit == Init => Control
<1>1. SUFFICES ASSUME Init PROVE Control
  OBVIOUS
<1>2. TypeOK
  <2>1. 0 \in 0 .. MaxStarts /\ 0 \in 0 .. MaxStarts + MaxDeaths /\ 0 \in 0 .. SendAttempts
        /\ 0 \in 0 .. MaxDeaths
    BY ServiceAssumption
  <2> QED
    BY <2>1, <1>1 DEF Init, TypeOK
<1>3. pc["main"] = "idle" /\ \A t \in Thread : pc[t] = "idle"
  BY <1>1, Labelled DEF Init
<1>4. Busy /\ Held
  BY <1>1, <1>3 DEF Busy, Held, Init
<1>5. Ordered /\ Undone
  BY <1>1, <1>3, EmptyQueue DEF Ordered, Undone, Init, StartPC
<1>6. Counted
  <2>1. Cardinality(StartsIn(queue)) = 0
    BY <1>1, EmptyQueue, FS_EmptySet DEF Init
  <2> QED
    BY <2>1, <1>1, <1>3 DEF Counted, Init
<1> QED
  BY <1>2, <1>4, <1>5, <1>6 DEF Control

(* Of the instances, the queue and the threads: see Control.                  *)
THEOREM ControlInvariance == Spec => []Control
BY ControlInit, ControlStep, PTL DEF Spec

-----------------------------------------------------------------------------
(* Daemons is inductive, relative to Control.                              *)

(* What is queued or known stays so, and what comes is for no older instance. *)
Later == \A i \in Instance :
           /\ Pending(i) => Pending(i)'
           /\ i <= insts /\ From(queue, i) => i <= insts' /\ From(queue', i)

LEMMA StandsLater == UNCHANGED <<cur, insts, queue>> => Later
BY DEF Later, Pending

LEMMA StartVpnLater == ASSUME Control, startVpn PROVE Later
<1> USE DEF Control
<1>1. TypeOK'
  BY StartVpnTypes
<1>2. /\ insts \in Nat /\ insts' \in Nat /\ insts <= insts' /\ cur' = insts' /\ cur' \in Instance
      /\ (cur = cur' \/ cur = 0)
  <2>1. insts + 1 \in Instance /\ insts \in Nat
    BY ServiceAssumption DEF startVpn, Counted, TypeOK, Instance
  <2>2. CASE cur = 0
    BY <2>1, <2>2 DEF startVpn
  <2>3. CASE cur # 0
    BY <2>1, <2>3 DEF startVpn, Counted, TypeOK, Instance
  <2> QED
    BY <2>2, <2>3
<1>3. queue \in Seq(Event) /\ queue' = Append(queue, <<"start", cur'>>) /\ <<"start", cur'>> \in Event
  BY <1>2 DEF TypeOK, Event, startVpn
<1>4. SUFFICES ASSUME NEW i \in Instance
               PROVE  /\ Pending(i) => Pending(i)'
                      /\ i <= insts /\ From(queue, i) => i <= insts' /\ From(queue', i)
  BY DEF Later
<1>5. i \in Nat /\ i # 0
  BY ServiceAssumption DEF Instance
<1>6. Pending(i) => Pending(i)'
  BY <1>2, <1>3, <1>5, EndsAppend DEF Pending
<1>7. ASSUME i <= insts, From(queue, i) PROVE i <= insts' /\ From(queue', i)
  <2>1. i <= cur'
    BY <1>2, <1>5, <1>7
  <2>2. From(queue', i)
    BY <2>1, <1>3, <1>5, <1>7, FromAppend
  <2> QED
    BY <2>1, <2>2, <1>2
<1> QED
  BY <1>6, <1>7

LEMMA ForgetsLater == ASSUME Control, Forgets, insts' = insts PROVE Later
<1> USE DEF Control
<1>1. /\ cur' = 0 /\ cur \in Instance /\ cur = insts /\ insts \in Nat
  BY ServiceAssumption DEF Forgets, Counted, TypeOK, Instance
<1>2. queue \in Seq(Event) /\ queue' = Append(queue, <<"destroy", cur>>) /\ <<"destroy", cur>> \in Event
  BY <1>1 DEF Forgets, TypeOK, Event
<1>3. ASSUME NEW i \in Instance
      PROVE  /\ Pending(i) => Pending(i)'
             /\ i <= insts /\ From(queue, i) => i <= insts' /\ From(queue', i)
  <2>1. i \in Nat
    BY ServiceAssumption DEF Instance
  <2>2. Pending(i) => Pending(i)'
    BY <1>1, <1>2, EndsAppend DEF Pending
  <2>3. i <= insts /\ From(queue, i) => From(queue', i)
    BY <2>1, <1>1, <1>2, FromAppend
  <2> QED
    BY <2>2, <2>3
<1> QED
  BY <1>3 DEF Later

LEMMA StopSelfLater == ASSUME Control, NEW t \in Thread, StopSelf(t) PROVE Later
<1>1. CASE cur # inst[t]
  BY <1>1, StandsLater DEF StopSelf
<1>2. CASE cur = inst[t]
  <2>1. Forgets
    BY <1>2, ServiceAssumption DEF StopSelf, Forgets, Control, Busy, Instance
  <2> QED
    BY <2>1, ForgetsLater DEF StopSelf
<1> QED
  BY <1>1, <1>2

LEMMA RevokeLater == ASSUME Control, NEW b \in Binder, onRevoke(b) PROVE Later
<1>1. Forgets
  BY DEF onRevoke, Forgets
<1> QED
  BY <1>1, ForgetsLater DEF onRevoke

(* What keeps each part of Daemons.                                          *)

LEMMA OwnedKept ==
  ASSUME Owned, deaths' = deaths, Later,
         pc["main"] = "idle" => pc'["main"] = "idle",
         \A i \in Instance : mRunning[i] => mRunning'[i],
         \A d \in Daemon : Standing(d)' =>
           Standing(d) /\ (pc["main"] \in Launched[d] => pc'["main"] \in Launched[d])
  PROVE  Owned'
<1>1. SUFFICES ASSUME deaths' = 0, NEW d \in Daemon, Standing(d)'
               PROVE  \/ pc'["main"] \in Launched[d]
                      \/ /\ pc'["main"] = "idle"
                         /\ \E i \in Instance : /\ mRunning'[i] /\ Pending(i)'
                                                /\ i <= insts' /\ From(queue', i)
  BY DEF Owned, Pending
<1>2. Standing(d) /\ (pc["main"] \in Launched[d] => pc'["main"] \in Launched[d])
  BY <1>1
<1>3. CASE pc["main"] \in Launched[d]
  BY <1>2, <1>3
<1>4. ASSUME pc["main"] = "idle", NEW i \in Instance, mRunning[i], Pending(i),
             i <= insts, From(queue, i)
      PROVE  /\ pc'["main"] = "idle" /\ mRunning'[i] /\ Pending(i)'
             /\ i <= insts' /\ From(queue', i)
  BY <1>4 DEF Later
<1> QED
  BY <1>1, <1>2, <1>3, <1>4 DEF Owned

LEMMA FreshKept ==
  ASSUME Fresh, UNCHANGED <<run, got, path>>, TypeOK,
         \A d \in Daemon, r \in Run :
           proc'[d][r] = proc[d][r] \/ (proc'[d][r] = "none" /\ proc[d][r] # "wait"),
         pc'["main"] \in {"pdnsd", "tun2socks"} => pc["main"] \in {"pdnsd", "tun2socks"},
         pc'["main"] = "sendfd" => pc["main"] \in {"tun2socks", "sendfd"}
  PROVE  Fresh'
<1>1. "tun2socks" \in Daemon
  BY DEF Daemon
<1>2. path # 0 => path \in Run
  BY ServiceAssumption DEF TypeOK, Run
<1>3. /\ \A d \in Daemon, r \in Run : proc'[d][r] # "none" => r <= run'
      /\ \A r \in Run : got'[r] # 0 => r <= run'
  BY DEF Fresh
<1>4. pc'["main"] \in {"pdnsd", "tun2socks"} =>
        run' \in Run /\ proc'["tun2socks"][run'] = "none" /\ got'[run'] = 0
  BY <1>1 DEF Fresh
<1>5. pc'["main"] = "sendfd" => run' \in Run
  BY DEF Fresh
<1>6. \A r \in Run : proc'["tun2socks"][r] \in {"boot", "wait"} => got'[r] = 0
  BY <1>1 DEF Fresh
<1>7. path' # 0 => proc'["tun2socks"][path'] = "wait"
  BY <1>1, <1>2 DEF Fresh
<1> QED
  BY <1>3, <1>4, <1>5, <1>6, <1>7 DEF Fresh

LEMMA NamedKept ==
  ASSUME Named, TypeOK, run' \in {run, run + 1}, deaths' = deaths,
         \A d \in Daemon, r \in Run :
           proc'[d][r] # "none" /\ <<d, r>> \notin term' =>
             /\ proc[d][r] # "none" /\ <<d, r>> \notin term
             /\ pidfile[d] = r => pidfile'[d] = r \/ <<d, r>> \in unread'
             /\ <<d, r>> \in unread => <<d, r>> \in unread'
  PROVE  Named'
<1>1. SUFFICES ASSUME NEW d \in Daemon, NEW r \in Run, proc'[d][r] # "none", <<d, r>> \notin term'
               PROVE  pidfile'[d] = r \/ <<d, r>> \in unread' \/ (deaths' > 0 /\ r < run')
  BY DEF Named
<1>2. pidfile[d] = r \/ <<d, r>> \in unread \/ (deaths > 0 /\ r < run)
  BY <1>1 DEF Named
<1>3. run \in Nat /\ r \in Nat
  BY ServiceAssumption DEF TypeOK, Run
<1> QED
  BY <1>1, <1>2, <1>3

LEMMA ServedKept ==
  ASSUME RunningMeansServed, UNCHANGED <<mRunning, got>>
  PROVE  RunningMeansServed'
BY DEF RunningMeansServed

(* Steps that touch neither the daemons nor the main thread.                  *)
LEMMA DaemonsKept ==
  ASSUME Control, Daemons, Later, UNCHANGED <<nativeVars, run, deaths, mRunning>>,
         pc'["main"] = pc["main"]
  PROVE  Daemons'
<1> USE DEF Daemons, Control, nativeVars
<1>1. Fresh'
  BY FreshKept
<1>2. Named'
  BY NamedKept
<1>3. Owned'
  <2>1. \A d \in Daemon : Standing(d)' <=> Standing(d)
    BY DEF Standing
  <2> QED
    BY <2>1, OwnedKept
<1>4. Handing'
  BY DEF Handing
<1>5. RunningMeansServed'
  BY ServedKept
<1> QED
  BY <1>1, <1>2, <1>3, <1>4, <1>5

(* The main thread goes on where it has launched and left nothing.            *)
LEMMA MainGoesClean ==
  ASSUME Control, Daemons, UNCHANGED <<nativeVars, run, deaths, mRunning>>,
         pc["main"] \in {"configure", "close_fd", "undeploy", "clear_id", "stop_self"},
         pc'["main"] \notin {"pdnsd", "tun2socks", "sendfd"}
  PROVE  Daemons'
<1> USE DEF Daemons, Control, nativeVars
<1>1. Fresh'
  BY FreshKept
<1>2. Named'
  BY NamedKept
<1>3. Owned'
  <2>1. \A d \in Daemon : pc["main"] \notin Launched[d] /\ pc["main"] # "idle"
    BY Labels DEF Daemon
  <2>2. deaths = 0 => \A d \in Daemon : ~Standing(d)
    BY <2>1 DEF Owned
  <2>3. \A d \in Daemon : Standing(d)' <=> Standing(d)
    BY DEF Standing
  <2> QED
    BY <2>2, <2>3 DEF Owned
<1>4. Handing'
  BY DEF Handing
<1>5. RunningMeansServed'
  BY ServedKept
<1> QED
  BY <1>1, <1>2, <1>3, <1>4, <1>5

(* A queued start of an instance that does not run finds no daemon standing:  *)
(* the one that launched it would still be pending, and before it.             *)
LEMMA MainEventDaemons == ASSUME Control, Daemons, MainEvent PROVE Daemons'
<1> USE DEF Daemons, Control
<1> DEFINE h == Head(queue)
<1>1. /\ pc["main"] = "idle" /\ queue \in Seq(Event) /\ queue # <<>> /\ queue' = Tail(queue)
      /\ UNCHANGED <<cur, insts, run, deaths, mRunning, nativeVars>>
  BY DEF MainEvent, TypeOK, Event
<1>2. h \in Event /\ h[2] \in Instance
  BY <1>1, TailFacts DEF Event
<1>3. \/ h[1] = "destroy" /\ pc'["main"] = "kill_tun2socks"
      \/ h[1] = "start" /\ ~mRunning[h[2]] /\ pc'["main"] = "configure"
      \/ h[1] # "destroy" /\ pc'["main"] = "idle"
  <2>1. "main" \in Thread /\ pc \in [Thread -> Label]
    BY Labelled DEF TypeOK, Label
  <2> QED
    BY <2>1, <1>1 DEF MainEvent, Enter
<1>4. Fresh'
  <2>1. pc'["main"] \notin {"pdnsd", "tun2socks", "sendfd"}
    BY <1>3
  <2> QED
    BY <2>1, <1>1, FreshKept DEF nativeVars
<1>5. Named'
  BY <1>1, NamedKept DEF nativeVars
<1>6. Handing' /\ RunningMeansServed'
  BY <1>1, <1>3, ServedKept DEF Handing, nativeVars
<1>7. Owned'
  <2>1. SUFFICES ASSUME deaths = 0, NEW d \in Daemon, Standing(d)
                 PROVE  \/ pc'["main"] \in Launched[d]
                        \/ /\ pc'["main"] = "idle"
                           /\ \E i \in Instance : /\ mRunning[i] /\ Pending(i)'
                                                  /\ i <= insts /\ From(queue', i)
    BY <1>1 DEF Owned, Standing, Pending, nativeVars
  <2>2. PICK i \in Instance : mRunning[i] /\ Pending(i) /\ i <= insts /\ From(queue, i)
    <3>1. pc["main"] \notin Launched[d]
      BY <1>1, Labels DEF Daemon
    <3> QED
      BY <2>1, <3>1, <1>1 DEF Owned
  <2>3. CASE pc'["main"] = "kill_tun2socks"
    BY <2>3, Labels DEF Daemon
  <2>4. CASE h[1] # "destroy" /\ pc'["main"] = "idle"
    <3>1. h # <<"destroy", i>>
      BY <2>4
    <3>2. Pending(i)'
      BY <2>2, <3>1, <1>1, EndsTail DEF Pending
    <3>3. From(queue', i)
      BY <2>2, <1>1, FromTail
    <3> QED
      BY <2>2, <2>4, <3>2, <3>3
  <2>5. CASE h[1] = "start" /\ ~mRunning[h[2]]
    <3>1. /\ From(queue, h[2]) /\ h[2] <= insts /\ i <= h[2] /\ h[2] # i
      <4>1. From(queue, h[2]) /\ h[2] <= insts
        BY <1>1, SortedTail DEF Ordered
      <4>2. Len(queue) \in Nat \ {0} /\ queue[1] = h
        BY <1>1, TailFacts
      <4>3. i <= h[2]
        BY <4>2, <2>2 DEF From
      <4> QED
        BY <4>1, <4>3, <2>2, <2>5
    <3>2. i \in Nat /\ h[2] \in Nat /\ i # 0 /\ insts \in Nat
      BY <1>2, ServiceAssumption DEF Instance, TypeOK
    <3>3. i < h[2] /\ i # cur
      BY <3>1, <3>2 DEF Counted
    <3>4. Ends(queue, i)
      BY <2>2, <3>3 DEF Pending
    <3>5. PICK k \in 1 .. Len(queue) : queue[k] = <<"destroy", i>>
      BY <3>4 DEF Ends
    <3>6. h[2] <= queue[k][2]
      BY <3>1 DEF From
    <3>7. h[2] <= i
      BY <3>5, <3>6
    <3> QED
      BY <3>2, <3>3, <3>7
  <2> QED
    BY <2>3, <2>4, <2>5, <1>3
<1> QED
  BY <1>4, <1>5, <1>6, <1>7

LEMMA LauncherStartDaemons == ASSUME Control, Daemons, LauncherStart PROVE Daemons'
<1> USE DEF Daemons, Control
<1>1. /\ pc["main"] = "launch" /\ run' = run + 1
      /\ UNCHANGED <<nativeVars, deaths, mRunning, cur, insts, queue>>
  BY DEF LauncherStart, amsVars
<1>2. pc'["main"] = "pdnsd"
  <2>1. "main" \in Thread /\ "pdnsd" \in Label
    BY Labelled DEF StartPC
  <2> QED
    BY <2>1, Gone DEF LauncherStart
<1>3. run \in Nat /\ run' \in Run
  <2>1. TypeOK'
    BY StartTypes
  <2> QED
    BY <2>1, <1>1, ServiceAssumption DEF TypeOK, Run
<1>4. Fresh'
  <2>1. "tun2socks" \in Daemon
    BY DEF Daemon
  <2>2. proc["tun2socks"][run'] = "none" /\ got[run'] = 0
    BY <2>1, <1>1, <1>3 DEF Fresh
  <2>3. \A r \in Run : r \in Nat /\ (r <= run => r <= run')
    BY <1>1, <1>3, ServiceAssumption DEF Run
  <2>4. /\ \A d \in Daemon, r \in Run : proc'[d][r] # "none" => r <= run'
        /\ \A r \in Run : got'[r] # 0 => r <= run'
    BY <2>3, <1>1 DEF Fresh, nativeVars
  <2> QED
    BY <2>2, <2>4, <1>1, <1>2, <1>3 DEF Fresh, nativeVars
<1>5. Named'
  BY <1>1, NamedKept DEF nativeVars
<1>6. Owned'
  <2>1. \A d \in Daemon : pc["main"] \notin Launched[d] /\ pc["main"] # "idle"
    BY <1>1, Labels DEF Daemon
  <2>2. deaths = 0 => \A d \in Daemon : ~Standing(d)
    BY <2>1 DEF Owned
  <2>3. \A d \in Daemon : Standing(d)' <=> Standing(d)
    BY <1>1 DEF Standing, nativeVars
  <2> QED
    BY <2>2, <2>3, <1>1 DEF Owned
<1>7. Handing' /\ RunningMeansServed'
  BY <1>1, <1>2, ServedKept DEF Handing, nativeVars
<1> QED
  BY <1>4, <1>5, <1>6, <1>7

LEMMA Spawned ==
  ASSUME Control, NEW d \in Daemon, NEW s, run \in Run, Spawn(d, s)
  PROVE  /\ proc'[d][run] = s /\ pidfile'[d] = run
         /\ \A e \in Daemon, r \in Run : e # d \/ r # run => proc'[e][r] = proc[e][r]
         /\ \A e \in Daemon : e # d => pidfile'[e] = pidfile[e]
BY DEF Control, TypeOK, Spawn

(* A launch replaces the pid file of no daemon at work: none stands.           *)
LEMMA SpawnNamed ==
  ASSUME Control, Daemons, NEW d \in Daemon, NEW s, run \in Run, Spawn(d, s),
         UNCHANGED <<term, unread, run, deaths>>,
         pc["main"] # "idle", pc["main"] \notin Launched[d]
  PROVE  Named'
<1> USE DEF Control, Daemons
<1>1. SUFFICES ASSUME NEW e \in Daemon, NEW r \in Run, proc'[e][r] # "none", <<e, r>> \notin term
               PROVE  pidfile'[e] = r \/ <<e, r>> \in unread \/ (deaths > 0 /\ r < run)
  BY DEF Named
<1>2. CASE e # d
  BY <1>1, <1>2, Spawned DEF Named
<1>3. CASE e = d /\ r = run
  BY <1>3, Spawned
<1>4. CASE e = d /\ r # run
  <2>1. proc[e][r] # "none"
    BY <1>1, <1>4, Spawned
  <2>2. r <= run /\ r \in Nat /\ run \in Nat /\ r # 0
    BY <2>1, ServiceAssumption DEF Fresh, TypeOK, Run
  <2>3. r < run
    BY <2>2, <1>4
  <2>4. ~Standing(d) \/ deaths # 0
    BY DEF Owned
  <2>5. pidfile[d] = r => deaths # 0
    BY <2>1, <2>2, <2>4, <1>1, <1>4 DEF Standing
  <2>6. deaths # 0 => deaths > 0
    BY ServiceAssumption DEF TypeOK
  <2> QED
    BY <2>1, <2>3, <2>5, <2>6, <1>1, <1>4 DEF Named
<1> QED
  BY <1>2, <1>3, <1>4

LEMMA ExecPdnsdDaemons == ASSUME Control, Daemons, ExecPdnsd PROVE Daemons'
<1> USE DEF Daemons, Control
<1>1. /\ pc["main"] = "pdnsd" /\ run \in Run /\ proc["tun2socks"][run] = "none" /\ got[run] = 0
      /\ UNCHANGED <<run, deaths, mRunning, cur, insts, queue, term, unread, got, path>>
  BY DEF ExecPdnsd, amsVars, Fresh
<1>2. pc'["main"] = "tun2socks"
  <2>1. "main" \in Thread /\ "tun2socks" \in Label
    BY Labelled DEF StartPC
  <2> QED
    BY <2>1, Gone DEF ExecPdnsd
<1>3. "pdnsd" \in Daemon /\ "tun2socks" \in Daemon /\ Daemon = {"tun2socks", "pdnsd"}
  BY DEF Daemon
<1>4. pc["main"] \notin Launched["pdnsd"] /\ pc["main"] \notin Launched["tun2socks"] /\ pc["main"] # "idle"
  BY <1>1, Labels
<1>5. Handing' /\ RunningMeansServed'
  BY <1>1, <1>2, ServedKept DEF Handing
<1>6. CASE UNCHANGED <<proc, pidfile>>
  <2>1. Fresh'
    BY <1>1, <1>2, <1>6, FreshKept
  <2>2. Named'
    BY <1>1, <1>6, NamedKept
  <2>3. \A d \in Daemon : Standing(d)' <=> Standing(d)
    BY <1>1, <1>6 DEF Standing
  <2>4. deaths = 0 => \A d \in Daemon : ~Standing(d)
    BY <1>3, <1>4 DEF Owned
  <2>5. Owned'
    BY <2>3, <2>4, <1>1 DEF Owned
  <2> QED
    BY <2>1, <2>2, <2>5, <1>5
<1>7. ASSUME NEW s \in {"none", "run"}, Spawn("pdnsd", s) PROVE Daemons'
  <2>1. /\ proc'["pdnsd"][run] = s /\ pidfile'["pdnsd"] = run
        /\ \A r \in Run : proc'["tun2socks"][r] = proc["tun2socks"][r]
        /\ \A r \in Run : r # run => proc'["pdnsd"][r] = proc["pdnsd"][r]
        /\ pidfile'["tun2socks"] = pidfile["tun2socks"]
    BY <1>1, <1>3, <1>7, Spawned
  <2>2. Named'
    BY <1>1, <1>3, <1>4, <1>7, SpawnNamed
  <2>3. Fresh'
    <3>1. path # 0 => path \in Run
      BY ServiceAssumption DEF TypeOK, Run
    <3>2. run <= run
      BY ServiceAssumption DEF TypeOK
    <3>3. \A d \in Daemon, r \in Run : proc'[d][r] # "none" => r <= run'
      BY <3>2, <2>1, <1>1, <1>3 DEF Fresh
    <3> QED
      BY <3>1, <3>3, <2>1, <1>1, <1>2 DEF Fresh
  <2>4. Owned'
    <3>1. pidfile["tun2socks"] # 0 => pidfile["tun2socks"] \in Run
      BY <1>3, ServiceAssumption DEF TypeOK, Run
    <3>2. Standing("tun2socks")' => Standing("tun2socks")
      BY <3>1, <2>1, <1>1 DEF Standing
    <3>3. deaths = 0 => ~Standing("tun2socks")
      BY <1>3, <1>4 DEF Owned
    <3>4. pc'["main"] \in Launched["pdnsd"]
      BY <1>2, Labels
    <3> QED
      BY <3>2, <3>3, <3>4, <1>1, <1>3 DEF Owned
  <2> QED
    BY <2>2, <2>3, <2>4, <1>5
<1> QED
  BY <1>6, <1>7 DEF ExecPdnsd

LEMMA ExecTun2socksDaemons == ASSUME Control, Daemons, ExecTun2socks PROVE Daemons'
<1> USE DEF Daemons, Control
<1>1. /\ pc["main"] = "tun2socks" /\ run \in Run /\ proc["tun2socks"][run] = "none" /\ got[run] = 0
      /\ UNCHANGED <<run, deaths, mRunning, cur, insts, queue, term, unread, got, path>>
  BY DEF ExecTun2socks, amsVars, Fresh
<1>2. /\ {"sendfd", "kill_tun2socks"} \subseteq Label /\ "main" \in Thread
  BY Labelled, StopLabels DEF StartPC
<1>3. "pdnsd" \in Daemon /\ "tun2socks" \in Daemon /\ Daemon = {"tun2socks", "pdnsd"}
  BY DEF Daemon
<1>4. pc["main"] \notin Launched["tun2socks"] /\ pc["main"] # "idle"
  BY <1>1, Labels
<1>5. RunningMeansServed'
  BY <1>1, ServedKept
<1>6. deaths = 0 => ~Standing("tun2socks")
  BY <1>3, <1>4 DEF Owned
<1>7. CASE Goto("main", "kill_tun2socks") /\ UNCHANGED <<proc, pidfile>>
  <2>1. pc'["main"] = "kill_tun2socks"
    BY <1>2, <1>7, Gone
  <2>2. Fresh'
    BY <1>1, <1>7, <2>1, FreshKept
  <2>3. Named'
    BY <1>1, <1>7, NamedKept
  <2>4. \A d \in Daemon : Standing(d)' <=> Standing(d)
    BY <1>1, <1>7 DEF Standing
  <2>5. \A d \in Daemon : pc'["main"] \in Launched[d]
    BY <2>1, <1>3, Labels
  <2>6. Owned' /\ Handing'
    BY <2>1, <2>5 DEF Owned, Handing
  <2> QED
    BY <2>2, <2>3, <2>6, <1>5
<1>8. CASE Goto("main", "sendfd") /\ Spawn("tun2socks", "boot")
  <2>1. /\ proc'["tun2socks"][run] = "boot" /\ pidfile'["tun2socks"] = run
        /\ \A r \in Run : proc'["pdnsd"][r] = proc["pdnsd"][r]
        /\ \A r \in Run : r # run => proc'["tun2socks"][r] = proc["tun2socks"][r]
        /\ pidfile'["pdnsd"] = pidfile["pdnsd"]
    BY <1>1, <1>3, <1>8, Spawned
  <2>2. pc'["main"] = "sendfd"
    BY <1>2, <1>8, Gone
  <2>3. Named'
    BY <1>1, <1>3, <1>4, <1>8, SpawnNamed
  <2>4. Fresh'
    <3>1. path # 0 => path \in Run /\ path # run
      <4>1. path # 0 => path \in Run
        BY ServiceAssumption DEF TypeOK, Run
      <4> QED
        BY <4>1, <1>1 DEF Fresh
    <3>2. run <= run
      BY ServiceAssumption DEF TypeOK
    <3>3. \A d \in Daemon, r \in Run : proc'[d][r] # "none" => r <= run'
      BY <3>2, <2>1, <1>1, <1>3 DEF Fresh
    <3>4. \A r \in Run : proc'["tun2socks"][r] \in {"boot", "wait"} => got'[r] = 0
      BY <2>1, <1>1 DEF Fresh
    <3>5. path' # 0 => proc'["tun2socks"][path'] = "wait"
      BY <3>1, <2>1, <1>1 DEF Fresh
    <3> QED
      BY <3>3, <3>4, <3>5, <2>2, <1>1 DEF Fresh
  <2>5. \A d \in Daemon : pc'["main"] \in Launched[d]
    BY <2>2, <1>3, Labels
  <2>6. Owned' /\ Handing'
    BY <2>1, <2>5, <1>1 DEF Owned, Handing
  <2> QED
    BY <2>3, <2>4, <2>6, <1>5
<1> QED
  BY <1>7, <1>8 DEF ExecTun2socks

(* A descriptor is handed over only to a tun2socks that waits.                 *)
LEMMA SendfdDaemons == ASSUME Control, Daemons, sendfd PROVE Daemons'
<1> USE DEF Daemons, Control
<1> DEFINE i == inst["main"]
<1>1. /\ pc["main"] = "sendfd" /\ run \in Run
      /\ UNCHANGED <<run, deaths, cur, insts, queue, term, unread, pidfile>>
  BY DEF sendfd, amsVars, Fresh
<1>2. /\ {"idle", "sendfd", "kill_tun2socks"} \subseteq Label /\ "main" \in Thread
      /\ i \in Instance
  BY <1>1, Labelled, StopLabels DEF StartPC, Busy
<1>3. "pdnsd" \in Daemon /\ "tun2socks" \in Daemon /\ Daemon = {"tun2socks", "pdnsd"}
  BY DEF Daemon
<1>4. CASE UNCHANGED <<proc, got, mRunning, path>> /\ Goto("main", IF tries = 1 THEN "kill_tun2socks" ELSE "sendfd")
  <2>1. pc'["main"] \in {"kill_tun2socks", "sendfd"}
    BY <1>2, <1>4, Gone
  <2>2. Fresh'
    BY <2>1, <1>1, <1>4, FreshKept
  <2>3. Named'
    BY <1>1, <1>4, NamedKept
  <2>4. \A d \in Daemon : pc'["main"] \in Launched[d]
    BY <2>1, <1>3, Labels
  <2>5. Owned' /\ Handing' /\ RunningMeansServed'
    BY <2>4, <1>1, <1>4, ServedKept DEF Owned, Handing
  <2> QED
    BY <2>2, <2>3, <2>5
<1>5. CASE /\ path # 0 /\ fd[i] = "open"
           /\ proc' = [proc EXCEPT !["tun2socks"][path] = "run"]
           /\ got' = [got EXCEPT ![path] = i]
           /\ mRunning' = [mRunning EXCEPT ![i] = TRUE]
           /\ path' = 0
           /\ Goto("main", "idle")
  <2>1. path \in Run /\ proc["tun2socks"][path] = "wait" /\ got[path] = 0 /\ path <= run
    <3>1. path \in Run
      BY <1>5, ServiceAssumption DEF TypeOK, Run
    <3> QED
      BY <3>1, <1>3, <1>5 DEF Fresh
  <2>2. /\ proc'["tun2socks"][path] = "run"
        /\ \A d \in Daemon, r \in Run : d # "tun2socks" \/ r # path => proc'[d][r] = proc[d][r]
    BY <2>1, <1>3, <1>5 DEF TypeOK
  <2>3. got'[path] = i /\ \A r \in Run : r # path => got'[r] = got[r]
    BY <2>1, <1>5 DEF TypeOK
  <2>4. mRunning'[i] /\ \A j \in Instance : j # i => mRunning'[j] = mRunning[j]
    BY <1>2, <1>5 DEF TypeOK
  <2>5. pc'["main"] = "idle"
    BY <1>2, <1>5, Gone
  <2>6. \A d \in Daemon, r \in Run : proc'[d][r] # "none" <=> proc[d][r] # "none"
    <3>1. proc["tun2socks"][path] # "none" /\ proc'["tun2socks"][path] # "none"
      BY <2>1, <2>2
    <3> QED
      BY <3>1, <2>2
  <2>7. Fresh'
    <3>1. \A d \in Daemon, r \in Run : proc'[d][r] # "none" => r <= run'
      BY <2>6, <1>1 DEF Fresh
    <3>2. \A r \in Run : got'[r] # 0 => r <= run'
      BY <2>1, <2>3, <1>1 DEF Fresh
    <3>3. \A r \in Run : proc'["tun2socks"][r] \in {"boot", "wait"} => got'[r] = 0
      BY <2>2, <2>3, <1>3 DEF Fresh
    <3> QED
      BY <3>1, <3>2, <3>3, <2>5, <1>5 DEF Fresh
  <2>8. Named'
    BY <2>6, <1>1, NamedKept
  <2>9. Owned'
    <3>1. (i = cur' \/ Ends(queue', i)) /\ i <= insts' /\ From(queue', i)
      BY <1>1 DEF Undone, Ordered, StartPC, Pending
    <3> QED
      BY <3>1, <2>4, <2>5, <1>2 DEF Owned, Pending
  <2>10. Handing'
    BY <2>5 DEF Handing
  <2>11. RunningMeansServed'
    <3>1. SUFFICES ASSUME NEW j \in Instance, mRunning'[j] PROVE \E r \in Run : got'[r] = j
      BY DEF RunningMeansServed
    <3>2. CASE j = i
      BY <3>2, <2>1, <2>3
    <3>3. CASE j # i
      <4>1. PICK r \in Run : got[r] = j
        BY <3>1, <3>3, <2>4 DEF RunningMeansServed
      <4>2. r # path
        BY <4>1, <2>1, ServiceAssumption DEF Instance
      <4> QED
        BY <4>1, <4>2, <2>3
    <3> QED
      BY <3>2, <3>3
  <2> QED
    BY <2>7, <2>8, <2>9, <2>10, <2>11
<1> QED
  BY <1>4, <1>5 DEF sendfd

LEMMA KillDaemons ==
  ASSUME Control, Daemons, NEW t \in Thread, NEW d \in Daemon, Kill(t, d)
  PROVE  Daemons'
<1> USE DEF Daemons, Control
<1>1. /\ pc[t] = KillPC[d] /\ UNCHANGED <<run, deaths, mRunning, cur, insts, queue, pidfile, unread, got, path>>
  BY DEF Kill, amsVars
<1>2. pidfile[d] # 0 => pidfile[d] \in Run
  BY ServiceAssumption DEF TypeOK, Run
<1>3. /\ \A e \in Daemon, r \in Run :
           proc'[e][r] = proc[e][r] \/ (proc'[e][r] = "none" /\ proc[e][r] = "boot")
      /\ term \subseteq term'
      /\ pidfile[d] # 0 /\ proc'[d][pidfile[d]] # "none" => <<d, pidfile[d]>> \in term'
  <2>1. CASE pidfile[d] = 0
    BY <2>1 DEF Kill
  <2>2. CASE pidfile[d] # 0
    <3>1. /\ proc' = [proc EXCEPT ![d][pidfile[d]] = IF @ = "boot" THEN "none" ELSE @]
          /\ term' = term \cup Alive(d, pidfile[d], proc')
      BY <2>2 DEF Kill
    <3>2. \A e \in Daemon, r \in Run :
            proc'[e][r] = proc[e][r] \/ (proc'[e][r] = "none" /\ proc[e][r] = "boot")
      BY <3>1 DEF TypeOK
    <3> QED
      BY <3>1, <3>2 DEF Alive
  <2> QED
    BY <2>1, <2>2
<1>4. /\ pc'[t] \in {DeletePC[d], KilledPC[d]}
      /\ \A u \in Thread : u # t => pc'[u] = pc[u]
  <2>1. DeletePC[d] \in Label /\ KilledPC[d] \in Label
    BY Labels, Labelled, StopLabels DEF Daemon
  <2> QED
    BY <2>1, Gone DEF Kill
<1>5. /\ \/ pc'["main"] = pc["main"]
         \/ pc["main"] = KillPC[d] /\ pc'["main"] \in {DeletePC[d], KilledPC[d]}
  BY <1>1, <1>4, Labelled
<1>6. Fresh'
  <2>1. pc'["main"] \in {"pdnsd", "tun2socks", "sendfd"} => pc'["main"] = pc["main"]
    BY <1>5, Labels DEF Daemon
  <2> QED
    BY <2>1, <1>1, <1>3, FreshKept
<1>7. Named'
  BY <1>1, <1>3, NamedKept
<1>8. Owned'
  <2>1. ASSUME NEW e \in Daemon, Standing(e)' PROVE e # d /\ Standing(e)
    <3>1. pidfile[e] # 0 => pidfile[e] \in Run
      BY ServiceAssumption DEF TypeOK, Run
    <3> QED
      BY <3>1, <2>1, <1>1, <1>3 DEF Standing
  <2>2. \A e \in Daemon : e # d /\ pc["main"] \in Launched[e] => pc'["main"] \in Launched[e]
    BY <1>5, Labels DEF Daemon
  <2>3. pc["main"] = "idle" => pc'["main"] = "idle"
    BY <1>5, Labels DEF Daemon
  <2>4. Later
    BY <1>1, StandsLater
  <2> QED
    BY <2>1, <2>2, <2>3, <2>4, <1>1, OwnedKept
<1>9. Handing' /\ RunningMeansServed'
  <2>1. pc'["main"] = "sendfd" => pc["main"] = "sendfd"
    BY <1>5, Labels DEF Daemon
  <2> QED
    BY <2>1, <1>1, ServedKept DEF Handing
<1> QED
  BY <1>6, <1>7, <1>8, <1>9

LEMMA DeleteDaemons ==
  ASSUME Control, Daemons, NEW t \in Thread, NEW d \in Daemon, DeletePidFile(t, d)
  PROVE  Daemons'
<1> USE DEF Daemons, Control
<1>1. /\ pc[t] = DeletePC[d]
      /\ UNCHANGED <<run, deaths, mRunning, cur, insts, queue, proc, term, got, path>>
  BY DEF DeletePidFile, amsVars
<1>2. /\ pidfile'[d] = 0 /\ \A e \in Daemon : e # d => pidfile'[e] = pidfile[e]
  BY DEF DeletePidFile, TypeOK
<1>3. /\ unread \subseteq unread'
      /\ \A r \in Run : pidfile[d] = r /\ proc[d][r] # "none" /\ <<d, r>> \notin term =>
           <<d, r>> \in unread'
  <2>1. \A r \in Run : r # 0
    BY ServiceAssumption DEF Run
  <2> QED
    BY <2>1 DEF DeletePidFile, Alive
<1>4. /\ pc'[t] = KilledPC[d] /\ \A u \in Thread : u # t => pc'[u] = pc[u]
  <2>1. KilledPC[d] \in Label
    BY Labels, Labelled, StopLabels DEF Daemon
  <2> QED
    BY <2>1, Gone DEF DeletePidFile
<1>5. /\ \/ pc'["main"] = pc["main"]
         \/ pc["main"] = DeletePC[d] /\ pc'["main"] = KilledPC[d]
  BY <1>1, <1>4, Labelled
<1>6. Fresh'
  <2>1. pc'["main"] \in {"pdnsd", "tun2socks", "sendfd"} => pc'["main"] = pc["main"]
    BY <1>5, Labels DEF Daemon
  <2> QED
    BY <2>1, <1>1, FreshKept
<1>7. Named'
  BY <1>1, <1>2, <1>3, NamedKept
<1>8. Owned'
  <2>1. ASSUME NEW e \in Daemon, Standing(e)' PROVE e # d /\ Standing(e)
    BY <2>1, <1>1, <1>2 DEF Standing
  <2>2. \A e \in Daemon : e # d /\ pc["main"] \in Launched[e] => pc'["main"] \in Launched[e]
    BY <1>5, Labels DEF Daemon
  <2>3. pc["main"] = "idle" => pc'["main"] = "idle"
    BY <1>5, Labels DEF Daemon
  <2>4. Later
    BY <1>1, StandsLater
  <2> QED
    BY <2>1, <2>2, <2>3, <2>4, <1>1, OwnedKept
<1>9. Handing' /\ RunningMeansServed'
  <2>1. pc'["main"] = "sendfd" => pc["main"] = "sendfd"
    BY <1>5, Labels DEF Daemon
  <2>2. pidfile'["tun2socks"] \in {0, pidfile["tun2socks"]}
    BY <1>2 DEF Daemon
  <2> QED
    BY <2>1, <2>2, <1>1, ServedKept DEF Handing
<1> QED
  BY <1>6, <1>7, <1>8, <1>9

LEMMA ListenDaemons == ASSUME Control, Daemons, NEW r \in Run, Listen(r) PROVE Daemons'
<1> USE DEF Daemons, Control
<1>1. /\ proc["tun2socks"][r] = "boot"
      /\ UNCHANGED <<pc, run, deaths, mRunning, cur, insts, queue, term, pidfile, got>>
  BY DEF Listen, amsVars
<1>2. "tun2socks" \in Daemon
  BY DEF Daemon
<1>3. /\ proc'["tun2socks"][r] \in {"wait", "none"}
      /\ \A d \in Daemon, q \in Run : d # "tun2socks" \/ q # r => proc'[d][q] = proc[d][q]
  BY <1>2 DEF Listen, TypeOK
<1>4. \/ proc'["tun2socks"][r] = "wait" /\ path' = r /\ unread' = unread
      \/ proc'["tun2socks"][r] = "none" /\ path' = path /\ unread' = unread \ {<<"tun2socks", r>>}
  BY <1>2 DEF Listen, TypeOK
<1>5. \A d \in Daemon, q \in Run : proc'[d][q] # "none" => proc[d][q] # "none"
  BY <1>1, <1>3
<1>6. Fresh'
  <2>1. \A d \in Daemon, q \in Run : proc'[d][q] # "none" => q <= run'
    BY <1>1, <1>5 DEF Fresh
  <2>2. pc'["main"] \in {"pdnsd", "tun2socks"} =>
          run' \in Run /\ proc'["tun2socks"][run'] = "none" /\ got'[run'] = 0
    BY <1>1, <1>2, <1>5 DEF Fresh
  <2>3. \A q \in Run : proc'["tun2socks"][q] \in {"boot", "wait"} => got'[q] = 0
    BY <1>1, <1>2, <1>3 DEF Fresh
  <2>4. path' # 0 => proc'["tun2socks"][path'] = "wait"
    <3>1. path # 0 => path \in Run /\ path # r
      <4>1. path # 0 => path \in Run
        BY ServiceAssumption DEF TypeOK, Run
      <4> QED
        BY <4>1, <1>1 DEF Fresh
    <3> QED
      BY <3>1, <1>2, <1>3, <1>4 DEF Fresh
  <2> QED
    BY <2>1, <2>2, <2>3, <2>4, <1>1 DEF Fresh
<1>7. Named'
  <2>1. \A d \in Daemon, q \in Run : proc'[d][q] # "none" /\ <<d, q>> \in unread => <<d, q>> \in unread'
    BY <1>4
  <2> QED
    BY <2>1, <1>1, <1>5, NamedKept
<1>8. Owned'
  <2>1. \A d \in Daemon : Standing(d)' => Standing(d)
    <3>1. \A d \in Daemon : pidfile[d] # 0 => pidfile[d] \in Run
      BY ServiceAssumption DEF TypeOK, Run
    <3> QED
      BY <3>1, <1>1, <1>5 DEF Standing
  <2>2. Later
    BY <1>1, StandsLater
  <2> QED
    BY <2>1, <2>2, <1>1, OwnedKept
<1>9. Handing' /\ RunningMeansServed'
  BY <1>1, ServedKept DEF Handing
<1> QED
  BY <1>6, <1>7, <1>8, <1>9

LEMMA ExitDaemons ==
  ASSUME Control, Daemons, NEW d \in Daemon, NEW r \in Run, DaemonExits(d, r)
  PROVE  Daemons'
<1> USE DEF Daemons, Control
<1>1. /\ proc[d][r] = "run" /\ UNCHANGED <<pc, run, deaths, mRunning, cur, insts, queue, pidfile, got, path>>
      /\ term' = term \ {<<d, r>>} /\ unread' = unread \ {<<d, r>>}
  BY DEF DaemonExits, amsVars
<1>2. /\ proc'[d][r] = "none"
      /\ \A e \in Daemon, q \in Run : e # d \/ q # r => proc'[e][q] = proc[e][q]
  BY DEF DaemonExits, TypeOK
<1>3. Fresh'
  <2>1. \A e \in Daemon, q \in Run :
          proc'[e][q] = proc[e][q] \/ (proc'[e][q] = "none" /\ proc[e][q] # "wait")
    BY <1>1, <1>2
  <2> QED
    BY <2>1, <1>1, FreshKept
<1>4. \A e \in Daemon, q \in Run : proc'[e][q] # "none" =>
        /\ proc[e][q] # "none" /\ (<<e, q>> \in term' <=> <<e, q>> \in term)
        /\ (<<e, q>> \in unread' <=> <<e, q>> \in unread)
  BY <1>1, <1>2
<1>5. Named'
  BY <1>1, <1>4, NamedKept
<1>6. Owned'
  <2>1. \A e \in Daemon : Standing(e)' => Standing(e)
    <3>1. \A e \in Daemon : pidfile[e] # 0 => pidfile[e] \in Run
      BY ServiceAssumption DEF TypeOK, Run
    <3> QED
      BY <3>1, <1>1, <1>4 DEF Standing
  <2>2. Later
    BY <1>1, StandsLater
  <2> QED
    BY <2>1, <2>2, <1>1, OwnedKept
<1>7. Handing' /\ RunningMeansServed'
  BY <1>1, ServedKept DEF Handing
<1> QED
  BY <1>3, <1>5, <1>6, <1>7

(* After a death only the newest launch is promised to be named.              *)
LEMMA DieDaemons ==
  ASSUME Control, Daemons, deaths < MaxDeaths, Die, UNCHANGED <<starts, run, nativeVars>>
  PROVE  Daemons'
<1> USE DEF Daemons, Control, nativeVars
<1>1. /\ pc'["main"] = "idle" /\ deaths' = deaths + 1 /\ \A i \in Instance : ~mRunning'[i]
  BY Labelled DEF Die
<1>2. deaths \in Nat /\ deaths' > 0
  BY <1>1, ServiceAssumption DEF TypeOK
<1>3. Fresh'
  BY <1>1, FreshKept
<1>4. Named'
  BY <1>2 DEF Named
<1>5. Owned' /\ Handing' /\ RunningMeansServed'
  BY <1>1, <1>2 DEF Owned, Handing, RunningMeansServed
<1> QED
  BY <1>3, <1>4, <1>5

(* stopMe.                                                                    *)
LEMMA StopDaemons ==
  ASSUME Control, Daemons, NEW t \in Thread, stopMe(t)
  PROVE  Daemons'
<1>1. ASSUME NEW l \in {"idle", "undeploy", "clear_id", "stop_self"}, Goto(t, l), Later,
             pc[t] \in {"close_fd", "undeploy", "clear_id", "stop_self"},
             UNCHANGED <<nativeVars, run, deaths, mRunning>>
      PROVE  Daemons'
  <2>1. l \in Label
    BY Labelled, StopLabels
  <2>2. pc'[t] = l /\ \A u \in Thread : u # t => pc'[u] = pc[u]
    BY <2>1, <1>1, Gone DEF Control
  <2>3. CASE t = "main"
    BY <2>2, <2>3, <1>1, MainGoesClean
  <2>4. CASE t # "main"
    <3>1. pc'["main"] = pc["main"]
      BY <2>2, <2>4, Labelled
    <3> QED
      BY <3>1, <1>1, DaemonsKept
  <2> QED
    BY <2>3, <2>4
<1>2. ASSUME NEW d \in Daemon, Kill(t, d) \/ DeletePidFile(t, d) PROVE Daemons'
  BY <1>2, KillDaemons, DeleteDaemons
<1>3. CASE CloseFd(t)
  BY <1>1, <1>3, StandsLater DEF CloseFd, amsVars
<1>4. CASE LauncherStop(t)
  BY <1>1, <1>4, StandsLater DEF LauncherStop, amsVars
<1>5. CASE LauncherStopThrows(t)
  <2>1. CASE t = "main"
    BY <2>1, <1>5, DieDaemons DEF LauncherStopThrows
  <2>2. CASE t # "main"
    BY <2>2, <1>1, <1>5, StandsLater DEF LauncherStopThrows, amsVars
  <2> QED
    BY <2>1, <2>2
<1>6. CASE ClearID(t)
  BY <1>1, <1>6, StandsLater DEF ClearID, amsVars
<1>7. CASE StopSelf(t)
  BY <1>1, <1>7, StopSelfLater DEF StopSelf
<1> QED
  BY <1>2, <1>3, <1>4, <1>5, <1>6, <1>7 DEF stopMe

LEMMA DaemonsStep == Control /\ Daemons /\ [Next]_vars => Daemons'
<1>1. SUFFICES ASSUME Control, Daemons, [Next]_vars PROVE Daemons'
  OBVIOUS
<1>2. CASE startVpn
  BY <1>1, <1>2, StartVpnLater, DaemonsKept DEF startVpn
<1>3. CASE ProcessKilled
  BY <1>1, <1>3, DieDaemons DEF ProcessKilled
<1>4. CASE MainStep
  <2>1. CASE configure
    <3>1. /\ pc["main"] = "configure" /\ pc'["main"] \in {"launch", "idle"}
          /\ UNCHANGED <<nativeVars, run, deaths, mRunning>>
      <4>1. "main" \in Thread /\ "launch" \in Label /\ "idle" \in Label
        BY Labelled DEF StartPC
      <4> QED
        BY <4>1, <1>1, <2>1, Gone DEF configure, Control
    <3> QED
      BY <3>1, <1>1, MainGoesClean
  <2>2. CASE stopMe("main")
    BY <2>2, <1>1, StopDaemons, Labelled
  <2> QED
    BY <2>1, <2>2, <1>1, <1>4, MainEventDaemons, LauncherStartDaemons, ExecPdnsdDaemons,
       ExecTun2socksDaemons, SendfdDaemons DEF MainStep
<1>5. ASSUME NEW b \in Binder, stopMe(b) PROVE Daemons'
  BY <1>1, <1>5, StopDaemons, Labelled
<1>6. ASSUME NEW b \in Binder, BinderStop(b) \/ onRevoke(b) PROVE Daemons'
  <2>1. PICK i \in 0 .. MaxStarts + MaxDeaths : EnterStop(b, i)
    BY <1>1, <1>6 DEF BinderStop, onRevoke, Control, TypeOK
  <2>2. "kill_tun2socks" \in Label /\ b \in Thread /\ b # "main" /\ "main" \in Thread
    BY Labelled, StopLabels
  <2>3. pc'["main"] = pc["main"]
    BY <2>1, <2>2, <1>1, Entered DEF EnterStop, Control
  <2>4. UNCHANGED <<nativeVars, run, deaths, mRunning>>
    BY <1>6 DEF BinderStop, onRevoke
  <2>5. Later
    BY <1>1, <1>6, StandsLater, RevokeLater DEF BinderStop
  <2> QED
    BY <2>3, <2>4, <2>5, <1>1, DaemonsKept
<1>7. CASE onBind \/ Rest \/ UNCHANGED vars
  <2>1. UNCHANGED <<pc, nativeVars, run, deaths, mRunning, cur, insts, queue>>
    BY <1>7 DEF onBind, Rest, vars, amsVars
  <2> QED
    BY <2>1, <1>1, StandsLater, DaemonsKept
<1>8. ASSUME NEW r \in Run, Deployed(r) \/ DeployFails(r) PROVE Daemons'
  <2>1. UNCHANGED <<pc, nativeVars, run, deaths, mRunning, cur, insts, queue>>
    BY <1>8 DEF Deployed, DeployFails, amsVars
  <2> QED
    BY <2>1, <1>1, StandsLater, DaemonsKept
<1>9. ASSUME NEW r \in Run, Listen(r) \/ \E d \in Daemon : DaemonExits(d, r) PROVE Daemons'
  BY <1>1, <1>9, ListenDaemons, ExitDaemons
<1> QED
  BY <1>1, <1>2, <1>3, <1>4, <1>5, <1>6, <1>7, <1>8, <1>9 DEF Next

LEMMA DaemonsInit == Init => Daemons
<1>1. SUFFICES ASSUME Init PROVE Daemons
  OBVIOUS
<1>2. /\ pc["main"] = "idle" /\ \A i \in Instance : ~mRunning[i]
      /\ \A d \in Daemon, r \in Run : proc[d][r] = "none"
      /\ \A d \in Daemon : pidfile[d] = 0
      /\ \A r \in Run : got[r] = 0
      /\ path = 0
  BY <1>1, Labelled DEF Init
<1>3. Fresh /\ Named /\ Handing /\ RunningMeansServed
  <2>1. Fresh
    BY <1>2 DEF Fresh, Daemon
  <2> QED
    BY <2>1, <1>2 DEF Named, Handing, RunningMeansServed
<1>4. Owned
  BY <1>2 DEF Owned, Standing
<1> QED
  BY <1>3, <1>4 DEF Daemons

(* Of the daemons, their pid files and the descriptor: see Daemons.            *)
THEOREM DaemonsInvariance == Spec => []Daemons
<1>1. Control /\ Control' /\ Daemons /\ [Next]_vars => Daemons'
  BY DaemonsStep
<1> QED
  BY <1>1, ControlInvariance, DaemonsInit, PTL DEF Spec

(* Every daemon at work that was not told to end can still be found by its    *)
(* pid file, but for the exceptions DaemonNamed names: a killPidFile that     *)
(* deleted the file unread, a start after the process died.                    *)
THEOREM DaemonsFound == Spec => []DaemonsKnown
<1>1. Control /\ Daemons => DaemonsKnown
  BY DEF Control, Daemons, Named, DaemonsKnown, DaemonNamed, Working
<1> QED
  BY <1>1, ControlInvariance, DaemonsInvariance, PTL

(* Once the service is gone and nothing is under way, its descriptor is       *)
(* closed, and a daemon that still works was missed by a killPidFile that      *)
(* deleted its pid file unread, or the service process had died.               *)
THEOREM NothingOrphaned == Spec => []NoOrphanDaemon
<1>1. Control /\ Daemons => NoOrphanDaemon
  <2>1. SUFFICES ASSUME Control, Daemons, Quiescent, cur = 0, deaths = 0
                 PROVE  /\ \A i \in Instance : fd[i] # "open"
                        /\ \A d \in Daemon : \A r \in Working(d) : <<d, r>> \in unread
    BY DEF NoOrphanDaemon
  <2>2. pc["main"] = "idle" /\ queue = <<>>
    BY <2>1, Labelled DEF Quiescent
  <2>3. \A i \in Instance : ~Pending(i)
    <3>1. \A i \in Instance : i # 0
      BY ServiceAssumption DEF Instance
    <3> QED
      BY <3>1, <2>1, <2>2, EmptyQueue DEF Pending
  <2>4. \A i \in Instance : fd[i] # "open"
    BY <2>1, <2>2, <2>3 DEF Control, Held, BeforeClose
  <2>5. \A d \in Daemon : ~Standing(d)
    <3>1. \A d \in Daemon : pc["main"] \notin Launched[d]
      BY <2>2, Labels DEF Daemon
    <3> QED
      BY <3>1, <2>1, <2>3 DEF Daemons, Owned
  <2>6. ASSUME NEW d \in Daemon, NEW r \in Working(d), <<d, r>> \notin unread PROVE FALSE
    <3>1. r \in Run /\ proc[d][r] = "run" /\ <<d, r>> \notin term /\ r # 0
      BY ServiceAssumption DEF Working, Run
    <3>2. pidfile[d] = r
      BY <3>1, <2>1, <2>6 DEF Daemons, Named
    <3> QED
      BY <3>1, <3>2, <2>5 DEF Standing
  <2> QED
    BY <2>4, <2>6
<1> QED
  BY <1>1, ControlInvariance, DaemonsInvariance, PTL

(* mRunning is set only when a tun2socks received the instance's descriptor,  *)
(* and while the process lives it is the one this start launched, or one that  *)
(* was told to end or was missed by killPidFile.                               *)
THEOREM HandoverTruthful == Spec => DescriptorServed
<1>1. Control /\ Daemons /\ Daemons' /\ [Next]_vars =>
        [ /\ RunningMeansServed'
          /\ \A r \in Run : got'[r] # got[r] =>
               \/ r = run
               \/ <<"tun2socks", r>> \in term \cup unread
               \/ deaths > 0 ]_vars
  <2>1. SUFFICES ASSUME Control, Daemons, Daemons', [Next]_vars, NEW r \in Run, got'[r] # got[r]
                 PROVE  \/ r = run
                        \/ <<"tun2socks", r>> \in term \cup unread
                        \/ deaths > 0
    BY DEF Daemons
  <2>2. sendfd
    BY <2>1 DEF Next, vars, nativeVars, startVpn, onBind, ProcessKilled, MainStep, Rest, MainEvent,
       configure, LauncherStart, ExecPdnsd, ExecTun2socks, stopMe, Kill, DeletePidFile, CloseFd,
       LauncherStop, LauncherStopThrows, ClearID, StopSelf, BinderStop, onRevoke, Deployed,
       DeployFails, Listen, DaemonExits
  <2>3. r = path /\ path # 0 /\ "tun2socks" \in Daemon
    BY <2>1, <2>2 DEF sendfd, Control, TypeOK, Daemon
  <2>4. proc["tun2socks"][r] # "none" /\ pidfile["tun2socks"] \in {0, run} /\ r # 0
    BY <2>1, <2>2, <2>3 DEF Daemons, Fresh, Handing, sendfd
  <2> QED
    BY <2>1, <2>3, <2>4 DEF Daemons, Named
<1> QED
  BY <1>1, ControlInvariance, DaemonsInvariance, PTL DEF Spec, DescriptorServed

-----------------------------------------------------------------------------
(* Verticles is inductive, relative to Control.                            *)

(* A verticle that is not gone, and lost no race.                            *)
Loose(r) == vert[r] \in {"deploying", "deployed"} /\ r \notin raced

(* Steps that leave the Launcher alone.                                       *)
LEMMA VerticlesKept ==
  ASSUME Verticles, UNCHANGED launcherVars,
         \A t \in Thread : pc'[t] = "clear_id" => pc[t] = "clear_id",
         pc["main"] \in BeforeUndeployed => pc'["main"] \in BeforeUndeployed,
         \A i \in Instance : Pending(i) => Pending(i)' \/ pc'["main"] \in BeforeUndeployed
  PROVE  Verticles'
<1>1. Identified'
  BY DEF Verticles, Identified, launcherVars
<1>2. Undeployable'
  BY DEF Verticles, Undeployable, launcherVars, Pending
<1> QED
  BY <1>1, <1>2 DEF Verticles

(* Nothing is loose: after Launcher.stop, after a death.                      *)
LEMMA NoneLoose ==
  /\ (\A r \in Run : ~Loose(r)) => Verticles
  /\ (\A r \in Run : ~Loose(r)') => Verticles'
BY DEF Loose, Verticles, Identified, Undeployable

(* The main thread enters a label from another, in a start or a stop.          *)
LEMMA MainVerticles ==
  ASSUME Control, Verticles, NEW t \in Thread, NEW l \in Label, Goto(t, l), l # "clear_id",
         UNCHANGED launcherVars, UNCHANGED <<cur, queue, insts>> \/ Later,
         pc[t] \in BeforeUndeployed => l \in BeforeUndeployed
  PROVE  Verticles'
<1>1. pc'[t] = l /\ \A u \in Thread : u # t => pc'[u] = pc[u]
  BY Gone DEF Control
<1>2. \A i \in Instance : Pending(i) => Pending(i)'
  BY StandsLater DEF Later
<1>3. pc["main"] \in BeforeUndeployed => pc'["main"] \in BeforeUndeployed
  BY <1>1, Labelled
<1> QED
  BY <1>1, <1>2, <1>3, VerticlesKept

LEMMA MainEventVerticles == ASSUME Control, Verticles, MainEvent PROVE Verticles'
<1> DEFINE h == Head(queue)
<1>1. /\ pc["main"] = "idle" /\ queue \in Seq(Event) /\ queue # <<>> /\ queue' = Tail(queue)
      /\ UNCHANGED <<cur, launcherVars>>
  BY DEF MainEvent, Control, TypeOK, Event
<1>2. /\ \/ h[1] = "destroy" /\ pc'["main"] = "kill_tun2socks"
         \/ h[1] # "destroy" /\ pc'["main"] \in {"configure", "idle"}
      /\ \A t \in Thread : t # "main" => pc'[t] = pc[t]
  <2>1. "main" \in Thread /\ pc \in [Thread -> Label]
    BY Labelled DEF Control, TypeOK, Label
  <2> QED
    BY <2>1, <1>1 DEF MainEvent, Enter
<1>3. ASSUME NEW i \in Instance, Pending(i)
      PROVE  Pending(i)' \/ pc'["main"] \in BeforeUndeployed
  <2>1. i = cur \/ h = <<"destroy", i>> \/ Ends(queue', i)
    BY <1>1, <1>3, EndsTail DEF Pending
  <2>2. CASE h = <<"destroy", i>>
    <3>1. h[1] = "destroy"
      BY <2>2
    <3> QED
      BY <3>1, <1>2 DEF BeforeUndeployed, BeforeClose
  <2> QED
    BY <2>1, <2>2, <1>1 DEF Pending
<1>4. pc["main"] \notin BeforeUndeployed
  BY <1>1 DEF BeforeUndeployed, BeforeClose
<1>5. \A t \in Thread : pc'[t] = "clear_id" => pc[t] = "clear_id"
  BY <1>2
<1> QED
  BY <1>1, <1>3, <1>4, <1>5, VerticlesKept

LEMMA LauncherStartVerticles == ASSUME Control, Verticles, LauncherStart PROVE Verticles'
<1>1. /\ pc["main"] = "launch" /\ UNCHANGED <<cur, queue, insts, ID, raced>>
      /\ vert' = [vert EXCEPT ![run + 1] = "deploying"]
  BY DEF LauncherStart, amsVars
<1>2. /\ pc'["main"] = "pdnsd" /\ inst'["main"] = inst["main"]
      /\ \A u \in Thread : u # "main" => pc'[u] = pc[u]
  <2>1. "main" \in Thread /\ "pdnsd" \in Label
    BY Labelled DEF StartPC
  <2> QED
    BY <2>1, Gone DEF LauncherStart, Control
<1>3. \A r \in Run : vert'[r] = "deployed" => vert[r] = "deployed"
  BY <1>1 DEF Control, TypeOK
<1>4. Identified'
  BY <1>1, <1>2, <1>3 DEF Verticles, Identified
<1>5. \E i \in Instance : i = cur' \/ Ends(queue', i)
  <2>1. Pending(inst["main"]) /\ inst["main"] \in Instance
    BY <1>1, Labelled DEF Control, Undone, Busy, StartPC
  <2> QED
    BY <2>1, <1>1 DEF Pending
<1>6. Undeployable'
  BY <1>5 DEF Undeployable, Pending
<1> QED
  BY <1>4, <1>6 DEF Verticles

(* Launcher.stop undeploys the verticle of ID; all the others that are not     *)
(* gone have lost a race.                                                      *)
LEMMA LauncherStopVerticles ==
  ASSUME Control, Verticles, NEW t \in Thread, LauncherStop(t)
  PROVE  Verticles'
<1>1. SUFFICES ASSUME NEW r \in Run, vert'[r] \in {"deploying", "deployed"}, r \notin raced'
               PROVE  FALSE
  BY NoneLoose DEF Loose
<1>2. r # 0 /\ vert[r] \in {"none", "deploying", "deployed", "gone"}
  BY ServiceAssumption DEF Control, TypeOK, Run
<1>3. r # ID /\ vert'[r] = vert[r]
  <2>1. CASE \A q \in Run : vert[q] = "none"
    <3>1. vert' = vert \/ (ID # 0 /\ vert' = [vert EXCEPT ![ID] = "gone"])
      BY DEF LauncherStop
    <3>2. vert'[r] \in {"none", "gone"}
      BY <3>1, <2>1 DEF Control, TypeOK
    <3> QED
      BY <3>2, <1>1
  <2>2. CASE ID = 0 /\ UNCHANGED vert
    BY <2>2, <1>2
  <2>3. CASE ID # 0 /\ vert' = [vert EXCEPT ![ID] = "gone"]
    <3>1. r # ID
      BY <2>3, <1>1 DEF Control, TypeOK
    <3> QED
      BY <3>1, <2>3 DEF Control, TypeOK
  <2> QED
    BY <2>1, <2>2, <2>3 DEF LauncherStop
<1>4. r \notin raced /\ vert[r] # "deploying"
  BY <1>1, <1>3 DEF LauncherStop
<1> QED
  BY <1>1, <1>3, <1>4 DEF Verticles, Identified

LEMMA ThrowsVerticles ==
  ASSUME Control, Verticles, NEW t \in Thread, LauncherStopThrows(t)
  PROVE  Verticles'
<1>1. CASE t = "main"
  <2>1. \A r \in Run : vert'[r] = "none"
    BY <1>1 DEF LauncherStopThrows, Die
  <2>2. \A r \in Run : ~Loose(r)'
    BY <2>1 DEF Loose
  <2> QED
    BY <2>2, NoneLoose
<1>2. CASE t # "main"
  <2>1. /\ ID = 0 /\ UNCHANGED vert /\ raced' = raced \cup {r \in Run : vert[r] = "deploying"}
    BY <1>2 DEF LauncherStopThrows
  <2>2. \A r \in Run : r # 0
    BY ServiceAssumption DEF Run
  <2>3. \A r \in Run : ~Loose(r)'
    BY <2>1, <2>2 DEF Loose, Verticles, Identified
  <2> QED
    BY <2>3, NoneLoose
<1> QED
  BY <1>1, <1>2

LEMMA ClearIDVerticles ==
  ASSUME Control, Verticles, NEW t \in Thread, ClearID(t)
  PROVE  Verticles'
<1>1. pc[t] = "clear_id" /\ UNCHANGED <<vert, raced, cur, queue>>
  BY DEF ClearID, amsVars
<1>2. \A u \in Thread : u # t => pc'[u] = pc[u]
  <2>1. "stop_self" \in Label
    BY Labelled, StopLabels
  <2> QED
    BY <2>1, Gone DEF ClearID, Control
<1>3. Identified'
  BY <1>1 DEF Verticles, Identified
<1>4. pc["main"] \in BeforeUndeployed => pc'["main"] = pc["main"]
  BY <1>1, <1>2, Labelled DEF BeforeUndeployed, BeforeClose
<1>5. Undeployable'
  BY <1>1, <1>4 DEF Verticles, Undeployable, Pending
<1> QED
  BY <1>3, <1>5 DEF Verticles

LEMMA DeployedVerticles ==
  ASSUME Control, Verticles, NEW r \in Run, Deployed(r) \/ DeployFails(r)
  PROVE  Verticles'
<1>1. UNCHANGED <<pc, cur, queue>> /\ vert[r] = "deploying"
  BY DEF Deployed, DeployFails, amsVars
<1>2. CASE Deployed(r)
  <2>1. vert'[r] = "deployed" /\ \A q \in Run : q # r => vert'[q] = vert[q]
    BY <1>2 DEF Deployed, Control, TypeOK
  <2>2. /\ ID' = r /\ raced \subseteq raced' /\ (vert[ID] = "deployed" /\ ID \in Run => ID \in raced')
        /\ ((\E t \in Thread : pc[t] = "clear_id") => r \in raced')
    BY <1>2 DEF Deployed
  <2>3. Identified'
    <3>1. SUFFICES ASSUME NEW q \in Run, vert'[q] = "deployed", q \notin raced'
                   PROVE  q = r /\ \A t \in Thread : pc[t] # "clear_id"
      BY <2>2, <1>1 DEF Identified
    <3>2. CASE q = r
      BY <3>1, <3>2, <2>2
    <3>3. CASE q # r
      <4>1. vert[q] = "deployed" /\ q \notin raced
        BY <3>1, <3>3, <2>1, <2>2
      <4>2. q = ID
        BY <4>1 DEF Verticles, Identified
      <4> QED
        BY <4>1, <4>2, <3>1, <2>2
    <3> QED
      BY <3>2, <3>3
  <2>4. \A q \in Run : Loose(q)' => Loose(q)
    BY <1>1, <2>1, <2>2 DEF Loose
  <2>5. Undeployable'
    BY <1>1, <2>4 DEF Verticles, Undeployable, Loose, Pending
  <2> QED
    BY <2>3, <2>5 DEF Verticles
<1>3. CASE DeployFails(r)
  <2>1. vert'[r] = "gone" /\ \A q \in Run : q # r => vert'[q] = vert[q]
    BY <1>3 DEF DeployFails, Control, TypeOK
  <2>2. ID' = ID /\ raced' = raced \ {r}
    BY <1>3 DEF DeployFails
  <2>3. \A q \in Run : vert'[q] \in {"deploying", "deployed"} /\ q \notin raced' =>
          vert[q] = vert'[q] /\ q \notin raced
    BY <2>1, <2>2
  <2>4. Identified'
    BY <1>1, <2>2, <2>3 DEF Verticles, Identified
  <2>5. Undeployable'
    BY <1>1, <2>3 DEF Verticles, Undeployable, Pending
  <2> QED
    BY <2>4, <2>5 DEF Verticles
<1> QED
  BY <1>2, <1>3

LEMMA VerticlesStep == Control /\ Verticles /\ [Next]_vars => Verticles'
<1>1. SUFFICES ASSUME Control, Verticles, [Next]_vars PROVE Verticles'
  OBVIOUS
<1>2. ASSUME UNCHANGED <<pc, launcherVars>>, Later PROVE Verticles'
  BY <1>1, <1>2, VerticlesKept DEF Later
<1>3. CASE startVpn
  BY <1>1, <1>2, <1>3, StartVpnLater DEF startVpn
<1>4. CASE ProcessKilled
  <2>1. \A r \in Run : vert'[r] = "none"
    BY <1>4 DEF ProcessKilled, Die
  <2>2. \A r \in Run : ~Loose(r)'
    BY <2>1 DEF Loose
  <2> QED
    BY <2>2, NoneLoose
<1>5. "main" \in Thread /\ \A l \in StartPC : l # "clear_id" /\ l \notin BeforeUndeployed
  BY Labelled DEF StartPC, BeforeUndeployed, BeforeClose
<1>6. /\ {"idle", "launch", "tun2socks", "sendfd", "kill_tun2socks"} \subseteq Label
      /\ {"configure", "pdnsd", "tun2socks", "sendfd"} \subseteq StartPC
  BY Labelled, StopLabels DEF StartPC
<1>7. CASE configure
  BY <1>1, <1>5, <1>6, <1>7, MainVerticles DEF configure, amsVars
<1>8. CASE ExecPdnsd
  BY <1>1, <1>5, <1>6, <1>8, MainVerticles DEF ExecPdnsd, amsVars
<1>9. CASE ExecTun2socks
  BY <1>1, <1>5, <1>6, <1>9, MainVerticles DEF ExecTun2socks, amsVars
<1>10. CASE sendfd
  BY <1>1, <1>5, <1>6, <1>10, MainVerticles DEF sendfd, amsVars
<1>11. ASSUME NEW t \in Thread, stopMe(t) PROVE Verticles'
  <2>1. \A d \in Daemon : /\ DeletePC[d] \in Label /\ KilledPC[d] \in Label
                          /\ DeletePC[d] \in BeforeUndeployed /\ KilledPC[d] \in BeforeUndeployed
                          /\ DeletePC[d] # "clear_id" /\ KilledPC[d] # "clear_id"
    BY Labels, Labelled, StopLabels DEF Daemon, BeforeUndeployed, BeforeClose
  <2>2. "undeploy" \in Label /\ "undeploy" \in BeforeUndeployed /\ "idle" \in Label
        /\ "stop_self" \notin BeforeUndeployed
    BY Labelled, StopLabels DEF BeforeUndeployed, BeforeClose
  <2>3. ASSUME NEW d \in Daemon, Kill(t, d) \/ DeletePidFile(t, d) PROVE Verticles'
    BY <2>1, <2>3, <1>1, <1>11, MainVerticles DEF Kill, DeletePidFile, amsVars
  <2>4. CASE CloseFd(t)
    BY <2>2, <2>4, <1>1, <1>11, MainVerticles DEF CloseFd, amsVars
  <2>5. CASE StopSelf(t)
    BY <2>2, <2>5, <1>1, <1>11, StopSelfLater, MainVerticles DEF StopSelf
  <2> QED
    BY <2>3, <2>4, <2>5, <1>1, <1>11, LauncherStopVerticles, ThrowsVerticles, ClearIDVerticles
       DEF stopMe
<1>12. ASSUME NEW b \in Binder, BinderStop(b) \/ onRevoke(b) PROVE Verticles'
  <2>1. PICK i \in 0 .. MaxStarts + MaxDeaths : EnterStop(b, i)
    BY <1>1, <1>12 DEF BinderStop, onRevoke, Control, TypeOK
  <2>2. "kill_tun2socks" \in Label /\ b \in Thread /\ b # "main"
    BY Labelled, StopLabels
  <2>3. pc'["main"] = pc["main"] /\ \A t \in Thread : pc'[t] = "clear_id" => pc[t] = "clear_id"
    BY <2>1, <2>2, <1>1, <1>5, Entered DEF EnterStop, Control
  <2>4. UNCHANGED launcherVars
    BY <1>12 DEF BinderStop, onRevoke
  <2>5. \A j \in Instance : Pending(j) => Pending(j)'
    BY <1>1, <1>12, StandsLater, RevokeLater DEF BinderStop, Later
  <2> QED
    BY <2>3, <2>4, <2>5, <1>1, VerticlesKept
<1>13. CASE onBind \/ Rest \/ UNCHANGED vars
  BY <1>2, <1>13, StandsLater DEF onBind, Rest, vars, amsVars
<1>14. ASSUME NEW r \in Run, Listen(r) \/ \E d \in Daemon : DaemonExits(d, r) PROVE Verticles'
  BY <1>2, <1>14, StandsLater DEF Listen, DaemonExits, amsVars
<1>15. CASE MainStep
  BY <1>1, <1>5, <1>7, <1>8, <1>9, <1>10, <1>11, <1>15, MainEventVerticles, LauncherStartVerticles
     DEF MainStep
<1>16. ASSUME NEW b \in Binder, stopMe(b) PROVE Verticles'
  BY <1>11, <1>16, Labelled
<1> QED
  BY <1>1, <1>3, <1>4, <1>12, <1>13, <1>14, <1>15, <1>16, DeployedVerticles DEF Next

(* A verticle that outlives the service lost a race with Launcher.stop, or     *)
(* with the callback of another verticle.                                      *)
THEOREM LeaksOnlyByRace == Spec => []VerticleLeakNeedsRace
<1>1. Init => Verticles
  <2>1. Init => \A r \in Run : ~Loose(r)
    BY DEF Init, Loose
  <2> QED
    BY <2>1, NoneLoose
<1>2. Control /\ Verticles => VerticleLeakNeedsRace
  <2>1. SUFFICES ASSUME Control, Verticles, Quiescent, cur = 0
                 PROVE  \A r \in Run : vert[r] = "deployed" => r \in raced
    BY DEF VerticleLeakNeedsRace
  <2>2. pc["main"] \notin BeforeUndeployed /\ queue = <<>>
    BY <2>1, Labelled DEF Quiescent, BeforeUndeployed, BeforeClose
  <2>3. \A i \in Instance : ~Pending(i)
    <3>1. \A i \in Instance : i # 0
      BY ServiceAssumption DEF Instance
    <3> QED
      BY <3>1, <2>1, <2>2, EmptyQueue DEF Pending
  <2> QED
    BY <2>1, <2>2, <2>3 DEF Verticles, Undeployable
<1>3. Control /\ Verticles /\ [Next]_vars => Verticles'
  BY VerticlesStep
<1> QED
  BY <1>1, <1>2, <1>3, ControlInvariance, PTL DEF Spec

-----------------------------------------------------------------------------
(* The switch of the screen, VpnSwitch.                                       *)

Notes == {"live", "old_up", "old_down", "gone"}

(* IInv of a given state of the fragment.                                     *)
Bindings(t) ==
  /\ t \in SwitchState
  /\ t.bind = "pending" => t.svc = "none"
  /\ t.bind = "bound" => t.svc # "none"
  /\ t.mBinder = "live" => t.bind = "bound"
  /\ \A i \in DOMAIN t.notes : t.notes[i] = "live" => t.bind = "bound"
  /\ Len(t.notes) <= MaxNotes + (IF t.bind = "bound" THEN 1 ELSE 0)

Consents(t) == /\ t.svc \in {"starting", "up"} => t.prepared
               /\ t.dialog => ~t.prepared

(* No binder of a former instance says it runs.                                *)
NoneStale(t) == t.mBinder # "old_up" /\ \A i \in DOMAIN t.notes : t.notes[i] # "old_up"

Shown(t) == t.checked /\ t.listener => t.svc \in {"up", "half"} \/ ~t.prepared

(* What no method of the fragment changes.                                      *)
Kept(t, u) == /\ u.lost = t.lost /\ u.unasked = t.unasked /\ u.wanted = t.wanted
              /\ u.booted = t.booted /\ u.prepared = t.prepared /\ u.checked = t.checked

(* The same without the switch.                                                 *)
Past(t, u) == /\ u.lost = t.lost /\ u.unasked = t.unasked /\ u.wanted = t.wanted
              /\ u.booted = t.booted /\ u.prepared = t.prepared

(* What is not touched by binding either.                                       *)
Apart(t, u) == /\ Kept(t, u) /\ u.mBinder = t.mBinder /\ u.dialog = t.dialog
              /\ u.mStarting = t.mStarting /\ u.mStopping = t.mStopping

-----------------------------------------------------------------------------
LEMMA Appended ==
  ASSUME NEW q \in Seq(Notes), NEW n \in Notes
  PROVE  /\ Append(q, n) \in Seq(Notes) /\ Len(Append(q, n)) = Len(q) + 1
         /\ \A i \in DOMAIN Append(q, n) : Append(q, n)[i] = n \/ (i \in DOMAIN q /\ Append(q, n)[i] = q[i])
  OBVIOUS

(* A binding is connected.                                                      *)
LEMMA Connects ==
  ASSUME NEW t, Bindings(t), t.bind = "none" \/ t.bind = "pending",
         NEW v \in ServiceState \ {"none"}, MaxNotes \in Nat
  PROVE  LET u == [t EXCEPT !.notes = Append(t.notes, "live"), !.bind = "bound", !.svc = v]
         IN  Bindings(u) /\ (NoneStale(t) => NoneStale(u))
<1> DEFINE u == [t EXCEPT !.notes = Append(t.notes, "live"), !.bind = "bound", !.svc = v]
           q == Append(t.notes, "live")
<1>1. t \in SwitchState /\ t.notes \in Seq(Notes)
  BY DEF Bindings, SwitchState, Notes
<1>2. /\ q \in Seq(Notes) /\ Len(q) = Len(t.notes) + 1
      /\ \A i \in DOMAIN q : q[i] = "live" \/ (i \in DOMAIN t.notes /\ q[i] = t.notes[i])
  BY <1>1, Appended DEF Notes
<1> HIDE DEF q
<1>3. u = [t EXCEPT !.notes = q, !.bind = "bound", !.svc = v]
  BY DEF q
<1> HIDE DEF u
<1>4. u \in SwitchState /\ u.notes = q /\ u.bind = "bound" /\ u.svc = v /\ u.mBinder = t.mBinder
  BY <1>1, <1>2, <1>3 DEF SwitchState, Notes, ServiceState
<1>5. Len(t.notes) <= MaxNotes /\ Len(t.notes) \in Nat
  BY <1>1 DEF Bindings
<1>6. Bindings(u)
  BY <1>2, <1>4, <1>5 DEF Bindings
<1>7. NoneStale(t) => NoneStale(u)
  BY <1>2, <1>4 DEF NoneStale
<1> QED BY <1>6, <1>7 DEF u

LEMMA BindsWell ==
  ASSUME NEW t, Bindings(t), MaxNotes \in Nat
  PROVE  LET u == bindService(t)
         IN  /\ Bindings(u) /\ (NoneStale(t) => NoneStale(u)) /\ Apart(t, u) /\ u.svc = t.svc
             /\ u.listener = t.listener /\ u.enabled = t.enabled
<1> DEFINE u == bindService(t)
<1>1. t \in SwitchState /\ t.svc \in ServiceState /\ t.bind \in {"none", "pending", "bound"}
  BY DEF Bindings, SwitchState
<1>2. CASE t.bind = "bound"
  BY <1>2 DEF bindService, Apart, Kept
<1>3. CASE t.bind # "bound" /\ t.svc = "none"
  <2>1. u = [t EXCEPT !.bind = "pending"]
    BY <1>3 DEF bindService
  <2> HIDE DEF u
  <2>2. u \in SwitchState /\ Apart(t, u) /\ u.svc = t.svc /\ u.bind = "pending" /\ u.notes = t.notes
        /\ u.listener = t.listener /\ u.enabled = t.enabled /\ u.mBinder = t.mBinder
    BY <1>1, <2>1 DEF SwitchState, Apart, Kept
  <2>3. Bindings(u) /\ (NoneStale(t) => NoneStale(u))
    BY <1>3, <2>2 DEF Bindings, NoneStale
  <2> QED BY <2>2, <2>3 DEF u
<1>4. CASE t.bind # "bound" /\ t.svc # "none"
  <2> DEFINE w == [t EXCEPT !.notes = Append(t.notes, "live"), !.bind = "bound", !.svc = t.svc]
  <2>1. u = w
    <3>1. u = Created([t EXCEPT !.bind = "pending"])
      BY <1>4 DEF bindService
    <3>2. QED BY <1>1, <3>1 DEF Created, SwitchState
  <2>2. Bindings(w) /\ (NoneStale(t) => NoneStale(w))
    BY <1>1, <1>4, Connects
  <2>3. Apart(t, w) /\ w.svc = t.svc /\ w.listener = t.listener /\ w.enabled = t.enabled
    BY <1>1 DEF SwitchState, Apart, Kept
  <2> QED BY <2>1, <2>2, <2>3
<1> QED BY <1>2, <1>3, <1>4

LEMMA StartsWell ==
  ASSUME NEW t, Bindings(t), MaxNotes \in Nat
  PROVE  LET u == startService(t)
         IN  /\ Bindings(u) /\ (NoneStale(t) => NoneStale(u)) /\ Apart(t, u)
             /\ u.svc = IF t.svc \in {"none", "idle"} THEN "starting" ELSE t.svc
             /\ u.listener = t.listener /\ u.enabled = t.enabled
<1> DEFINE u == startService(t)
<1>1. t \in SwitchState /\ t.svc \in ServiceState /\ t.bind \in {"none", "pending", "bound"}
  BY DEF Bindings, SwitchState
<1>2. CASE t.svc \notin {"none", "idle"}
  <2>1. u = t
    BY <1>2 DEF startService
  <2> QED BY <1>2, <2>1 DEF Apart, Kept
<1>3. CASE t.svc = "idle" \/ (t.svc = "none" /\ t.bind # "pending")
  <2>1. u = [t EXCEPT !.svc = "starting"]
    BY <1>1, <1>3 DEF startService, Created, SwitchState
  <2> HIDE DEF u
  <2>2. u \in SwitchState /\ Apart(t, u) /\ u.svc = "starting" /\ u.bind = t.bind /\ u.notes = t.notes
        /\ u.listener = t.listener /\ u.enabled = t.enabled /\ u.mBinder = t.mBinder
    BY <1>1, <2>1 DEF SwitchState, Apart, Kept, ServiceState
  <2>3. Bindings(u) /\ (NoneStale(t) => NoneStale(u))
    BY <1>3, <2>2 DEF Bindings, NoneStale
  <2> QED BY <1>3, <2>2, <2>3 DEF u
<1>4. CASE t.svc = "none" /\ t.bind = "pending"
  <2> DEFINE w == [t EXCEPT !.notes = Append(t.notes, "live"), !.bind = "bound",
                            !.svc = "starting"]
  <2>1. u = w
    BY <1>1, <1>4 DEF startService, Created, SwitchState
  <2>2. Bindings(w) /\ (NoneStale(t) => NoneStale(w))
    BY <1>1, <1>4, Connects DEF ServiceState
  <2>3. Apart(t, w) /\ w.svc = "starting" /\ w.listener = t.listener /\ w.enabled = t.enabled
    BY <1>1 DEF SwitchState, Apart, Kept
  <2> QED BY <1>4, <2>1, <2>2, <2>3
<1> QED BY <1>2, <1>3, <1>4

LEMMA ChecksWell ==
  ASSUME NEW t, Bindings(t), MaxNotes \in Nat
  PROVE  LET u == checkState(t)
         IN  /\ Bindings(u) /\ (NoneStale(t) => NoneStale(u)) /\ Apart(t, u) /\ u.svc = t.svc
             /\ u.listener = FALSE /\ u.enabled = FALSE
<1> DEFINE v == [t EXCEPT !.mRunning = FALSE, !.enabled = FALSE, !.listener = FALSE]
           u == checkState(t)
<1>1. t \in SwitchState
  BY DEF Bindings
<1>2. v \in SwitchState /\ Apart(t, v) /\ v.svc = t.svc /\ v.bind = t.bind /\ v.notes = t.notes
      /\ v.listener = FALSE /\ v.enabled = FALSE
  BY <1>1 DEF SwitchState, Apart, Kept
<1>3. u = IF v.mBinder = "null" THEN bindService(v) ELSE v
  BY DEF checkState
<1> HIDE DEF v, u
<1>4. Bindings(v) /\ (NoneStale(t) => NoneStale(v))
  BY <1>2 DEF Bindings, NoneStale, Apart
<1>5. CASE v.mBinder = "null"
  <2>1. /\ Bindings(u) /\ (NoneStale(v) => NoneStale(u)) /\ Apart(v, u) /\ u.svc = v.svc
        /\ u.listener = v.listener /\ u.enabled = v.enabled
    BY <1>3, <1>4, <1>5, BindsWell
  <2>2. Apart(t, u)
    BY <1>2, <2>1 DEF Apart, Kept
  <2> QED BY <1>2, <1>4, <2>1, <2>2 DEF u
<1>6. CASE v.mBinder # "null"
  BY <1>2, <1>3, <1>4, <1>6 DEF u
<1> QED BY <1>5, <1>6

(* What startVpn and onActivityResult do.                                        *)
LEMMA ResultWell ==
  ASSUME NEW t, Bindings(t), Consents(t), t.prepared, MaxNotes \in Nat
  PROVE  LET u == onActivityResult(t)
         IN  /\ Bindings(u) /\ (NoneStale(t) => NoneStale(u)) /\ Apart(t, u) /\ Consents(u)
             /\ u.svc = IF t.svc \in {"none", "idle"} THEN "starting" ELSE t.svc
             /\ u.listener = FALSE /\ u.enabled = FALSE
<1> DEFINE v == startService(t)
           u == onActivityResult(t)
<1>1. /\ Bindings(v) /\ (NoneStale(t) => NoneStale(v)) /\ Apart(t, v)
      /\ v.svc = IF t.svc \in {"none", "idle"} THEN "starting" ELSE t.svc
  BY StartsWell
<1>2. u = checkState(v)
  BY DEF onActivityResult
<1> HIDE DEF v, u
<1>3. /\ Bindings(u) /\ (NoneStale(v) => NoneStale(u)) /\ Apart(v, u) /\ u.svc = v.svc
      /\ u.listener = FALSE /\ u.enabled = FALSE
  BY <1>1, <1>2, ChecksWell
<1>4. Apart(t, u)
  BY <1>1, <1>3 DEF Apart, Kept
<1>5. Consents(u)
  BY <1>4 DEF Consents, Apart, Kept
<1> QED BY <1>1, <1>3, <1>4, <1>5 DEF u

LEMMA StartVpnWell ==
  ASSUME NEW t, Bindings(t), Consents(t), MaxNotes \in Nat
  PROVE  LET u == fragmentStartVpn(t)
         IN  /\ Bindings(u) /\ (NoneStale(t) => NoneStale(u)) /\ Kept(t, u) /\ Consents(u)
             /\ t.prepared => /\ u.listener = FALSE /\ u.enabled = FALSE
                              /\ u.svc = IF t.svc \in {"none", "idle"} THEN "starting" ELSE t.svc
             /\ ~t.prepared => /\ u.listener = t.listener /\ u.enabled = t.enabled
                               /\ u.svc = t.svc
<1> DEFINE v == [t EXCEPT !.mStarting = TRUE]
           w == [v EXCEPT !.dialog = TRUE]
           u == fragmentStartVpn(t)
<1>1. t \in SwitchState
  BY DEF Bindings
<1>2. v \in SwitchState /\ Kept(t, v) /\ v.mBinder = t.mBinder /\ v.dialog = t.dialog /\ v.svc = t.svc
      /\ v.bind = t.bind /\ v.notes = t.notes
      /\ v.listener = t.listener /\ v.enabled = t.enabled
  BY <1>1 DEF SwitchState, Kept
<1>3. u = IF v.prepared THEN onActivityResult(v) ELSE w
  BY DEF fragmentStartVpn
<1>4. w \in SwitchState /\ Kept(t, w) /\ w.mBinder = t.mBinder /\ w.dialog = TRUE /\ w.svc = t.svc
      /\ w.bind = t.bind /\ w.notes = t.notes
      /\ w.listener = t.listener /\ w.enabled = t.enabled
  BY <1>1 DEF SwitchState, Kept
<1> HIDE DEF u, v, w
<1>5. CASE t.prepared
  <2>1. Bindings(v) /\ Consents(v) /\ v.prepared /\ (NoneStale(t) => NoneStale(v))
    BY <1>2, <1>5 DEF Bindings, Consents, Kept, NoneStale
  <2>2. u = onActivityResult(v)
    BY <1>3, <2>1
  <2>3. /\ Bindings(u) /\ (NoneStale(v) => NoneStale(u)) /\ Apart(v, u) /\ Consents(u)
        /\ u.svc = IF v.svc \in {"none", "idle"} THEN "starting" ELSE v.svc
        /\ u.listener = FALSE /\ u.enabled = FALSE
    BY <2>1, <2>2, ResultWell
  <2>4. Kept(t, u)
    BY <1>2, <2>3 DEF Apart, Kept
  <2> QED BY <1>2, <1>5, <2>1, <2>3, <2>4 DEF u
<1>6. CASE ~t.prepared
  <2>1. u = w
    BY <1>2, <1>3, <1>6 DEF Kept
  <2>2. Bindings(w) /\ Consents(w) /\ (NoneStale(t) => NoneStale(w))
    BY <1>4, <1>6 DEF Bindings, Consents, Kept, NoneStale
  <2> QED BY <1>4, <1>6, <2>1, <2>2 DEF u
<1> QED BY <1>5, <1>6

(* The notes of an instance that ended.                                          *)
LEMMA EndedNotes ==
  ASSUME NEW q \in Seq(Notes), NEW old \in {"old_up", "old_down"}
  PROVE  LET r == [i \in DOMAIN q |-> IF q[i] = "live" THEN old ELSE q[i]]
         IN  /\ r \in Seq(Notes) /\ Len(r) = Len(q) /\ DOMAIN r = DOMAIN q
             /\ \A i \in DOMAIN r : r[i] # "live" /\ (r[i] = old \/ r[i] = q[i])
<1> DEFINE r == [i \in DOMAIN q |-> IF q[i] = "live" THEN old ELSE q[i]]
<1>1. DOMAIN q = 1 .. Len(q) /\ Len(q) \in Nat
  BY LenProperties
<1>2. \A i \in 1 .. Len(q) : q[i] \in Notes
  BY ElementOfSeq
<1>3. r \in [1 .. Len(q) -> Notes]
  BY <1>1, <1>2 DEF Notes
<1>4. r \in Seq(Notes) /\ Len(r) = Len(q)
  BY <1>1, <1>3, SeqDef, LenProperties
<1> QED BY <1>1, <1>4

(* Ended, of a bound state: what the fragment holds is of a former instance.       *)
LEMMA EndsWell ==
  ASSUME NEW t \in SwitchState, NEW up \in BOOLEAN
  PROVE  LET u == Ended(t, up)
         IN  /\ u \in SwitchState /\ u.bind = "none" /\ u.mBinder # "live"
             /\ u.notes \in Seq(Notes) /\ Len(u.notes) <= Len(t.notes) + 1
             /\ \A i \in DOMAIN u.notes : u.notes[i] # "live"
             /\ (NoneStale(t) /\ ~up => NoneStale(u))
             /\ Kept(t, u) /\ u.dialog = t.dialog /\ u.svc = t.svc
             /\ u.listener = t.listener /\ u.enabled = t.enabled
             /\ (t.mBinder # "live" => u.mBinder = t.mBinder)
<1> DEFINE old == IF up THEN "old_up" ELSE "old_down"
           r == [i \in DOMAIN t.notes |-> IF t.notes[i] = "live" THEN old ELSE t.notes[i]]
           q == IF t.bind = "bound" THEN Append(r, "gone") ELSE r
           b == IF t.mBinder = "live" THEN old ELSE t.mBinder
           u == Ended(t, up)
<1>1. t.notes \in Seq(Notes) /\ old \in {"old_up", "old_down"} /\ b \in ServiceBinder /\ b # "live"
      /\ (t.mBinder # "old_up" /\ ~up => b # "old_up")
  BY DEF SwitchState, Notes, ServiceBinder
<1>2. /\ r \in Seq(Notes) /\ Len(r) = Len(t.notes) /\ DOMAIN r = DOMAIN t.notes
      /\ \A i \in DOMAIN r : r[i] # "live" /\ (r[i] = old \/ r[i] = t.notes[i])
  BY <1>1, EndedNotes
<1>3. u = [t EXCEPT !.mBinder = b, !.notes = q, !.bind = "none"]
  BY DEF Ended
<1>4. t.mBinder # "live" => b = t.mBinder
  OBVIOUS
<1> HIDE DEF r, b, u
<1>5. /\ q \in Seq(Notes) /\ Len(q) <= Len(t.notes) + 1
      /\ \A i \in DOMAIN q : q[i] = "gone" \/ (i \in DOMAIN r /\ q[i] = r[i])
  <2>1. CASE t.bind = "bound"
    BY <1>2, <2>1, Appended DEF Notes
  <2>2. CASE t.bind # "bound"
    BY <1>1, <1>2, <2>2, LenProperties
  <2> QED BY <2>1, <2>2
<1> HIDE DEF q
<1>6. /\ u \in SwitchState /\ u.bind = "none" /\ u.mBinder = b /\ u.notes = q
      /\ Kept(t, u) /\ u.dialog = t.dialog /\ u.svc = t.svc
      /\ u.listener = t.listener /\ u.enabled = t.enabled
  BY <1>1, <1>3, <1>5 DEF SwitchState, Notes, Kept
<1>7. NoneStale(t) /\ ~up => NoneStale(u)
  BY <1>1, <1>2, <1>5, <1>6 DEF NoneStale
<1>8. \A i \in DOMAIN q : q[i] # "live"
  BY <1>2, <1>5
<1> QED BY <1>1, <1>4, <1>5, <1>6, <1>7, <1>8 DEF u

LEMMA StopInstanceWell ==
  ASSUME NEW t \in SwitchState, NEW half \in BOOLEAN
  PROVE  LET u == StopInstance(t, half)
         IN  /\ u \in SwitchState /\ Kept(t, u) /\ u.dialog = t.dialog
             /\ u.svc \in {t.svc, "none", "half"}
             /\ u.svc # t.svc => t.mBinder = "live"
<1> DEFINE u == StopInstance(t, half)
<1>1. IsRunning(t) \in BOOLEAN
  BY DEF IsRunning
<1>2. CASE t.mBinder # "live"
  <2>1. u = t
    BY <1>2 DEF StopInstance
  <2> QED BY <2>1 DEF Kept
<1>3. CASE t.mBinder = "live" /\ half
  <2> DEFINE v == IF IsRunning(t) THEN "half" ELSE t.svc
  <2>1. v \in {t.svc, "half"} /\ v \in ServiceState
    BY DEF SwitchState, ServiceState
  <2>2. u = [t EXCEPT !.svc = v]
    BY <1>3 DEF StopInstance
  <2> HIDE DEF u, v
  <2>3. u \in SwitchState /\ Kept(t, u) /\ u.dialog = t.dialog /\ u.svc = v
    BY <2>1, <2>2 DEF SwitchState, Kept
  <2> QED BY <1>3, <2>1, <2>3 DEF u
<1>4. CASE t.mBinder = "live" /\ ~half
  <2> DEFINE e == Ended(t, IsRunning(t))
  <2>1. e \in SwitchState /\ Kept(t, e) /\ e.dialog = t.dialog
    BY <1>1, EndsWell
  <2>2. u = [e EXCEPT !.svc = "none"]
    BY <1>4 DEF StopInstance
  <2> HIDE DEF u, e
  <2>3. u \in SwitchState /\ Kept(t, u) /\ u.dialog = t.dialog /\ u.svc = "none"
    BY <2>1, <2>2 DEF SwitchState, Kept, ServiceState
  <2> QED BY <1>4, <2>3 DEF u
<1> QED BY <1>2, <1>3, <1>4

LEMMA StopVpnWell ==
  ASSUME NEW t, Bindings(t), Consents(t), NEW half \in BOOLEAN, MaxNotes \in Nat
  PROVE  LET u == stopVpn(t, half)
         IN  /\ Bindings(u) /\ (NoneStale(t) => NoneStale(u)) /\ Kept(t, u) /\ Consents(u)
             /\ u.svc \in {t.svc, "none", "half"}
             /\ u.svc # t.svc => t.mBinder = "live"
             /\ (t.enabled => t.listener) => (u.enabled => u.listener)
<1> DEFINE m == [t EXCEPT !.mStopping = TRUE]
           i == StopInstance(m, half)
           w == unbindService([i EXCEPT !.mBinder = "null"])
           u == stopVpn(t, half)
<1>1. CASE t.mBinder = "null"
  <2>1. u = t
    BY <1>1 DEF stopVpn
  <2> QED BY <2>1 DEF Kept
<1>2. CASE t.mBinder # "null"
  <2>1. t \in SwitchState
    BY DEF Bindings
  <2>2. m \in SwitchState /\ Kept(t, m) /\ m.dialog = t.dialog /\ m.svc = t.svc
        /\ m.mBinder = t.mBinder
    BY <2>1 DEF SwitchState, Kept
  <2>3. /\ i \in SwitchState /\ Kept(m, i) /\ i.dialog = m.dialog
        /\ i.svc \in {m.svc, "none", "half"} /\ (i.svc # m.svc => m.mBinder = "live")
    BY <2>2, StopInstanceWell
  <2>4. u = checkState(w)
    BY <1>2 DEF stopVpn
  <2> HIDE DEF i, m, u
  <2>5. /\ w \in SwitchState /\ Kept(i, w) /\ w.dialog = i.dialog /\ w.svc = i.svc
        /\ w.mBinder = "null" /\ w.bind = "none" /\ w.notes = <<>>
    BY <2>3, EmptySeq DEF SwitchState, Kept, ServiceBinder, unbindService
  <2> HIDE DEF w
  <2>6. Kept(t, w)
    BY <2>2, <2>3, <2>5 DEF Kept
  <2>7. Bindings(w) /\ NoneStale(w)
    BY <2>5, EmptySeq DEF Bindings, NoneStale
  <2>8. /\ Bindings(u) /\ (NoneStale(w) => NoneStale(u)) /\ Apart(w, u) /\ u.svc = w.svc
        /\ u.listener = FALSE /\ u.enabled = FALSE
    BY <2>4, <2>7, ChecksWell
  <2>9. Kept(t, u) /\ u.dialog = t.dialog
    BY <2>2, <2>3, <2>5, <2>6, <2>8 DEF Apart, Kept
  <2>10. u.svc \in {t.svc, "none", "half"} /\ (u.svc # t.svc => t.mBinder = "live")
    BY <2>2, <2>3, <2>5, <2>8
  <2>11. Consents(u)
    BY <2>9, <2>10 DEF Consents, Kept
  <2> QED BY <2>7, <2>8, <2>9, <2>10, <2>11 DEF u
<1> QED BY <1>1, <1>2

(* What becomes of the service when the switch is set to v.                         *)
Follows(t, u, v) ==
  /\ u.checked = v
  /\ v => \/ u.svc = t.svc
          \/ t.svc \in {"none", "idle"} /\ u.svc = "starting"
  /\ ~v => /\ u.svc \in {t.svc, "none", "half"}
           /\ u.svc # t.svc => t.checked /\ t.listener /\ t.mBinder = "live"

(* What every method leaves in order.                                              *)
InOrder(t, u) == /\ Bindings(u) /\ (NoneStale(t) => NoneStale(u)) /\ Past(t, u)
                 /\ Consents(u)

(* Setting the switch, by the user or by updateState.                              *)
LEMMA SetCheckedWell ==
  ASSUME NEW t, Bindings(t), Consents(t), NEW v \in BOOLEAN, NEW half \in BOOLEAN,
         MaxNotes \in Nat
  PROVE  LET u == setChecked(t, v, half)
         IN  /\ InOrder(t, u) /\ Follows(t, u, v)
             /\ (t.enabled => t.listener) => (u.enabled => u.listener)
             /\ v /\ ~t.checked /\ t.listener /\ t.prepared => u.listener = FALSE
<1> DEFINE w == [t EXCEPT !.checked = v]
           u == setChecked(t, v, half)
<1>1. t \in SwitchState /\ t.checked \in BOOLEAN
  BY DEF Bindings, SwitchState
<1>2. /\ w \in SwitchState /\ Past(t, w) /\ w.checked = v /\ w.dialog = t.dialog /\ w.svc = t.svc
      /\ w.mBinder = t.mBinder /\ w.bind = t.bind /\ w.notes = t.notes
      /\ w.listener = t.listener /\ w.enabled = t.enabled
  BY <1>1 DEF SwitchState, Past
<1>3. u = IF t.checked = v \/ ~t.listener THEN w
          ELSE IF v THEN fragmentStartVpn(w) ELSE stopVpn(w, half)
  BY DEF setChecked
<1> HIDE DEF u, w
<1>4. Bindings(w) /\ Consents(w) /\ (NoneStale(t) => NoneStale(w))
  BY <1>2 DEF Bindings, Consents, Past, NoneStale
<1>5. CASE t.checked = v \/ ~t.listener
  <2>1. u = w
    BY <1>3, <1>5
  <2> QED BY <1>2, <1>4, <1>5, <2>1 DEF u, InOrder, Follows
<1>6. CASE ~(t.checked = v \/ ~t.listener) /\ v
  <2>1. u = fragmentStartVpn(w)
    BY <1>3, <1>6
  <2>2. /\ Bindings(u) /\ (NoneStale(w) => NoneStale(u)) /\ Kept(w, u) /\ Consents(u)
        /\ w.prepared => /\ u.listener = FALSE /\ u.enabled = FALSE
                         /\ u.svc = IF w.svc \in {"none", "idle"} THEN "starting" ELSE w.svc
        /\ ~w.prepared => /\ u.listener = w.listener /\ u.enabled = w.enabled
                          /\ u.svc = w.svc
    BY <1>4, <2>1, StartVpnWell
  <2>3. Past(t, u) /\ u.checked = v /\ w.prepared = t.prepared /\ t.prepared \in BOOLEAN
    BY <1>1, <1>2, <2>2 DEF Past, Kept, SwitchState
  <2> QED BY <1>2, <1>4, <1>6, <2>2, <2>3 DEF u, InOrder, Follows
<1>7. CASE ~(t.checked = v \/ ~t.listener) /\ ~v
  <2>1. u = stopVpn(w, half)
    BY <1>3, <1>7
  <2>2. /\ Bindings(u) /\ (NoneStale(w) => NoneStale(u)) /\ Kept(w, u) /\ Consents(u)
        /\ u.svc \in {w.svc, "none", "half"}
        /\ u.svc # w.svc => w.mBinder = "live"
        /\ (w.enabled => w.listener) => (u.enabled => u.listener)
    BY <1>4, <2>1, StopVpnWell
  <2>3. Past(t, u) /\ u.checked = v
    BY <1>2, <2>2 DEF Past, Kept
  <2> QED BY <1>1, <1>2, <1>4, <1>7, <2>2, <2>3 DEF u, InOrder, Follows
<1> QED BY <1>5, <1>6, <1>7

(* SwitchAgrees, PressHeard and UserStopHolds of a given state and answer.          *)
Agrees(t, r) ==
  ~t.lost =>
    /\ NoneStale(t) /\ Shown(t)
    /\ r = "yes" => t.mBinder = "live" /\ t.svc \in {"up", "half"}
    /\ r = "no" /\ t.checked /\ t.listener /\ t.mBinder = "live" => t.svc # "up"

Good(t, r) == /\ Bindings(t) /\ Consents(t) /\ Agrees(t, r)
              /\ t.enabled => t.listener
              /\ t.unasked => t.lost

LEMMA GoodIsIInv == SwitchIInv <=> Good(sw, answer) /\ answer \in {"none", "yes", "no"}
  BY DEF SwitchIInv, Good, SwitchTypeOK, Bindings, BindingAgrees, Consents, ConsentAgrees, Agrees,
     SwitchAgrees, NoneStale, Shown, PressHeard, UserStopHolds

(* updateState, with the answer v, starts a service only where none runs, and stops  *)
(* one only if the switch showed it and is heard.                                   *)
LEMMA UpdatesWell ==
  ASSUME NEW t, Bindings(t), Consents(t), NEW v \in BOOLEAN, NEW half \in BOOLEAN,
         MaxNotes \in Nat
  PROVE  LET u == updateState(t, v, half)
         IN  InOrder(t, u) /\ Follows(t, u, v) /\ u.listener = TRUE
<1> DEFINE w == [t EXCEPT !.mRunning = v]
           c == setChecked(w, v, half)
           settled == \/ ~c.mStarting /\ ~c.mStopping
                      \/ c.mStarting /\ c.mRunning
                      \/ c.mStopping /\ ~c.mRunning
           en == c.enabled \/ settled
           ing == c.mStarting /\ ~c.mRunning
           ping == c.mStopping /\ c.mRunning
           u == updateState(t, v, half)
<1>1. t \in SwitchState
  BY DEF Bindings
<1>2. /\ w \in SwitchState /\ Past(t, w) /\ w.checked = t.checked /\ w.dialog = t.dialog
      /\ w.svc = t.svc /\ w.mBinder = t.mBinder /\ w.bind = t.bind /\ w.notes = t.notes
      /\ w.listener = t.listener /\ w.enabled = t.enabled
  BY <1>1 DEF SwitchState, Past
<1>3. u = [c EXCEPT !.enabled = en, !.mStarting = ing, !.mStopping = ping, !.listener = TRUE]
  BY DEF updateState
<1> HIDE DEF u, w
<1>4. Bindings(w) /\ Consents(w) /\ (NoneStale(t) => NoneStale(w))
  BY <1>2 DEF Bindings, Consents, Past, NoneStale
<1>5. InOrder(w, c) /\ Follows(w, c, v)
  BY <1>4, SetCheckedWell
<1> HIDE DEF c
<1>6. c \in SwitchState /\ en \in BOOLEAN /\ ing \in BOOLEAN /\ ping \in BOOLEAN
  BY <1>5 DEF InOrder, Bindings, SwitchState
<1> HIDE DEF en, ing, ping
<1>7. /\ u \in SwitchState /\ Past(c, u) /\ u.checked = c.checked /\ u.dialog = c.dialog
      /\ u.svc = c.svc /\ u.mBinder = c.mBinder /\ u.bind = c.bind /\ u.notes = c.notes
      /\ u.listener = TRUE
  BY <1>3, <1>6 DEF SwitchState, Past
<1>8. Bindings(u) /\ Consents(u) /\ (NoneStale(c) => NoneStale(u))
  BY <1>5, <1>7 DEF InOrder, Bindings, Consents, Past, NoneStale
<1>9. Past(t, u)
  BY <1>2, <1>5, <1>7 DEF InOrder, Past
<1>10. InOrder(t, u)
  BY <1>4, <1>5, <1>8, <1>9 DEF InOrder
<1>11. Follows(t, u, v)
  BY <1>2, <1>5, <1>7 DEF Follows
<1> QED BY <1>7, <1>10, <1>11 DEF u

LEMMA InitGood == MaxNotes \in Nat /\ SwitchInit => SwitchIInv
<1> SUFFICES ASSUME MaxNotes \in Nat, SwitchInit PROVE SwitchIInv
  OBVIOUS
<1>1. PICK svc \in {"none", "up", "idle"}, prepared \in BOOLEAN :
        sw = checkState([ checked |-> FALSE, enabled |-> TRUE, listener |-> FALSE,
                         mRunning |-> FALSE, mStarting |-> FALSE, mStopping |-> FALSE,
                         mBinder |-> "null", bind |-> "none", notes |-> <<>>,
                         svc |-> svc, prepared |-> prepared \/ svc = "up", dialog |-> FALSE,
                         booted |-> svc # "none",
                         wanted |-> svc = "up", unasked |-> FALSE, lost |-> FALSE ])
  BY DEF SwitchInit
<1> DEFINE t == [ checked |-> FALSE, enabled |-> TRUE, listener |-> FALSE,
                  mRunning |-> FALSE, mStarting |-> FALSE, mStopping |-> FALSE,
                  mBinder |-> "null", bind |-> "none", notes |-> <<>>,
                  svc |-> svc, prepared |-> prepared \/ svc = "up", dialog |-> FALSE,
                  booted |-> svc # "none",
                  wanted |-> svc = "up", unasked |-> FALSE, lost |-> FALSE ]
<1>2. t \in SwitchState
  BY EmptySeq DEF SwitchState, ServiceState, ServiceBinder
<1>3. Bindings(t) /\ NoneStale(t)
  BY <1>2, EmptySeq DEF Bindings, NoneStale
<1>4. Consents(t)
  BY DEF Consents
<1>5. t.checked = FALSE /\ t.unasked = FALSE
  OBVIOUS
<1>6. sw = checkState(t)
  BY <1>1
<1> HIDE DEF t
<1>7. /\ Bindings(sw) /\ NoneStale(sw) /\ Apart(t, sw) /\ sw.svc = t.svc
      /\ sw.listener = FALSE /\ sw.enabled = FALSE
  BY <1>3, <1>6, ChecksWell
<1>8. Consents(sw) /\ sw.checked = FALSE /\ sw.unasked = FALSE
  BY <1>4, <1>5, <1>7 DEF Consents, Apart, Kept
<1>9. answer = "none"
  BY DEF SwitchInit
<1> QED BY <1>7, <1>8, <1>9, GoodIsIInv DEF Good, Agrees, Shown

-----------------------------------------------------------------------------
LEMMA TickGood == ASSUME Good(sw, answer), Tick PROVE Good(sw', answer') /\ answer' \in {"yes", "no"}
<1>1. sw' = sw /\ answer' \in {"yes", "no"} /\ (answer' = "yes" <=> IsRunning(sw))
  BY DEF Tick, Answer
<1>2. Agrees(sw, answer')
  BY <1>1 DEF Good, Agrees, IsRunning, NoneStale
<1> QED BY <1>1, <1>2 DEF Good

LEMMA UpdateStateGood ==
  ASSUME Good(sw, answer), answer \in {"none", "yes", "no"}, NEW half \in BOOLEAN, UpdateState(half),
         MaxNotes \in Nat
  PROVE  /\ Good(sw', answer') /\ answer' = "none"
         /\ sw.svc \in {"starting", "up"} /\ ~sw.lost => sw'.svc = sw.svc
<1> DEFINE v == answer = "yes"
           t == updateState(sw, v, half)
           un == t.unasked \/ (t.svc = "starting" /\ sw.svc # "starting" /\ ~sw.wanted)
<1>1. answer # "none" /\ answer' = "none" /\ sw' = [t EXCEPT !.unasked = un]
  BY DEF UpdateState
<1>2. Bindings(sw) /\ Consents(sw) /\ v \in BOOLEAN /\ (sw.unasked => sw.lost)
  BY DEF Good
<1>3. InOrder(sw, t) /\ Follows(sw, t, v) /\ t.listener = TRUE
  BY <1>2, UpdatesWell
<1>4. ~sw.lost => /\ NoneStale(sw) /\ (v => sw.svc \in {"up", "half"})
                 /\ (~v /\ sw.checked /\ sw.listener /\ sw.mBinder = "live" => sw.svc # "up")
                 /\ (sw.checked /\ sw.listener => sw.svc \in {"up", "half"} \/ ~sw.prepared)
  BY <1>1, answer \in {"none", "yes", "no"} DEF Good, Agrees, Shown
<1>5. sw.svc \in {"starting", "up"} /\ ~sw.lost => t.svc = sw.svc
  BY <1>2, <1>3, <1>4 DEF Consents, Follows
<1>6. un \in BOOLEAN /\ (un => sw.lost) /\ t \in SwitchState /\ t.lost = sw.lost
  BY <1>2, <1>3, <1>4 DEF InOrder, Follows, Past, Bindings, SwitchState
<1> HIDE DEF t, v, un
<1>7. /\ sw' \in SwitchState /\ sw'.unasked = un /\ sw'.lost = t.lost /\ sw'.prepared = t.prepared
      /\ sw'.checked = t.checked /\ sw'.dialog = t.dialog
      /\ sw'.svc = t.svc /\ sw'.mBinder = t.mBinder /\ sw'.bind = t.bind /\ sw'.notes = t.notes
      /\ sw'.listener = t.listener
  BY <1>1, <1>6 DEF SwitchState
<1>8. Bindings(sw') /\ Consents(sw') /\ (NoneStale(t) => NoneStale(sw'))
  BY <1>3, <1>7 DEF InOrder, Bindings, Consents, NoneStale
<1>9. Agrees(sw', answer')
  BY <1>1, <1>3, <1>4, <1>6, <1>7, <1>8 DEF Agrees, Shown, InOrder, Follows
<1> QED BY <1>1, <1>3, <1>5, <1>6, <1>7, <1>8, <1>9 DEF Good

LEMMA PressGood ==
  ASSUME Good(sw, answer), NEW half \in BOOLEAN, Press(half), MaxNotes \in Nat
  PROVE  Good(sw', answer') /\ answer' = answer
<1> DEFINE t == [sw EXCEPT !.wanted = ~sw.checked]
           v == ~sw.checked
<1>1. sw \in SwitchState /\ answer = "none" /\ sw.enabled /\ sw.listener /\ answer' = answer
      /\ sw' = setChecked(t, v, half) /\ v \in BOOLEAN
  BY DEF Press, Good, Bindings, SwitchState
<1>2. /\ t \in SwitchState /\ t.unasked = sw.unasked /\ t.lost = sw.lost /\ t.prepared = sw.prepared
      /\ t.checked = sw.checked /\ t.dialog = sw.dialog
      /\ t.svc = sw.svc /\ t.mBinder = sw.mBinder /\ t.bind = sw.bind /\ t.notes = sw.notes
      /\ t.listener = sw.listener /\ t.enabled = sw.enabled
  BY <1>1 DEF SwitchState
<1> HIDE DEF t
<1>3. Bindings(t) /\ Consents(t) /\ (NoneStale(sw) => NoneStale(t))
  BY <1>2 DEF Bindings, Consents, NoneStale, Good
<1>4. /\ InOrder(t, sw') /\ Follows(t, sw', v)
      /\ (t.enabled => t.listener) => (sw'.enabled => sw'.listener)
      /\ v /\ ~t.checked /\ t.listener /\ t.prepared => sw'.listener = FALSE
  BY <1>1, <1>3, SetCheckedWell
<1>5. Shown(sw')
  BY <1>1, <1>2, <1>4 DEF Shown, InOrder, Follows, Past
<1>6. Agrees(sw', answer')
  BY <1>1, <1>2, <1>3, <1>4, <1>5 DEF Agrees, Good, InOrder, Past
<1> QED BY <1>1, <1>2, <1>4, <1>6 DEF Good, InOrder, Past

LEMMA ConsentGood ==
  ASSUME Good(sw, answer), NEW ok \in BOOLEAN, Consent(ok), MaxNotes \in Nat
  PROVE  Good(sw', answer') /\ answer' = answer
<1>1. sw \in SwitchState /\ answer = "none" /\ answer' = answer /\ sw.dialog /\ ~sw.prepared
  BY DEF Consent, Good, Bindings, Consents
<1>2. CASE ok
  <2> DEFINE t == [sw EXCEPT !.dialog = FALSE, !.prepared = TRUE]
  <2>0. t \in SwitchState
    BY <1>1 DEF SwitchState
  <2>1. /\ t \in SwitchState /\ t.unasked = sw.unasked /\ t.lost = sw.lost /\ t.prepared
        /\ t.checked = sw.checked /\ ~t.dialog
        /\ t.svc = sw.svc /\ t.mBinder = sw.mBinder /\ t.bind = sw.bind /\ t.notes = sw.notes
    BY <1>1, <2>0 DEF SwitchState
  <2>2. sw' = onActivityResult(t)
    BY <1>2 DEF Consent
  <2> HIDE DEF t
  <2>3. Bindings(t) /\ Consents(t) /\ (NoneStale(sw) => NoneStale(t))
    BY <2>1 DEF Bindings, Consents, NoneStale, Good
  <2>4. /\ Bindings(sw') /\ (NoneStale(t) => NoneStale(sw')) /\ Apart(t, sw') /\ Consents(sw')
        /\ sw'.listener = FALSE /\ sw'.enabled = FALSE
    BY <2>1, <2>2, <2>3, ResultWell
  <2>5. Agrees(sw', answer')
    BY <1>1, <2>1, <2>3, <2>4 DEF Agrees, Shown, Good, Apart, Kept
  <2> QED BY <1>1, <2>1, <2>4, <2>5 DEF Good, Apart, Kept
<1>3. CASE ~ok
  <2>1. sw' = [sw EXCEPT !.dialog = FALSE]
    BY <1>3 DEF Consent
  <2>2. /\ sw' \in SwitchState /\ sw'.unasked = sw.unasked /\ sw'.lost = sw.lost
        /\ sw'.prepared = sw.prepared /\ sw'.checked = sw.checked /\ sw'.dialog = FALSE
        /\ sw'.svc = sw.svc /\ sw'.mBinder = sw.mBinder /\ sw'.bind = sw.bind
        /\ sw'.notes = sw.notes /\ sw'.listener = sw.listener /\ sw'.enabled = sw.enabled
    BY <1>1, <2>1 DEF SwitchState
  <2> QED BY <1>1, <2>2 DEF Good, Bindings, Consents, NoneStale, Agrees, Shown
<1> QED BY <1>2, <1>3

LEMMA NoteGood ==
  ASSUME Good(sw, answer), Note, MaxNotes \in Nat
  PROVE  Good(sw', answer') /\ answer' \in {"none", "yes"}
<1> DEFINE n == Head(sw.notes)
           t == [sw EXCEPT !.notes = Tail(sw.notes)]
           u == [t EXCEPT !.mBinder = n]
           v == [u EXCEPT !.mRunning = IsRunning(u)]
           g == [t EXCEPT !.mBinder = "null"]
<1>1. sw \in SwitchState /\ answer = "none" /\ sw.notes # <<>> /\ sw.notes \in Seq(Notes)
  BY DEF Note, Good, Bindings, SwitchState, Notes
<1>2. /\ Tail(sw.notes) \in Seq(Notes) /\ Len(Tail(sw.notes)) = Len(sw.notes) - 1
      /\ \A i \in DOMAIN Tail(sw.notes) : i + 1 \in DOMAIN sw.notes
                                          /\ Tail(sw.notes)[i] = sw.notes[i + 1]
      /\ n \in Notes /\ 1 \in DOMAIN sw.notes /\ n = sw.notes[1]
      /\ Len(sw.notes) \in Nat
  BY <1>1, HeadTailProperties
<1>3. \/ n = "gone" /\ sw' = g /\ answer' = answer
      \/ n # "gone" /\ sw' = v /\ answer' = IF v.mRunning THEN Answer(v) ELSE "none"
  BY DEF Note
<1> DEFINE q == Tail(sw.notes)
<1> HIDE DEF n, q
<1>4. /\ t \in SwitchState /\ t.notes = q /\ t.mBinder = sw.mBinder /\ t.bind = sw.bind /\ t.svc = sw.svc
      /\ t.lost = sw.lost /\ t.unasked = sw.unasked /\ t.prepared = sw.prepared
      /\ t.checked = sw.checked /\ t.dialog = sw.dialog
      /\ t.listener = sw.listener /\ t.enabled = sw.enabled
  BY <1>1, <1>2 DEF SwitchState, Notes, q
<1> HIDE DEF t
<1>5. /\ Bindings(t) /\ Consents(t) /\ (NoneStale(sw) => NoneStale(t)) /\ (Shown(sw) => Shown(t))
      /\ (t.enabled => t.listener) /\ (t.unasked => t.lost)
  <2>1. Bindings(t)
    BY <1>2, <1>4 DEF Good, Bindings, q
  <2> QED BY <1>2, <1>4, <2>1 DEF Good, Consents, NoneStale, Shown, q
<1>6. CASE n = "gone"
  <2>1. sw' = g /\ answer' = "none"
    BY <1>1, <1>3, <1>6
  <2>2. /\ g \in SwitchState /\ g.notes = t.notes /\ g.mBinder = "null" /\ g.bind = t.bind
        /\ g.svc = t.svc /\ g.lost = t.lost /\ g.unasked = t.unasked /\ g.prepared = t.prepared
        /\ g.checked = t.checked /\ g.dialog = t.dialog
        /\ g.listener = t.listener /\ g.enabled = t.enabled
    BY <1>4 DEF SwitchState, ServiceBinder
  <2> HIDE DEF g
  <2> QED BY <1>4, <1>5, <2>1, <2>2 DEF Good, Bindings, Consents, NoneStale, Shown, Agrees
<1>7. CASE n # "gone"
  <2>1. n \in ServiceBinder
    BY <1>2, <1>7 DEF Notes, ServiceBinder
  <2>2. /\ u \in SwitchState /\ u.notes = t.notes /\ u.mBinder = n /\ u.bind = t.bind
        /\ u.svc = t.svc /\ u.lost = t.lost /\ u.unasked = t.unasked /\ u.prepared = t.prepared
        /\ u.checked = t.checked /\ u.dialog = t.dialog
        /\ u.listener = t.listener /\ u.enabled = t.enabled
    BY <1>4, <2>1 DEF SwitchState
  <2> HIDE DEF u
  <2>3. IsRunning(u) \in BOOLEAN
    BY DEF IsRunning
  <2>4. /\ v \in SwitchState /\ v.notes = u.notes /\ v.mBinder = u.mBinder /\ v.bind = u.bind
        /\ v.svc = u.svc /\ v.lost = u.lost /\ v.unasked = u.unasked /\ v.prepared = u.prepared
        /\ v.checked = u.checked /\ v.dialog = u.dialog
        /\ v.listener = u.listener /\ v.enabled = u.enabled /\ (v.mRunning <=> IsRunning(u))
    BY <2>2, <2>3 DEF SwitchState
  <2> HIDE DEF v
  <2>5. sw' = v /\ answer' \in {"none", "yes"} /\ (answer' = "yes" => IsRunning(v))
    <3>1. IsRunning(v) <=> IsRunning(u)
      BY <2>4 DEF IsRunning
    <3> QED BY <1>3, <1>7, <2>4, <3>1 DEF Answer
  <2>6. Bindings(v) /\ Consents(v)
    <3>1. n = "live" => t.bind = "bound"
      BY <1>2, <1>4 DEF Good, Bindings
    <3> QED BY <1>5, <2>2, <2>4, <3>1 DEF Bindings, Consents
  <2>7. ~v.lost => NoneStale(v) /\ Shown(v)
    <3>1. ~sw.lost => NoneStale(sw) /\ Shown(sw) /\ n # "old_up"
      BY <1>2 DEF Good, Agrees, NoneStale
    <3> QED BY <1>4, <1>5, <2>2, <2>4, <3>1 DEF NoneStale, Shown
  <2>8. Agrees(v, answer')
    BY <2>5, <2>7 DEF Agrees, IsRunning, NoneStale
  <2> QED BY <1>5, <2>2, <2>4, <2>5, <2>6, <2>8 DEF Good
<1> QED BY <1>6, <1>7

LEMMA BootGood ==
  ASSUME Good(sw, answer), Boot, MaxNotes \in Nat
  PROVE  Good(sw', answer') /\ answer' = answer
<1> DEFINE t == startService(sw)
<1>1. sw.prepared /\ answer' = answer /\ sw' = [t EXCEPT !.wanted = TRUE, !.booted = TRUE]
  BY DEF Boot
<1>2. /\ Bindings(t) /\ (NoneStale(sw) => NoneStale(t)) /\ Apart(sw, t)
      /\ t.svc = IF sw.svc \in {"none", "idle"} THEN "starting" ELSE sw.svc
      /\ t.listener = sw.listener /\ t.enabled = sw.enabled
  BY StartsWell DEF Good
<1> HIDE DEF t
<1>3. /\ sw' \in SwitchState /\ sw'.notes = t.notes /\ sw'.mBinder = t.mBinder /\ sw'.bind = t.bind
      /\ sw'.svc = t.svc /\ sw'.lost = t.lost /\ sw'.unasked = t.unasked
      /\ sw'.prepared = t.prepared /\ sw'.checked = t.checked /\ sw'.dialog = t.dialog
      /\ sw'.listener = t.listener /\ sw'.enabled = t.enabled
  BY <1>1, <1>2 DEF Bindings, SwitchState
<1>4. Bindings(sw') /\ Consents(sw') /\ (NoneStale(sw) => NoneStale(sw'))
  <2>1. Bindings(sw')
    BY <1>2, <1>3 DEF Bindings
  <2>2. Consents(sw')
    BY <1>1, <1>2, <1>3 DEF Good, Consents, Apart, Kept
  <2>3. NoneStale(t) => NoneStale(sw')
    BY <1>3 DEF NoneStale
  <2> QED BY <1>2, <2>1, <2>2, <2>3
<1>5. Agrees(sw', answer')
  BY <1>1, <1>2, <1>3, <1>4 DEF Good, Agrees, Shown, Apart, Kept
<1> QED BY <1>1, <1>2, <1>3, <1>4, <1>5 DEF Good, Apart, Kept

LEMMA SvcUpGood ==
  ASSUME Good(sw, answer), SvcUp
  PROVE  Good(sw', answer') /\ answer' = answer
<1>1. sw.svc = "starting" /\ answer' = answer /\ sw' = [sw EXCEPT !.svc = "up"] /\ sw \in SwitchState
  BY DEF SvcUp, Good, Bindings
<1>2. /\ sw' \in SwitchState /\ sw'.notes = sw.notes /\ sw'.mBinder = sw.mBinder /\ sw'.bind = sw.bind
      /\ sw'.svc = "up" /\ sw'.lost = sw.lost /\ sw'.unasked = sw.unasked
      /\ sw'.prepared = sw.prepared /\ sw'.checked = sw.checked /\ sw'.dialog = sw.dialog
      /\ sw'.listener = sw.listener /\ sw'.enabled = sw.enabled
  BY <1>1 DEF SwitchState, ServiceState
<1>3. Agrees(sw', answer')
  BY <1>1, <1>2 DEF Good, Consents, Agrees, Shown, NoneStale
<1> QED BY <1>1, <1>2, <1>3 DEF Good, Bindings, Consents

LEMMA SvcFailsGood ==
  ASSUME Good(sw, answer), SvcFails, MaxNotes \in Nat
  PROVE  Good(sw', answer') /\ answer' = answer
<1>1. sw.svc = "starting" /\ answer' = answer /\ sw \in SwitchState /\ sw.notes \in Seq(Notes)
  BY DEF SvcFails, Good, Bindings, SwitchState, Notes
<1>2. \/ sw' = [sw EXCEPT !.svc = "idle"]
      \/ FewNotes /\ sw' = [Ended(sw, FALSE) EXCEPT !.svc = "none"]
  BY DEF SvcFails
<1>3. CASE sw' = [sw EXCEPT !.svc = "idle"]
  <2>1. /\ sw' \in SwitchState /\ sw'.notes = sw.notes /\ sw'.mBinder = sw.mBinder /\ sw'.bind = sw.bind
        /\ sw'.svc = "idle" /\ sw'.lost = sw.lost /\ sw'.unasked = sw.unasked
        /\ sw'.prepared = sw.prepared /\ sw'.checked = sw.checked /\ sw'.dialog = sw.dialog
        /\ sw'.listener = sw.listener /\ sw'.enabled = sw.enabled
    BY <1>1, <1>3 DEF SwitchState, ServiceState
  <2>2. Agrees(sw', answer')
    BY <1>1, <2>1 DEF Good, Consents, Agrees, Shown, NoneStale
  <2> QED BY <1>1, <2>1, <2>2 DEF Good, Bindings, Consents
<1>4. CASE FewNotes /\ sw' = [Ended(sw, FALSE) EXCEPT !.svc = "none"]
  <2> DEFINE e == Ended(sw, FALSE)
  <2>1. /\ e \in SwitchState /\ e.bind = "none" /\ e.mBinder # "live"
        /\ e.notes \in Seq(Notes) /\ Len(e.notes) <= Len(sw.notes) + 1
        /\ \A i \in DOMAIN e.notes : e.notes[i] # "live"
        /\ (NoneStale(sw) => NoneStale(e))
        /\ Kept(sw, e) /\ e.dialog = sw.dialog /\ e.svc = sw.svc
        /\ e.listener = sw.listener /\ e.enabled = sw.enabled
    BY <1>1, EndsWell
  <2>2. sw' = [e EXCEPT !.svc = "none"]
    BY <1>4
  <2> HIDE DEF e
  <2>3. /\ sw' \in SwitchState /\ sw'.notes = e.notes /\ sw'.mBinder = e.mBinder /\ sw'.bind = e.bind
        /\ sw'.svc = "none" /\ sw'.lost = e.lost /\ sw'.unasked = e.unasked
        /\ sw'.prepared = e.prepared /\ sw'.checked = e.checked /\ sw'.dialog = e.dialog
        /\ sw'.listener = e.listener /\ sw'.enabled = e.enabled
    BY <2>1, <2>2 DEF SwitchState, ServiceState
  <2>4. Len(sw.notes) \in Nat /\ Len(e.notes) \in Nat /\ Len(sw.notes) < MaxNotes
    BY <1>1, <1>4, <2>1, LenProperties DEF FewNotes
  <2>5. Bindings(sw')
    BY <2>1, <2>3, <2>4 DEF Bindings
  <2>6. Agrees(sw', answer')
    BY <1>1, <2>1, <2>3 DEF Good, Consents, Agrees, Shown, NoneStale, Kept
  <2> QED BY <1>1, <2>1, <2>3, <2>5, <2>6 DEF Good, Consents, Kept
<1> QED BY <1>2, <1>3, <1>4

LEMMA RevokeGood ==
  ASSUME Good(sw, answer), NEW half \in BOOLEAN, Revoke(half), MaxNotes \in Nat
  PROVE  Good(sw', answer') /\ answer' = answer
<1> DEFINE e == IF half THEN sw ELSE Ended(sw, TRUE)
           v == IF half THEN "half" ELSE "none"
<1>1. /\ sw.svc = "up" /\ FewNotes /\ answer' = answer /\ sw \in SwitchState /\ sw.notes \in Seq(Notes)
      /\ sw' = [e EXCEPT !.svc = v, !.prepared = FALSE, !.lost = TRUE]
  <2>1. /\ sw.svc = "up" /\ FewNotes /\ answer' = answer /\ sw \in SwitchState /\ sw.notes \in Seq(Notes)
    BY DEF Revoke, Good, Bindings, SwitchState, Notes
  <2>2. CASE half
    BY <2>1, <2>2 DEF Revoke
  <2>3. CASE ~half
    BY <2>1, <2>3 DEF Revoke
  <2> QED BY <2>1, <2>2, <2>3
<1>2. Len(sw.notes) \in Nat /\ Len(sw.notes) < MaxNotes
  BY <1>1, LenProperties DEF FewNotes
<1>3. /\ e \in SwitchState /\ e.notes \in Seq(Notes) /\ Len(e.notes) <= MaxNotes
      /\ e.bind = "bound" => half
      /\ e.bind # "pending"
      /\ \A i \in DOMAIN e.notes : e.notes[i] = "live" => e.bind = "bound"
      /\ e.mBinder = "live" => e.bind = "bound"
      /\ e.listener = sw.listener /\ e.enabled = sw.enabled /\ v \in {"half", "none"}
      /\ v = "none" => ~half
  <2>1. CASE half
    BY <1>1, <1>2, <2>1 DEF Good, Bindings, SwitchState
  <2>2. CASE ~half
    <3> DEFINE d == Ended(sw, TRUE)
    <3>1. /\ d \in SwitchState /\ d.bind = "none" /\ d.mBinder # "live"
          /\ d.notes \in Seq(Notes) /\ Len(d.notes) <= Len(sw.notes) + 1
          /\ \A i \in DOMAIN d.notes : d.notes[i] # "live"
          /\ d.listener = sw.listener /\ d.enabled = sw.enabled
      BY <1>1, EndsWell
    <3>2. e = d /\ v = "none"
      BY <2>2
    <3> HIDE DEF d, e
    <3>3. Len(d.notes) \in Nat
      BY <3>1, LenProperties
    <3> QED BY <1>2, <2>2, <3>1, <3>2, <3>3
  <2> QED BY <2>1, <2>2
<1> HIDE DEF e, v
<1>4. /\ sw' \in SwitchState /\ sw'.notes = e.notes /\ sw'.mBinder = e.mBinder /\ sw'.bind = e.bind
      /\ sw'.svc = v /\ sw'.lost /\ ~sw'.prepared
      /\ sw'.listener = e.listener /\ sw'.enabled = e.enabled
  <2>1. sw' \in SwitchState
    BY <1>1, <1>3 DEF SwitchState, ServiceState
  <2> QED BY <1>1, <1>3, <2>1 DEF SwitchState
<1>5. Len(e.notes) \in Nat
  BY <1>3, LenProperties
<1>6. Bindings(sw')
  BY <1>3, <1>4, <1>5 DEF Bindings
<1> QED BY <1>1, <1>3, <1>4, <1>6 DEF Good, Consents, Agrees

LEMMA DiesGood ==
  ASSUME Good(sw, answer), Dies, MaxNotes \in Nat
  PROVE  Good(sw', answer') /\ answer' = answer
<1> DEFINE e == Ended(sw, FALSE)
           q == IF sw.bind = "bound" THEN Append(e.notes, "live") ELSE e.notes
<1>1. /\ sw.svc \in {"up", "half"} /\ FewNotes /\ answer' = answer /\ sw \in SwitchState
      /\ sw.notes \in Seq(Notes) /\ sw.bind \in {"none", "bound"}
      /\ sw' = [e EXCEPT !.svc = "idle", !.lost = TRUE, !.bind = sw.bind, !.notes = q]
  BY DEF Dies, Good, Bindings, SwitchState, Notes
<1>2. Len(sw.notes) \in Nat /\ Len(sw.notes) < MaxNotes
  BY <1>1, LenProperties DEF FewNotes
<1>3. /\ e \in SwitchState /\ e.mBinder # "live"
      /\ e.notes \in Seq(Notes) /\ Len(e.notes) <= Len(sw.notes) + 1
      /\ \A i \in DOMAIN e.notes : e.notes[i] # "live"
      /\ Kept(sw, e) /\ e.dialog = sw.dialog
      /\ e.listener = sw.listener /\ e.enabled = sw.enabled
  BY <1>1, EndsWell
<1> HIDE DEF e
<1>4. Len(e.notes) \in Nat
  BY <1>3, LenProperties
<1>5. /\ q \in Seq(Notes) /\ Len(q) <= MaxNotes + (IF sw.bind = "bound" THEN 1 ELSE 0)
      /\ \A i \in DOMAIN q : q[i] = "live" => sw.bind = "bound"
  <2>1. CASE sw.bind = "bound"
    <3>1. q = Append(e.notes, "live")
      BY <2>1
    <3>2. q \in Seq(Notes) /\ Len(q) = Len(e.notes) + 1
      BY <1>3, <3>1, Appended DEF Notes
    <3> HIDE DEF q
    <3> QED BY <1>2, <1>3, <1>4, <2>1, <3>2
  <2>2. CASE sw.bind # "bound"
    <3>1. q = e.notes
      BY <2>2
    <3> HIDE DEF q
    <3> QED BY <1>2, <1>3, <1>4, <2>2, <3>1
  <2> QED BY <2>1, <2>2
<1> HIDE DEF q
<1>6. /\ sw' \in SwitchState /\ sw'.notes = q /\ sw'.mBinder = e.mBinder /\ sw'.bind = sw.bind
      /\ sw'.svc = "idle" /\ sw'.lost /\ sw'.prepared = e.prepared /\ sw'.dialog = e.dialog
      /\ sw'.listener = e.listener /\ sw'.enabled = e.enabled
  <2>1. sw' \in SwitchState
    BY <1>1, <1>3, <1>5 DEF SwitchState, ServiceState, Notes
  <2> QED BY <1>1, <1>3, <2>1 DEF SwitchState
<1>7. Bindings(sw')
  BY <1>1, <1>3, <1>5, <1>6 DEF Bindings
<1> QED BY <1>1, <1>3, <1>6, <1>7 DEF Good, Consents, Agrees, Kept

(* Every step keeps the inductive invariant, and no answer that is acted on stops a  *)
(* service that starts or runs.                                                     *)
LEMMA StepGood ==
  ASSUME SwitchIInv, [SwitchNext]_switchVars, MaxNotes \in Nat
  PROVE  /\ SwitchIInv'
         /\ answer # "none" /\ answer' = "none" /\ sw.svc \in {"starting", "up"} /\ ~sw.lost
              => sw'.svc = sw.svc
<1> DEFINE Answers == answer \in {"none", "yes", "no"}
           Echo == answer # "none" /\ answer' = "none" /\ sw.svc \in {"starting", "up"} /\ ~sw.lost
                     => sw'.svc = sw.svc
<1>1. Good(sw, answer) /\ Answers
  BY GoodIsIInv
<1>2. Good(sw', answer') /\ answer' \in {"none", "yes", "no"} => SwitchIInv'
  BY DEF SwitchIInv, Good, SwitchTypeOK, Bindings, BindingAgrees, Consents, ConsentAgrees, Agrees,
     SwitchAgrees, NoneStale, Shown, PressHeard, UserStopHolds
<1>3. CASE Tick
  BY <1>1, <1>2, <1>3, TickGood
<1>4. CASE Note
  <2>1. answer = "none"
    BY <1>4 DEF Note
  <2> QED BY <1>1, <1>2, <1>4, <2>1, NoteGood
<1>5. CASE Boot \/ SvcUp \/ SvcFails \/ Dies
  BY <1>1, <1>2, <1>5, BootGood, SvcUpGood, SvcFailsGood, DiesGood
<1>6. ASSUME NEW half \in BOOLEAN, UpdateState(half) PROVE SwitchIInv' /\ Echo
  BY <1>1, <1>2, <1>6, UpdateStateGood
<1>7. ASSUME NEW half \in BOOLEAN, Press(half) \/ Revoke(half) PROVE SwitchIInv' /\ Echo
  BY <1>1, <1>2, <1>7, PressGood, RevokeGood
<1>8. ASSUME NEW ok \in BOOLEAN, Consent(ok) PROVE SwitchIInv' /\ Echo
  BY <1>1, <1>2, <1>8, ConsentGood
<1>9. CASE UNCHANGED switchVars
  BY <1>1, <1>2, <1>9 DEF switchVars
<1> HIDE DEF Answers, Echo
<1>10. SwitchIInv' /\ Echo
  BY <1>3, <1>4, <1>5, <1>6, <1>7, <1>8, <1>9 DEF SwitchNext, Echo
<1> QED BY <1>10 DEF Echo

(* Setting the switch from the program starts the VPN unasked only after the VPN was  *)
(* lost, and never stops a service that starts or runs before that; no press of the   *)
(* user goes unheard: for every bound on the callbacks that wait.                     *)
THEOREM SwitchHarmless == SwitchSpec => EchoHarmless
<1> DEFINE Echo == answer # "none" /\ answer' = "none" /\ sw.svc \in {"starting", "up"} /\ ~sw.lost
                     => sw'.svc = sw.svc
<1>1. SwitchInit => SwitchIInv
  BY InitGood, NotesAssumption
<1>2. SwitchIInv /\ [SwitchNext]_switchVars => SwitchIInv' /\ [Echo]_switchVars
  BY StepGood, NotesAssumption
<1>3. SwitchIInv => /\ SwitchTypeOK /\ BindingAgrees /\ ConsentAgrees /\ SwitchAgrees
                    /\ PressHeard /\ UserStopHolds
  BY DEF SwitchIInv
<1> QED BY <1>1, <1>2, <1>3, PTL DEF SwitchSpec, EchoHarmless, EchoNeverStops

-----------------------------------------------------------------------------
(* Profiles.                                                               *)

(* Induction on 0 .. n, from the well-foundedness of <: a set of indices with 0  *)
(* and the successor of each of its indices has them all.                        *)
LEMMA Upwards ==
  ASSUME NEW n \in Nat, NEW T \in SUBSET (0 .. n), 0 \in T,
         \A i \in 1 .. n : i - 1 \in T => i \in T
  PROVE  T = 0 .. n
<1> DEFINE R == OpToRel(<, Nat)
           S == (0 .. n) \ T
<1>1. IsWellFoundedOn(R, Nat)
  BY NatLessThanWellFounded
<1>2. \A x, y \in Nat : <<y, x>> \in R <=> y < x
  BY DEF OpToRel
<1> SUFFICES ASSUME S # {} PROVE FALSE
  OBVIOUS
<1>3. S \in SUBSET Nat
  OBVIOUS
<1>4. \E x \in S : \A y \in S : ~ (<<y, x>> \in R)
  <2> HIDE DEF R, S
  <2> QED BY <1>1, <1>3, WFMin
<1>5. PICK x \in S : \A y \in S : ~ (<<y, x>> \in R)
  BY <1>4
<1>6. x \in 1 .. n /\ x - 1 \in 0 .. n
  OBVIOUS
<1>7. x - 1 \in S
  BY <1>6
<1>8. <<x - 1, x>> \in R
  <2> HIDE DEF R
  <2> QED BY <1>2, <1>6
<1> QED
  <2> HIDE DEF R, S
  <2> QED BY <1>5, <1>7, <1>8

(* A recursion on 0 .. n by a function F has a solution.                         *)
IsStep(F, n, S) == F \in [(1 .. n) \X S -> S]

Obeys(f, F, n, S, a) ==
  f \in [0 .. n -> S] /\ f[0] = a /\ \A i \in 1 .. n : f[i] = F[<<i, f[i - 1]>>]

LEMMA Recursion ==
  ASSUME NEW n \in Nat, NEW S, NEW a \in S, NEW F, IsStep(F, n, S)
  PROVE  \E f : Obeys(f, F, n, S, a)
<1>0. F \in [(1 .. n) \X S -> S]
  BY DEF IsStep
<1> DEFINE Fits(m, f) == f[0] = a /\ \A i \in 1 .. m : f[i] = F[<<i, f[i - 1]>>]
           T == {m \in 0 .. n : \E f \in [0 .. m -> S] : Fits(m, f)}
<1>1. 0 \in T
  <2>1. [i \in 0 .. 0 |-> a] \in [0 .. 0 -> S] /\ Fits(0, [i \in 0 .. 0 |-> a])
    OBVIOUS
  <2>2. \E f \in [0 .. 0 -> S] : Fits(0, f)
    <3> HIDE DEF Fits
    <3> QED BY <2>1
  <2> QED BY <2>2
<1>2. ASSUME NEW m \in 1 .. n, m - 1 \in T PROVE m \in T
  <2>1. PICK f \in [0 .. (m - 1) -> S] : Fits(m - 1, f)
    BY <1>2
  <2> DEFINE b == F[<<m, f[m - 1]>>]
             g == [i \in 0 .. m |-> IF i = m THEN b ELSE f[i]]
  <2>2. f[m - 1] \in S
    BY <2>1
  <2>3. b \in S
    BY <1>0, <2>2
  <2>4. g \in [0 .. m -> S] /\ g[m] = b /\ \A i \in 0 .. (m - 1) : g[i] = f[i]
    <3> HIDE DEF b
    <3> QED BY <2>3
  <2> HIDE DEF g
  <2>5. \A i \in 1 .. m : g[i] = F[<<i, g[i - 1]>>]
    <3>1. ASSUME NEW i \in 1 .. m PROVE g[i] = F[<<i, g[i - 1]>>]
      <4>1. g[i - 1] = f[i - 1]
        BY <2>4
      <4>2. CASE i = m
        BY <2>4, <4>1, <4>2
      <4>3. CASE i # m
        BY <2>1, <2>4, <4>1, <4>3
      <4> QED BY <4>2, <4>3
    <3> QED BY <3>1
  <2>6. g[0] = a
    BY <2>1, <2>4
  <2>7. Fits(m, g)
    BY <2>5, <2>6
  <2>8. \E h \in [0 .. m -> S] : Fits(m, h)
    <3> HIDE DEF Fits
    <3> QED BY <2>4, <2>7
  <2> QED BY <2>8
<1>3. T = 0 .. n
  <2> HIDE DEF T
  <2>1. T \in SUBSET (0 .. n)
    BY DEF T
  <2> QED BY <1>1, <1>2, <2>1, Upwards
<1>4. n \in T
  <2> HIDE DEF T
  <2> QED BY <1>3
<1>5. \E f \in [0 .. n -> S] : Fits(n, f)
  BY <1>4
<1> QED BY <1>5 DEF Obeys

(* What obeys F as long as it has its type, obeys it.                            *)
LEMMA Typed ==
  ASSUME NEW n \in Nat, NEW S, NEW a \in S, NEW F, IsStep(F, n, S), NEW p,
         p = [i \in 0 .. n |-> p[i]], p[0] = a,
         \A i \in 1 .. n : p[i - 1] \in S => p[i] = F[<<i, p[i - 1]>>]
  PROVE  Obeys(p, F, n, S, a)
<1> DEFINE T == {i \in 0 .. n : p[i] \in S}
<1>1. T = 0 .. n
  <2>1. 0 \in T
    OBVIOUS
  <2>2. ASSUME NEW i \in 1 .. n, i - 1 \in T PROVE i \in T
    <3>0. p[i - 1] \in S
      BY <2>2
    <3>1. <<i, p[i - 1]>> \in (1 .. n) \X S /\ p[i] = F[<<i, p[i - 1]>>]
      BY <3>0
    <3>2. F[<<i, p[i - 1]>>] \in S
      BY <3>1 DEF IsStep
    <3>3. p[i] \in S
      BY <3>1, <3>2
    <3> QED BY <3>3
  <2>3. T \in SUBSET (0 .. n)
    OBVIOUS
  <2> HIDE DEF T
  <2> QED BY <2>1, <2>2, <2>3, Upwards
<1>2. \A i \in 0 .. n : p[i] \in S
  BY <1>1
<1>3. p \in [0 .. n -> S]
  BY <1>2
<1>4. \A i \in 1 .. n : p[i - 1] \in S
  BY <1>2
<1> QED BY <1>3, <1>4 DEF Obeys

(* The characters of names and of the stored text.                               *)
Char == (UNION {Range(n) : n \in Name \cup {Default}}) \cup {"\n", "_"}

Line == Seq(Char \ {"\n"})

LEMMA NamesAreLines ==
  ASSUME NEW n \in Name \cup {Default}
  PROVE  n \in Line /\ n # <<>>
<1>1. n \in Seq(Range(n)) /\ "\n" \notin Range(n) /\ n # <<>>
  BY ProfilesAssumption
<1>2. Range(n) \subseteq Char \ {"\n"}
  BY <1>1 DEF Char
<1>3. \A i \in 1 .. Len(n) : n[i] \in Char \ {"\n"}
  BY <1>1, <1>2, ElementOfSeq
<1>4. Len(n) \in Nat /\ n \in [1 .. Len(n) -> Char \ {"\n"}]
  BY <1>1, <1>3, LenProperties
<1>5. n \in Line
  BY <1>4, SeqDef DEF Line
<1> QED BY <1>1, <1>5

LEMMA ShortSeqs ==
  ASSUME NEW S, NEW c \in S
  PROVE  <<c>> \in Seq(S) /\ <<c, c>> \in Seq(S)
  OBVIOUS

LEMMA PrefixType ==
  ASSUME NEW name \in Line
  PROVE  prefPrefix(name) \in Seq(Char)
<1> DEFINE n == Len(name)
           p[i \in 0 .. n] == IF i = 0 THEN <<>> ELSE p[i - 1] \o escape(name[i])
           F == [x \in (1 .. n) \X Seq(Char) |-> x[2] \o escape(name[x[1]])]
           Solves(g) == g = [i \in 0 .. n |-> IF i = 0 THEN <<>> ELSE g[i - 1] \o escape(name[i])]
<1>1. n \in Nat /\ \A i \in 1 .. n : name[i] \in Char
  BY LenProperties, ElementOfSeq DEF Line
<1>2. \A i \in 1 .. n : escape(name[i]) \in Seq(Char)
  <2>1. ASSUME NEW c \in Char PROVE escape(c) \in Seq(Char)
    <3>1. "_" \in Char
      BY DEF Char
    <3>2. <<"_", "_">> \in Seq(Char) /\ <<"_">> \in Seq(Char) /\ <<c>> \in Seq(Char)
      BY <3>1, ShortSeqs
    <3>3. escape(c) \in {<<"_", "_">>, <<"_">>, <<c>>}
      BY DEF escape
    <3> QED BY <3>2, <3>3
  <2> QED BY <1>1, <2>1
<1>3. F \in [(1 .. n) \X Seq(Char) -> Seq(Char)]
  BY <1>2
<1> HIDE DEF n
<1> DEFINE S == Seq(Char)
<1>4. n \in Nat /\ IsStep(F, n, S) /\ <<>> \in S
  BY <1>1, <1>3 DEF IsStep
<1>5. \A i \in 1 .. n, x \in S : F[<<i, x>>] = x \o escape(name[i])
  OBVIOUS
<1> HIDE DEF F, S
<1>6. PICK f : Obeys(f, F, n, S, <<>>)
  BY <1>4, Recursion
<1>7. Solves(f)
  <2>1. ASSUME NEW i \in 0 .. n
        PROVE  f[i] = IF i = 0 THEN <<>> ELSE f[i - 1] \o escape(name[i])
    <3>1. i # 0 => i \in 1 .. n /\ i - 1 \in 0 .. n
      BY <1>4
    <3> QED BY <1>5, <1>6, <3>1 DEF Obeys
  <2> QED BY <2>1, <1>6 DEF Obeys
<1>8. p = CHOOSE g : Solves(g)
  OBVIOUS
<1>9. prefPrefix(name) = p[n]
  BY DEF prefPrefix, n
<1> HIDE DEF p
<1>10. Solves(p)
  <2> HIDE DEF Solves
  <2> QED BY <1>7, <1>8
<1>11. Obeys(p, F, n, S, <<>>)
  <2>1. p = [i \in 0 .. n |-> p[i]]
    BY <1>10
  <2>2. 0 \in 0 .. n /\ \A i \in 1 .. n : i \in 0 .. n /\ i # 0
    BY <1>4
  <2>3. p[0] = <<>> /\ \A i \in 1 .. n : p[i] = p[i - 1] \o escape(name[i])
    BY <1>10, <2>2
  <2> HIDE DEF Solves
  <2> QED BY <1>4, <1>5, <2>1, <2>3, Typed
<1> QED BY <1>4, <1>9, <1>11 DEF Obeys, S

(* The functions that join, split and listed compute, one element at a time.     *)
Joins(J, names) ==
  /\ J \in [0 .. Len(names) -> Seq(Char)]
  /\ J[0] = <<>>
  /\ \A i \in 1 .. Len(names) :
       J[i] = IF i = 1 THEN names[1] ELSE J[i - 1] \o (<<"\n">> \o names[i])
  /\ join(names) = J[Len(names)]

NextLines(l, c) == IF c = "\n" THEN Append(l, <<>>)
                   ELSE [l EXCEPT ![Len(l)] = Append(l[Len(l)], c)]

Splits(L, text) ==
  /\ L \in [0 .. Len(text) -> Seq(Line) \ {<<>>}]
  /\ L[0] = << <<>> >>
  /\ \A i \in 1 .. Len(text) : L[i] = NextLines(L[i - 1], text[i])
  /\ split(text) = L[Len(text)]

Lists(R, lines) ==
  /\ R \in [0 .. Len(lines) -> Seq(Line)]
  /\ R[0] = <<Default>>
  /\ \A i \in 1 .. Len(lines) :
       R[i] = IF lines[i] = <<>> THEN R[i - 1] ELSE Append(R[i - 1], lines[i])
  /\ listed(lines) = R[Len(lines)]

LEMMA LineIsText ==
  ASSUME NEW w \in Line
  PROVE  /\ w \in Seq(Char) /\ <<"\n">> \o w \in Seq(Char)
         /\ \A i \in 1 .. Len(w) : w[i] \in Char \ {"\n"}
<1>1. Char \ {"\n"} \subseteq Char /\ "\n" \in Char
  BY DEF Char
<1>2. Len(w) \in Nat /\ w \in [1 .. Len(w) -> Char \ {"\n"}]
  BY LenProperties DEF Line
<1>3. w \in Seq(Char)
  <2>1. w \in [1 .. Len(w) -> Char]
    BY <1>1, <1>2
  <2> QED BY <1>2, <2>1, SeqDef
<1>4. <<"\n">> \in Seq(Char)
  BY <1>1, ShortSeqs
<1>5. <<"\n">> \o w \in Seq(Char)
  BY <1>3, <1>4, ConcatProperties
<1> QED BY <1>2, <1>3, <1>5

LEMMA JoinFunction ==
  ASSUME NEW names \in Seq(Line)
  PROVE  \E J : Joins(J, names)
<1> DEFINE n == Len(names)
           step(x, i) == IF i = 1 THEN names[1] ELSE x \o (<<"\n">> \o names[i])
           p[i \in 0 .. n] == IF i = 0 THEN <<>>
                              ELSE IF i = 1 THEN names[1] ELSE p[i - 1] \o (<<"\n">> \o names[i])
           S == Seq(Char)
           F == [x \in (1 .. n) \X S |-> step(x[2], x[1])]
           Solves(g) == g = [i \in 0 .. n |-> IF i = 0 THEN <<>>
                              ELSE IF i = 1 THEN names[1] ELSE g[i - 1] \o (<<"\n">> \o names[i])]
<1>1. n \in Nat /\ \A i \in 1 .. n : names[i] \in Line
  BY LenProperties, ElementOfSeq
<1> HIDE DEF n
<1>2. \A i \in 1 .. n, x \in S : step(x, i) \in S
  <2>1. ASSUME NEW i \in 1 .. n, NEW x \in S PROVE step(x, i) \in S
    <3>1. names[i] \in S /\ <<"\n">> \o names[i] \in S
      BY <1>1, LineIsText
    <3>2. x \o (<<"\n">> \o names[i]) \in S
      <4> DEFINE y == <<"\n">> \o names[i]
      <4>1. y \in S
        BY <3>1
      <4> HIDE DEF y
      <4>2. x \o y \in S
        BY <4>1, ConcatProperties
      <4> QED BY <4>2 DEF y
    <3> HIDE DEF S
    <3> QED BY <3>1, <3>2
  <2> QED BY <2>1
<1>3. \A i \in 1 .. n, x \in S : F[<<i, x>>] = step(x, i)
  OBVIOUS
<1>4. n \in Nat /\ IsStep(F, n, S) /\ <<>> \in S
  <2>1. <<>> \in S
    OBVIOUS
  <2> HIDE DEF step, S
  <2> QED BY <1>1, <1>2, <2>1 DEF IsStep
<1>7. p = CHOOSE g : Solves(g)
  OBVIOUS
<1>8. join(names) = p[n]
  BY DEF join, n
<1> HIDE DEF F, S, p
<1>5. PICK f : Obeys(f, F, n, S, <<>>)
  BY <1>4, Recursion
<1>6. Solves(f)
  <2>1. ASSUME NEW i \in 0 .. n PROVE f[i] = IF i = 0 THEN <<>> ELSE step(f[i - 1], i)
    <3>1. i # 0 => i \in 1 .. n /\ i - 1 \in 0 .. n
      BY <1>4
    <3> HIDE DEF step
    <3> QED BY <1>3, <1>5, <3>1 DEF Obeys
  <2> QED BY <2>1, <1>5 DEF Obeys
<1>9. Solves(p)
  <2> HIDE DEF Solves
  <2> QED BY <1>6, <1>7
<1>10. Obeys(p, F, n, S, <<>>)
  <2>1. p = [i \in 0 .. n |-> p[i]]
    BY <1>9
  <2>2. 0 \in 0 .. n /\ \A i \in 1 .. n : i \in 0 .. n /\ i # 0
    BY <1>4
  <2>3. p[0] = <<>> /\ \A i \in 1 .. n : p[i] = step(p[i - 1], i)
    BY <1>9, <2>2
  <2> HIDE DEF Solves, step
  <2> QED BY <1>3, <1>4, <2>1, <2>3, Typed
<1>11. \A i \in 1 .. n : p[i] = step(p[i - 1], i)
  <2>1. \A i \in 1 .. n : i \in 0 .. n /\ i # 0
    BY <1>4
  <2> QED BY <1>9, <2>1
<1>12. Joins(p, names)
  BY <1>8, <1>10, <1>11 DEF Joins, Obeys, n, S
<1> QED BY <1>12

LEMMA NextLinesType ==
  ASSUME NEW l \in Seq(Line) \ {<<>>}, NEW c \in Char
  PROVE  NextLines(l, c) \in Seq(Line) \ {<<>>}
<1>1. Len(l) \in Nat /\ l \in [1 .. Len(l) -> Line] /\ Len(l) # 0
  BY LenProperties, EmptySeq
<1>2. CASE c = "\n"
  <2>1. <<>> \in Line
    BY DEF Line
  <2>2. Append(l, <<>>) \in Seq(Line) /\ Append(l, <<>>) # <<>>
    BY <2>1, AppendProperties
  <2> QED BY <1>2, <2>2 DEF NextLines
<1>3. CASE c # "\n"
  <2> DEFINE w == Append(l[Len(l)], c)
             u == [l EXCEPT ![Len(l)] = w]
  <2>1. l[Len(l)] \in Line
    BY <1>1
  <2>2. w \in Line
    BY <1>3, <2>1, AppendProperties DEF Line
  <2> HIDE DEF w
  <2>3. u \in [1 .. Len(l) -> Line]
    BY <1>1, <2>2
  <2>4. u \in Seq(Line) /\ Len(u) = Len(l)
    <3> HIDE DEF u
    <3>1. u \in Seq(Line)
      BY <1>1, <2>3, SeqDef
    <3> QED BY <1>1, <2>3, <3>1, LenProperties
  <2>5. u # <<>>
    BY <1>1, <2>4, EmptySeq
  <2> QED BY <1>3, <2>4, <2>5 DEF NextLines, w
<1> QED BY <1>2, <1>3

LEMMA SplitFunction ==
  ASSUME NEW text \in Seq(Char)
  PROVE  \E L : Splits(L, text)
<1> DEFINE n == Len(text)
           a == << <<>> >>
           p[i \in 0 .. n] == IF i = 0 THEN a ELSE NextLines(p[i - 1], text[i])
           S == Seq(Line) \ {<<>>}
           F == [x \in (1 .. n) \X S |-> NextLines(x[2], text[x[1]])]
           Solves(g) == g = [i \in 0 .. n |-> IF i = 0 THEN a ELSE NextLines(g[i - 1], text[i])]
<1>1. n \in Nat /\ \A i \in 1 .. n : text[i] \in Char
  BY LenProperties, ElementOfSeq
<1>2. \A i \in 1 .. n, x \in S : NextLines(x, text[i]) \in S
  BY <1>1, NextLinesType
<1>3. \A i \in 1 .. n, x \in S : F[<<i, x>>] = NextLines(x, text[i])
  OBVIOUS
<1>4. n \in Nat /\ IsStep(F, n, S) /\ a \in S
  <2>1. a \in Seq(Line) /\ a # <<>>
    <3>1. <<>> \in Line
      BY DEF Line
    <3> QED BY <3>1, ShortSeqs
  <2> HIDE DEF a, n
  <2> QED BY <1>1, <1>2, <2>1 DEF IsStep
<1>5. p = CHOOSE g : Solves(g)
  OBVIOUS
<1>6. split(text) = p[n]
  BY DEF split, NextLines
<1> HIDE DEF F, S, p, a, n
<1>7. PICK f : Obeys(f, F, n, S, a)
  BY <1>4, Recursion
<1>8. Solves(f)
  <2>1. ASSUME NEW i \in 0 .. n
        PROVE  f[i] = IF i = 0 THEN a ELSE NextLines(f[i - 1], text[i])
    <3>1. i # 0 => i \in 1 .. n /\ i - 1 \in 0 .. n
      BY <1>4
    <3> QED BY <1>3, <1>7, <3>1 DEF Obeys
  <2> QED BY <2>1, <1>7 DEF Obeys
<1>9. Solves(p)
  <2> HIDE DEF Solves
  <2> QED BY <1>5, <1>8
<1>10. p[0] = a /\ \A i \in 1 .. n : p[i] = NextLines(p[i - 1], text[i])
  <2>1. 0 \in 0 .. n /\ \A i \in 1 .. n : i \in 0 .. n /\ i # 0
    BY <1>4
  <2> QED BY <1>9, <2>1
<1>11. Obeys(p, F, n, S, a)
  <2>1. p = [i \in 0 .. n |-> p[i]]
    BY <1>9
  <2> HIDE DEF Solves
  <2> QED BY <1>3, <1>4, <1>10, <2>1, Typed
<1>12. Splits(p, text)
  BY <1>6, <1>10, <1>11 DEF Splits, Obeys, n, S, a
<1> QED BY <1>12

LEMMA ListFunction ==
  ASSUME NEW lines \in Seq(Line)
  PROVE  \E R : Lists(R, lines)
<1> DEFINE n == Len(lines)
           a == <<Default>>
           step(x, i) == IF lines[i] = <<>> THEN x ELSE Append(x, lines[i])
           p[i \in 0 .. n] == IF i = 0 THEN a
                              ELSE IF lines[i] = <<>> THEN p[i - 1] ELSE Append(p[i - 1], lines[i])
           S == Seq(Line)
           F == [x \in (1 .. n) \X S |-> step(x[2], x[1])]
           Solves(g) == g = [i \in 0 .. n |-> IF i = 0 THEN a ELSE step(g[i - 1], i)]
<1>1. n \in Nat /\ \A i \in 1 .. n : lines[i] \in Line
  BY LenProperties, ElementOfSeq
<1>2. \A i \in 1 .. n, x \in S : step(x, i) \in S
  BY <1>1, AppendProperties
<1>3. \A i \in 1 .. n, x \in S : F[<<i, x>>] = step(x, i)
  OBVIOUS
<1>4. n \in Nat /\ IsStep(F, n, S) /\ a \in S
  <2>1. a \in S
    BY NamesAreLines, ShortSeqs
  <2> HIDE DEF a, n, S, step
  <2> QED BY <1>1, <1>2, <2>1 DEF IsStep
<1>5. p = CHOOSE g : Solves(g)
  OBVIOUS
<1>6. listed(lines) = p[n]
  BY DEF listed
<1> HIDE DEF F, S, p, a, n, step
<1>7. PICK f : Obeys(f, F, n, S, a)
  BY <1>4, Recursion
<1>8. Solves(f)
  <2>1. ASSUME NEW i \in 0 .. n PROVE f[i] = IF i = 0 THEN a ELSE step(f[i - 1], i)
    <3>1. i # 0 => i \in 1 .. n /\ i - 1 \in 0 .. n
      BY <1>4
    <3> QED BY <1>3, <1>7, <3>1 DEF Obeys
  <2> QED BY <2>1, <1>7 DEF Obeys
<1>9. Solves(p)
  <2> HIDE DEF Solves
  <2> QED BY <1>5, <1>8
<1>10. p[0] = a /\ \A i \in 1 .. n : p[i] = step(p[i - 1], i)
  <2>1. 0 \in 0 .. n /\ \A i \in 1 .. n : i \in 0 .. n /\ i # 0
    BY <1>4
  <2> QED BY <1>9, <2>1
<1>11. Obeys(p, F, n, S, a)
  <2>1. p = [i \in 0 .. n |-> p[i]]
    BY <1>9
  <2> HIDE DEF Solves
  <2> QED BY <1>3, <1>4, <1>10, <2>1, Typed
<1>12. Lists(p, lines)
  BY <1>6, <1>10, <1>11 DEF Lists, Obeys, n, S, a, step
<1> QED BY <1>12

-----------------------------------------------------------------------------
(* split and reload undo join.                                                   *)

(* The last element is replaced.                                                  *)
Replaced(l, c) == [l EXCEPT ![Len(l)] = c]

LEMMA LastReplaced ==
  ASSUME NEW S, NEW s \in Seq(S), NEW b \in S, NEW c \in S
  PROVE  Replaced(Append(s, b), c) = Append(s, c)
<1> DEFINE l == Append(s, b)
           u == [l EXCEPT ![Len(l)] = c]
           v == Append(s, c)
<1>1. /\ l \in Seq(S) /\ Len(l) = Len(s) + 1 /\ Len(s) \in Nat
      /\ \A i \in 1 .. Len(s) : l[i] = s[i]
  BY AppendProperties
<1>2. /\ v \in Seq(S) /\ Len(v) = Len(s) + 1 /\ v[Len(s) + 1] = c
      /\ \A i \in 1 .. Len(s) : v[i] = s[i]
  BY AppendProperties
<1>3. l \in [1 .. Len(s) + 1 -> S] /\ v \in [1 .. Len(s) + 1 -> S]
  BY <1>1, <1>2, LenProperties
<1> HIDE DEF l, v
<1>4. \A i \in 1 .. Len(s) + 1 : u[i] = v[i]
  BY <1>1, <1>2, <1>3
<1>5. u \in [1 .. Len(s) + 1 -> S]
  BY <1>1, <1>3
<1>6. u = v
  <2> HIDE DEF u
  <2> QED BY <1>3, <1>4, <1>5
<1> QED BY <1>6 DEF l, v, Replaced

(* A word of the text that starts a line is added to that line.                   *)
LEMMA WordSplit ==
  ASSUME NEW text \in Seq(Char), NEW L, Splits(L, text),
         NEW at \in Nat, NEW w \in Line, at + Len(w) <= Len(text),
         \A k \in 1 .. Len(w) : text[at + k] = w[k],
         NEW ls \in Seq(Line), L[at] = Append(ls, <<>>)
  PROVE  L[at + Len(w)] = Append(ls, w)
<1> DEFINE n == Len(w)
           T == {k \in 0 .. n : L[at + k] = Append(ls, SubSeq(w, 1, k))}
<1>1. n \in Nat /\ Len(text) \in Nat /\ at + n <= Len(text)
  BY LenProperties DEF Line
<1>2. \A k \in 1 .. n : /\ w[k] \in Char \ {"\n"} /\ text[at + k] = w[k]
                        /\ at + k \in 1 .. Len(text)
  <2>1. \A k \in 1 .. n : at + k \in 1 .. Len(text)
    BY <1>1
  <2> QED BY <2>1, LineIsText
<1>3. 0 \in T
  <2>1. SubSeq(w, 1, 0) = <<>>
    BY SubSeqProperties DEF Line
  <2>2. at + 0 = at /\ 0 \in 0 .. n
    BY <1>1
  <2>3. L[at + 0] = Append(ls, SubSeq(w, 1, 0))
    BY <2>1, <2>2
  <2> HIDE DEF n
  <2> QED BY <2>2, <2>3
<1>4. ASSUME NEW k \in 1 .. n, k - 1 \in T PROVE k \in T
  <2> DEFINE b == SubSeq(w, 1, k - 1)
             l == Append(ls, b)
  <2>1. L[at + (k - 1)] = l
    BY <1>4
  <2>2. b \in Line /\ SubSeq(w, 1, k) = Append(b, w[k])
    BY <1>1 DEF Line
  <2> HIDE DEF b
  <2>3. l \in Seq(Line) /\ Len(l) = Len(ls) + 1 /\ l[Len(l)] = b
    BY <2>2
  <2>4. L[at + k] = NextLines(L[at + k - 1], text[at + k])
    BY <1>2 DEF Splits
  <2>5. at + k - 1 = at + (k - 1)
    OBVIOUS
  <2>6. L[at + k] = NextLines(l, w[k])
    <3> HIDE DEF l
    <3> QED BY <1>2, <2>1, <2>4, <2>5
  <2>7. NextLines(l, w[k]) = Replaced(l, Append(b, w[k]))
    <3> HIDE DEF l
    <3> QED BY <1>2, <2>3 DEF NextLines, Replaced
  <2>8. Replaced(l, Append(b, w[k])) = Append(ls, Append(b, w[k]))
    <3>1. Append(b, w[k]) \in Line
      BY <1>2, <2>2, AppendProperties DEF Line
    <3> DEFINE c == Append(b, w[k])
    <3> HIDE DEF c
    <3>2. Replaced(l, c) = Append(ls, c)
      BY <2>2, <3>1, LastReplaced DEF c
    <3> QED BY <3>2 DEF c
  <2>9. L[at + k] = Append(ls, SubSeq(w, 1, k))
    BY <2>2, <2>6, <2>7, <2>8
  <2> QED BY <2>9
<1>5. T = 0 .. n
  <2>1. T \in SUBSET (0 .. n)
    OBVIOUS
  <2> HIDE DEF T, n
  <2> QED BY <1>1, <1>3, <1>4, <2>1, Upwards
<1>6. n \in T
  <2> HIDE DEF T, n
  <2> QED BY <1>1, <1>5
<1>7. SubSeq(w, 1, n) = w
  BY DEF Line
<1> QED BY <1>6, <1>7

(* u is the text t up to its length.                                              *)
Starts(u, t) == Len(u) <= Len(t) /\ \A q \in 1 .. Len(u) : t[q] = u[q]

(* What is joined first starts the text.                                          *)
LEMMA JoinStarts ==
  ASSUME NEW names \in Seq(Line), NEW J, Joins(J, names)
  PROVE  \A i \in 1 .. Len(names) : Starts(J[i], join(names))
<1> DEFINE m == Len(names)
           T == {j \in 0 .. m : m - j >= 1 => Starts(J[m - j], join(names))}
<1>1. m \in Nat /\ \A i \in 0 .. m : J[i] \in Seq(Char)
  BY LenProperties DEF Joins
<1>2. 0 \in T
  <2>1. m - 0 = m /\ 0 \in 0 .. m
    BY <1>1
  <2>2. Starts(J[m], join(names))
    BY <1>1 DEF Joins, Starts
  <2> HIDE DEF m
  <2> QED BY <2>1, <2>2
<1>3. ASSUME NEW j \in 1 .. m, j - 1 \in T PROVE j \in T
  <2> DEFINE i == m - j
  <2>1. i \in Nat /\ i + 1 \in 1 .. m /\ i + 1 = m - (j - 1) /\ i \in 0 .. m /\ (i + 1) - 1 = i
    BY <1>1
  <2>2. SUFFICES ASSUME i >= 1 PROVE Starts(J[i], join(names))
    BY <1>1
  <2> HIDE DEF i
  <2>3. Starts(J[i + 1], join(names))
    <3>1. m - (j - 1) >= 1
      BY <2>1
    <3> QED BY <1>3, <2>1, <3>1
  <2> DEFINE w == <<"\n">> \o names[i + 1]
  <2>4. w \in Seq(Char)
    BY <2>1, ElementOfSeq, LineIsText
  <2> HIDE DEF m
  <2>5. J[i + 1] = J[i] \o w
    <3>1. J[i + 1] = IF i + 1 = 1 THEN names[1] ELSE J[(i + 1) - 1] \o w
      BY <2>1 DEF Joins, m
    <3>2. i + 1 # 1
      BY <2>1, <2>2
    <3> HIDE DEF w
    <3> QED BY <2>1, <3>1, <3>2
  <2> HIDE DEF w
  <2>6. J[i] \in Seq(Char)
    BY <1>1, <2>1
  <2>7. Starts(J[i], J[i + 1])
    BY <2>4, <2>5, <2>6, ConcatProperties, LenProperties DEF Starts
  <2>8. J[i + 1] \in Seq(Char) /\ join(names) \in Seq(Char)
    BY <1>1, <2>1 DEF Joins, m
  <2> QED BY <2>3, <2>6, <2>7, <2>8, LenProperties DEF Starts
<1>4. T = 0 .. m
  <2>1. T \in SUBSET (0 .. m)
    OBVIOUS
  <2> HIDE DEF T, m
  <2> QED BY <1>1, <1>2, <1>3, <2>1, Upwards
<1>5. ASSUME NEW i \in 1 .. m PROVE Starts(J[i], join(names))
  <2>1. m - i \in 0 .. m /\ m - (m - i) = i /\ i >= 1
    BY <1>1
  <2>2. m - i \in T
    <3> HIDE DEF T
    <3> QED BY <1>4, <2>1
  <2> HIDE DEF m
  <2> QED BY <2>1, <2>2
<1> QED BY <1>5

LEMMA ConcatTail ==
  ASSUME NEW S, NEW s \in Seq(S), NEW t \in Seq(S)
  PROVE  /\ s \o t \in Seq(S) /\ Len(s \o t) = Len(s) + Len(t)
         /\ \A k \in 1 .. Len(s) : (s \o t)[k] = s[k]
         /\ \A k \in 1 .. Len(t) : (s \o t)[Len(s) + k] = t[k]
  OBVIOUS

(* The lines of a joined text are the names that were joined.                      *)
LEMMA SplitJoin ==
  ASSUME NEW names \in Seq(Line)
  PROVE  split(join(names)) = IF names = <<>> THEN << <<>> >> ELSE names
<1> DEFINE m == Len(names)
           text == join(names)
<1>1. PICK J : Joins(J, names)
  BY JoinFunction
<1>2. m \in Nat /\ text \in Seq(Char) /\ \A i \in 0 .. m : J[i] \in Seq(Char)
  <2>1. m \in Nat /\ m \in 0 .. m
    BY LenProperties
  <2> HIDE DEF m
  <2>2. J \in [0 .. m -> Seq(Char)] /\ text = J[m]
    BY <1>1 DEF Joins, m
  <2> HIDE DEF text
  <2> QED BY <2>1, <2>2
<1>3. text = J[m]
  BY <1>1 DEF Joins
<1> HIDE DEF text
<1>4. PICK L : Splits(L, text)
  BY <1>2, SplitFunction
<1>5. CASE names = <<>>
  <2>1. m = 0
    BY <1>5
  <2>2. text = <<>> /\ Len(text) = 0
    BY <1>1, <1>3, <2>1 DEF Joins
  <2> QED BY <1>4, <1>5, <2>2 DEF Splits, text
<1>6. CASE names # <<>>
  <2>1. m >= 1
    BY <1>2, <1>6, EmptySeq
  <2> DEFINE T == {i \in 0 .. m : i >= 1 => L[Len(J[i])] = SubSeq(names, 1, i)}
  <2>2. 0 \in T
    BY <1>2
  <2>3. ASSUME NEW i \in 1 .. m, i - 1 \in T PROVE i \in T
    <3> DEFINE w == names[i]
               at == Len(J[i]) - Len(w)
               ls == SubSeq(names, 1, i - 1)
    <3>1. w \in Line /\ Len(w) \in Nat /\ ls \in Seq(Line) /\ Append(ls, w) = SubSeq(names, 1, i)
      BY <1>2, ElementOfSeq, LenProperties DEF Line
    <3>3. Starts(J[i], text)
      BY <1>1, JoinStarts DEF text
    <3>2. /\ Len(J[i]) \in Nat /\ at \in Nat /\ \A k \in 1 .. Len(w) : J[i][at + k] = w[k]
          /\ L[at] = Append(ls, <<>>)
      <4>1. CASE i = 1
        <5>1. J[i] = w
          BY <1>1, <4>1 DEF Joins
        <5>2. ls = <<>>
          BY <4>1
        <5>3. at = 0
          BY <3>1, <5>1
        <5>4. L[0] = << <<>> >>
          BY <1>4 DEF Splits
        <5> HIDE DEF w, at, ls
        <5>5. L[at] = Append(ls, <<>>)
          BY <5>2, <5>3, <5>4
        <5> QED BY <3>1, <5>1, <5>3, <5>5
      <4>2. CASE i # 1
        <5> DEFINE b == J[i - 1]
                   x == <<"\n">> \o w
        <5>1. i \in 1 .. m /\ i - 1 \in 0 .. m /\ i - 1 >= 1
          BY <1>2, <4>2
        <5>2. b \in Seq(Char) /\ Len(b) \in Nat /\ Len(J[i]) \in Nat
          BY <1>2, <5>1, LenProperties
        <5>3. J[i] = b \o x
          BY <1>1, <4>2 DEF Joins
        <5>4. /\ x \in Seq(Char) /\ Len(x) = 1 + Len(w) /\ x[1] = "\n"
              /\ \A k \in 1 .. Len(w) : x[1 + k] = w[k]
          <6>1. x \in Seq(Char) /\ w \in Seq(Char)
            BY <3>1, LineIsText
          <6> HIDE DEF w
          <6> QED BY <3>1, <6>1
        <5>5. L[Len(b)] = ls
          BY <2>3, <5>1
        <5> HIDE DEF b, x, w, ls
        <5>6. /\ Len(J[i]) = Len(b) + 1 + Len(w) /\ J[i][Len(b) + 1] = "\n"
              /\ \A k \in 1 .. Len(w) : J[i][Len(b) + 1 + k] = w[k]
          <6>4. b \in Seq(Char) /\ x \in Seq(Char)
            BY <5>2, <5>4
          <6>1. /\ Len(b \o x) = Len(b) + Len(x)
                /\ \A k \in 1 .. Len(x) : (b \o x)[Len(b) + k] = x[k]
            BY ONLY <6>4, ConcatTail
          <6>2. \A k \in 1 .. Len(w) : /\ 1 + k \in 1 .. Len(x)
                                       /\ Len(b) + 1 + k = Len(b) + (1 + k)
            BY <3>1, <5>2, <5>4
          <6>3. 1 \in 1 .. Len(x)
            BY <3>1, <5>4
          <6> QED BY <3>1, <5>2, <5>3, <5>4, <6>1, <6>2, <6>3
        <5>7. at = Len(b) + 1
          BY <3>1, <5>2, <5>6
        <5> HIDE DEF at
        <5>8. at \in 1 .. Len(text) /\ text[at] = "\n"
          <6>1. at \in 1 .. Len(J[i]) /\ Len(text) \in Nat
            BY <1>2, <3>1, <5>2, <5>6, <5>7, LenProperties
          <6> QED BY <3>3, <5>6, <5>7, <6>1 DEF Starts
        <5>9. L[at] = NextLines(L[at - 1], text[at])
          BY <1>4, <5>8 DEF Splits
        <5>10. L[at] = Append(ls, <<>>)
          <6>1. at - 1 = Len(b)
            BY <5>2, <5>7
          <6> QED BY <5>5, <5>8, <5>9, <6>1 DEF NextLines
        <5> QED BY <5>2, <5>6, <5>7, <5>10
      <4> QED BY <4>1, <4>2
    <3>4. at + Len(w) = Len(J[i])
      BY <3>1, <3>2
    <3> HIDE DEF w, at, ls
    <3>5. at + Len(w) <= Len(text) /\ \A k \in 1 .. Len(w) : text[at + k] = w[k]
      <4>1. \A k \in 1 .. Len(w) : at + k \in 1 .. Len(J[i])
        BY <3>1, <3>2, <3>4
      <4> QED BY <3>2, <3>3, <3>4, <4>1 DEF Starts
    <3>6. L[at + Len(w)] = Append(ls, w)
      BY <1>2, <1>4, <3>1, <3>2, <3>5, WordSplit
    <3>7. L[Len(J[i])] = SubSeq(names, 1, i)
      BY <3>1, <3>4, <3>6
    <3> QED BY <1>2, <3>7
  <2>4. T = 0 .. m
    <3>1. T \in SUBSET (0 .. m)
      OBVIOUS
    <3> HIDE DEF T, m
    <3> QED BY <1>2, <2>2, <2>3, <3>1, Upwards
  <2>5. L[Len(J[m])] = SubSeq(names, 1, m)
    <3>1. m \in T
      <4> HIDE DEF T, m
      <4> QED BY <1>2, <2>4
    <3> HIDE DEF m
    <3> QED BY <2>1, <3>1
  <2>6. SubSeq(names, 1, m) = names
    OBVIOUS
  <2> QED BY <1>3, <1>4, <1>6, <2>5, <2>6 DEF Splits, text
<1> QED BY <1>5, <1>6

(* A list survives being stored and read back.                                     *)
LEMMA RoundTrip ==
  ASSUME NEW names \in Seq(Line), \A i \in 1 .. Len(names) : names[i] # <<>>
  PROVE  reload(join(names)) = <<Default>> \o names
<1>1. CASE names = <<>>
  <2> DEFINE lines == << <<>> >>
  <2>1. split(join(names)) = lines
    BY <1>1, SplitJoin
  <2>2. lines \in Seq(Line) /\ Len(lines) = 1 /\ lines[1] = <<>>
    <3>1. <<>> \in Line
      BY DEF Line
    <3> QED BY <3>1, ShortSeqs
  <2> HIDE DEF lines
  <2>3. PICK R : Lists(R, lines)
    BY <2>2, ListFunction
  <2>4. listed(lines) = <<Default>>
    <3>1. R[1] = R[1 - 1]
      BY <2>2, <2>3 DEF Lists
    <3> QED BY <2>2, <2>3, <3>1 DEF Lists
  <2> QED BY <1>1, <2>1, <2>4 DEF reload
<1>2. CASE names # <<>>
  <2> DEFINE m == Len(names)
  <2>1. split(join(names)) = names
    BY <1>2, SplitJoin
  <2>2. PICK R : Lists(R, names)
    BY ListFunction
  <2>3. m \in Nat
    BY LenProperties
  <2> DEFINE T == {i \in 0 .. m : R[i] = <<Default>> \o SubSeq(names, 1, i)}
  <2>4. 0 \in T
    <3>1. R[0] = <<Default>> /\ SubSeq(names, 1, 0) = <<>> /\ 0 \in 0 .. m
      BY <2>2, <2>3 DEF Lists
    <3>2. <<Default>> \o <<>> = <<Default>>
      OBVIOUS
    <3> QED BY <3>1, <3>2
  <2>5. ASSUME NEW i \in 1 .. m, i - 1 \in T PROVE i \in T
    <3> DEFINE ls == SubSeq(names, 1, i - 1)
               w == names[i]
    <3>1. R[i - 1] = <<Default>> \o ls
      BY <2>5
    <3>2. w \in Line /\ ls \in Seq(Line) /\ Append(ls, w) = SubSeq(names, 1, i)
      BY <2>3, ElementOfSeq
    <3>3. R[i] = Append(R[i - 1], w)
      BY <2>2 DEF Lists
    <3> HIDE DEF ls, w
    <3>4. Append(<<Default>> \o ls, w) = <<Default>> \o Append(ls, w)
      BY <3>2, NamesAreLines
    <3>5. R[i] = <<Default>> \o SubSeq(names, 1, i)
      BY <3>1, <3>2, <3>3, <3>4
    <3> QED BY <2>3, <3>5
  <2>6. T = 0 .. m
    <3>1. T \in SUBSET (0 .. m)
      OBVIOUS
    <3> HIDE DEF T, m
    <3> QED BY <2>3, <2>4, <2>5, <3>1, Upwards
  <2>7. R[m] = <<Default>> \o SubSeq(names, 1, m)
    <3>1. m \in T
      <4> HIDE DEF T, m
      <4> QED BY <2>3, <2>6
    <3> QED BY <3>1
  <2>8. SubSeq(names, 1, m) = names
    OBVIOUS
  <2>9. listed(names) = R[m]
    BY <2>2 DEF Lists
  <2> QED BY <2>1, <2>7, <2>8, <2>9 DEF reload
<1> QED BY <1>1, <1>2

-----------------------------------------------------------------------------
(* The list of profiles: the default profile, then names, none of them twice.     *)
Known(profiles) ==
  /\ profiles \in Seq(Name \cup {Default}) /\ profiles # <<>>
  /\ profiles[1] = Default
  /\ IsInjective(profiles)

LEMMA KnownTail ==
  ASSUME NEW profiles, Known(profiles)
  PROVE  /\ Tail(profiles) \in Seq(Name)
         /\ profiles = <<Default>> \o Tail(profiles)
         /\ Len(profiles) \in Nat \ {0} /\ Len(Tail(profiles)) = Len(profiles) - 1
         /\ \A i \in 1 .. Len(Tail(profiles)) : Tail(profiles)[i] = profiles[i + 1]
<1> DEFINE S == Name \cup {Default}
           t == Tail(profiles)
<1>1. /\ profiles \in Seq(S) /\ profiles # <<>> /\ profiles[1] = Default
      /\ DOMAIN profiles = 1 .. Len(profiles) /\ Len(profiles) \in Nat
      /\ \A i, j \in 1 .. Len(profiles) : profiles[i] = profiles[j] => i = j
  BY LenProperties DEF Known, IsInjective
<1>2. Len(profiles) # 0
  BY <1>1, EmptySeq
<1>3. /\ t \in Seq(S) /\ Len(t) = Len(profiles) - 1
      /\ \A i \in 1 .. Len(t) : t[i] = profiles[i + 1]
  BY <1>1, <1>2, HeadTailProperties
<1>4. profiles = <<Default>> \o t
  <2> HIDE DEF S
  <2>1. profiles = <<Head(profiles)>> \o t
    BY <1>1
  <2>2. Head(profiles) = profiles[1]
    BY <1>1
  <2> QED BY <1>1, <2>1, <2>2
<1> HIDE DEF t
<1>5. \A i \in 1 .. Len(t) : t[i] \in Name
  <2>1. ASSUME NEW i \in 1 .. Len(t) PROVE t[i] \in Name
    <3>1. i + 1 \in 1 .. Len(profiles) /\ 1 \in 1 .. Len(profiles) /\ i + 1 # 1
      BY <1>1, <1>2, <1>3
    <3>2. profiles[i + 1] # Default /\ profiles[i + 1] \in S
      BY <1>1, <3>1, ElementOfSeq
    <3> QED BY <1>3, <3>2
  <2> QED BY <2>1
<1>6. t \in Seq(Name)
  <2>1. Len(t) \in Nat /\ t = [i \in 1 .. Len(t) |-> t[i]]
    BY <1>3, LenProperties
  <2>2. t \in [1 .. Len(t) -> Name]
    BY <1>5, <2>1
  <2> QED BY <2>1, <2>2, SeqDef
<1> QED BY <1>1, <1>2, <1>3, <1>4, <1>6 DEF t

LEMMA SeqRange ==
  ASSUME NEW S, NEW s \in Seq(S)
  PROVE  Range(s) = {s[i] : i \in 1 .. Len(s)} /\ Range(s) \subseteq S
<1>1. DOMAIN s = 1 .. Len(s) /\ \A i \in 1 .. Len(s) : s[i] \in S
  BY LenProperties, ElementOfSeq
<1> QED BY <1>1 DEF Range

(* Storing a list and reading it back changes nothing, and the text has names and *)
(* at most an empty line.                                                         *)
LEMMA Reloaded ==
  ASSUME NEW profiles, Known(profiles)
  PROVE  /\ reload(join(Tail(profiles))) = profiles
         /\ \A n \in Range(split(join(Tail(profiles)))) : n \in Name \cup {<<>>}
<1> DEFINE t == Tail(profiles)
<1>1. t \in Seq(Name) /\ profiles = <<Default>> \o t
  BY KnownTail
<1> HIDE DEF t
<1>2. Len(t) \in Nat /\ t \in [1 .. Len(t) -> Name] /\ \A i \in 1 .. Len(t) : t[i] \in Name
  BY <1>1, LenProperties, ElementOfSeq
<1>3. \A n \in Name : n \in Line /\ n # <<>>
  BY NamesAreLines
<1>4. t \in Seq(Line)
  <2>1. t \in [1 .. Len(t) -> Line]
    BY <1>2, <1>3
  <2> QED BY <1>2, <2>1, SeqDef
<1>5. reload(join(t)) = <<Default>> \o t
  BY <1>2, <1>3, <1>4, RoundTrip
<1>6. \A n \in Range(split(join(t))) : n \in Name \cup {<<>>}
  <2>1. CASE t = <<>>
    <3>1. split(join(t)) = << <<>> >>
      BY <1>4, <2>1, SplitJoin
    <3>2. Range(<< <<>> >>) = {<<>>}
      BY DEF Range
    <3> QED BY <3>1, <3>2
  <2>2. CASE t # <<>>
    <3>1. split(join(t)) = t
      BY <1>4, <2>2, SplitJoin
    <3>2. Range(t) \subseteq Name
      BY <1>1, SeqRange
    <3> QED BY <3>1, <3>2
  <2> QED BY <2>1, <2>2
<1> QED BY <1>1, <1>5, <1>6 DEF t

(* getDefault finds a profile, and not the empty name.                            *)
LEMMA DefaultExists ==
  ASSUME NEW profiles, Known(profiles), NEW last \in Range(profiles) \cup {<<>>}
  PROVE  /\ getDefault(profiles, last) \in Range(profiles)
         /\ getDefault(profiles, last) = IF last = <<>> THEN profiles[1] ELSE last
         /\ <<>> \notin Range(profiles)
         /\ profiles[1] \in Range(profiles)
         /\ Range(profiles) \subseteq Name \cup {Default}
<1>1. profiles \in Seq(Name \cup {Default}) /\ Len(profiles) \in Nat \ {0}
  BY KnownTail DEF Known
<1>2. /\ Range(profiles) = {profiles[i] : i \in 1 .. Len(profiles)}
      /\ Range(profiles) \subseteq Name \cup {Default}
  BY <1>1, SeqRange
<1>3. <<>> \notin Range(profiles)
  BY <1>2, NamesAreLines
<1>4. profiles[1] \in Range(profiles)
  BY <1>1, <1>2
<1> QED BY <1>2, <1>3, <1>4 DEF getDefault, getProfile

(* A new name at the end.                                                         *)
LEMMA Added ==
  ASSUME NEW profiles, Known(profiles), NEW name \in Name, name \notin Range(profiles)
  PROVE  /\ Known(Append(profiles, name))
         /\ Range(Append(profiles, name)) = Range(profiles) \cup {name}
<1> DEFINE S == Name \cup {Default}
           q == Append(profiles, name)
<1>1. /\ profiles \in Seq(S) /\ Len(profiles) \in Nat \ {0} /\ profiles[1] = Default
      /\ DOMAIN profiles = 1 .. Len(profiles)
      /\ \A i, j \in 1 .. Len(profiles) : profiles[i] = profiles[j] => i = j
  <2>1. profiles \in Seq(S) /\ profiles[1] = Default /\ DOMAIN profiles = 1 .. Len(profiles)
    BY LenProperties DEF Known
  <2> QED BY <2>1, KnownTail DEF Known, IsInjective
<1>2. name \in S
  OBVIOUS
<1> HIDE DEF S
<1>3. /\ q \in Seq(S) /\ Len(q) = Len(profiles) + 1 /\ q[Len(profiles) + 1] = name
      /\ \A i \in 1 .. Len(profiles) : q[i] = profiles[i]
      /\ DOMAIN q = 1 .. Len(q)
  BY <1>1, <1>2, AppendProperties, LenProperties
<1> HIDE DEF q
<1>4. /\ Range(profiles) = {profiles[i] : i \in 1 .. Len(profiles)}
      /\ Range(q) = {q[i] : i \in 1 .. Len(q)}
  BY <1>1, <1>3, SeqRange
<1>5. Range(q) = Range(profiles) \cup {name}
  <2>1. \A i \in 1 .. Len(q) : i \in 1 .. Len(profiles) \/ i = Len(profiles) + 1
    BY <1>1, <1>3
  <2>2. Len(profiles) + 1 \in 1 .. Len(q) /\ 1 .. Len(profiles) \subseteq 1 .. Len(q)
    BY <1>1, <1>3
  <2>3. \A i \in 1 .. Len(q) : q[i] \in Range(profiles) \cup {name}
    BY <1>3, <1>4, <2>1
  <2>4. name \in Range(q)
    BY <1>3, <1>4, <2>2
  <2>5. \A i \in 1 .. Len(profiles) : profiles[i] \in Range(q)
    <3>1. ASSUME NEW i \in 1 .. Len(profiles) PROVE profiles[i] \in Range(q)
      <4>1. i \in 1 .. Len(q) /\ q[i] = profiles[i]
        BY <1>3, <2>2
      <4> QED BY <1>4, <4>1
    <3> QED BY <3>1
  <2> QED BY <1>4, <2>3, <2>4, <2>5
<1>6. IsInjective(q)
  <2>1. ASSUME NEW i \in 1 .. Len(q), NEW j \in 1 .. Len(q), q[i] = q[j] PROVE i = j
    <3>1. \A k \in 1 .. Len(profiles) : q[k] = profiles[k] /\ q[k] # name
      BY <1>3, <1>4
    <3>2. CASE i \in 1 .. Len(profiles) /\ j \in 1 .. Len(profiles)
      BY <1>1, <2>1, <3>1, <3>2
    <3>3. CASE i = Len(profiles) + 1
      BY <1>1, <1>3, <2>1, <3>1, <3>3
    <3>4. CASE j = Len(profiles) + 1
      BY <1>1, <1>3, <2>1, <3>1, <3>4
    <3> QED BY <1>1, <1>3, <3>2, <3>3, <3>4
  <2> QED BY <1>3, <2>1 DEF IsInjective
<1>7. q[1] = Default /\ q # <<>>
  BY <1>1, <1>3, EmptySeq
<1> QED BY <1>3, <1>5, <1>6, <1>7 DEF Known, S, q

(* The first position of a value that a list has once.                            *)
LEMMA RemovedAt ==
  ASSUME NEW S, NEW t \in Seq(S), NEW j \in 1 .. Len(t),
         \A a, b \in 1 .. Len(t) : t[a] = t[b] => a = b
  PROVE  RemoveFirst(t, t[j]) = SubSeq(t, 1, j - 1) \o SubSeq(t, j + 1, Len(t))
<1> DEFINE I == {i \in 1 .. Len(t) : t[i] = t[j]}
<1>1. I = {j}
  OBVIOUS
<1>2. Min({j}) = j
  <2>1. j \in {j} /\ \A y \in {j} : j <= y
    OBVIOUS
  <2> QED BY <2>1 DEF Min
<1>3. SelectInSeq(t, LAMBDA v : v = t[j]) = j
  <2>1. SelectInSeq(t, LAMBDA v : v = t[j]) = IF I # {} THEN Min(I) ELSE 0
    BY DEF SelectInSeq
  <2> HIDE DEF I
  <2> QED BY <1>1, <1>2, <2>1
<1>4. RemoveFirst(t, t[j]) = RemoveAt(t, SelectInSeq(t, LAMBDA v : v = t[j]))
  BY DEF RemoveFirst
<1> QED BY <1>3, <1>4 DEF RemoveAt

(* Without its j-th element, a list has the others, in order.                     *)
LEMMA Without ==
  ASSUME NEW S, NEW t \in Seq(S), NEW j \in 1 .. Len(t), NEW q,
         q = SubSeq(t, 1, j - 1) \o SubSeq(t, j + 1, Len(t))
  PROVE  /\ q \in Seq(S) /\ Len(q) = Len(t) - 1 /\ Len(t) \in Nat
         /\ \A i \in 1 .. Len(q) : q[i] = IF i < j THEN t[i] ELSE t[i + 1]
<1> DEFINE u == SubSeq(t, 1, j - 1)
           v == SubSeq(t, j + 1, Len(t))
           n == Len(t)
<1>1. n \in Nat /\ j \in 1 .. n
  BY LenProperties
<1>2. /\ u \in Seq(S) /\ Len(u) = j - 1
      /\ \A i \in 1 .. (j - 1) : u[i] = t[i]
  BY <1>1
<1>3. /\ v \in Seq(S) /\ Len(v) = n - j
      /\ \A i \in 1 .. (n - j) : v[i] = t[j + i]
  BY <1>1
<1> HIDE DEF u, v
<1>4. /\ q \in Seq(S) /\ Len(q) = Len(u) + Len(v)
      /\ \A k \in 1 .. Len(u) : q[k] = u[k]
      /\ \A k \in 1 .. Len(v) : q[Len(u) + k] = v[k]
  <2>1. q = u \o v
    BY DEF u, v
  <2>2. u \in Seq(S) /\ v \in Seq(S)
    BY <1>2, <1>3
  <2> QED BY ONLY <2>1, <2>2, ConcatTail
<1> HIDE DEF n
<1>5. j \in Nat /\ 1 <= j /\ j <= n /\ Len(q) = n - 1
  <2>1. Len(q) = (j - 1) + (n - j)
    BY <1>2, <1>3, <1>4
  <2> QED BY ONLY <1>1, <2>1
<1>6. ASSUME NEW i \in 1 .. Len(q) PROVE q[i] = IF i < j THEN t[i] ELSE t[i + 1]
  <2>1. CASE i < j
    <3>1. i \in 1 .. (j - 1)
      BY <1>1, <1>5, <2>1
    <3> QED BY <1>2, <1>4, <2>1, <3>1
  <2>2. CASE ~ (i < j)
    <3> DEFINE k == i - (j - 1)
    <3>1. k \in 1 .. (n - j) /\ (j - 1) + k = i /\ j + k = i + 1
      <4>1. i \in 1 .. (n - 1)
        BY <1>5
      <4> QED BY ONLY <1>1, <1>5, <2>2, <4>1
    <3> HIDE DEF k
    <3>2. q[i] = v[k]
      BY <1>2, <1>3, <1>4, <3>1
    <3> QED BY <1>3, <2>2, <3>1, <3>2
  <2> QED BY <2>1, <2>2
<1> QED BY <1>1, <1>4, <1>5, <1>6 DEF n

(* removeProfile's list: all the profiles but the one removed.                     *)
LEMMA Removed ==
  ASSUME NEW profiles, Known(profiles), NEW name \in Range(profiles), name # profiles[1]
  PROVE  \E q : /\ Known(q) /\ Tail(q) = RemoveFirst(Tail(profiles), name)
                 /\ Range(q) = Range(profiles) \ {name}
<1> DEFINE S == Name \cup {Default}
           n == Len(profiles)
<1>1. /\ profiles \in Seq(S) /\ n \in Nat \ {0} /\ profiles[1] = Default
      /\ DOMAIN profiles = 1 .. n
      /\ \A i, j \in 1 .. n : profiles[i] = profiles[j] => i = j
      /\ Range(profiles) = {profiles[i] : i \in 1 .. n}
  <2>1. profiles \in Seq(S) /\ profiles[1] = Default /\ DOMAIN profiles = 1 .. n
    BY LenProperties DEF Known
  <2> QED BY <2>1, KnownTail, SeqRange DEF Known, IsInjective
<1> DEFINE t == Tail(profiles)
<1>2. /\ t \in Seq(Name) /\ Len(t) = n - 1
      /\ \A i \in 1 .. (n - 1) : t[i] = profiles[i + 1]
  BY KnownTail
<1>3. PICK m \in 1 .. n : profiles[m] = name
  BY <1>1
<1> HIDE DEF n, t
<1> DEFINE j == m - 1
<1>4. m \in 2 .. n /\ j \in 1 .. (n - 1) /\ j + 1 = m
  BY <1>1, <1>3
<1>5. t[j] = name
  BY <1>2, <1>3, <1>4
<1> HIDE DEF j
<1>6. \A a, b \in 1 .. Len(t) : t[a] = t[b] => a = b
  <2>1. ASSUME NEW a \in 1 .. (n - 1), NEW b \in 1 .. (n - 1), t[a] = t[b] PROVE a = b
    <3>1. a + 1 \in 1 .. n /\ b + 1 \in 1 .. n
      BY <1>1
    <3>2. a + 1 = b + 1
      BY <1>1, <1>2, <2>1, <3>1
    <3> QED BY <1>1, <3>2
  <2> QED BY <1>2, <2>1
<1> DEFINE r == RemoveFirst(t, name)
<1>7. /\ r \in Seq(Name) /\ Len(r) = n - 2
      /\ \A i \in 1 .. (n - 2) : r[i] = IF i < j THEN t[i] ELSE t[i + 1]
  <2>1. j \in 1 .. Len(t)
    BY <1>2, <1>4
  <2>2. RemoveFirst(t, t[j]) = SubSeq(t, 1, j - 1) \o SubSeq(t, j + 1, Len(t))
    BY <1>2, <1>6, <2>1, RemovedAt
  <2>3. r = SubSeq(t, 1, j - 1) \o SubSeq(t, j + 1, Len(t))
    BY <1>5, <2>2
  <2> HIDE DEF r
  <2>4. /\ r \in Seq(Name) /\ Len(r) = Len(t) - 1
        /\ \A i \in 1 .. Len(r) : r[i] = IF i < j THEN t[i] ELSE t[i + 1]
    BY ONLY <1>2, <2>1, <2>3, Without
  <2>5. Len(r) = n - 2
    BY <1>1, <1>2, <2>4
  <2> QED BY <2>4, <2>5
<1> HIDE DEF r
<1> DEFINE q == <<Default>> \o r
<1>8. /\ q \in Seq(S) /\ q # <<>> /\ Tail(q) = r /\ Len(q) = n - 1
      /\ q[1] = Default /\ \A i \in 1 .. (n - 2) : q[i + 1] = r[i]
      /\ DOMAIN q = 1 .. (n - 1)
  <2>1. <<Default>> \in Seq(S) /\ Len(<<Default>>) = 1 /\ <<Default>>[1] = Default
    OBVIOUS
  <2>2. r \in Seq(S)
    <3>1. Len(r) \in Nat /\ r \in [1 .. Len(r) -> Name] /\ Name \subseteq S
      BY <1>7, LenProperties
    <3>2. r \in [1 .. Len(r) -> S]
      BY <3>1
    <3> HIDE DEF S
    <3> QED BY <3>1, <3>2, SeqDef
  <2> HIDE DEF S
  <2>3. Tail(q) = r /\ q # <<>>
    BY <2>1, <2>2
  <2>4. q \in Seq(S) /\ Len(q) = n - 1 /\ q[1] = Default
    BY <1>1, <1>7, <2>1, <2>2, ConcatProperties
  <2>5. \A i \in 1 .. (n - 2) : q[i + 1] = r[i]
    <3>1. \A k \in 1 .. Len(r) : q[1 + k] = r[k]
      BY ONLY <2>1, <2>2, ConcatTail
    <3> HIDE DEF q
    <3> QED BY <1>1, <1>7, <3>1
  <2> QED BY <2>3, <2>4, <2>5, LenProperties
<1> HIDE DEF q
(* Positions in the new list, by position in the old one.                         *)
<1> DEFINE from(i) == IF i < m THEN i ELSE i + 1
<1>9. \A i \in 1 .. (n - 1) : from(i) \in (1 .. n) \ {m} /\ q[i] = profiles[from(i)]
  <2>1. ASSUME NEW i \in 1 .. (n - 1)
        PROVE  from(i) \in (1 .. n) \ {m} /\ q[i] = profiles[from(i)]
    <3>1. from(i) \in (1 .. n) \ {m}
      BY <1>1, <1>4
    <3>2. CASE i = 1
      BY <1>1, <1>4, <1>8, <3>2
    <3>3. CASE i # 1
      <4> DEFINE k == i - 1
      <4>1. k \in 1 .. (n - 2) /\ k + 1 = i /\ k \in 1 .. (n - 1) /\ i \in 1 .. (n - 1)
        BY <1>1, <3>3
      <4>2. q[i] = IF k < j THEN t[k] ELSE t[i]
        BY <1>7, <1>8, <4>1
      <4>3. k < j <=> i < m
        BY <1>1, <1>4, <4>1
      <4>4. t[k] = profiles[i] /\ t[i] = profiles[i + 1]
        BY <1>2, <4>1
      <4> QED BY <3>1, <4>2, <4>3, <4>4
    <3> QED BY <3>1, <3>2, <3>3
  <2> QED BY <2>1
<1>10. IsInjective(q)
  <2>1. ASSUME NEW a \in 1 .. (n - 1), NEW b \in 1 .. (n - 1), q[a] = q[b] PROVE a = b
    <3>1. from(a) = from(b)
      BY <1>1, <1>9, <2>1
    <3> QED BY <1>1, <1>4, <3>1
  <2> QED BY <1>8, <2>1 DEF IsInjective
<1>11. Range(q) = Range(profiles) \ {name}
  <2>1. Range(q) = {q[i] : i \in 1 .. (n - 1)}
    BY <1>8 DEF Range
  <2>2. ASSUME NEW i \in 1 .. (n - 1) PROVE q[i] \in Range(profiles) \ {name}
    BY <1>1, <1>3, <1>9
  <2>3. ASSUME NEW i \in (1 .. n) \ {m} PROVE profiles[i] \in Range(q)
    <3> DEFINE k == IF i < m THEN i ELSE i - 1
    <3>1. k \in 1 .. (n - 1) /\ from(k) = i
      BY <1>1, <1>4
    <3> HIDE DEF k, from
    <3> QED BY <1>9, <2>1, <3>1
  <2>4. Range(profiles) \ {name} = {profiles[i] : i \in (1 .. n) \ {m}}
    BY <1>1, <1>3
  <2> QED BY <2>1, <2>2, <2>3, <2>4
<1>12. Known(q)
  BY <1>8, <1>10 DEF Known, S
<1> QED BY <1>8, <1>11, <1>12 DEF r, t

-----------------------------------------------------------------------------
(* The inductive invariant: what ListStored and ScreenAgreesWithBoot say, with the *)
(* list and the screen in terms of the two stored preferences.                     *)
KeysOwned(keys, profiles) ==
  \A n \in Name \cup {Default} :
    Customised(n, keys) \cap Deleted # {} =>
      \E m \in Range(profiles) : prefPrefix(m) = prefPrefix(n)

ProfilesIInv ==
  /\ Known(mProfiles)
  /\ mPrefProfile = join(Tail(mProfiles))
  /\ mPrefLast \in Range(mProfiles) \cup {<<>>}
  /\ mProfile = getDefault(mProfiles, mPrefLast)
  /\ mPrefKeys \subseteq {key(n, k) : n \in Name \cup {Default}, k \in Setting}
  /\ KeysOwned(mPrefKeys, mProfiles)

LEMMA ProfilesIInvSuffices == ProfilesIInv => ListStored /\ ScreenAgreesWithBoot
<1> SUFFICES ASSUME ProfilesIInv PROVE ListStored /\ ScreenAgreesWithBoot
  OBVIOUS
<1>1. /\ Known(mProfiles) /\ mPrefProfile = join(Tail(mProfiles))
      /\ mPrefLast \in Range(mProfiles) \cup {<<>>}
      /\ mProfile = getDefault(mProfiles, mPrefLast)
      /\ mPrefKeys \subseteq {key(n, k) : n \in Name \cup {Default}, k \in Setting}
      /\ KeysOwned(mPrefKeys, mProfiles)
  BY DEF ProfilesIInv
<1>2. /\ reload(mPrefProfile) = mProfiles
      /\ \A n \in Range(split(mPrefProfile)) : n \in Name \cup {<<>>}
  BY <1>1, Reloaded
<1>3. mProfile \in Range(mProfiles) /\ Range(mProfiles) \subseteq Name \cup {Default}
  BY <1>1, DefaultExists
<1>4. mPrefLast \in Name \cup {Default, <<>>}
  BY <1>1, <1>3
<1>5. ProfilesTypeOK
  BY <1>1, <1>2, <1>3, <1>4 DEF ProfilesTypeOK
<1>6. mProfiles[1] = Default /\ IsInjective(mProfiles)
  BY <1>1 DEF Known
<1>7. SettingsOwned
  BY <1>1 DEF SettingsOwned, KeysOwned
<1>8. ListStored
  BY <1>1, <1>2, <1>5, <1>6, <1>7 DEF ListStored
<1>9. ScreenAgreesWithBoot
  BY <1>1, <1>2, <1>3 DEF ScreenAgreesWithBoot
<1> QED BY <1>8, <1>9

LEMMA ProfilesInitInv == ProfilesInit => ProfilesIInv
<1> SUFFICES ASSUME ProfilesInit PROVE ProfilesIInv
  OBVIOUS
<1> DEFINE l == <<Default>>
<1>1. Known(l) /\ Tail(l) = <<>>
  <2>1. l \in Seq(Name \cup {Default}) /\ l # <<>> /\ l[1] = Default
    OBVIOUS
  <2>2. IsInjective(l)
    BY DEF IsInjective
  <2> QED BY <2>1, <2>2 DEF Known
<1>2. join(<<>>) = <<>>
  <2>1. <<>> \in Seq(Line)
    OBVIOUS
  <2>2. PICK J : Joins(J, <<>>)
    BY <2>1, JoinFunction
  <2> QED BY <2>2 DEF Joins
<1>3. reload(<<>>) = l
  BY <1>1, <1>2, Reloaded
<1> HIDE DEF l
<1>4. mProfiles = l /\ mPrefProfile = join(Tail(l)) /\ mPrefLast = <<>> /\ mPrefKeys = {}
      /\ mProfile = getDefault(mProfiles, mPrefLast)
  BY <1>1, <1>2, <1>3 DEF ProfilesInit
<1>5. KeysOwned(mPrefKeys, mProfiles)
  BY <1>4 DEF KeysOwned, Customised
<1> QED BY <1>1, <1>4, <1>5 DEF ProfilesIInv

(* A setter on the profile of the screen.                                          *)
LEMMA SetterOwned ==
  ASSUME NEW profiles, NEW keys, KeysOwned(keys, profiles), NEW name \in Range(profiles),
         name \in Name \cup {Default}, NEW k \in Setting,
         NEW new \in SUBSET (keys \cup {key(name, k)})
  PROVE  KeysOwned(new, profiles)
<1> SUFFICES ASSUME NEW n \in Name \cup {Default}, NEW j \in Setting, j \in Deleted,
                    key(n, j) \in new
             PROVE  \E m \in Range(profiles) : prefPrefix(m) = prefPrefix(n)
  BY DEF KeysOwned, Customised
<1>1. CASE key(n, j) \in keys
  BY <1>1 DEF KeysOwned, Customised
<1>2. CASE key(n, j) = key(name, k)
  <2> DEFINE p == prefPrefix(n)
             q == prefPrefix(name)
             S == Char \cup {j, k}
  <2>1. p \in Seq(Char) /\ q \in Seq(Char)
    BY NamesAreLines, PrefixType
  <2>2. p \in Seq(S) /\ q \in Seq(S)
    <3>1. \A s \in Seq(Char) : s \in Seq(S)
      <4>1. ASSUME NEW s \in Seq(Char) PROVE s \in Seq(S)
        <5>1. Len(s) \in Nat /\ s \in [1 .. Len(s) -> Char]
          BY LenProperties
        <5>2. s \in [1 .. Len(s) -> S]
          BY <5>1
        <5> HIDE DEF S
        <5> QED BY <5>1, <5>2, SeqDef
      <4> QED BY <4>1
    <3> HIDE DEF p, q, S
    <3> QED BY <2>1, <3>1
  <2>3. p \o <<j>> = q \o <<k>> /\ j \in S /\ k \in S
    BY <1>2 DEF key
  <2> HIDE DEF p, q, S
  <2>4. p = q
    <3>1. \A s \in Seq(S), c \in S : s \o <<c>> = Append(s, c)
      OBVIOUS
    <3>2. Append(p, j) = Append(q, k)
      BY <2>2, <2>3, <3>1
    <3>3. \A s \in Seq(S), c \in S : SubSeq(Append(s, c), 1, Len(Append(s, c)) - 1) = s
      OBVIOUS
    <3> QED BY <2>2, <2>3, <3>2, <3>3
  <2> QED BY <2>4 DEF p, q
<1> QED BY <1>1, <1>2

(* delete() leaves no setting that it removes to the profile nor to one with its   *)
(* prefix, so the profiles that stay own what is left.                              *)
LEMMA DeleteOwned ==
  ASSUME NEW profiles, NEW keys, KeysOwned(keys, profiles), NEW name, NEW rest,
         Range(profiles) \ {name} \subseteq Range(rest)
  PROVE  KeysOwned(delete(name, keys), rest)
<1> SUFFICES ASSUME NEW n \in Name \cup {Default}, NEW j \in Setting, j \in Deleted,
                    key(n, j) \in delete(name, keys)
             PROVE  \E m \in Range(rest) : prefPrefix(m) = prefPrefix(n)
  BY DEF KeysOwned, Customised
<1>1. key(n, j) \in keys /\ key(n, j) # key(name, j)
  BY DEF delete
<1>2. PICK m \in Range(profiles) : prefPrefix(m) = prefPrefix(n)
  BY <1>1 DEF KeysOwned, Customised
<1>3. m # name
  BY <1>1, <1>2 DEF key
<1> QED BY <1>2, <1>3

(* What a step does to the list, and which profiles it adds.                        *)
StepKept ==
  /\ ProfilesIInv'
  /\ \A n \in Range(mProfiles') \ Range(mProfiles) :
       n \in Name \cup {Default} /\ mPrefKeys' = mPrefKeys

LEMMA ProfilesStep == ProfilesIInv /\ [ProfilesNext]_profilesVars => StepKept
<1> SUFFICES ASSUME ProfilesIInv, [ProfilesNext]_profilesVars PROVE StepKept
  OBVIOUS
<1>1. /\ Known(mProfiles) /\ mPrefProfile = join(Tail(mProfiles))
      /\ mPrefLast \in Range(mProfiles) \cup {<<>>}
      /\ mProfile = getDefault(mProfiles, mPrefLast)
      /\ mPrefKeys \subseteq {key(n, k) : n \in Name \cup {Default}, k \in Setting}
      /\ KeysOwned(mPrefKeys, mProfiles)
  BY DEF ProfilesIInv
<1>2. reload(mPrefProfile) = mProfiles
  BY <1>1, Reloaded
<1>3. mProfile \in Range(mProfiles) /\ Range(mProfiles) \subseteq Name \cup {Default}
      /\ <<>> \notin Range(mProfiles)
  BY <1>1, DefaultExists
<1>4. ASSUME UNCHANGED profilesVars PROVE StepKept
  BY <1>1, <1>4 DEF StepKept, ProfilesIInv, profilesVars
<1>5. ASSUME ProcessRestarts PROVE StepKept
  <2>1. mProfiles' = mProfiles /\ mProfile' = getDefault(mProfiles', mPrefLast')
        /\ UNCHANGED <<mPrefProfile, mPrefLast, mPrefKeys>>
    BY <1>2, <1>5 DEF ProcessRestarts, Restart
  <2> QED BY <1>1, <2>1 DEF StepKept, ProfilesIInv
<1>6. ASSUME onCreate PROVE StepKept
  BY <1>1, <1>6 DEF onCreate, StepKept, ProfilesIInv
<1>7. ASSUME NEW n \in Name \cup {Default}, switchProfile(n) PROVE StepKept
  <2>1. /\ n \in Range(mProfiles) /\ mProfile' = n /\ mPrefLast' = n
        /\ UNCHANGED <<mPrefProfile, mPrefKeys, mProfiles>>
    BY <1>7 DEF switchProfile, getProfile
  <2>2. mProfile' = getDefault(mProfiles, n)
    BY <1>1, <1>3, <2>1, DefaultExists
  <2>3. ProfilesIInv'
    <3>1. mProfile' = getDefault(mProfiles', mPrefLast')
      BY <2>1, <2>2
    <3>2. mPrefLast' \in Range(mProfiles') \cup {<<>>}
      BY <2>1
    <3>3. Known(mProfiles') /\ KeysOwned(mPrefKeys', mProfiles')
      BY <1>1, <2>1
    <3>4. mPrefProfile' = join(Tail(mProfiles'))
      BY <1>1, <2>1
    <3>5. mPrefKeys' \subseteq {key(m, k) : m \in Name \cup {Default}, k \in Setting}
      BY <1>1, <2>1
    <3> QED BY <3>1, <3>2, <3>3, <3>4, <3>5 DEF ProfilesIInv
  <2> QED BY <2>1, <2>3 DEF StepKept
<1>8. ASSUME NEW k \in Setting, setSetting(k) PROVE StepKept
  <2>1. /\ mPrefKeys' \in SUBSET (mPrefKeys \cup {key(mProfile, k)})
        /\ UNCHANGED <<mPrefProfile, mPrefLast, mProfiles, mProfile>>
    BY <1>8 DEF setSetting
  <2>2. KeysOwned(mPrefKeys', mProfiles)
    BY <1>1, <1>3, <2>1, SetterOwned
  <2>3. mPrefKeys' \subseteq {key(n, j) : n \in Name \cup {Default}, j \in Setting}
    BY <1>1, <1>3, <2>1
  <2>4. ProfilesIInv'
    BY <1>1, <2>1, <2>2, <2>3 DEF ProfilesIInv
  <2> QED BY <2>1, <2>4 DEF StepKept
<1>9. ASSUME NEW n \in Name, addProfile(n) PROVE StepKept
  <2> DEFINE q == Append(mProfiles, n)
  <2>1. n \notin Range(mProfiles) /\ mPrefProfile' = join(Tail(q)) /\ mPrefLast' = n
        /\ mProfiles' = reload(join(Tail(q)))
        /\ mProfile' = getDefault(mProfiles', mPrefLast') /\ mPrefKeys' = mPrefKeys
    BY <1>9 DEF addProfile
  <2>2. Known(q) /\ Range(q) = Range(mProfiles) \cup {n}
    BY <1>1, <2>1, Added
  <2> HIDE DEF q
  <2>3. mProfiles' = q
    BY <2>1, <2>2, Reloaded
  <2>4. KeysOwned(mPrefKeys, q)
    BY <1>1, <2>2 DEF KeysOwned
  <2>5. ProfilesIInv'
    BY <1>1, <2>1, <2>2, <2>3, <2>4 DEF ProfilesIInv
  <2> QED BY <2>1, <2>2, <2>3, <2>5 DEF StepKept
<1>10. ASSUME removeProfile PROVE StepKept
  <2>1. /\ mProfile # mProfiles[1]
        /\ mPrefKeys' = delete(mProfile, mPrefKeys)
        /\ mPrefProfile' = join(RemoveFirst(Tail(mProfiles), mProfile))
        /\ mPrefLast' = <<>> /\ mProfiles' = reload(mPrefProfile')
        /\ mProfile' = getDefault(mProfiles', mPrefLast')
    BY <1>10 DEF removeProfile
  <2>2. PICK q : /\ Known(q) /\ Tail(q) = RemoveFirst(Tail(mProfiles), mProfile)
                 /\ Range(q) = Range(mProfiles) \ {mProfile}
    BY <1>1, <1>3, <2>1, Removed
  <2>3. mPrefProfile' = join(Tail(q)) /\ mProfiles' = q
    BY <2>1, <2>2, Reloaded
  <2>4. KeysOwned(mPrefKeys', q)
    BY <1>1, <2>1, <2>2, DeleteOwned
  <2>5. mPrefKeys' \subseteq mPrefKeys
    BY <2>1 DEF delete
  <2>6. ProfilesIInv'
    BY <1>1, <2>1, <2>2, <2>3, <2>4, <2>5 DEF ProfilesIInv
  <2> QED BY <2>2, <2>3, <2>6 DEF StepKept
<1>11. ASSUME removeProfileInterrupted PROVE StepKept
  <2>1. /\ mPrefKeys' = delete(mProfile, mPrefKeys)
        /\ mProfiles' = mProfiles /\ mProfile' = getDefault(mProfiles', mPrefLast')
        /\ UNCHANGED <<mPrefProfile, mPrefLast>>
    BY <1>2, <1>11 DEF removeProfileInterrupted, Restart
  <2>2. KeysOwned(mPrefKeys', mProfiles)
    BY <1>1, <2>1, DeleteOwned
  <2>3. mPrefKeys' \subseteq mPrefKeys
    BY <2>1 DEF delete
  <2>4. ProfilesIInv'
    BY <1>1, <2>1, <2>2, <2>3 DEF ProfilesIInv
  <2> QED BY <2>1, <2>4 DEF StepKept
<1> QED BY <1>4, <1>5, <1>6, <1>7, <1>8, <1>9, <1>10, <1>11 DEF ProfilesNext

THEOREM ProfilesInvariance == ProfilesSpec => []ProfilesIInv
<1>1. ProfilesIInv /\ [ProfilesNext]_profilesVars => ProfilesIInv'
  BY ProfilesStep DEF StepKept
<1> QED BY <1>1, ProfilesInitInv, PTL DEF ProfilesSpec

(* The list in memory is the one that is stored, with the default profile first     *)
(* and no name twice, and every stored setting that delete() removes is of a        *)
(* profile in the list.                                                             *)
THEOREM ListAlwaysStored == ProfilesSpec => []ListStored
<1>1. ProfilesIInv => ListStored
  BY ProfilesIInvSuffices
<1> QED BY <1>1, ProfilesInvariance, PTL

(* The profile on the screen exists and is the one that a restart would choose.     *)
THEOREM ScreenAlwaysAgrees == ProfilesSpec => []ScreenAgreesWithBoot
<1>1. ProfilesIInv => ScreenAgreesWithBoot
  BY ProfilesIInvSuffices
<1> QED BY <1>1, ProfilesInvariance, PTL

(* A profile that is added starts with the defaults, unless one in the list has     *)
(* its prefix.                                                                      *)
THEOREM FreshProfiles == ProfilesSpec => FreshProfile
<1> DEFINE StartsFresh == \A n \in Range(mProfiles') \ Range(mProfiles) :
                      \/ Customised(n, mPrefKeys') \cap Deleted = {}
                      \/ \E m \in Range(mProfiles) : prefPrefix(m) = prefPrefix(n)
<1>1. ProfilesIInv /\ [ProfilesNext]_profilesVars => [StartsFresh]_profilesVars
  <2> SUFFICES ASSUME ProfilesIInv, [ProfilesNext]_profilesVars PROVE StartsFresh
    OBVIOUS
  <2>1. StepKept
    BY ProfilesStep
  <2> QED BY <2>1 DEF StepKept, ProfilesIInv, KeysOwned
<1> HIDE DEF StartsFresh
<1>2. ProfilesSpec => [][StartsFresh]_profilesVars
  BY <1>1, ProfilesInvariance, PTL DEF ProfilesSpec
<1> QED BY <1>2 DEF FreshProfile, StartsFresh
=============================================================================
