--------------------------- MODULE CacheLockProofs ---------------------------
(***************************************************************************)
(* Proofs about CacheLock, for any number of threads, buckets and tries:    *)
(* the writer is alone with the cache, the counters count, and no wake-up   *)
(* is lost while pdnsd serves.                                              *)
(***************************************************************************)
EXTENDS CacheLock, FiniteSetTheorems, TLAPS

RWait == {"r_wait", "r_woken"}
WWait == {"rw_wait", "rw_woken", "timed_wait", "timed_woken", "late"}

(* Those of p that are at one of the places P, and how many.                 *)
Of(p, P) == {t \in User : p[t] \in P}
N(p, P) == Cardinality(Of(p, P))

(* Only the thread of the control socket empties the cache.                   *)
CtlOnly ==
  \A t \in User :
    pc[t] \in {"timed_wait", "timed_woken", "late", "empty", "yield"} => t \in Ctl

(* A writer is alone, the main thread included.                               *)
Alone ==
  /\ \A t, u \in Of(pc, {"write", "empty"}) : t = u
  /\ \A t \in Of(pc, {"write", "empty"}) :
       lk.w /\ Of(pc, {"read"}) = {} /\ main \notin {"purge", "destroy", "save"}
  /\ main \in {"purge", "destroy"} => lk.w /\ Of(pc, {"read"}) = {}

(* The counters.  lk.r counts a failed softunlock_cache_r for ever.            *)
ReadCount == N(pc, {"read"}) + (IF main = "save" THEN 1 ELSE 0)

Counted ==
  /\ lk.r_pend = N(pc, RWait) /\ lk.rw_pend = N(pc, WWait)
  /\ lk.r >= ReadCount
  /\ main \notin {"soft_destroy", "exit"} => lk.r = ReadCount

Suspended == lk.r_susp => Of(pc, {"rw_wait", "rw_woken", "write", "empty"}) # {}

(* In service, with the lock not held for writing: a reader asleep has a writer *)
(* that still wants the lock; with the lock free, when readers would suspend    *)
(* themselves a writer is awake, and when anybody is asleep somebody is awake.  *)
ReadersLed ==
  main = "serve" /\ ~lk.w /\ Of(pc, {"r_wait"}) # {} => Of(pc, {"rw_wait", "rw_woken"}) # {}

WriterAwake ==
  main = "serve" /\ ~lk.w /\ lk.r = 0
    /\ (lk.rw_pend > SUSP_THRESH(lk.r_pend) \/ lk.r_susp) =>
      Of(pc, {"rw_woken", "timed_woken"}) # {}

SomeoneAwake ==
  main = "serve" /\ ~lk.w /\ lk.r = 0
    /\ Of(pc, {"r_wait", "rw_wait", "timed_wait"}) # {} =>
      Of(pc, {"r_woken", "rw_woken", "timed_woken"}) # {}

IInv ==
  /\ TypeOK /\ CtlOnly /\ Alone /\ Counted
  /\ Suspended /\ ReadersLed /\ WriterAwake /\ SomeoneAwake

-----------------------------------------------------------------------------
(* Counting threads.                                                       *)

LEMMA UserFinite == IsFiniteSet(User) /\ "main" \notin User
BY CacheLockAssumption, FS_Union DEF User

LEMMA OfFinite ==
  ASSUME NEW p, NEW P
  PROVE  IsFiniteSet(Of(p, P)) /\ N(p, P) \in Nat /\ (N(p, P) = 0 <=> Of(p, P) = {})
<1>1. Of(p, P) \in SUBSET User
  BY DEF Of
<1>2. IsFiniteSet(Of(p, P))
  BY <1>1, UserFinite, FS_Subset
<1> QED
  BY <1>2, FS_CardinalityType, FS_EmptySet DEF N

(* A thread goes from one place to another.                                   *)
LEMMA Moved ==
  ASSUME NEW p \in [User -> Place], NEW t \in User, NEW b \in Place, NEW P, NEW q,
         q = [p EXCEPT ![t] = b]
  PROVE  /\ q \in [User -> Place] /\ q[t] = b /\ \A u \in User : u # t => q[u] = p[u]
         /\ b \in P => Of(q, P) = Of(p, P) \cup {t}
         /\ b \notin P => Of(q, P) = Of(p, P) \ {t}
         /\ p[t] \in P /\ b \notin P => N(q, P) = N(p, P) - 1
         /\ p[t] \notin P /\ b \in P => N(q, P) = N(p, P) + 1
         /\ p[t] \in P /\ b \in P => N(q, P) = N(p, P)
         /\ p[t] \notin P /\ b \notin P => N(q, P) = N(p, P)
<1>1. q \in [User -> Place] /\ q[t] = b /\ \A u \in User : u # t => q[u] = p[u]
  OBVIOUS
<1>2. b \in P => Of(q, P) = Of(p, P) \cup {t}
  BY <1>1 DEF Of
<1>3. b \notin P => Of(q, P) = Of(p, P) \ {t}
  BY <1>1 DEF Of
<1>4. t \in Of(p, P) <=> p[t] \in P
  BY DEF Of
<1>5. IsFiniteSet(Of(p, P))
  BY OfFinite
<1>6. /\ Cardinality(Of(p, P) \cup {t}) = IF p[t] \in P THEN N(p, P) ELSE N(p, P) + 1
      /\ Cardinality(Of(p, P) \ {t}) = IF p[t] \in P THEN N(p, P) - 1 ELSE N(p, P)
  BY <1>4, <1>5, FS_AddElement, FS_RemoveElement DEF N
<1>7. /\ b \in P => N(q, P) = IF p[t] \in P THEN N(p, P) ELSE N(p, P) + 1
      /\ b \notin P => N(q, P) = IF p[t] \in P THEN N(p, P) - 1 ELSE N(p, P)
  BY <1>2, <1>3, <1>6 DEF N
<1> QED
  BY <1>1, <1>2, <1>3, <1>7

LEMMA MovedCount ==
  ASSUME pc \in [User -> Place], pc' \in [User -> Place], NEW t \in User,
         \A u \in User : u # t => pc'[u] = pc[u], NEW P
  PROVE  /\ pc[t] \in P /\ pc'[t] \notin P => N(pc', P) = N(pc, P) - 1
         /\ pc[t] \notin P /\ pc'[t] \in P => N(pc', P) = N(pc, P) + 1
         /\ (pc[t] \in P <=> pc'[t] \in P) => N(pc', P) = N(pc, P)
<1>1. pc' = [pc EXCEPT ![t] = pc'[t]] /\ pc'[t] \in Place
  OBVIOUS
<1> QED
  BY <1>1, Moved

(* Threads that are awakened stay among those that wait.                      *)
Closed(P) ==
  /\ "r_wait" \in P <=> "r_woken" \in P
  /\ "rw_wait" \in P <=> "rw_woken" \in P
  /\ "timed_wait" \in P <=> "timed_woken" \in P

LEMMA Awakened ==
  ASSUME NEW p \in [User -> Place], NEW q, q \in Signal(p) \/ q \in Broadcast(p)
  PROVE  /\ q \in [User -> Place]
         /\ \A u \in User : \/ q[u] = p[u]
                            \/ p[u] = "r_wait" /\ q[u] = "r_woken"
                            \/ p[u] = "rw_wait" /\ q[u] = "rw_woken"
                            \/ p[u] = "timed_wait" /\ q[u] = "timed_woken"
<1>1. CASE q = p
  BY <1>1
<1>2. CASE \E t \in User : p[t] \in {"rw_wait", "timed_wait"} /\ q = [p EXCEPT ![t] = Woken[p[t]]]
  <2>1. PICK t \in User : p[t] \in {"rw_wait", "timed_wait"} /\ q = [p EXCEPT ![t] = Woken[p[t]]]
    BY <1>2
  <2>2. CASE p[t] = "rw_wait"
    <3>1. q = [p EXCEPT ![t] = "rw_woken"]
      BY <2>1, <2>2 DEF Woken
    <3> QED
      BY <2>2, <3>1 DEF Place
  <2>3. CASE p[t] = "timed_wait"
    <3>1. q = [p EXCEPT ![t] = "timed_woken"]
      BY <2>1, <2>3 DEF Woken
    <3> QED
      BY <2>3, <3>1 DEF Place
  <2> QED
    BY <2>1, <2>2, <2>3
<1>3. CASE q = [u \in User |-> IF p[u] = "r_wait" THEN "r_woken" ELSE p[u]]
  BY <1>3 DEF Place
<1>4. q \in Broadcast(p) => q = [u \in User |-> IF p[u] = "r_wait" THEN "r_woken" ELSE p[u]]
  BY DEF Broadcast
<1>5. q \in Signal(p) =>
        \/ q = p
        \/ \E t \in User : p[t] \in {"rw_wait", "timed_wait"} /\ q = [p EXCEPT ![t] = Woken[p[t]]]
  BY DEF Signal
<1> QED
  BY <1>1, <1>2, <1>3, <1>4, <1>5

LEMMA AwakenedOf ==
  ASSUME NEW p \in [User -> Place], NEW q, q \in Signal(p) \/ q \in Broadcast(p),
         NEW P, Closed(P)
  PROVE  Of(q, P) = Of(p, P) /\ N(q, P) = N(p, P)
<1>1. \A u \in User : q[u] \in P <=> p[u] \in P
  BY Awakened DEF Closed
<1>2. Of(q, P) = Of(p, P)
  BY <1>1 DEF Of
<1> QED
  BY <1>2 DEF N

(* A signal wakes a writer, if one is asleep.                                 *)
LEMMA Signalled ==
  ASSUME NEW p \in [User -> Place], NEW q \in Signal(p),
         Of(p, {"rw_wait", "timed_wait"}) # {}
  PROVE  Of(q, {"rw_woken", "timed_woken"}) # {}
<1>1. {t \in User : p[t] \in {"rw_wait", "timed_wait"}} # {}
  BY DEF Of
<1>2. PICK t \in User : p[t] \in {"rw_wait", "timed_wait"} /\ q = [p EXCEPT ![t] = Woken[p[t]]]
  BY <1>1 DEF Signal
<1>3. q[t] \in {"rw_woken", "timed_woken"}
  BY <1>2 DEF Woken
<1> QED
  BY <1>3 DEF Of

(* More than one writer waits: one of them is not the control thread.          *)
LEMMA ManyWriters ==
  ASSUME NEW p \in [User -> Place], N(p, WWait) > 1,
         \A t \in User : p[t] \in {"timed_wait", "timed_woken", "late"} => t \in Ctl
  PROVE  Of(p, {"rw_wait", "rw_woken"}) # {}
<1> SUFFICES ASSUME Of(p, {"rw_wait", "rw_woken"}) = {} PROVE FALSE
  OBVIOUS
<1>1. Of(p, WWait) \in SUBSET Ctl
  BY DEF Of, WWait
<1>2. N(p, WWait) <= Cardinality(Ctl) /\ Cardinality(Ctl) \in Nat /\ N(p, WWait) \in Nat
  BY <1>1, FS_Subset, FS_CardinalityType, CacheLockAssumption, OfFinite DEF N
<1> QED
  BY <1>2, CacheLockAssumption

LEMMA Threshold ==
  ASSUME NEW n \in Nat, NEW k \in Nat, k >= n
  PROVE  /\ SUSP_THRESH(n) \in Nat /\ SUSP_THRESH(n) >= 2
         /\ SUSP_THRESH(k) \in Nat /\ SUSP_THRESH(k) >= SUSP_THRESH(n)
BY DEF SUSP_THRESH

-----------------------------------------------------------------------------
(* The loops.                                                              *)

LEMMA Types ==
  ASSUME IInv
  PROVE  /\ pc \in [User -> Place] /\ main \in MainPlace
         /\ lk \in Lock /\ lk.w \in BOOLEAN /\ lk.r_susp \in BOOLEAN
         /\ lk.r \in Nat /\ lk.r_pend \in Nat /\ lk.rw_pend \in Nat
BY DEF IInv, TypeOK, Lock

(* Who is about to suspend readers is led by a writer that wants the lock, and  *)
(* if the lock is free, that is awake.                                          *)
LEMMA SuspensionLed ==
  ASSUME IInv, lk.rw_pend > SUSP_THRESH(lk.r_pend) \/ lk.r_susp
  PROVE  /\ Of(pc, {"rw_wait", "rw_woken", "write", "empty"}) # {}
         /\ ~lk.w => Of(pc, {"rw_wait", "rw_woken"}) # {}
         /\ Of(pc, {"write", "empty"}) = {} => Of(pc, {"rw_wait", "rw_woken"}) # {}
<1>1. CASE lk.rw_pend > SUSP_THRESH(lk.r_pend)
  <2>1. N(pc, WWait) = lk.rw_pend /\ lk.r_pend \in Nat /\ lk.rw_pend \in Nat
    BY Types DEF IInv, Counted
  <2>2. SUSP_THRESH(lk.r_pend) >= 2 /\ SUSP_THRESH(lk.r_pend) \in Nat
    BY <2>1, Threshold
  <2>3. N(pc, WWait) > 1
    BY <1>1, <2>1, <2>2
  <2>4. Of(pc, {"rw_wait", "rw_woken"}) # {}
    BY <2>3, ManyWriters, Types DEF IInv, CtlOnly
  <2> QED
    BY <2>4 DEF Of
<1>2. CASE lk.r_susp
  <2>1. PICK x \in User : pc[x] \in {"rw_wait", "rw_woken", "write", "empty"}
    BY <1>2 DEF IInv, Suspended, Of
  <2>2. pc[x] \in {"write", "empty"} => lk.w /\ x \in Of(pc, {"write", "empty"})
    BY DEF IInv, Alone, Of
  <2> QED
    BY <2>1, <2>2 DEF Of
<1> QED
  BY <1>1, <1>2

LEMMA ReadLoopStep ==
  ASSUME IInv, NEW t \in User, NEW s \in Lock, pc[t] \in {"idle", "r_woken"},
         s.w = lk.w, s.r = lk.r, s.rw_pend = lk.rw_pend, s.r_susp = lk.r_susp,
         s.r_pend = IF pc[t] = "idle" THEN lk.r_pend + 1 ELSE lk.r_pend,
         ReadLoop(t, s), UNCHANGED <<main, left, tries>>
  PROVE  IInv'
<1> DEFINE susp == s.rw_pend > SUSP_THRESH(s.r_pend) \/ s.r_susp
<1>1. /\ s.w \in BOOLEAN /\ s.r \in Nat /\ s.rw_pend \in Nat /\ s.r_pend \in Nat
      /\ s.r_pend >= lk.r_pend
  BY Types DEF Lock
<1>2. susp => lk.rw_pend > SUSP_THRESH(lk.r_pend) \/ lk.r_susp
  BY <1>1, Types, Threshold
<1>3. susp \in BOOLEAN
  BY <1>1 DEF Lock
<1> HIDE DEF susp
<1>4. ASSUME susp \/ s.w PROVE IInv'
  <2>1. lk' = [s EXCEPT !.r_susp = susp] /\ pc' = [pc EXCEPT ![t] = "r_wait"]
    BY <1>4 DEF ReadLoop, susp
  <2>2. /\ lk' \in Lock /\ lk'.w = lk.w /\ lk'.r = lk.r /\ lk'.rw_pend = lk.rw_pend
        /\ lk'.r_pend = s.r_pend /\ lk'.r_susp = susp
    BY <2>1, <1>3 DEF Lock
  <2>3. "r_wait" \in Place
    BY DEF Place
  <2>4. /\ pc' \in [User -> Place] /\ pc'[t] = "r_wait"
        /\ \A u \in User : u # t => pc'[u] = pc[u]
    BY <2>1, <2>3, Types
  <2>5. ASSUME NEW P, {"r_wait", "idle", "r_woken"} \cap P = {}
        PROVE  Of(pc', P) = Of(pc, P) /\ N(pc', P) = N(pc, P)
    <3>1. Of(pc', P) = Of(pc, P)
      BY <2>4, <2>5 DEF Of
    <3> QED
      BY <3>1 DEF N
  <2>6. /\ Of(pc', {"write", "empty"}) = Of(pc, {"write", "empty"})
        /\ Of(pc', {"read"}) = Of(pc, {"read"}) /\ N(pc', {"read"}) = N(pc, {"read"})
        /\ N(pc', WWait) = N(pc, WWait)
        /\ Of(pc', {"rw_wait", "rw_woken"}) = Of(pc, {"rw_wait", "rw_woken"})
        /\ Of(pc', {"rw_woken", "timed_woken"}) = Of(pc, {"rw_woken", "timed_woken"})
        /\ Of(pc', {"rw_wait", "rw_woken", "write", "empty"})
             = Of(pc, {"rw_wait", "rw_woken", "write", "empty"})
    BY <2>5 DEF WWait
  <2>7. N(pc', RWait) = s.r_pend
    <3>1. /\ pc[t] \notin RWait => N(pc', RWait) = N(pc, RWait) + 1
          /\ pc[t] \in RWait => N(pc', RWait) = N(pc, RWait)
      <4>1. "r_wait" \in RWait
        BY DEF RWait
      <4> QED
        BY <4>1, <2>4, Types, MovedCount
    <3>2. N(pc, RWait) = lk.r_pend
      BY DEF IInv, Counted
    <3> QED
      BY <3>1, <3>2 DEF RWait
  <2>8. TypeOK' /\ CtlOnly'
    BY <2>2, <2>4 DEF IInv, TypeOK, CtlOnly
  <2>9. Alone'
    BY <2>2, <2>6 DEF IInv, Alone
  <2>10. Counted'
    BY <2>2, <2>6, <2>7 DEF IInv, Counted, ReadCount
  <2>11. Suspended'
    BY <2>2, <2>6, <1>2, SuspensionLed DEF Suspended
  <2>12. ReadersLed'
    BY <2>2, <2>6, <1>2, <1>4, SuspensionLed DEF ReadersLed
  <2>13. main' = "serve" /\ ~lk'.w /\ lk'.r = 0 => Of(pc', {"rw_woken", "timed_woken"}) # {}
    BY <2>2, <2>6, <1>2, <1>4 DEF IInv, WriterAwake
  <2>14. WriterAwake' /\ SomeoneAwake'
    <3>1. Of(pc', {"rw_woken", "timed_woken"}) # {} =>
            Of(pc', {"r_woken", "rw_woken", "timed_woken"}) # {}
      BY DEF Of
    <3> QED
      BY <2>13, <3>1 DEF WriterAwake, SomeoneAwake
  <2> QED
    BY <2>8, <2>9, <2>10, <2>11, <2>12, <2>14 DEF IInv
<1>5. ASSUME ~(susp \/ s.w) PROVE IInv'
  <2>1. /\ lk' = [s EXCEPT !.r = s.r + 1, !.r_pend = s.r_pend - 1]
        /\ pc' = [pc EXCEPT ![t] = "read"]
    BY <1>5 DEF ReadLoop, susp
  <2>2. "read" \in Place
    BY DEF Place
  <2>3. /\ pc' \in [User -> Place] /\ pc'[t] = "read"
        /\ \A u \in User : u # t => pc'[u] = pc[u]
    BY <2>1, <2>2, Types
  <2>4. /\ N(pc, RWait) = lk.r_pend /\ N(pc, WWait) = lk.rw_pend
        /\ lk.r >= ReadCount /\ (main \notin {"soft_destroy", "exit"} => lk.r = ReadCount)
        /\ N(pc, RWait) \in Nat /\ N(pc, {"read"}) \in Nat
    BY OfFinite DEF IInv, Counted
  <2>5. /\ N(pc', RWait) = s.r_pend - 1 /\ N(pc', RWait) \in Nat
        /\ N(pc', {"read"}) = N(pc, {"read"}) + 1 /\ N(pc', WWait) = N(pc, WWait)
    <3>1. /\ pc[t] \in RWait => N(pc', RWait) = N(pc, RWait) - 1
          /\ pc[t] \notin RWait => N(pc', RWait) = N(pc, RWait)
          /\ pc[t] \notin {"read"} => N(pc', {"read"}) = N(pc, {"read"}) + 1
          /\ pc[t] \notin WWait => N(pc', WWait) = N(pc, WWait)
      <4>1. "read" \notin RWait /\ "read" \notin WWait
        BY DEF RWait, WWait
      <4> QED
        BY <4>1, <2>3, Types, MovedCount
    <3>2. N(pc', RWait) \in Nat
      BY OfFinite
    <3> QED
      BY <3>1, <3>2, <2>4, Types DEF RWait, WWait
  <2>6. /\ lk' \in Lock /\ lk'.w = FALSE /\ lk'.r = lk.r + 1 /\ lk'.rw_pend = lk.rw_pend
        /\ lk'.r_pend = s.r_pend - 1 /\ lk'.r_susp = FALSE
    <3>1. s.r + 1 \in Nat /\ s.r_pend - 1 \in Nat /\ ~s.w /\ ~s.r_susp
      BY <1>1, <1>5, <2>5 DEF susp
    <3> QED
      BY <3>1, <2>1 DEF Lock
  <2>7. TypeOK' /\ CtlOnly'
    BY <2>3, <2>6 DEF IInv, TypeOK, CtlOnly
  <2>8. Of(pc', {"write", "empty"}) = {} /\ main \notin {"purge", "destroy"}
    BY <2>3, <1>5 DEF IInv, Alone, Of
  <2>9. Alone'
    BY <2>8 DEF Alone
  <2>10. Counted'
    BY <2>4, <2>5, <2>6, Types DEF Counted, ReadCount
  <2>11. Suspended' /\ WriterAwake' /\ SomeoneAwake'
    BY <2>6, Types DEF Suspended, WriterAwake, SomeoneAwake
  <2>12. ReadersLed'
    <3>1. /\ Of(pc', {"r_wait"}) \subseteq Of(pc, {"r_wait"})
          /\ Of(pc, {"rw_wait", "rw_woken"}) \subseteq Of(pc', {"rw_wait", "rw_woken"})
      BY <2>3 DEF Of
    <3> QED
      BY <3>1, <1>5 DEF IInv, ReadersLed
  <2> QED
    BY <2>7, <2>9, <2>10, <2>11, <2>12 DEF IInv
<1> QED
  BY <1>4, <1>5

LEMMA WriteLoopStep ==
  ASSUME IInv, NEW t \in User, NEW s \in Lock,
         pc[t] \in {"idle", "yield", "rw_woken", "timed_woken"},
         s.w = lk.w, s.r = lk.r, s.r_pend = lk.r_pend, s.r_susp = lk.r_susp,
         s.rw_pend = IF pc[t] \in {"idle", "yield"} THEN lk.rw_pend + 1 ELSE lk.rw_pend,
         NEW asleep \in {"rw_wait", "timed_wait"}, NEW held \in {"write", "empty"},
         asleep = "timed_wait" \/ held = "empty" => t \in Ctl,
         pc[t] = "rw_woken" => asleep = "rw_wait",
         WriteLoop(t, s, asleep, held), UNCHANGED <<main, tries>>, left' \in 0 .. Buckets
  PROVE  IInv'
<1>1. /\ N(pc, RWait) = lk.r_pend /\ N(pc, WWait) = lk.rw_pend
      /\ lk.r >= ReadCount /\ (main \notin {"soft_destroy", "exit"} => lk.r = ReadCount)
      /\ N(pc, WWait) \in Nat /\ N(pc, {"read"}) \in Nat
  BY OfFinite DEF IInv, Counted
<1>2. s.w \in BOOLEAN /\ s.r \in Nat /\ s.rw_pend \in Nat /\ s.r_pend \in Nat
  BY DEF Lock
<1>3. ASSUME s.w \/ s.r > 0 PROVE IInv'
  <2>1. lk' = s /\ pc' = [pc EXCEPT ![t] = asleep]
    BY <1>3 DEF WriteLoop
  <2>2. asleep \in Place
    BY DEF Place
  <2>3. /\ pc' \in [User -> Place] /\ pc'[t] = asleep
        /\ \A u \in User : u # t => pc'[u] = pc[u]
    BY <2>1, <2>2, Types
  <2>4. /\ N(pc', WWait) = s.rw_pend
        /\ N(pc', RWait) = N(pc, RWait) /\ N(pc', {"read"}) = N(pc, {"read"})
    <3>1. /\ pc[t] \in WWait => N(pc', WWait) = N(pc, WWait)
          /\ pc[t] \notin WWait => N(pc', WWait) = N(pc, WWait) + 1
          /\ pc[t] \notin RWait => N(pc', RWait) = N(pc, RWait)
          /\ pc[t] \notin {"read"} => N(pc', {"read"}) = N(pc, {"read"})
      <4>1. asleep \notin RWait /\ asleep \in WWait /\ asleep \notin {"read"}
        BY DEF RWait, WWait
      <4> QED
        BY <4>1, <2>3, Types, MovedCount
    <3> QED
      BY <3>1, <1>1 DEF RWait, WWait
  <2>5. TypeOK' /\ CtlOnly'
    BY <2>1, <2>3 DEF IInv, TypeOK, CtlOnly
  <2>6. /\ Of(pc', {"write", "empty"}) = Of(pc, {"write", "empty"})
        /\ Of(pc', {"read"}) = Of(pc, {"read"})
    BY <2>3 DEF Of
  <2>7. Alone'
    BY <2>1, <2>6 DEF IInv, Alone
  <2>8. Counted'
    BY <2>1, <2>4, <1>1 DEF Counted, ReadCount
  <2>9. Suspended'
    <3>1. Of(pc, {"rw_wait", "rw_woken", "write", "empty"})
            \subseteq Of(pc', {"rw_wait", "rw_woken", "write", "empty"})
      BY <2>3 DEF Of
    <3> QED
      BY <3>1, <2>1 DEF IInv, Suspended
  <2>10. ReadersLed'
    <3>1. /\ Of(pc', {"r_wait"}) = Of(pc, {"r_wait"})
          /\ Of(pc, {"rw_wait", "rw_woken"}) \subseteq Of(pc', {"rw_wait", "rw_woken"})
      BY <2>3 DEF Of
    <3> QED
      BY <3>1, <2>1 DEF IInv, ReadersLed
  <2>11. WriterAwake' /\ SomeoneAwake'
    BY <2>1, <1>2, <1>3 DEF WriterAwake, SomeoneAwake
  <2> QED
    BY <2>5, <2>7, <2>8, <2>9, <2>10, <2>11 DEF IInv
<1>4. ASSUME ~(s.w \/ s.r > 0) PROVE IInv'
  <2>1. /\ lk' = [s EXCEPT !.w = TRUE, !.rw_pend = s.rw_pend - 1]
        /\ pc' = [pc EXCEPT ![t] = held]
    BY <1>4 DEF WriteLoop
  <2>2. held \in Place
    BY DEF Place
  <2>3. /\ pc' \in [User -> Place] /\ pc'[t] = held
        /\ \A u \in User : u # t => pc'[u] = pc[u]
    BY <2>1, <2>2, Types
  <2>4. /\ N(pc', WWait) = s.rw_pend - 1 /\ s.rw_pend - 1 \in Nat
        /\ N(pc', RWait) = N(pc, RWait) /\ N(pc', {"read"}) = N(pc, {"read"})
    <3>1. /\ pc[t] \in WWait => N(pc', WWait) = N(pc, WWait) - 1
          /\ pc[t] \notin WWait => N(pc', WWait) = N(pc, WWait)
          /\ pc[t] \notin RWait => N(pc', RWait) = N(pc, RWait)
          /\ pc[t] \notin {"read"} => N(pc', {"read"}) = N(pc, {"read"})
      <4>1. held \notin RWait /\ held \notin WWait /\ held \notin {"read"}
        BY DEF RWait, WWait
      <4> QED
        BY <4>1, <2>3, Types, MovedCount
    <3>2. N(pc', WWait) \in Nat
      BY OfFinite
    <3> QED
      BY <3>1, <3>2, <1>1, <1>2 DEF RWait, WWait
  <2>5. /\ lk' \in Lock /\ lk'.w = TRUE /\ lk'.r = lk.r /\ lk'.r_pend = lk.r_pend
        /\ lk'.rw_pend = s.rw_pend - 1 /\ lk'.r_susp = lk.r_susp
    BY <2>1, <2>4 DEF Lock
  <2>6. TypeOK' /\ CtlOnly'
    BY <2>3, <2>5 DEF IInv, TypeOK, CtlOnly
  <2>7. lk.w = FALSE /\ lk.r = 0
    BY <1>2, <1>4
  <2>8. N(pc, {"read"}) = 0 /\ main # "save"
    BY <2>7, <1>1 DEF ReadCount
  <2>9. Of(pc', {"write", "empty"}) = {t} /\ main \notin {"purge", "destroy"}
    BY <2>3, <2>7 DEF IInv, Alone, Of
  <2>10. Of(pc', {"read"}) = {}
    BY <2>4, <2>8, OfFinite
  <2>11. Alone'
    BY <2>5, <2>8, <2>9, <2>10 DEF Alone
  <2>12. Counted'
    BY <2>4, <2>5, <1>1 DEF Counted, ReadCount
  <2>13. Suspended'
    BY <2>3 DEF Suspended, Of
  <2>14. ReadersLed' /\ WriterAwake' /\ SomeoneAwake'
    BY <2>5 DEF ReadersLed, WriterAwake, SomeoneAwake
  <2> QED
    BY <2>6, <2>11, <2>12, <2>13, <2>14 DEF IInv
<1> QED
  BY <1>3, <1>4

-----------------------------------------------------------------------------
(* Waking up and giving up.                                                *)

LEMMA SpuriousStep ==
  ASSUME IInv, NEW t \in User, Spurious(t), UNCHANGED <<main, tries>> PROVE IInv'
<1>1. lk' = lk /\ left' = left
  BY DEF Spurious
<1>2. /\ pc[t] \in {"r_wait", "rw_wait", "timed_wait"} /\ pc' = [pc EXCEPT ![t] = pc'[t]]
      /\ pc[t] = "r_wait" => pc'[t] = "r_woken"
      /\ pc[t] = "rw_wait" => pc'[t] = "rw_woken"
      /\ pc[t] = "timed_wait" => pc'[t] = "timed_woken"
  BY Types DEF Spurious, Woken
<1>3. /\ pc' \in [User -> Place] /\ \A u \in User : u # t => pc'[u] = pc[u]
  BY <1>2, Types DEF Place
<1>4. ASSUME NEW P, Closed(P) PROVE Of(pc', P) = Of(pc, P) /\ N(pc', P) = N(pc, P)
  <2>1. \A u \in User : pc'[u] \in P <=> pc[u] \in P
    BY <1>2, <1>3, <1>4 DEF Closed
  <2>2. Of(pc', P) = Of(pc, P)
    BY <2>1 DEF Of
  <2> QED
    BY <2>2 DEF N
<1>5. /\ N(pc', RWait) = N(pc, RWait) /\ N(pc', WWait) = N(pc, WWait)
      /\ N(pc', {"read"}) = N(pc, {"read"}) /\ Of(pc', {"read"}) = Of(pc, {"read"})
      /\ Of(pc', {"write", "empty"}) = Of(pc, {"write", "empty"})
      /\ Of(pc', {"rw_wait", "rw_woken"}) = Of(pc, {"rw_wait", "rw_woken"})
      /\ Of(pc', {"rw_wait", "rw_woken", "write", "empty"})
           = Of(pc, {"rw_wait", "rw_woken", "write", "empty"})
  BY <1>4 DEF Closed, RWait, WWait
<1>6. TypeOK' /\ CtlOnly'
  BY <1>1, <1>2, <1>3 DEF IInv, TypeOK, CtlOnly
<1>7. Alone' /\ Counted' /\ Suspended'
  BY <1>1, <1>5 DEF IInv, Alone, Counted, ReadCount, Suspended
<1>8. ReadersLed'
  <2>1. Of(pc', {"r_wait"}) \subseteq Of(pc, {"r_wait"})
    BY <1>2, <1>3 DEF Of
  <2> QED
    BY <2>1, <1>1, <1>5 DEF IInv, ReadersLed
<1>9. WriterAwake'
  <2>1. Of(pc, {"rw_woken", "timed_woken"}) \subseteq Of(pc', {"rw_woken", "timed_woken"})
    BY <1>2, <1>3 DEF Of
  <2> QED
    BY <2>1, <1>1 DEF IInv, WriterAwake
<1>10. SomeoneAwake'
  BY <1>2 DEF SomeoneAwake, Of
<1> QED
  BY <1>6, <1>7, <1>8, <1>9, <1>10 DEF IInv

LEMMA TimedOutStep ==
  ASSUME IInv, NEW t \in User, TimedOut(t), UNCHANGED <<main, tries>> PROVE IInv'
<1>1. /\ pc[t] \in {"timed_wait", "late"} /\ pc'[t] \in {"late", "idle"}
      /\ pc[t] = "timed_wait" => pc'[t] = "late" /\ lk' = lk
      /\ pc[t] = "late" => pc'[t] = "idle" /\ lk' = [lk EXCEPT !.rw_pend = lk.rw_pend - 1]
      /\ pc' = [pc EXCEPT ![t] = pc'[t]]
  BY Types DEF TimedOut
<1>2. pc' \in [User -> Place] /\ \A u \in User : u # t => pc'[u] = pc[u]
  BY <1>1, Types DEF Place
<1>3. left' \in 0 .. Buckets
  BY CacheLockAssumption DEF IInv, TypeOK, TimedOut
<1>4. /\ N(pc', RWait) = N(pc, RWait) /\ N(pc', {"read"}) = N(pc, {"read"})
      /\ pc[t] = "timed_wait" => N(pc', WWait) = N(pc, WWait)
      /\ pc[t] = "late" => N(pc', WWait) = N(pc, WWait) - 1
  <2>1. /\ "timed_wait" \in WWait /\ "late" \in WWait /\ "idle" \notin WWait
        /\ pc[t] \notin RWait /\ pc'[t] \notin RWait
        /\ pc[t] \notin {"read"} /\ pc'[t] \notin {"read"}
    BY <1>1 DEF RWait, WWait
  <2> QED
    BY <2>1, <1>1, <1>2, Types, MovedCount
<1>5. N(pc, WWait) = lk.rw_pend /\ N(pc', WWait) \in Nat
  BY OfFinite DEF IInv, Counted
<1>6. /\ lk' \in Lock /\ lk'.w = lk.w /\ lk'.r = lk.r /\ lk'.r_pend = lk.r_pend
      /\ lk'.r_susp = lk.r_susp /\ lk'.rw_pend = N(pc', WWait) /\ lk'.rw_pend <= lk.rw_pend
  BY <1>1, <1>4, <1>5, Types DEF Lock
<1>7. ASSUME NEW P, {"timed_wait", "late", "idle"} \cap P = {} PROVE Of(pc', P) = Of(pc, P)
  BY <1>1, <1>2, <1>7 DEF Of
<1>8. /\ Of(pc', {"read"}) = Of(pc, {"read"})
      /\ Of(pc', {"write", "empty"}) = Of(pc, {"write", "empty"})
      /\ Of(pc', {"r_wait"}) = Of(pc, {"r_wait"})
      /\ Of(pc', {"rw_wait", "rw_woken"}) = Of(pc, {"rw_wait", "rw_woken"})
      /\ Of(pc', {"rw_woken", "timed_woken"}) = Of(pc, {"rw_woken", "timed_woken"})
      /\ Of(pc', {"r_woken", "rw_woken", "timed_woken"})
           = Of(pc, {"r_woken", "rw_woken", "timed_woken"})
      /\ Of(pc', {"rw_wait", "rw_woken", "write", "empty"})
           = Of(pc, {"rw_wait", "rw_woken", "write", "empty"})
  BY <1>7
<1>9. TypeOK' /\ CtlOnly'
  BY <1>1, <1>2, <1>3, <1>6 DEF IInv, TypeOK, CtlOnly
<1>10. Alone' /\ Counted' /\ Suspended' /\ ReadersLed'
  BY <1>4, <1>6, <1>8 DEF IInv, Alone, Counted, ReadCount, Suspended, ReadersLed
<1>11. WriterAwake'
  <2>1. lk'.rw_pend > SUSP_THRESH(lk'.r_pend) => lk.rw_pend > SUSP_THRESH(lk.r_pend)
    BY <1>5, <1>6, Types, Threshold
  <2> QED
    BY <2>1, <1>6, <1>8 DEF IInv, WriterAwake
<1>12. SomeoneAwake'
  <2>1. Of(pc', {"r_wait", "rw_wait", "timed_wait"}) \subseteq Of(pc, {"r_wait", "rw_wait", "timed_wait"})
    BY <1>1, <1>2 DEF Of
  <2> QED
    BY <2>1, <1>6, <1>8 DEF IInv, SomeoneAwake
<1> QED
  BY <1>9, <1>10, <1>11, <1>12 DEF IInv

(* A thread has left its place for p, and then others were awakened, or none.   *)
LEMMA LeftAndWoken ==
  ASSUME IInv, NEW t \in User, pc[t] \in {"read", "write", "empty"},
         NEW b \in {"idle", "yield"}, NEW p, p = [pc EXCEPT ![t] = b],
         pc' = p \/ pc' \in Signal(p) \/ pc' \in Broadcast(p)
  PROVE  /\ p \in [User -> Place] /\ pc' \in [User -> Place] /\ pc'[t] = b
         /\ \A u \in User : u # t => \/ pc'[u] = pc[u]
                                     \/ pc[u] = "r_wait" /\ pc'[u] = "r_woken"
                                     \/ pc[u] = "rw_wait" /\ pc'[u] = "rw_woken"
                                     \/ pc[u] = "timed_wait" /\ pc'[u] = "timed_woken"
         /\ N(pc', RWait) = N(pc, RWait) /\ N(pc', WWait) = N(pc, WWait)
         /\ pc[t] = "read" => N(pc', {"read"}) = N(pc, {"read"}) - 1
         /\ pc[t] # "read" => N(pc', {"read"}) = N(pc, {"read"})
         /\ Of(pc', {"read"}) = Of(pc, {"read"}) \ {t}
         /\ Of(pc', {"write", "empty"}) = Of(pc, {"write", "empty"}) \ {t}
         /\ Of(pc', {"rw_wait", "rw_woken"}) = Of(pc, {"rw_wait", "rw_woken"})
         /\ Of(pc, {"rw_wait"}) = Of(p, {"rw_wait"}) /\ Of(pc, {"r_wait"}) = Of(p, {"r_wait"})
         /\ Of(pc, {"rw_woken"}) \subseteq Of(pc', {"rw_woken"})
         /\ Of(pc, {"r_woken"}) \subseteq Of(pc', {"r_woken"})
<1>1. b \in Place
  BY DEF Place
<1>2. p \in [User -> Place] /\ p[t] = b /\ \A u \in User : u # t => p[u] = pc[u]
  BY <1>1, Types
<1>3. /\ pc' \in [User -> Place]
      /\ \A u \in User : \/ pc'[u] = p[u]
                         \/ p[u] = "r_wait" /\ pc'[u] = "r_woken"
                         \/ p[u] = "rw_wait" /\ pc'[u] = "rw_woken"
                         \/ p[u] = "timed_wait" /\ pc'[u] = "timed_woken"
  BY <1>2, Awakened
<1>4. /\ pc'[t] = b
      /\ \A u \in User : u # t => \/ pc'[u] = pc[u]
                                  \/ pc[u] = "r_wait" /\ pc'[u] = "r_woken"
                                  \/ pc[u] = "rw_wait" /\ pc'[u] = "rw_woken"
                                  \/ pc[u] = "timed_wait" /\ pc'[u] = "timed_woken"
  BY <1>2, <1>3
<1>5. ASSUME NEW P, Closed(P) PROVE Of(pc', P) = Of(p, P) /\ N(pc', P) = N(p, P)
  BY <1>2, <1>5, AwakenedOf
<1>6. /\ Closed(RWait) /\ Closed(WWait) /\ Closed({"read"}) /\ Closed({"write", "empty"})
      /\ Closed({"rw_wait", "rw_woken"})
  BY DEF Closed, RWait, WWait
<1>7. ASSUME NEW P, b \notin P
      PROVE  /\ Of(p, P) = Of(pc, P) \ {t}
             /\ pc[t] \in P => N(p, P) = N(pc, P) - 1
             /\ pc[t] \notin P => N(p, P) = N(pc, P)
  <2>1. Of(p, P) = Of(pc, P) \ {t}
    BY <1>2, <1>7 DEF Of
  <2>2. IsFiniteSet(Of(pc, P)) /\ (t \in Of(pc, P) <=> pc[t] \in P)
    BY OfFinite DEF Of
  <2>3. t \in Of(pc, P) => Cardinality(Of(pc, P) \ {t}) = Cardinality(Of(pc, P)) - 1
    BY <2>2, FS_RemoveElement
  <2>4. t \notin Of(pc, P) => Of(pc, P) \ {t} = Of(pc, P)
    OBVIOUS
  <2> QED
    BY <2>1, <2>2, <2>3, <2>4 DEF N
<1>8. /\ b \notin RWait /\ b \notin WWait /\ b \notin {"read"} /\ b \notin {"write", "empty"}
      /\ b \notin {"rw_wait", "rw_woken"} /\ pc[t] \notin RWait /\ pc[t] \notin WWait
  BY DEF RWait, WWait
<1>9. /\ N(pc', RWait) = N(pc, RWait) /\ N(pc', WWait) = N(pc, WWait)
      /\ pc[t] = "read" => N(pc', {"read"}) = N(pc, {"read"}) - 1
      /\ pc[t] # "read" => N(pc', {"read"}) = N(pc, {"read"})
  BY <1>5, <1>6, <1>7, <1>8
<1>10. /\ Of(pc', {"read"}) = Of(pc, {"read"}) \ {t}
       /\ Of(pc', {"write", "empty"}) = Of(pc, {"write", "empty"}) \ {t}
  BY <1>5, <1>6, <1>7, <1>8
<1>11. /\ Of(pc', {"rw_wait", "rw_woken"}) = Of(pc, {"rw_wait", "rw_woken"})
       /\ Of(pc, {"rw_wait"}) = Of(p, {"rw_wait"}) /\ Of(pc, {"r_wait"}) = Of(p, {"r_wait"})
       /\ Of(pc, {"rw_woken"}) \subseteq Of(pc', {"rw_woken"})
       /\ Of(pc, {"r_woken"}) \subseteq Of(pc', {"r_woken"})
  BY <1>2, <1>4 DEF Of
<1> QED
  BY <1>2, <1>3, <1>4, <1>9, <1>10, <1>11

LEMMA UnlockReadStep ==
  ASSUME IInv, NEW t \in User, unlock_cache_r(t), UNCHANGED <<main, tries>> PROVE IInv'
<1> DEFINE p == [pc EXCEPT ![t] = "idle"]
<1>1. /\ pc[t] = "read" /\ left' = left
      /\ lk' = [lk EXCEPT !.r = IF lk.r > 0 THEN lk.r - 1 ELSE lk.r]
      /\ lk'.r = 0 => pc' \in Signal(p)
      /\ lk'.r # 0 => pc' = p
  BY DEF unlock_cache_r
<1> HIDE DEF p
<1>2. p = [pc EXCEPT ![t] = "idle"]
  BY DEF p
<1>3. /\ p \in [User -> Place] /\ pc' \in [User -> Place] /\ pc'[t] = "idle"
      /\ \A u \in User : u # t => \/ pc'[u] = pc[u]
                                  \/ pc[u] = "r_wait" /\ pc'[u] = "r_woken"
                                  \/ pc[u] = "rw_wait" /\ pc'[u] = "rw_woken"
                                  \/ pc[u] = "timed_wait" /\ pc'[u] = "timed_woken"
      /\ N(pc', RWait) = N(pc, RWait) /\ N(pc', WWait) = N(pc, WWait)
      /\ N(pc', {"read"}) = N(pc, {"read"}) - 1
      /\ Of(pc', {"read"}) = Of(pc, {"read"}) \ {t}
      /\ Of(pc', {"write", "empty"}) = Of(pc, {"write", "empty"}) \ {t}
      /\ Of(pc', {"rw_wait", "rw_woken"}) = Of(pc, {"rw_wait", "rw_woken"})
      /\ Of(pc, {"rw_wait"}) = Of(p, {"rw_wait"})
      /\ Of(pc, {"rw_woken"}) \subseteq Of(pc', {"rw_woken"})
  BY <1>1, <1>2, LeftAndWoken
<1>4. t \in Of(pc, {"read"})
  BY <1>1 DEF Of
<1>5. Of(pc, {"write", "empty"}) = {} /\ main \notin {"purge", "destroy"}
  BY <1>4 DEF IInv, Alone
<1>6. /\ N(pc, {"read"}) \in Nat /\ N(pc', {"read"}) \in Nat
      /\ lk.r >= ReadCount /\ (main \notin {"soft_destroy", "exit"} => lk.r = ReadCount)
      /\ lk.r_pend = N(pc, RWait) /\ lk.rw_pend = N(pc, WWait)
  BY OfFinite DEF IInv, Counted
<1>7. lk.r > 0
  BY <1>3, <1>6, Types DEF ReadCount
<1>8. /\ lk' \in Lock /\ lk'.r = lk.r - 1 /\ lk'.w = lk.w /\ lk'.r_susp = lk.r_susp
      /\ lk'.r_pend = lk.r_pend /\ lk'.rw_pend = lk.rw_pend
  <2>1. lk.r - 1 \in Nat
    BY <1>7, Types
  <2> QED
    BY <2>1, <1>1, <1>7 DEF IInv, TypeOK, Lock
<1>9. TypeOK' /\ CtlOnly'
  BY <1>1, <1>3, <1>8 DEF IInv, TypeOK, CtlOnly
<1>10. Alone'
  BY <1>3, <1>5 DEF Alone
<1>11. Counted'
  BY <1>3, <1>6, <1>8, Types DEF Counted, ReadCount
<1>12. Suspended'
  <2>1. lk.r_susp => Of(pc, {"rw_wait", "rw_woken"}) # {}
    BY <1>5, SuspensionLed
  <2>2. Of(pc', {"rw_wait", "rw_woken"}) \subseteq Of(pc', {"rw_wait", "rw_woken", "write", "empty"})
    BY DEF Of
  <2> QED
    BY <2>1, <2>2, <1>3, <1>8 DEF Suspended
<1>13. ReadersLed'
  <2>1. Of(pc', {"r_wait"}) \subseteq Of(pc, {"r_wait"})
    BY <1>3 DEF Of
  <2> QED
    BY <2>1, <1>3, <1>8 DEF IInv, ReadersLed
<1>14. ASSUME lk'.r = 0, Of(pc, {"rw_wait", "rw_woken"}) # {}
       PROVE  Of(pc', {"rw_woken", "timed_woken"}) # {}
  <2>1. CASE Of(pc, {"rw_wait"}) # {}
    <3>1. Of(p, {"rw_wait", "timed_wait"}) # {}
      BY <2>1, <1>3 DEF Of
    <3> QED
      BY <3>1, <1>1, <1>3, <1>14, Signalled
  <2>2. CASE Of(pc, {"rw_wait"}) = {}
    <3>1. Of(pc, {"rw_woken"}) # {}
      BY <2>2, <1>14 DEF Of
    <3> QED
      BY <3>1, <1>3 DEF Of
  <2> QED
    BY <2>1, <2>2
<1>15. WriterAwake'
  <2>1. lk'.rw_pend > SUSP_THRESH(lk'.r_pend) \/ lk'.r_susp => Of(pc, {"rw_wait", "rw_woken"}) # {}
    BY <1>5, <1>8, SuspensionLed
  <2> QED
    BY <2>1, <1>14 DEF WriterAwake
<1>16. SomeoneAwake'
  <2> SUFFICES ASSUME main' = "serve", ~lk'.w, lk'.r = 0,
                      Of(pc', {"r_wait", "rw_wait", "timed_wait"}) # {}
               PROVE  Of(pc', {"r_woken", "rw_woken", "timed_woken"}) # {}
    BY DEF SomeoneAwake
  <2>1. Of(pc', {"rw_woken", "timed_woken"}) \subseteq Of(pc', {"r_woken", "rw_woken", "timed_woken"})
    BY DEF Of
  <2>2. CASE Of(p, {"rw_wait", "timed_wait"}) # {}
    BY <2>1, <2>2, <1>1, <1>3, Signalled
  <2>3. CASE Of(p, {"rw_wait", "timed_wait"}) = {}
    <3>1. PICK u \in User : pc'[u] \in {"r_wait", "rw_wait", "timed_wait"}
      BY DEF Of
    <3>2. u # t /\ pc'[u] = pc[u] /\ p[u] = pc[u]
      BY <3>1, <1>3, <1>2
    <3>3. pc[u] = "r_wait"
      BY <3>1, <3>2, <2>3 DEF Of
    <3>4. Of(pc, {"rw_wait", "rw_woken"}) # {}
      BY <3>3, <1>8 DEF IInv, ReadersLed, Of
    <3> QED
      BY <3>4, <2>1, <1>14
  <2> QED
    BY <2>2, <2>3
<1> QED
  BY <1>9, <1>10, <1>11, <1>12, <1>13, <1>15, <1>16 DEF IInv

LEMMA ReleaseStep ==
  ASSUME IInv, NEW t \in User, NEW b \in {"idle", "yield"}, pc[t] \in {"write", "empty"},
         b = "yield" => t \in Ctl,
         Release(t, b), UNCHANGED <<main, tries>>, left' \in 0 .. Buckets
  PROVE  IInv'
<1> DEFINE p == [pc EXCEPT ![t] = b]
           signal == lk.r_pend = 0 \/ lk.rw_pend > SUSP_THRESH(lk.r_pend)
<1>1. /\ lk' = [lk EXCEPT !.w = FALSE, !.r_susp = FALSE]
      /\ signal => pc' \in Signal(p)
      /\ ~signal => pc' \in Broadcast(p)
  BY DEF Release
<1> HIDE DEF p
<1>2. p = [pc EXCEPT ![t] = b]
  BY DEF p
<1>3. /\ p \in [User -> Place] /\ pc' \in [User -> Place] /\ pc'[t] = b
      /\ \A u \in User : u # t => \/ pc'[u] = pc[u]
                                  \/ pc[u] = "r_wait" /\ pc'[u] = "r_woken"
                                  \/ pc[u] = "rw_wait" /\ pc'[u] = "rw_woken"
                                  \/ pc[u] = "timed_wait" /\ pc'[u] = "timed_woken"
      /\ N(pc', RWait) = N(pc, RWait) /\ N(pc', WWait) = N(pc, WWait)
      /\ N(pc', {"read"}) = N(pc, {"read"})
      /\ Of(pc', {"read"}) = Of(pc, {"read"}) \ {t}
      /\ Of(pc', {"write", "empty"}) = Of(pc, {"write", "empty"}) \ {t}
      /\ Of(pc', {"rw_wait", "rw_woken"}) = Of(pc, {"rw_wait", "rw_woken"})
      /\ Of(pc, {"rw_wait"}) = Of(p, {"rw_wait"}) /\ Of(pc, {"r_wait"}) = Of(p, {"r_wait"})
      /\ Of(pc, {"rw_woken"}) \subseteq Of(pc', {"rw_woken"})
      /\ Of(pc, {"r_woken"}) \subseteq Of(pc', {"r_woken"})
  BY <1>1, <1>2, LeftAndWoken
<1>4. t \in Of(pc, {"write", "empty"})
  BY DEF Of
<1>5. /\ \A u \in Of(pc, {"write", "empty"}) : u = t
      /\ main \notin {"purge", "destroy", "save"}
  BY <1>4 DEF IInv, Alone
<1>6. /\ lk' \in Lock /\ lk'.r = lk.r /\ lk'.w = FALSE /\ lk'.r_susp = FALSE
      /\ lk'.r_pend = lk.r_pend /\ lk'.rw_pend = lk.rw_pend
  BY <1>1 DEF IInv, TypeOK, Lock
<1>7. TypeOK' /\ CtlOnly'
  BY <1>3, <1>6 DEF IInv, TypeOK, CtlOnly
<1>8. Of(pc', {"write", "empty"}) = {}
  BY <1>3, <1>5
<1>9. Alone' /\ Suspended'
  BY <1>5, <1>6, <1>8 DEF Alone, Suspended
<1>10. Counted'
  BY <1>3, <1>6 DEF IInv, Counted, ReadCount
<1>11. ASSUME lk.rw_pend > SUSP_THRESH(lk.r_pend)
       PROVE  /\ Of(pc, {"rw_wait", "rw_woken"}) # {}
              /\ Of(pc', {"rw_woken", "timed_woken"}) # {}
  <2>1. Of(pc, {"rw_wait", "rw_woken"}) # {}
    <3>1. N(pc, WWait) = lk.rw_pend /\ SUSP_THRESH(lk.r_pend) >= 2
          /\ SUSP_THRESH(lk.r_pend) \in Nat /\ lk.rw_pend \in Nat
      BY Types, Threshold DEF IInv, Counted
    <3>2. N(pc, WWait) > 1
      BY <3>1, <1>11
    <3> QED
      BY <3>2, ManyWriters, Types DEF IInv, CtlOnly
  <2>2. CASE Of(pc, {"rw_wait"}) # {}
    <3>1. Of(p, {"rw_wait", "timed_wait"}) # {}
      BY <2>2, <1>3 DEF Of
    <3> QED
      BY <3>1, <2>1, <1>1, <1>3, <1>11, Signalled
  <2>3. CASE Of(pc, {"rw_wait"}) = {}
    <3>1. Of(pc, {"rw_woken"}) # {}
      BY <2>1, <2>3 DEF Of
    <3> QED
      BY <3>1, <2>1, <1>3 DEF Of
  <2> QED
    BY <2>2, <2>3
<1>12. lk.r_pend = 0 => Of(pc, RWait) = {} /\ Of(pc', {"r_wait"}) = {}
  <2>1. lk.r_pend = 0 => Of(pc', RWait) = {} /\ Of(pc, RWait) = {}
    BY <1>3, OfFinite DEF IInv, Counted
  <2> QED
    BY <2>1 DEF Of, RWait
<1>13. ASSUME ~signal PROVE Of(pc', {"r_wait"}) = {} /\ Of(pc', {"r_woken"}) # {}
  <2>1. pc' = [u \in User |-> IF p[u] = "r_wait" THEN "r_woken" ELSE p[u]]
    BY <1>1, <1>13 DEF Broadcast
  <2>2. Of(pc', {"r_wait"}) = {}
    BY <2>1, <1>3 DEF Of
  <2>3. Of(pc', RWait) # {}
    BY <1>3, <1>13, OfFinite, Types DEF IInv, Counted
  <2> QED
    BY <2>2, <2>3 DEF Of, RWait
<1>14. ReadersLed'
  BY <1>3, <1>11, <1>12, <1>13 DEF ReadersLed
<1>15. WriterAwake'
  BY <1>6, <1>11 DEF WriterAwake
<1>16. SomeoneAwake'
  <2> SUFFICES ASSUME Of(pc', {"r_wait", "rw_wait", "timed_wait"}) # {}
               PROVE  Of(pc', {"r_woken", "rw_woken", "timed_woken"}) # {}
    BY DEF SomeoneAwake
  <2>1. /\ Of(pc', {"rw_woken", "timed_woken"}) \subseteq Of(pc', {"r_woken", "rw_woken", "timed_woken"})
        /\ Of(pc', {"r_woken"}) \subseteq Of(pc', {"r_woken", "rw_woken", "timed_woken"})
    BY DEF Of
  <2>2. CASE ~signal
    BY <2>1, <2>2, <1>13
  <2>3. CASE lk.rw_pend > SUSP_THRESH(lk.r_pend)
    BY <2>1, <2>3, <1>11
  <2>4. CASE lk.r_pend = 0
    <3>1. PICK u \in User : pc'[u] \in {"r_wait", "rw_wait", "timed_wait"}
      BY DEF Of
    <3>2. pc'[u] \in {"rw_wait", "timed_wait"} /\ u # t
      BY <3>1, <2>4, <1>3, <1>12 DEF Of
    <3>3. p[u] = pc'[u]
      BY <3>2, <1>2, <1>3
    <3>4. Of(p, {"rw_wait", "timed_wait"}) # {}
      BY <3>2, <3>3 DEF Of
    <3> QED
      BY <3>4, <2>1, <2>4, <1>1, <1>3, Signalled
  <2> QED
    BY <2>2, <2>3, <2>4
<1> QED
  BY <1>7, <1>9, <1>10, <1>14, <1>15, <1>16 DEF IInv

-----------------------------------------------------------------------------
(* Threads, the main thread, and the theorems.                             *)

LEMMA ThreadStepKeeps ==
  ASSUME IInv, NEW t \in User, ThreadStep(t) PROVE IInv'
<1>1. UNCHANGED <<main, tries>> /\ (Request(t) \/ GoOn(t) \/ TimedOut(t) \/ Spurious(t))
  BY DEF ThreadStep
<1>2. left \in 0 .. Buckets /\ Buckets \in Nat \ {0}
  BY CacheLockAssumption DEF IInv, TypeOK
<1>3. CASE lock_cache_r(t)
  <2> DEFINE s == [lk EXCEPT !.r_pend = lk.r_pend + 1]
  <2>1. /\ s \in Lock /\ s.w = lk.w /\ s.r = lk.r /\ s.rw_pend = lk.rw_pend
        /\ s.r_susp = lk.r_susp /\ s.r_pend = lk.r_pend + 1
    BY Types DEF Lock
  <2>2. pc[t] = "idle" /\ ReadLoop(t, s) /\ UNCHANGED left
    BY <1>3 DEF lock_cache_r
  <2> HIDE DEF s
  <2> QED
    BY <2>1, <2>2, <1>1, ReadLoopStep
<1>4. /\ Pending \in Lock /\ Pending.w = lk.w /\ Pending.r = lk.r
      /\ Pending.r_pend = lk.r_pend /\ Pending.r_susp = lk.r_susp
      /\ Pending.rw_pend = lk.rw_pend + 1
  BY Types DEF Lock, Pending
<1>5. CASE lock_cache_rw(t)
  <2>1. pc[t] = "idle" /\ WriteLoop(t, Pending, "rw_wait", "write") /\ left' \in 0 .. Buckets
    BY <1>2, <1>5 DEF lock_cache_rw
  <2> QED
    BY <2>1, <1>1, <1>4, WriteLoopStep
<1>6. CASE timedlock_cache_rw(t)
  <2>1. /\ t \in Ctl /\ pc[t] = "idle" /\ WriteLoop(t, Pending, "timed_wait", "empty")
        /\ left' \in 0 .. Buckets
    BY <1>2, <1>6 DEF timedlock_cache_rw
  <2> QED
    BY <2>1, <1>1, <1>4, WriteLoopStep
<1>7. CASE TestAgain(t)
  <2>1. left' = left
    BY <1>7 DEF TestAgain
  <2>2. CASE pc[t] = "r_woken" /\ ReadLoop(t, lk)
    BY <2>1, <2>2, <1>1, Types, ReadLoopStep
  <2>3. CASE /\ pc[t] = "rw_woken"
             /\ WriteLoop(t, lk, "rw_wait", IF t \in Ctl /\ left > 0 THEN "empty" ELSE "write")
    <3>1. CASE t \in Ctl /\ left > 0
      <4>1. WriteLoop(t, lk, "rw_wait", "empty")
        BY <2>3, <3>1
      <4> QED
        BY <4>1, <2>1, <2>3, <3>1, <1>1, <1>2, Types, WriteLoopStep
    <3>2. CASE ~(t \in Ctl /\ left > 0)
      <4>1. WriteLoop(t, lk, "rw_wait", "write")
        BY <2>3, <3>2
      <4> QED
        BY <4>1, <2>1, <2>3, <1>1, <1>2, Types, WriteLoopStep
    <3> QED
      BY <3>1, <3>2
  <2>4. CASE pc[t] = "timed_woken" /\ WriteLoop(t, lk, "timed_wait", "empty")
    <3>1. t \in Ctl
      BY <2>4 DEF IInv, CtlOnly
    <3> QED
      BY <2>1, <2>4, <3>1, <1>1, <1>2, Types, WriteLoopStep
  <2> QED
    BY <2>2, <2>3, <2>4, <1>7 DEF TestAgain
<1>8. CASE unlock_cache_r(t)
  BY <1>1, <1>8, UnlockReadStep
<1>9. CASE unlock_cache_rw(t)
  <2>1. pc[t] \in {"write", "empty"} /\ Release(t, "idle") /\ left' \in 0 .. Buckets
    BY <1>2, <1>9 DEF unlock_cache_rw
  <2> QED
    BY <2>1, <1>1, ReleaseStep
<1>10. CASE yield_lock_cache_rw(t)
  <2>1. CASE pc[t] = "empty" /\ left > 1 /\ left' = left - 1 /\ Release(t, "yield")
    <3>1. t \in Ctl /\ left' \in 0 .. Buckets
      BY <2>1, <1>2 DEF IInv, CtlOnly
    <3> QED
      BY <2>1, <3>1, <1>1, ReleaseStep
  <2>2. CASE left > 1 /\ left' = left - 1 /\ UNCHANGED <<lk, pc>>
    <3>1. left' \in 0 .. Buckets
      BY <2>2, <1>2
    <3>2. TypeOK' /\ CtlOnly' /\ Alone' /\ Counted'
      BY <2>2, <3>1, <1>1 DEF IInv, TypeOK, CtlOnly, Alone, Counted, ReadCount
    <3>3. Suspended' /\ ReadersLed' /\ WriterAwake' /\ SomeoneAwake'
      BY <2>2, <1>1 DEF IInv, Suspended, ReadersLed, WriterAwake, SomeoneAwake
    <3> QED
      BY <3>2, <3>3 DEF IInv
  <2>3. CASE pc[t] = "yield" /\ UNCHANGED left /\ WriteLoop(t, Pending, "rw_wait", "empty")
    <3>1. t \in Ctl
      BY <2>3 DEF IInv, CtlOnly
    <3> QED
      BY <2>3, <3>1, <1>1, <1>2, <1>4, WriteLoopStep
  <2> QED
    BY <2>1, <2>2, <2>3, <1>10 DEF yield_lock_cache_rw
<1>11. CASE TimedOut(t)
  BY <1>1, <1>11, TimedOutStep
<1>12. CASE Spurious(t)
  BY <1>1, <1>12, SpuriousStep
<1> QED
  BY <1>1, <1>3, <1>5, <1>6, <1>7, <1>8, <1>9, <1>10, <1>11, <1>12 DEF Request, GoOn

(* The main thread: what is left to show of a step that leaves service.          *)
LEMMA MainLeaves ==
  ASSUME IInv, UNCHANGED <<pc, left>>, tries' \in 0 .. MaxTries, main' \in MainPlace,
         main' # "serve", lk' \in Lock, lk'.r_pend = lk.r_pend, lk'.rw_pend = lk.rw_pend,
         lk'.r_susp = lk.r_susp, Alone',
         lk'.r >= ReadCount', main' \notin {"soft_destroy", "exit"} => lk'.r = ReadCount'
  PROVE  IInv'
<1>1. TypeOK' /\ CtlOnly'
  BY DEF IInv, TypeOK, CtlOnly
<1>2. Counted' /\ Suspended'
  BY DEF IInv, Counted, Suspended
<1>3. ReadersLed' /\ WriterAwake' /\ SomeoneAwake'
  BY DEF ReadersLed, WriterAwake, SomeoneAwake
<1> QED
  BY <1>1, <1>2, <1>3 DEF IInv

LEMMA MainStepKeeps ==
  ASSUME IInv, MainStep PROVE IInv'
<1>1. UNCHANGED <<pc, left>>
  BY DEF MainStep
<1>2. /\ lk.r >= ReadCount /\ (main \notin {"soft_destroy", "exit"} => lk.r = ReadCount)
      /\ N(pc, {"read"}) \in Nat /\ lk.r \in Nat /\ lk \in Lock
  BY Types, OfFinite DEF IInv, Counted
<1>3. tries \in 0 .. MaxTries /\ MaxTries \in Nat \ {0}
  BY CacheLockAssumption DEF IInv, TypeOK
<1>4. lk.r = 0 /\ ~lk.w => /\ N(pc, {"read"}) = 0 /\ Of(pc, {"read"}) = {}
                           /\ Of(pc, {"write", "empty"}) = {}
  <2>1. lk.r = 0 => N(pc, {"read"}) = 0
    BY <1>2 DEF ReadCount
  <2>2. N(pc, {"read"}) = 0 => Of(pc, {"read"}) = {}
    BY OfFinite
  <2> QED
    BY <2>1, <2>2 DEF IInv, Alone
<1>5. ASSUME UNCHANGED lk, tries' \in 0 .. MaxTries, main' \in {"soft_purge", "soft_save"},
             main \in {"serve", "soft_purge", "soft_save"}
      PROVE  IInv'
  <2>1. Alone' /\ ReadCount' = ReadCount /\ main' \in MainPlace /\ main' # "serve"
    BY <1>1, <1>5 DEF IInv, Alone, ReadCount, MainPlace
  <2> QED
    BY <2>1, <1>1, <1>2, <1>5, MainLeaves
<1>6. ASSUME UNCHANGED lk, tries' \in 0 .. MaxTries, main' \in {"soft_destroy", "exit"}
      PROVE  IInv'
  <2>1. Alone' /\ main' \in MainPlace /\ main' # "serve"
    BY <1>1, <1>6 DEF IInv, Alone, MainPlace
  <2>2. ReadCount' = N(pc, {"read"}) /\ ReadCount >= N(pc, {"read"}) /\ ReadCount \in Nat
    BY <1>1, <1>2, <1>6 DEF ReadCount
  <2> QED
    BY <2>1, <2>2, <1>1, <1>2, <1>6, MainLeaves
<1>7. ASSUME lk' = [lk EXCEPT !.w = TRUE], ~lk.w, lk.r = 0, tries' = 0,
             main' \in {"purge", "destroy"}
      PROVE  IInv'
  <2>1. /\ lk' \in Lock /\ lk'.w = TRUE /\ lk'.r = 0 /\ lk'.r_pend = lk.r_pend
        /\ lk'.rw_pend = lk.rw_pend /\ lk'.r_susp = lk.r_susp
    BY <1>2, <1>7 DEF Lock
  <2>2. Alone' /\ main' \in MainPlace /\ main' # "serve"
    BY <2>1, <1>1, <1>4, <1>7 DEF Alone, MainPlace
  <2>3. ReadCount' = 0
    BY <1>1, <1>4, <1>7 DEF ReadCount
  <2>4. /\ tries' \in 0 .. MaxTries /\ lk'.r = ReadCount' /\ lk'.r >= ReadCount'
    BY <2>1, <2>3, <1>7, CacheLockAssumption
  <2> QED
    BY <2>1, <2>2, <2>3, <2>4, <1>1, <1>3, <1>7, MainLeaves
<1>8. CASE Soft("soft_purge", ~lk.w /\ lk.r = 0, [lk EXCEPT !.w = TRUE], "purge", "soft_destroy")
  <2>1. CASE ~lk.w /\ lk.r = 0 /\ lk' = [lk EXCEPT !.w = TRUE] /\ main' = "purge" /\ tries' = 0
    BY <2>1, <1>7
  <2>2. CASE main = "soft_purge" /\ tries + 1 < MaxTries /\ tries' = tries + 1 /\ UNCHANGED <<lk, main>>
    BY <2>2, <1>3, <1>5
  <2>3. CASE main' = "soft_destroy" /\ tries' = 0 /\ UNCHANGED lk
    BY <2>3, <1>3, <1>6
  <2> QED
    BY <2>1, <2>2, <2>3, <1>8 DEF Soft
<1>9. CASE SoftUnlock("purge", [lk EXCEPT !.w = FALSE], "soft_save", "soft_destroy")
  <2>1. CASE main = "purge" /\ lk' = [lk EXCEPT !.w = FALSE] /\ main' = "soft_save" /\ UNCHANGED tries
    <3>1. /\ lk' \in Lock /\ lk'.r = lk.r /\ lk'.r_pend = lk.r_pend
          /\ lk'.rw_pend = lk.rw_pend /\ lk'.r_susp = lk.r_susp
      BY <2>1, <1>2 DEF Lock
    <3>2. Of(pc, {"write", "empty"}) = {}
      BY <2>1 DEF IInv, Alone
    <3>3. Alone' /\ main' \in MainPlace /\ main' # "serve"
      BY <2>1, <3>2, <1>1 DEF Alone, MainPlace
    <3>4. ReadCount' = ReadCount
      BY <2>1, <1>1 DEF ReadCount
    <3> QED
      BY <2>1, <3>1, <3>3, <3>4, <1>1, <1>2, <1>3, MainLeaves
  <2>2. CASE main' = "soft_destroy" /\ UNCHANGED <<lk, tries>>
    BY <2>2, <1>3, <1>6
  <2> QED
    BY <2>1, <2>2, <1>9 DEF SoftUnlock
<1>10. CASE Soft("soft_save", ~lk.w, [lk EXCEPT !.r = lk.r + 1], "save", "soft_destroy")
  <2>1. CASE /\ main = "soft_save" /\ ~lk.w /\ lk' = [lk EXCEPT !.r = lk.r + 1]
             /\ main' = "save" /\ tries' = 0
    <3>1. /\ lk' \in Lock /\ lk'.r = lk.r + 1 /\ lk'.r_pend = lk.r_pend
          /\ lk'.rw_pend = lk.rw_pend /\ lk'.r_susp = lk.r_susp
      BY <2>1, <1>2 DEF Lock
    <3>2. Of(pc, {"write", "empty"}) = {}
      BY <2>1 DEF IInv, Alone
    <3>3. Alone' /\ main' \in MainPlace /\ main' # "serve"
      BY <2>1, <3>2, <1>1 DEF Alone, MainPlace
    <3>4. lk'.r = ReadCount'
      BY <2>1, <3>1, <1>1, <1>2 DEF ReadCount
    <3>5. lk'.r >= ReadCount'
      BY <3>1, <3>4, <1>2
    <3> QED
      BY <2>1, <3>1, <3>3, <3>4, <3>5, <1>1, <1>3, MainLeaves
  <2>2. CASE main = "soft_save" /\ tries + 1 < MaxTries /\ tries' = tries + 1 /\ UNCHANGED <<lk, main>>
    BY <2>2, <1>3, <1>5
  <2>3. CASE main' = "soft_destroy" /\ tries' = 0 /\ UNCHANGED lk
    BY <2>3, <1>3, <1>6
  <2> QED
    BY <2>1, <2>2, <2>3, <1>10 DEF Soft
<1>11. CASE SoftUnlock("save", [lk EXCEPT !.r = IF lk.r > 0 THEN lk.r - 1 ELSE lk.r],
                       "soft_destroy", "soft_destroy")
  <2>1. CASE /\ main = "save" /\ lk' = [lk EXCEPT !.r = IF lk.r > 0 THEN lk.r - 1 ELSE lk.r]
             /\ main' = "soft_destroy" /\ UNCHANGED tries
    <3>1. lk.r > 0 /\ lk.r - 1 = N(pc, {"read"})
      BY <2>1, <1>2 DEF ReadCount
    <3>2. /\ lk' \in Lock /\ lk'.r = N(pc, {"read"}) /\ lk'.w = lk.w /\ lk'.r_pend = lk.r_pend
          /\ lk'.rw_pend = lk.rw_pend /\ lk'.r_susp = lk.r_susp
      BY <2>1, <3>1, <1>2 DEF Lock
    <3>3. Alone' /\ main' \in MainPlace /\ main' # "serve"
      BY <2>1, <3>2, <1>1 DEF IInv, Alone, MainPlace
    <3>4. lk'.r >= ReadCount'
      BY <2>1, <3>2, <1>1, <1>2 DEF ReadCount
    <3> QED
      BY <2>1, <3>2, <3>3, <3>4, <1>1, <1>3, MainLeaves
  <2>2. CASE main' = "soft_destroy" /\ UNCHANGED <<lk, tries>>
    BY <2>2, <1>3, <1>6
  <2> QED
    BY <2>1, <2>2, <1>11 DEF SoftUnlock
<1>12. CASE Soft("soft_destroy", ~lk.w /\ lk.r = 0, [lk EXCEPT !.w = TRUE], "destroy", "exit")
  <2>1. CASE ~lk.w /\ lk.r = 0 /\ lk' = [lk EXCEPT !.w = TRUE] /\ main' = "destroy" /\ tries' = 0
    BY <2>1, <1>7
  <2>2. CASE main = "soft_destroy" /\ tries + 1 < MaxTries /\ tries' = tries + 1 /\ UNCHANGED <<lk, main>>
    BY <2>2, <1>3, <1>6
  <2>3. CASE main' = "exit" /\ tries' = 0 /\ UNCHANGED lk
    BY <2>3, <1>3, <1>6
  <2> QED
    BY <2>1, <2>2, <2>3, <1>12 DEF Soft
<1>13. CASE main = "serve" /\ main' = "soft_purge" /\ UNCHANGED <<lk, tries>>
  BY <1>3, <1>5, <1>13
<1>14. CASE main = "destroy" /\ main' = "exit" /\ UNCHANGED <<lk, tries>>
  BY <1>3, <1>6, <1>14
<1> QED
  BY <1>8, <1>9, <1>10, <1>11, <1>12, <1>13, <1>14 DEF MainStep

(* The inductive invariant of the lock: who holds it, who waits, and who is     *)
(* awake to take it, for any number of threads.                                 *)
THEOREM Invariance == Spec => []IInv
<1>1. Init => IInv
  <2> SUFFICES ASSUME Init PROVE IInv
    OBVIOUS
  <2>1. TypeOK /\ CtlOnly
    BY CacheLockAssumption DEF Init, TypeOK, CtlOnly, Lock, Place, MainPlace
  <2>2. ASSUME NEW P, "idle" \notin P PROVE Of(pc, P) = {} /\ N(pc, P) = 0
    <3>1. Of(pc, P) = {}
      BY <2>2 DEF Init, Of
    <3> QED
      BY <3>1, FS_EmptySet DEF N
  <2>3. Of(pc, {"write", "empty"}) = {} /\ N(pc, {"read"}) = 0 /\ N(pc, RWait) = 0 /\ N(pc, WWait) = 0
    BY <2>2 DEF RWait, WWait
  <2>4. Of(pc, {"r_wait"}) = {} /\ Of(pc, {"r_wait", "rw_wait", "timed_wait"}) = {}
    BY <2>2
  <2>5. Alone /\ Counted
    BY <2>3 DEF Init, Alone, Counted, ReadCount
  <2>6. Suspended /\ ReadersLed /\ SomeoneAwake
    BY <2>4 DEF Init, Suspended, ReadersLed, SomeoneAwake
  <2>7. WriterAwake
    <3>1. lk.rw_pend = 0 /\ lk.r_pend = 0 /\ ~lk.r_susp
      BY DEF Init
    <3>2. SUSP_THRESH(0) >= 2 /\ SUSP_THRESH(0) \in Nat
      BY Threshold
    <3> QED
      BY <3>1, <3>2 DEF WriterAwake
  <2> QED
    BY <2>1, <2>5, <2>6, <2>7 DEF IInv
<1>2. IInv /\ [Next]_vars => IInv'
  <2> SUFFICES ASSUME IInv, [Next]_vars PROVE IInv'
    OBVIOUS
  <2>1. CASE MainStep
    BY <2>1, MainStepKeeps
  <2>2. CASE \E t \in User : ThreadStep(t)
    BY <2>2, ThreadStepKeeps
  <2>3. CASE UNCHANGED vars
    <3>1. UNCHANGED <<lk, pc, main, left, tries>>
      BY <2>3 DEF vars
    <3>2. TypeOK' /\ CtlOnly' /\ Alone' /\ Counted'
      BY <3>1 DEF IInv, TypeOK, CtlOnly, Alone, Counted, ReadCount
    <3>3. Suspended' /\ ReadersLed' /\ WriterAwake' /\ SomeoneAwake'
      BY <3>1 DEF IInv, Suspended, ReadersLed, WriterAwake, SomeoneAwake
    <3> QED
      BY <3>2, <3>3 DEF IInv
  <2> QED
    BY <2>1, <2>2, <2>3 DEF Next, Exited
<1> QED
  BY <1>1, <1>2, PTL DEF Spec

LEMMA AtIsOf == ASSUME NEW P PROVE At(P) = Of(pc, P)
BY DEF At, Of

(* The lock's fields tell the truth: a writer is alone with the cache, the main  *)
(* thread's soft locks included, the counters count, and readers are suspended   *)
(* only while a writer is there to lift it.                                      *)
THEOREM LockTruthful == Spec => []LockAgrees
<1>1. IInv => LockAgrees
  <2> SUFFICES ASSUME IInv PROVE LockAgrees
    OBVIOUS
  <2>1. /\ Readers = Of(pc, {"read"}) \cup (IF main = "save" THEN {"main"} ELSE {})
        /\ Writers = Of(pc, {"write", "empty"})
                       \cup (IF main \in {"purge", "destroy"} THEN {"main"} ELSE {})
    BY AtIsOf DEF Readers, Writers
  <2>2. "main" \notin Of(pc, {"read"}) /\ IsFiniteSet(Of(pc, {"read"}))
    BY UserFinite, OfFinite DEF Of
  <2>3. Cardinality(Readers) = ReadCount
    <3>1. CASE main = "save"
      BY <2>1, <2>2, <3>1, FS_AddElement DEF ReadCount, N
    <3>2. CASE main # "save"
      <4>1. Readers = Of(pc, {"read"}) /\ ReadCount = N(pc, {"read"}) + 0 /\ N(pc, {"read"}) \in Nat
        BY <2>1, <3>2, OfFinite DEF ReadCount
      <4> QED
        BY <4>1 DEF N
    <3> QED
      BY <3>1, <3>2
  <2>4. Exclusion
    <3>1. \A x, y \in Writers : x = y
      BY <2>1 DEF IInv, Alone
    <3>2. Cardinality(Writers) <= 1
      <4>1. CASE Writers = {}
        BY <4>1, FS_EmptySet
      <4>2. ASSUME NEW x \in Writers PROVE Cardinality(Writers) <= 1
        <5>1. Writers = {x}
          BY <3>1
        <5>2. Cardinality({x}) = 1
          BY FS_Singleton
        <5> QED
          BY <5>1, <5>2
      <4> QED
        BY <4>1, <4>2
    <3>3. Writers # {} => Readers = {}
      BY <2>1 DEF IInv, Alone
    <3> QED
      BY <3>2, <3>3 DEF Exclusion
  <2>5. CountsExact
    BY <2>3, AtIsOf DEF IInv, Counted, CountsExact, N, RWait, WWait
  <2>6. SuspensionLifted
    BY AtIsOf DEF IInv, Suspended, SuspensionLifted
  <2> QED
    BY <2>4, <2>5, <2>6 DEF IInv, LockAgrees
<1> QED
  BY <1>1, Invariance, PTL

(* While pdnsd serves, nobody sleeps on a free lock unless somebody is awake to   *)
(* take it: no order of requests, releases, time-outs and spurious wake-ups       *)
(* loses a signal.                                                                *)
THEOREM WakeupsKept == Spec => []NoLostWakeup
<1>1. IInv => NoLostWakeup
  <2>1. DOMAIN Woken = {"r_wait", "rw_wait", "timed_wait"}
    BY DEF Woken
  <2> QED
    BY <2>1, AtIsOf, Types DEF IInv, SomeoneAwake, NoLostWakeup
<1> QED
  BY <1>1, Invariance, PTL

=============================================================================
