------------------------------ MODULE CacheLock ------------------------------
(***************************************************************************)
(* The read/write lock of pdnsd's cache (pdnsd/src/cache.c): a mutex, two    *)
(* condition variables, and counters by which readers are suspended when     *)
(* too many writers wait.  A step is what a thread does while it holds       *)
(* lock_mutex, up to pthread_cond_wait or the unlock.                        *)
(*                                                                         *)
(* pc[t] is where thread t is in the lock's functions: asleep on a condition *)
(* variable ("..._wait"), awakened and about to test again ("..._woken"), or *)
(* holding the lock ("read", "write", "empty").  `main' is the main thread,  *)
(* which after a signal saves and destroys the cache with the soft locks     *)
(* and exits.                                                                *)
(***************************************************************************)
EXTENDS Integers, FiniteSets

CONSTANTS Thread,         \* the threads that answer queries
          Ctl,            \* the thread of the control socket, if it is enabled
          Buckets,        \* HASH_NUM_BUCKETS
          MaxTries        \* SOFTLOCK_MAXTRIES

ASSUME CacheLockAssumption ==
  /\ Thread \cap Ctl = {} /\ IsFiniteSet(Thread)
  /\ IsFiniteSet(Ctl) /\ Cardinality(Ctl) <= 1
  /\ "main" \notin Thread \cup Ctl
  /\ Buckets \in Nat \ {0} /\ MaxTries \in Nat \ {0}

VARIABLES lk,       \* the lock's variables
          pc, main,
          left,     \* buckets that empty_cache has still to empty
          tries     \* of the soft lock main is at

vars == <<lk, pc, main, left, tries>>

User == Thread \cup Ctl

Lock == [ w : BOOLEAN, r : Nat, r_pend : Nat, rw_pend : Nat, r_susp : BOOLEAN ]

Place == {"idle", "r_wait", "r_woken", "read", "rw_wait", "rw_woken", "write",
          "timed_wait", "timed_woken", "late", "empty", "yield"}

MainPlace == {"serve", "soft_purge", "purge", "soft_save", "save", "soft_destroy",
              "destroy", "exit"}

TypeOK ==
  /\ lk \in Lock /\ pc \in [User -> Place] /\ main \in MainPlace
  /\ left \in 0 .. Buckets /\ tries \in 0 .. MaxTries

Init ==
  /\ lk = [ w |-> FALSE, r |-> 0, r_pend |-> 0, rw_pend |-> 0, r_susp |-> FALSE ]
  /\ pc = [t \in User |-> "idle"] /\ main = "serve"
  /\ left = 0 /\ tries = 0

At(places) == {t \in User : pc[t] \in places}

-----------------------------------------------------------------------------
(* The condition variables.                                                 *)

Woken == [ r_wait |-> "r_woken", rw_wait |-> "rw_woken", timed_wait |-> "timed_woken" ]

(* pthread_cond_signal(&rw_cond) wakes one, pthread_cond_broadcast(&r_cond)    *)
(* all; p is what pc has become otherwise.                                   *)
Signal(p) ==
  LET asleep == {t \in User : p[t] \in {"rw_wait", "timed_wait"}}
  IN  IF asleep = {} THEN {p} ELSE {[p EXCEPT ![t] = Woken[p[t]]] : t \in asleep}

Broadcast(p) == {[t \in User |-> IF p[t] = "r_wait" THEN "r_woken" ELSE p[t]]}

SUSP_THRESH(r_pend) == r_pend \div 2 + 2

-----------------------------------------------------------------------------
(* The functions.                                                           *)

(* The loop of lock_cache_r.                                                 *)
ReadLoop(t, s) ==
  LET susp == s.rw_pend > SUSP_THRESH(s.r_pend) \/ s.r_susp
  IN  IF susp \/ s.w
      THEN lk' = [s EXCEPT !.r_susp = susp] /\ pc' = [pc EXCEPT ![t] = "r_wait"]
      ELSE /\ lk' = [s EXCEPT !.r = s.r + 1, !.r_pend = s.r_pend - 1]
           /\ pc' = [pc EXCEPT ![t] = "read"]

lock_cache_r(t) ==
  /\ pc[t] = "idle" /\ ReadLoop(t, [lk EXCEPT !.r_pend = lk.r_pend + 1])
  /\ UNCHANGED left

(* The loop of lock_cache_rw, timedlock_cache_rw and yield_lock_cache_rw.      *)
WriteLoop(t, s, asleep, held) ==
  IF s.w \/ s.r > 0
  THEN lk' = s /\ pc' = [pc EXCEPT ![t] = asleep]
  ELSE /\ lk' = [s EXCEPT !.w = TRUE, !.rw_pend = s.rw_pend - 1]
       /\ pc' = [pc EXCEPT ![t] = held]

Pending == [lk EXCEPT !.rw_pend = lk.rw_pend + 1]

lock_cache_rw(t) == pc[t] = "idle" /\ WriteLoop(t, Pending, "rw_wait", "write") /\ UNCHANGED left

(* empty_cache, by the control thread.                                        *)
timedlock_cache_rw(t) ==
  /\ t \in Ctl /\ pc[t] = "idle" /\ WriteLoop(t, Pending, "timed_wait", "empty")
  /\ left' = Buckets

(* A thread that was awakened, or woke up by itself, tests again.  The thread  *)
(* that empties the cache gets back the lock it gave up.                       *)
TestAgain(t) ==
  /\ \/ pc[t] = "r_woken" /\ ReadLoop(t, lk)
     \/ pc[t] = "rw_woken"
        /\ WriteLoop(t, lk, "rw_wait", IF t \in Ctl /\ left > 0 THEN "empty" ELSE "write")
     \/ pc[t] = "timed_woken" /\ WriteLoop(t, lk, "timed_wait", "empty")
  /\ UNCHANGED left

(* pthread_cond_wait may return by itself.                                    *)
Spurious(t) ==
  /\ pc[t] \in DOMAIN Woken
  /\ pc' = [pc EXCEPT ![t] = Woken[pc[t]]]
  /\ UNCHANGED <<lk, left>>

(* pthread_cond_timedwait returns ETIMEDOUT, and later gets the mutex.         *)
TimedOut(t) ==
  \/ pc[t] = "timed_wait" /\ pc' = [pc EXCEPT ![t] = "late"] /\ UNCHANGED <<lk, left>>
  \/ /\ pc[t] = "late" /\ pc' = [pc EXCEPT ![t] = "idle"]
     /\ lk' = [lk EXCEPT !.rw_pend = lk.rw_pend - 1] /\ left' = 0

(* Mutant of unlock_cache_r: waiting readers keep writers asleep.             *)
Mut_unlock_r_no_signal(t) ==
  /\ pc[t] = "read"
  /\ lk' = [lk EXCEPT !.r = IF lk.r > 0 THEN lk.r - 1 ELSE lk.r]
  /\ LET p == [pc EXCEPT ![t] = "idle"]
     IN  IF lk'.r = 0 /\ lk.r_pend = 0 THEN pc' \in Signal(p) ELSE pc' = p
  /\ UNCHANGED left

unlock_cache_r(t) ==
  /\ pc[t] = "read"
  /\ lk' = [lk EXCEPT !.r = IF lk.r > 0 THEN lk.r - 1 ELSE lk.r]
  /\ LET p == [pc EXCEPT ![t] = "idle"]
     IN  IF lk'.r = 0 THEN pc' \in Signal(p) ELSE pc' = p
  /\ UNCHANGED left

(* Mutant of Release: writers are preferred, even when none waits.            *)
Mut_Release_no_broadcast(t, place) ==
  /\ lk' = [lk EXCEPT !.w = FALSE, !.r_susp = FALSE]
  /\ pc' \in Signal([pc EXCEPT ![t] = place])

(* The common part of unlock_cache_rw and yield_lock_cache_rw.                *)
Release(t, place) ==
  /\ lk' = [lk EXCEPT !.w = FALSE, !.r_susp = FALSE]
  /\ LET p == [pc EXCEPT ![t] = place]
     IN  pc' \in IF lk.r_pend = 0 \/ lk.rw_pend > SUSP_THRESH(lk.r_pend)
                 THEN Signal(p) ELSE Broadcast(p)

unlock_cache_rw(t) ==
  /\ (pc[t] = "write" \/ (pc[t] = "empty" /\ left = 1))
  /\ Release(t, "idle") /\ left' = IF t \in Ctl THEN 0 ELSE left

(* A bucket is emptied and another is to come: yield_lock_cache_rw gives the   *)
(* lock up.  It looks at the counters without the mutex, so it may also go on  *)
(* with the lock, whatever they are.                                          *)
yield_lock_cache_rw(t) ==
  \/ /\ pc[t] = "empty" /\ left > 1 /\ left' = left - 1
     /\ Release(t, "yield") \/ UNCHANGED <<lk, pc>>
  \/ /\ pc[t] = "yield" /\ UNCHANGED left
     /\ WriteLoop(t, Pending, "rw_wait", "empty")

-----------------------------------------------------------------------------
(* The main thread after sigwait: write_disk_cache and destroy_cache.         *)

(* One try of softlock_cache_r or softlock_cache_rw.  The mutex itself may be   *)
(* out of reach for too long.                                                *)
Soft(from, free, locked, to, failed) ==
  /\ main = from
  /\ \/ free /\ lk' = locked /\ main' = to /\ tries' = 0
     \/ ~free /\ tries + 1 < MaxTries /\ tries' = tries + 1 /\ UNCHANGED <<lk, main>>
     \/ ~free /\ tries + 1 >= MaxTries /\ main' = failed /\ tries' = 0 /\ UNCHANGED lk
     \/ main' = failed /\ tries' = 0 /\ UNCHANGED lk

(* softunlock_cache_r or softunlock_cache_rw wakes nobody, and may fail.        *)
SoftUnlock(from, unlocked, to, failed) ==
  /\ main = from /\ UNCHANGED tries
  /\ \/ lk' = unlocked /\ main' = to
     \/ main' = failed /\ UNCHANGED lk

(* Mutant of MainStep: the soft lock for writing does not look at the readers.  *)
Mut_MainStep_readers ==
  /\ \/ main = "serve" /\ main' = "soft_purge" /\ UNCHANGED <<lk, tries>>
     \/ Soft("soft_purge", ~lk.w, [lk EXCEPT !.w = TRUE], "purge", "soft_destroy")
     \/ SoftUnlock("purge", [lk EXCEPT !.w = FALSE], "soft_save", "soft_destroy")
     \/ Soft("soft_save", ~lk.w, [lk EXCEPT !.r = lk.r + 1], "save", "soft_destroy")
     \/ SoftUnlock("save", [lk EXCEPT !.r = lk.r - 1], "soft_destroy", "soft_destroy")
     \/ Soft("soft_destroy", ~lk.w /\ lk.r = 0, [lk EXCEPT !.w = TRUE], "destroy", "exit")
     \/ main = "destroy" /\ main' = "exit" /\ UNCHANGED <<lk, tries>>
  /\ UNCHANGED <<pc, left>>

MainStep ==
  /\ \/ main = "serve" /\ main' = "soft_purge" /\ UNCHANGED <<lk, tries>>
     \/ Soft("soft_purge", ~lk.w /\ lk.r = 0, [lk EXCEPT !.w = TRUE], "purge", "soft_destroy")
     \/ SoftUnlock("purge", [lk EXCEPT !.w = FALSE], "soft_save", "soft_destroy")
     \/ Soft("soft_save", ~lk.w, [lk EXCEPT !.r = lk.r + 1], "save", "soft_destroy")
     \/ SoftUnlock("save", [lk EXCEPT !.r = IF lk.r > 0 THEN lk.r - 1 ELSE lk.r],
                   "soft_destroy", "soft_destroy")
     \/ Soft("soft_destroy", ~lk.w /\ lk.r = 0, [lk EXCEPT !.w = TRUE], "destroy", "exit")
     \/ main = "destroy" /\ main' = "exit" /\ UNCHANGED <<lk, tries>>
  /\ UNCHANGED <<pc, left>>

-----------------------------------------------------------------------------
Request(t) == lock_cache_r(t) \/ lock_cache_rw(t) \/ timedlock_cache_rw(t)

(* The steps a thread takes of its own accord, once it has asked for the lock. *)
GoOn(t) ==
  TestAgain(t) \/ unlock_cache_r(t) \/ unlock_cache_rw(t) \/ yield_lock_cache_rw(t)
  \/ (pc[t] = "late" /\ TimedOut(t))

ThreadStep(t) ==
  /\ main # "exit" /\ UNCHANGED <<main, tries>>
  /\ Request(t) \/ GoOn(t) \/ TimedOut(t) \/ Spurious(t)

Exited == main = "exit" /\ UNCHANGED vars

Next == MainStep \/ Exited \/ \E t \in User : ThreadStep(t)

Spec == Init /\ [][Next]_vars

(* Every thread is scheduled; nobody need ask for the lock, and no signal come. *)
FairSpec ==
  /\ Spec
  /\ \A t \in User : WF_vars(main # "exit" /\ UNCHANGED <<main, tries>> /\ GoOn(t))
  /\ WF_vars(main # "serve" /\ MainStep)

-----------------------------------------------------------------------------
Readers == At({"read"}) \cup (IF main = "save" THEN {"main"} ELSE {})
Writers == At({"write", "empty"}) \cup (IF main \in {"purge", "destroy"} THEN {"main"} ELSE {})

(* Who writes the cache is alone with it, on the way out too.                 *)
Exclusion ==
  /\ Cardinality(Writers) <= 1
  /\ Writers # {} => Readers = {}

(* The counters by which wake-ups are chosen count the threads.                *)
CountsExact ==
  /\ lk.r_pend = Cardinality(At({"r_wait", "r_woken"}))
  /\ lk.rw_pend = Cardinality(At({"rw_wait", "rw_woken", "timed_wait", "timed_woken", "late"}))
  /\ main \notin {"soft_destroy", "exit"} => lk.r = Cardinality(Readers)

(* As long as pdnsd serves, nobody sleeps on a lock that is free, unless        *)
(* somebody is awake who will take it and wake others.                         *)
NoLostWakeup ==
  main = "serve" /\ At(DOMAIN Woken) # {} =>
    lk.w \/ lk.r > 0 \/ At({"r_woken", "rw_woken", "timed_woken"}) # {}

(* Readers are suspended only while there is a writer who will lift it.         *)
SuspensionLifted ==
  lk.r_susp => At({"rw_wait", "rw_woken", "write", "empty"}) # {}

(* The lock's fields tell the truth of who holds it and who waits: writers are  *)
(* alone, the counters count, and a suspension of readers has its writer.       *)
LockAgrees == TypeOK /\ Exclusion /\ CountsExact /\ SuspensionLifted

(* If nobody asks any more, all get the lock and give it back, or pdnsd exits.  *)
Drains ==
  <>[][\A t \in User : ~Request(t)]_vars =>
    []<>(main # "serve" \/ \A t \in User : pc[t] = "idle")

(* The exit does not wait for ever for a lock.                                 *)
MainExits == main # "serve" ~> main = "exit"

(* Nobody waits for the lock for ever, in service or on the way out.           *)
NobodyStuck == Drains /\ MainExits
=============================================================================
