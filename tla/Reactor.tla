------------------------------- MODULE Reactor -------------------------------
(***************************************************************************)
(* tun2socks's event loop (badvpn/system/BReactor_badvpn.c with epoll, and    *)
(* badvpn/base/BPending.c): jobs run before timers, timers before the results  *)
(* of epoll_wait, and only when there is nothing of these does the loop wait   *)
(* again.                                                                    *)
(*                                                                         *)
(* frames is the stack of handlers that are running: a handler may call any    *)
(* operation of the reactor, on any object, MaxOps times over the run, and may  *)
(* run jobs itself with the SYNC macros of tun2socks.c.  The setup before       *)
(* BReactor_Exec is the first frame.                                          *)
(***************************************************************************)
EXTENDS Integers, FiniteSets, SequencesExt

CONSTANTS Job, Timer, Fd, Limit,   \* the user's objects
          None,
          MaxCount,                \* BReactorLimit.limit
          MaxResults,              \* BSYSTEM_MAX_RESULTS
          MaxDepth, MaxOps, MaxTime    \* bounds: nested handlers, operations, the clock

ASSUME ReactorAssumption ==
  /\ MaxCount \in Nat \ {0} /\ MaxResults \in Nat \ {0}
  /\ MaxDepth \in Nat \ {0} /\ MaxOps \in Nat /\ MaxTime \in Nat
  /\ None \notin Fd /\ Job \cap (1 .. MaxDepth) = {} /\ IsFiniteSet(Timer)

VARIABLES jobs,             \* pending_jobs; the mark of frame i is i
          timer, tree, expired,
          fd, results, pos,
          count, active,    \* of the limits; active_limits_list
          frames, waiting,  \* wait_for_events is in its loop, with this timeout_abs
          exiting, now, ops

vars == <<jobs, timer, tree, expired, fd, results, pos, count, active, frames, waiting,
          exiting, now, ops>>

Event == {"read", "write", "error"}

Frame == [ mark : BOOLEAN, sync : BOOLEAN,
           newer : SUBSET (Job \cup (1 .. MaxDepth)) ]   \* history: jobs set since the mark
NewFrame == [ mark |-> FALSE, sync |-> FALSE, newer |-> {} ]

TypeOK ==
  /\ jobs \in Seq(Job \cup (1 .. MaxDepth))
  /\ timer \in [Timer -> [state : {"inactive", "running", "expired"}, absTime : 0 .. MaxTime]]
  /\ tree \subseteq Timer /\ expired \in Seq(Timer)
  /\ fd \in [Fd -> [active : BOOLEAN, wait : SUBSET {"read", "write"},
                    returned : 0 .. MaxResults, gen : 0 .. MaxOps]]
  /\ results \in Seq([ptr : Fd \cup {None}, ev : SUBSET Event, gen : 0 .. MaxOps])
  /\ Len(results) <= MaxResults /\ pos \in 0 .. Len(results)
  /\ count \in [Limit -> 0 .. MaxCount] /\ active \subseteq Limit
  /\ frames \in Seq(Frame) /\ Len(frames) <= MaxDepth
  /\ waiting \in {"no", "timeout", "forever"} /\ exiting \in BOOLEAN
  /\ now \in 0 .. MaxTime /\ ops \in 0 .. MaxOps

Init ==
  /\ jobs = <<>> /\ tree = {} /\ expired = <<>> /\ results = <<>> /\ pos = 0
  /\ timer = [t \in Timer |-> [state |-> "inactive", absTime |-> 0]]
  /\ fd = [f \in Fd |-> [active |-> FALSE, wait |-> {}, returned |-> 0, gen |-> 0]]
  /\ count = [l \in Limit |-> 0] /\ active = {}
  /\ frames = <<NewFrame>> /\ waiting = "no" /\ exiting = FALSE /\ now = 0 /\ ops = 0

-----------------------------------------------------------------------------
(* Calls from a handler.                                                     *)

Top == Len(frames)
Calling == frames # <<>> /\ ~frames[Top].sync /\ ops < MaxOps

(* BPending_Set and BPending_Unset on the list s, which has j at most once.       *)
Without(s, j) ==
  IF j \in ToSet(s) THEN RemoveAt(s, CHOOSE i \in DOMAIN s : s[i] = j) ELSE s

Prepended(s, j) == <<j>> \o Without(s, j)

Newer(j, is) ==
  frames' = [i \in DOMAIN frames |->
               [frames[i] EXCEPT !.newer = IF is /\ frames[i].mark THEN @ \cup {j} ELSE @ \ {j}]]

JobCall ==
  /\ \E j \in Job : \/ jobs' = Prepended(jobs, j) /\ Newer(j, TRUE)
                    \/ jobs' = Without(jobs, j) /\ Newer(j, FALSE)
  /\ UNCHANGED <<timer, tree, expired, fd, count, active, exiting>>

(* SYNC_FROMHERE                                                              *)
SyncFromHere ==
  /\ Top < MaxDepth /\ ~frames[Top].mark /\ jobs' = Prepended(jobs, Top)
  /\ frames' = [i \in DOMAIN frames |->
       IF i = Top THEN [frames[i] EXCEPT !.mark = TRUE]
       ELSE IF frames[i].mark THEN [frames[i] EXCEPT !.newer = @ \cup {Top}]
       ELSE frames[i]]
  /\ UNCHANGED <<timer, tree, expired, fd, count, active, exiting>>

(* BReactor_RemoveSmallTimer, the containers after it.                          *)
RemoveSmallTimer(t) ==
  [ tree |-> IF timer[t].state = "running" THEN tree \ {t} ELSE tree,
    expired |-> IF timer[t].state = "expired" THEN Without(expired, t) ELSE expired ]

TimerCall ==
  /\ \E t \in Timer :
       LET r == RemoveSmallTimer(t)
       IN  /\ expired' = r.expired
           /\ \/ /\ timer' = [timer EXCEPT ![t].state = "inactive"] /\ tree' = r.tree
              \/ /\ \E time \in now .. MaxTime :
                      timer' = [timer EXCEPT ![t] = [state |-> "running", absTime |-> time]]
                 /\ tree' = r.tree \cup {t}
  /\ UNCHANGED <<jobs, frames, fd, results, count, active, exiting>>

AddFileDescriptor(f) ==
  /\ ~fd[f].active /\ UNCHANGED results
  /\ fd' = [fd EXCEPT ![f] = [active |-> TRUE, wait |-> {}, returned |-> 0, gen |-> fd[f].gen + 1]]

(* Mutant of RemoveFileDescriptor: the result of epoll_wait stays.              *)
Mut_RemoveFd_stale(f) ==
  /\ fd[f].active /\ fd' = [fd EXCEPT ![f].active = FALSE] /\ UNCHANGED results

RemoveFileDescriptor(f) ==
  /\ fd[f].active /\ fd' = [fd EXCEPT ![f].active = FALSE]
  /\ results' = IF fd[f].returned = 0 THEN results
                ELSE [results EXCEPT ![fd[f].returned].ptr = None]

SetFileDescriptorEvents(f) ==
  /\ fd[f].active /\ UNCHANGED results
  /\ \E w \in SUBSET {"read", "write"} : fd' = [fd EXCEPT ![f].wait = w]

FdCall ==
  /\ \E f \in Fd : AddFileDescriptor(f) \/ RemoveFileDescriptor(f) \/ SetFileDescriptorEvents(f)
  /\ UNCHANGED <<jobs, frames, timer, tree, expired, count, active, exiting>>

(* Mutant of LimitCall: the list is looked at before the count is raised.         *)
Mut_LimitCall_early ==
  /\ \E l \in Limit :
       /\ count[l] < MaxCount
       /\ count' = [count EXCEPT ![l] = @ + 1]
       /\ active' = IF count[l] = 1 THEN active \cup {l} ELSE active
  /\ UNCHANGED <<jobs, frames, timer, tree, expired, fd, results, exiting>>

(* BReactorLimit_Increment; at the limit it changes nothing.                      *)
LimitCall ==
  /\ \E l \in Limit :
       /\ count[l] < MaxCount
       /\ count' = [count EXCEPT ![l] = @ + 1]
       /\ active' = IF count[l] = 0 THEN active \cup {l} ELSE active
  /\ UNCHANGED <<jobs, frames, timer, tree, expired, fd, results, exiting>>

BReactor_Quit ==
  /\ exiting' = TRUE
  /\ UNCHANGED <<jobs, frames, timer, tree, expired, fd, results, count, active>>

Call ==
  /\ Calling /\ ops' = ops + 1
  /\ \/ JobCall /\ UNCHANGED results
     \/ SyncFromHere /\ UNCHANGED results
     \/ TimerCall \/ FdCall \/ LimitCall \/ BReactor_Quit
  /\ UNCHANGED <<pos, waiting, now>>

-----------------------------------------------------------------------------
(* The end of a handler, and BReactor_Synchronize.                             *)

EndHandler ==
  /\ frames # <<>> /\ ~frames[Top].sync /\ ~frames[Top].mark
  /\ frames' = SubSeq(frames, 1, Top - 1)
  /\ UNCHANGED <<jobs, timer, tree, expired, fd, results, pos, count, active, waiting, exiting,
                 now, ops>>

(* The first job is taken from the list and its handler called.                 *)
ExecuteJob ==
  /\ Top < MaxDepth
  /\ jobs' = Tail(jobs)
  /\ frames' = Append([i \in DOMAIN frames |-> [frames[i] EXCEPT !.newer = @ \ {Head(jobs)}]],
                      NewFrame)

(* BPending_Free(&sync_mark)                                                   *)
FreeMark ==
  /\ jobs' = Without(jobs, Top)
  /\ frames' = [i \in DOMAIN frames |->
       IF i = Top THEN NewFrame ELSE [frames[i] EXCEPT !.newer = @ \ {Top}]]

(* SYNC_BREAK and SYNC_COMMIT, which calls BReactor_Synchronize.                 *)
Synchronize ==
  /\ frames # <<>> /\ frames[Top].mark
  /\ \/ ~frames[Top].sync /\ FreeMark
     \/ ~frames[Top].sync /\ frames' = [frames EXCEPT ![Top].sync = TRUE] /\ UNCHANGED jobs
     \/ frames[Top].sync /\ ~exiting /\ Head(jobs) # Top /\ ExecuteJob
     \/ frames[Top].sync /\ (exiting \/ Head(jobs) = Top) /\ FreeMark
  /\ UNCHANGED <<timer, tree, expired, fd, results, pos, count, active, waiting, exiting,
                 now, ops>>

-----------------------------------------------------------------------------
(* BReactor_Exec.                                                            *)

Loop == frames = <<>> /\ ~exiting /\ waiting = "no"

DispatchJob ==
  /\ Loop /\ jobs # <<>> /\ ExecuteJob
  /\ UNCHANGED <<timer, tree, expired, fd, results, pos, count, active, waiting, exiting,
                 now, ops>>

DispatchTimer ==
  /\ Loop /\ jobs = <<>> /\ expired # <<>>
  /\ timer' = [timer EXCEPT ![Head(expired)].state = "inactive"]
  /\ expired' = Tail(expired)
  /\ frames' = <<NewFrame>>
  /\ UNCHANGED <<jobs, tree, fd, results, pos, count, active, waiting, exiting, now, ops>>

(* The events a result reports to the handler.                                  *)
Reported(r) == r.ev \cap (fd[r.ptr].wait \cup {"error"})

DispatchFd ==
  /\ Loop /\ jobs = <<>> /\ expired = <<>> /\ pos < Len(results)
  /\ pos' = pos + 1
  /\ LET r == results[pos + 1]
     IN  \/ r.ptr = None /\ UNCHANGED <<fd, frames>>
         \/ /\ r.ptr # None /\ fd' = [fd EXCEPT ![r.ptr].returned = 0]
            /\ frames' = IF Reported(r) = {} THEN frames ELSE <<NewFrame>>
  /\ UNCHANGED <<jobs, timer, tree, expired, results, count, active, waiting, exiting, now, ops>>

First == CHOOSE t \in tree : \A u \in tree : timer[t].absTime <= timer[u].absTime

(* The timers of a set, earliest first, go to the expired list; compare_timers      *)
(* orders those of one time by their addresses, which may be any.                   *)
Expire(due) ==
  /\ tree' = tree \ due
  /\ timer' = [t \in Timer |-> IF t \in due THEN [timer[t] EXCEPT !.state = "expired"] ELSE timer[t]]
  /\ \E q \in SetToSeqs(due) :
       /\ \A i, j \in DOMAIN q : i < j => timer[q[i]].absTime <= timer[q[j]].absTime
       /\ expired' = q

Results(rs) ==
  /\ results' = rs
  /\ fd' = [f \in Fd |-> LET at == {i \in DOMAIN rs : rs[i].ptr = f}
                         IN  IF at = {} THEN fd[f]
                             ELSE [fd[f] EXCEPT !.returned = CHOOSE i \in at : TRUE]]

(* Mutant of BeginWait: the timers that are due are left to epoll_wait.              *)
Mut_BeginWait_late ==
  /\ Loop /\ jobs = <<>> /\ expired = <<>> /\ pos = Len(results)
  /\ results' = <<>> /\ pos' = 0
  /\ waiting' = IF tree = {} THEN "forever" ELSE "timeout"
  /\ UNCHANGED <<jobs, timer, tree, expired, fd, count, active, frames, exiting, now, ops>>

(* The start of wait_for_events: timers that are due already do without epoll.    *)
BeginWait ==
  /\ Loop /\ jobs = <<>> /\ expired = <<>> /\ pos = Len(results)
  /\ results' = <<>> /\ pos' = 0
  /\ LET due == {t \in tree : timer[t].absTime <= now}
     IN  \/ due # {} /\ Expire(due) /\ UNCHANGED waiting
         \/ /\ due = {} /\ waiting' = IF tree = {} THEN "forever" ELSE "timeout"
            /\ UNCHANGED <<timer, tree, expired>>
  /\ UNCHANGED <<jobs, fd, count, active, frames, exiting, now, ops>>

ResetLimits ==
  /\ count' = [l \in Limit |-> IF l \in active THEN 0 ELSE count[l]]
  /\ active' = {}

(* move_first_timers                                                            *)
FirstTimers == {t \in tree : timer[t].absTime = timer[First].absTime}

(* What epoll_wait may return for a descriptor.                                   *)
Returns(f) ==
  [ptr : {f}, ev : {e \in SUBSET (fd[f].wait \cup {"error"}) : e # {}}, gen : {fd[f].gen}]

(* epoll_wait has returned: descriptors, or a timeout, or an interrupt after the   *)
(* timeout has been reached (before it, the loop goes round).                      *)
EndWait ==
  /\ waiting # "no"
  /\ \/ \E n \in 1 .. MaxResults :
          \E rs \in [1 .. n -> UNION {Returns(f) : f \in {g \in Fd : fd[g].active}}] :
            /\ \A i, j \in 1 .. n : rs[i].ptr = rs[j].ptr => i = j
            /\ Results(rs)
        /\ UNCHANGED <<timer, tree, expired>>
     \/ /\ waiting = "timeout" /\ now >= timer[First].absTime
        /\ Expire(FirstTimers) /\ UNCHANGED <<fd, results>>
  /\ ResetLimits /\ waiting' = "no"
  /\ UNCHANGED <<jobs, pos, frames, exiting, now, ops>>

-----------------------------------------------------------------------------
Tick ==
  /\ now < MaxTime /\ now' = now + 1
  /\ UNCHANGED <<jobs, timer, tree, expired, fd, results, pos, count, active, frames, waiting,
                 exiting, ops>>

LoopStep == DispatchJob \/ DispatchTimer \/ DispatchFd \/ BeginWait

Step == EndHandler \/ Synchronize \/ LoopStep

(* BReactor_Exec has returned; epoll_wait was interrupted before its timeout.         *)
Exited == exiting /\ frames = <<>> /\ UNCHANGED vars
Interrupted == waiting # "no" /\ UNCHANGED vars

Next == Call \/ Step \/ EndWait \/ Tick \/ Exited \/ Interrupted

Spec == Init /\ [][Next]_vars

(* Handlers return, the loop runs, and epoll_wait returns at its timeout.          *)
FairSpec ==
  /\ Spec /\ WF_vars(Step) /\ WF_vars(Tick)
  /\ WF_vars(waiting = "timeout" /\ EndWait)

-----------------------------------------------------------------------------
(* A timer is in the tree exactly while it runs and in the list exactly while it   *)
(* has expired; so a timer that a handler removes is not dispatched after that.     *)
TimersAgree ==
  /\ tree = {t \in Timer : timer[t].state = "running"}
  /\ ToSet(expired) = {t \in Timer : timer[t].state = "expired"}
  /\ IsInjective(expired)

(* Timers are dispatched at or after their time, the earliest first.                *)
TimersOnTime ==
  /\ \A i \in DOMAIN expired : timer[expired[i]].absTime <= now
  /\ \A i, j \in DOMAIN expired : i < j => timer[expired[i]].absTime <= timer[expired[j]].absTime

(* A result of epoll_wait that is still to be dispatched belongs to a descriptor     *)
(* registered as it was when epoll_wait returned it.                               *)
ResultsCurrent ==
  \A i \in pos + 1 .. Len(results) :
    LET r == results[i]
    IN  r.ptr # None => /\ fd[r.ptr].active /\ fd[r.ptr].returned = i
                        /\ fd[r.ptr].gen = r.gen

(* A job is pending once.  In front of the mark of a handler are exactly the jobs      *)
(* set since, and the marks of the handlers above it: Synchronize runs all of those      *)
(* jobs and no others, and finds its mark.                                          *)
MarkSeparates ==
  /\ IsInjective(jobs)
  /\ \A i \in DOMAIN frames : ~frames[i].mark => frames[i].newer = {}
  /\ \A i \in DOMAIN frames : frames[i].mark =>
       /\ \E k \in DOMAIN jobs : jobs[k] = i /\ ToSet(SubSeq(jobs, 1, k - 1)) = frames[i].newer
       /\ frames[i].newer \cap (1 .. MaxDepth) = {k \in DOMAIN frames : k > i /\ frames[k].mark}

(* The loop waits for events only when there is nothing left to dispatch.             *)
WaitsIdle ==
  waiting # "no" => frames = <<>> /\ jobs = <<>> /\ expired = <<>> /\ results = <<>>

(* A limit that was used is in the list of those to be reset.                        *)
LimitsListed == \A l \in Limit : count[l] > 0 => l \in active

(* What the reactor has still to dispatch, jobs, timers and results of epoll_wait,    *)
(* is what is registered now, whatever the handlers before it set, freed or replaced, *)
(* and it does not wait before all that is dispatched.  The invariant is inductive.     *)
QueuesExact ==
  /\ TypeOK /\ TimersAgree /\ TimersOnTime /\ ResultsCurrent /\ MarkSeparates
  /\ WaitsIdle /\ LimitsListed /\ \A f \in Fd : fd[f].gen <= ops

(* Once the program makes no more calls, every timer that was set fires.             *)
TimersFire ==
  \A t \in Timer : timer[t].state # "inactive" ~> (timer[t].state = "inactive" \/ exiting)

(* When new events come, every limit has its full count again.                     *)
LimitsReset ==
  [][waiting # "no" /\ waiting' = "no" => \A l \in Limit : count'[l] = 0]_vars
=============================================================================
