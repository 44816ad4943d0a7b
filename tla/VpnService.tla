----------------------------- MODULE VpnService -----------------------------
(***************************************************************************)
(* SocksVpnService (groovy/net/typeblog/socks), Launcher and the native    *)
(* processes they start: how the VPN is brought up and torn down.           *)
(*                                                                         *)
(* onStartCommand and onDestroy run on the service process's main thread,   *)
(* one after the other in the order Android queued them.  IVpnService.stop  *)
(* and onRevoke run on binder threads, so stopMe may run at the same time   *)
(* as onStartCommand, and the deployment callback of Launcher.start runs on *)
(* Vert.x's thread.  A thread's step is one call that other threads or      *)
(* processes can observe.                                                   *)
(*                                                                         *)
(* Android (service manager, binder), Vert.x and pdnsd are external.  The   *)
(* n-th onStartCommand that gets that far launches verticle n, pdnsd n and  *)
(* tun2socks n; 0 stands for none.                                          *)
(***************************************************************************)
EXTENDS Naturals, Sequences, FiniteSets

CONSTANTS Binder,       \* binder threads
          MaxStarts,    \* bound on startService calls, and on instances
          MaxDeaths,    \* bound on deaths of the service process
          SendAttempts  \* tries to hand over the descriptor (5 in the code)

ASSUME ServiceAssumption == /\ MaxStarts \in Nat \ {0}
                            /\ MaxDeaths \in Nat
                            /\ SendAttempts \in Nat \ {0}
                            /\ "main" \notin Binder

VARIABLES starts,       \* startService calls so far
          insts, cur,   \* instances created; the one Android knows (0: none)
          queue,        \* events queued for the main thread
          bound,        \* the instance whose binder the UI holds
          pc, inst,     \* what each thread does next, and for which instance
          tries,        \* main's sendfd attempts left
          mRunning, fd, \* fields of each instance; mInterface's descriptor
          run,          \* Launcher.start calls so far
          vert, ID,     \* verticles, and Launcher.ID
          raced,        \* live verticles whose ID was lost to a race (history)
          proc, term,   \* processes of each daemon; the live ones sent a SIGTERM
          pidfile,      \* tun2socks.pid and pdnsd.pid
          unread,       \* live ones whose pid file was deleted unread (history)
          got,          \* the instance whose descriptor a tun2socks received
          path,         \* the tun2socks that accepts at sock_path
          deaths        \* how often the service process died

launcherVars == <<vert, ID, raced>>
nativeVars == <<proc, term, pidfile, unread, got, path>>
amsVars == <<starts, insts, cur, queue, bound>>
vars == <<amsVars, pc, inst, tries, mRunning, fd, run, launcherVars, nativeVars, deaths>>

-----------------------------------------------------------------------------
Thread == {"main"} \cup Binder
Instance == 1 .. MaxStarts + MaxDeaths
Run == 1 .. MaxStarts

StartPC == {"configure", "launch", "pdnsd", "tun2socks", "sendfd"}
Daemon == {"tun2socks", "pdnsd"}
Process == Daemon \X Run

KillPC == [tun2socks |-> "kill_tun2socks", pdnsd |-> "kill_pdnsd"]
DeletePC == [tun2socks |-> "rm_tun2socks", pdnsd |-> "rm_pdnsd"]
KilledPC == [tun2socks |-> "kill_pdnsd", pdnsd |-> "close_fd"]
StopPC == {KillPC[d] : d \in Daemon} \cup {DeletePC[d] : d \in Daemon}
            \cup {"close_fd", "undeploy", "clear_id", "stop_self"}

TypeOK ==
  /\ starts \in 0 .. MaxStarts /\ insts \in 0 .. MaxStarts + MaxDeaths
  /\ cur \in 0 .. MaxStarts + MaxDeaths /\ bound \in 0 .. MaxStarts + MaxDeaths
  /\ queue \in Seq({"start", "sticky", "destroy"} \X Instance)
  /\ pc \in [Thread -> {"idle"} \cup StartPC \cup StopPC]
  /\ inst \in [Thread -> 0 .. MaxStarts + MaxDeaths]
  /\ tries \in 0 .. SendAttempts
  /\ mRunning \in [Instance -> BOOLEAN]
  /\ fd \in [Instance -> {"none", "open"}]
  /\ run \in 0 .. MaxStarts
  /\ vert \in [Run -> {"none", "deploying", "deployed", "gone"}]
  /\ ID \in 0 .. MaxStarts /\ raced \subseteq Run
  /\ proc \in [Daemon -> [Run -> {"none", "boot", "wait", "run"}]]
  /\ term \subseteq Process /\ unread \subseteq Process
  /\ pidfile \in [Daemon -> 0 .. MaxStarts]
  /\ got \in [Run -> 0 .. MaxStarts + MaxDeaths] /\ path \in 0 .. MaxStarts
  /\ deaths \in 0 .. MaxDeaths

Init ==
  /\ starts = 0 /\ insts = 0 /\ cur = 0 /\ queue = <<>> /\ bound = 0
  /\ pc = [t \in Thread |-> "idle"] /\ inst = [t \in Thread |-> 0] /\ tries = 0
  /\ mRunning = [i \in Instance |-> FALSE] /\ fd = [i \in Instance |-> "none"]
  /\ run = 0 /\ vert = [r \in Run |-> "none"] /\ ID = 0 /\ raced = {}
  /\ proc = [d \in Daemon |-> [r \in Run |-> "none"]] /\ term = {} /\ unread = {}
  /\ pidfile = [d \in Daemon |-> 0]
  /\ got = [r \in Run |-> 0] /\ path = 0 /\ deaths = 0

-----------------------------------------------------------------------------
(* Control flow of a thread: it enters a call on instance i, goes on to a    *)
(* label, or returns ("idle").                                              *)
Enter(t, l, i) == /\ pc' = [pc EXCEPT ![t] = l]
                  /\ inst' = [inst EXCEPT ![t] = i]
Goto(t, l) == Enter(t, l, IF l = "idle" THEN 0 ELSE inst[t])

-----------------------------------------------------------------------------
(* Android and the user.                                                   *)

(* startService, from the UI or the BootReceiver; creates the service if    *)
(* Android knows no instance.                                               *)
startVpn ==
  /\ starts < MaxStarts
  /\ starts' = starts + 1
  /\ insts' = IF cur = 0 THEN insts + 1 ELSE insts
  /\ cur' = IF cur = 0 THEN insts + 1 ELSE cur
  /\ queue' = Append(queue, <<"start", cur'>>)
  /\ UNCHANGED <<bound, pc, inst, tries, mRunning, fd, run, launcherVars,
                 nativeVars, deaths>>

(* onBind runs on the main thread, which must be free.                      *)
onBind ==
  /\ cur # 0 /\ bound # cur
  /\ pc["main"] = "idle" /\ queue = <<>>
  /\ bound' = cur
  /\ UNCHANGED <<starts, insts, cur, queue, pc, inst, tries, mRunning, fd, run,
                 launcherVars, nativeVars, deaths>>

(* A binder thread enters stopMe of instance i.                             *)
EnterStop(b, i) ==
  /\ pc[b] = "idle"
  /\ Enter(b, "kill_tun2socks", i)

(* IVpnService.stop; the UI gives up its binder.                            *)
BinderStop(b) ==
  /\ bound # 0
  /\ EnterStop(b, bound)
  /\ bound' = 0
  /\ UNCHANGED <<starts, insts, cur, queue, tries, mRunning, fd, run,
                 launcherVars, nativeVars, deaths>>

(* The user, or another VPN, revokes the established VPN.  super.onRevoke()   *)
(* calls stopSelf, so that onDestroy is queued before stopMe begins.         *)
onRevoke(b) ==
  /\ cur # 0 /\ fd[cur] = "open"
  /\ EnterStop(b, cur)
  /\ cur' = 0
  /\ queue' = Append(queue, <<"destroy", cur>>)
  /\ UNCHANGED <<starts, insts, bound, tries, mRunning, fd, run, launcherVars,
                 nativeVars, deaths>>

(* The service process dies: a failure on the main thread, or the system    *)
(* kills it.  Its native children go on; Android restarts the service with  *)
(* a null intent (START_STICKY) if it had been started.                     *)
Die ==
  /\ pc' = [t \in Thread |-> "idle"] /\ inst' = [t \in Thread |-> 0] /\ tries' = 0
  /\ fd' = [i \in Instance |-> "none"]
  /\ mRunning' = [i \in Instance |-> FALSE]
  /\ vert' = [r \in Run |-> "none"]
  /\ ID' = 0 /\ raced' = {} /\ bound' = 0
  /\ insts' = IF cur = 0 THEN insts ELSE insts + 1
  /\ cur' = IF cur = 0 THEN 0 ELSE insts + 1
  /\ queue' = IF cur = 0 THEN <<>> ELSE << <<"sticky", insts + 1>> >>
  /\ deaths' = deaths + 1

ProcessKilled ==
  /\ deaths < MaxDeaths /\ insts > 0
  /\ Die
  /\ UNCHANGED <<starts, run, nativeVars>>

-----------------------------------------------------------------------------
(* The main thread.                                                        *)

(* Mutant of onStartCommand: mRunning is not looked at.                      *)
Mut_start_ignores_running ==
  /\ pc["main"] = "idle" /\ queue # <<>>
  /\ queue' = Tail(queue)
  /\ LET event == Head(queue)[1]
         i == Head(queue)[2]
     IN  \/ /\ event = "destroy"
            /\ Enter("main", "kill_tun2socks", i)
         \/ /\ event = "start"
            /\ Enter("main", "configure", i)
         \/ /\ event = "sticky"
            /\ UNCHANGED <<pc, inst>>
  /\ UNCHANGED <<starts, insts, cur, bound, tries, mRunning, fd, run, launcherVars,
                 nativeVars, deaths>>

(* onStartCommand returns at once for a null intent (sticky) and when the   *)
(* instance is running; onDestroy calls stopMe.                             *)
MainEvent ==
  /\ pc["main"] = "idle" /\ queue # <<>>
  /\ queue' = Tail(queue)
  /\ LET event == Head(queue)[1]
         i == Head(queue)[2]
     IN  \/ /\ event = "destroy"
            /\ Enter("main", "kill_tun2socks", i)
         \/ /\ event = "start" /\ ~mRunning[i]
            /\ Enter("main", "configure", i)
         \/ /\ event = "start" => mRunning[i]
            /\ event # "destroy"
            /\ UNCHANGED <<pc, inst>>
  /\ UNCHANGED <<starts, insts, cur, bound, tries, mRunning, fd, run, launcherVars,
                 nativeVars, deaths>>

(* configure: establish may return null, and then nothing is started.       *)
configure ==
  /\ pc["main"] = "configure"
  /\ \/ /\ fd' = [fd EXCEPT ![inst["main"]] = "open"]
        /\ Goto("main", "launch")
     \/ /\ fd' = [fd EXCEPT ![inst["main"]] = "none"]
        /\ Goto("main", "idle")
  /\ UNCHANGED <<amsVars, tries, mRunning, run, launcherVars, nativeVars, deaths>>

(* Launcher.start: deployVerticle only begins the deployment.               *)
LauncherStart ==
  /\ pc["main"] = "launch"
  /\ run' = run + 1
  /\ vert' = [vert EXCEPT ![run + 1] = "deploying"]
  /\ Goto("main", "pdnsd")
  /\ UNCHANGED <<amsVars, tries, mRunning, fd, ID, raced, nativeVars, deaths>>

(* A daemon is started: its pid file is written when exec returns.          *)
Spawn(d, state) ==
  /\ proc' = [proc EXCEPT ![d][run] = state]
  /\ pidfile' = [pidfile EXCEPT ![d] = run]

(* exec of pdnsd, whose result is ignored.  It writes its pid file and then *)
(* ends if another pdnsd still has the port.                                *)
ExecPdnsd ==
  /\ pc["main"] = "pdnsd"
  /\ \/ Spawn("pdnsd", IF \E r \in Run : proc["pdnsd"][r] = "run" THEN "none" ELSE "run")
     \/ UNCHANGED <<proc, pidfile>>
  /\ Goto("main", "tun2socks")
  /\ UNCHANGED <<amsVars, tries, mRunning, fd, run, launcherVars, term, unread,
                 got, path, deaths>>

(* exec of tun2socks: the parent has written the pid file when it returns.  *)
ExecTun2socks ==
  /\ pc["main"] = "tun2socks"
  /\ \/ /\ Spawn("tun2socks", "boot")
        /\ tries' = SendAttempts
        /\ Goto("main", "sendfd")
     \/ /\ Goto("main", "kill_tun2socks")
        /\ UNCHANGED <<proc, pidfile, tries>>
  /\ UNCHANGED <<amsVars, mRunning, fd, run, launcherVars, term, unread, got,
                 path, deaths>>

(* Mutant of sendfd: mRunning is set without looking at the result.          *)
Mut_sendfd_ignores_result ==
  /\ pc["main"] = "sendfd"
  /\ mRunning' = [mRunning EXCEPT ![inst["main"]] = TRUE]
  /\ Goto("main", "idle")
  /\ UNCHANGED <<amsVars, tries, fd, run, launcherVars, nativeVars, deaths>>

(* One round of the loop in start: sendfd reaches the tun2socks that waits  *)
(* at sock_path, or fails; after the last failure, stopMe.                  *)
sendfd ==
  LET i == inst["main"]
      sendable == path # 0 /\ fd[i] = "open"
  IN  /\ pc["main"] = "sendfd"
      /\ \/ /\ sendable
            /\ proc' = [proc EXCEPT !["tun2socks"][path] = "run"]
            /\ got' = [got EXCEPT ![path] = i]
            /\ mRunning' = [mRunning EXCEPT ![i] = TRUE]
            /\ tries' = 0 /\ path' = 0
            /\ Goto("main", "idle")
         \/ /\ ~sendable
            /\ tries' = tries - 1
            /\ Goto("main", IF tries = 1 THEN "kill_tun2socks" ELSE "sendfd")
            /\ UNCHANGED <<proc, got, mRunning, path>>
      /\ UNCHANGED <<amsVars, fd, run, launcherVars, term, pidfile, unread, deaths>>

-----------------------------------------------------------------------------
(* stopMe, on any thread t.                                                *)

(* The process, if it exists in p.                                          *)
Alive(d, r, p) == IF p[d][r] # "none" THEN {<<d, r>>} ELSE {}

(* Mutant of Kill: only the daemons of a running instance are killed.        *)
Mut_kill_only_running(t, d) ==
  /\ pc[t] = KillPC[d]
  /\ IF pidfile[d] = 0 \/ ~mRunning[inst[t]]
     THEN Goto(t, KilledPC[d]) /\ UNCHANGED <<proc, term>>
     ELSE /\ Goto(t, DeletePC[d])
          /\ proc' = [proc EXCEPT ![d][pidfile[d]] = IF @ = "boot" THEN "none" ELSE @]
          /\ term' = term \cup Alive(d, pidfile[d], proc')
  /\ UNCHANGED <<amsVars, tries, mRunning, fd, run, launcherVars, pidfile,
                 unread, got, path, deaths>>

(* killPidFile: returns if there is no pid file; SIGTERM ends a process that *)
(* has not installed its handler yet, and is noted by one that has.          *)
Kill(t, d) ==
  /\ pc[t] = KillPC[d]
  /\ IF pidfile[d] = 0
     THEN Goto(t, KilledPC[d]) /\ UNCHANGED <<proc, term>>
     ELSE /\ Goto(t, DeletePC[d])
          /\ proc' = [proc EXCEPT ![d][pidfile[d]] = IF @ = "boot" THEN "none" ELSE @]
          /\ term' = term \cup Alive(d, pidfile[d], proc')
  /\ UNCHANGED <<amsVars, tries, mRunning, fd, run, launcherVars, pidfile,
                 unread, got, path, deaths>>

(* ... and then the file is deleted, whichever process it names by now.     *)
DeletePidFile(t, d) ==
  /\ pc[t] = DeletePC[d]
  /\ pidfile' = [pidfile EXCEPT ![d] = 0]
  /\ unread' = IF pidfile[d] = 0 THEN unread
               ELSE unread \cup (Alive(d, pidfile[d], proc) \ term)
  /\ Goto(t, KilledPC[d])
  /\ UNCHANGED <<amsVars, tries, mRunning, fd, run, launcherVars, proc, term,
                 got, path, deaths>>

(* jniclose and close; on a closed or null mInterface both fail silently.   *)
CloseFd(t) ==
  /\ pc[t] = "close_fd"
  /\ fd' = [fd EXCEPT ![inst[t]] = "none"]
  /\ Goto(t, "undeploy")
  /\ UNCHANGED <<amsVars, tries, mRunning, run, launcherVars, nativeVars, deaths>>

(* Mutant of Launcher.stop: the verticle is not undeployed.                  *)
Mut_stop_no_undeploy(t) ==
  /\ pc[t] = "undeploy"
  /\ raced' = raced \cup {r \in Run : vert[r] = "deploying"}
  /\ Goto(t, "clear_id")
  /\ UNCHANGED <<amsVars, tries, mRunning, fd, run, vert, ID, nativeVars, deaths>>

(* Launcher.stop: returns at once if Vert.x was never initialised, else     *)
(* undeploys ID.  Vert.x undeploys asynchronously and nobody reads the      *)
(* result: an unknown ID has no effect.                                     *)
LauncherStop(t) ==
  /\ pc[t] = "undeploy"
  /\ raced' = (raced \cup {r \in Run : vert[r] = "deploying"}) \ {ID}
  /\ \/ /\ \A r \in Run : vert[r] = "none"
        /\ Goto(t, "stop_self") /\ UNCHANGED vert
     \/ /\ ID # 0
        /\ vert' = [vert EXCEPT ![ID] = "gone"]
        /\ Goto(t, "clear_id")
     \/ /\ ID = 0 /\ \E r \in Run : vert[r] # "none"
        /\ Goto(t, "clear_id") /\ UNCHANGED vert
  /\ UNCHANGED <<amsVars, tries, mRunning, fd, run, ID, nativeVars, deaths>>

(* undeploy(null) may also throw, from Vert.x's ConcurrentHashMap: stopMe   *)
(* ends there, without stopSelf, and on the main thread the process ends.   *)
LauncherStopThrows(t) ==
  /\ pc[t] = "undeploy"
  /\ ID = 0 /\ \E r \in Run : vert[r] # "none"
  /\ IF t = "main"
     THEN deaths < MaxDeaths /\ Die /\ UNCHANGED <<starts>>
     ELSE /\ Goto(t, "idle")
          /\ raced' = raced \cup {r \in Run : vert[r] = "deploying"}
          /\ UNCHANGED <<amsVars, tries, mRunning, fd, vert, ID, deaths>>
  /\ UNCHANGED <<run, nativeVars>>

ClearID(t) ==
  /\ pc[t] = "clear_id"
  /\ ID' = 0
  /\ Goto(t, "stop_self")
  /\ UNCHANGED <<amsVars, tries, mRunning, fd, run, vert, raced, nativeVars, deaths>>

(* stopSelf: Android forgets the instance and queues its onDestroy; it      *)
(* ignores an instance it has forgotten already.                            *)
StopSelf(t) ==
  /\ pc[t] = "stop_self"
  /\ cur' = IF cur = inst[t] THEN 0 ELSE cur
  /\ queue' = IF cur = inst[t] THEN Append(queue, <<"destroy", cur>>) ELSE queue
  /\ Goto(t, "idle")
  /\ UNCHANGED <<starts, insts, bound, tries, mRunning, fd, run, launcherVars,
                 nativeVars, deaths>>

stopMe(t) == \/ \E d \in Daemon : Kill(t, d) \/ DeletePidFile(t, d)
             \/ CloseFd(t)
             \/ LauncherStop(t) \/ LauncherStopThrows(t) \/ ClearID(t) \/ StopSelf(t)

-----------------------------------------------------------------------------
(* Vert.x and tun2socks.                                                   *)

(* The callback of deployVerticle.                                          *)
Deployed(r) ==
  /\ vert[r] = "deploying"
  /\ vert' = [vert EXCEPT ![r] = "deployed"]
  /\ ID' = r
  /\ raced' = raced \cup {v \in Run : v = ID /\ vert[v] = "deployed"}
                    \cup (IF \E t \in Thread : pc[t] = "clear_id" THEN {r} ELSE {})
  /\ UNCHANGED <<amsVars, pc, inst, tries, mRunning, fd, run, nativeVars, deaths>>

DeployFails(r) ==
  /\ vert[r] = "deploying"
  /\ vert' = [vert EXCEPT ![r] = "gone"]
  /\ raced' = raced \ {r}
  /\ UNCHANGED <<amsVars, pc, inst, tries, mRunning, fd, run, ID, nativeVars, deaths>>

(* main up to listen: the signal handler is installed, sock_path bound.     *)
Listen(r) ==
  /\ proc["tun2socks"][r] = "boot"
  /\ \/ /\ proc' = [proc EXCEPT !["tun2socks"][r] = "wait"]
        /\ path' = r
        /\ UNCHANGED unread
     \/ /\ proc' = [proc EXCEPT !["tun2socks"][r] = "none"]
        /\ unread' = unread \ {<<"tun2socks", r>>}
        /\ UNCHANGED path
  /\ UNCHANGED <<amsVars, pc, inst, tries, mRunning, fd, run, launcherVars, term,
                 pidfile, got, deaths>>

(* A working daemon ends: its event loop sees the signal, or an error.  A    *)
(* tun2socks waiting for the descriptor is blocked in accept and does not.   *)
DaemonExits(d, r) ==
  /\ proc[d][r] = "run"
  /\ proc' = [proc EXCEPT ![d][r] = "none"]
  /\ term' = term \ {<<d, r>>} /\ unread' = unread \ {<<d, r>>}
  /\ UNCHANGED <<amsVars, pc, inst, tries, mRunning, fd, run, launcherVars,
                 pidfile, got, path, deaths>>

-----------------------------------------------------------------------------
MainStep == \/ MainEvent \/ configure \/ LauncherStart \/ ExecPdnsd \/ ExecTun2socks
            \/ sendfd \/ stopMe("main")

Quiescent == queue = <<>> /\ \A t \in Thread : pc[t] = "idle"

(* Everything that may happen has happened.                                 *)
Rest == starts = MaxStarts /\ Quiescent /\ UNCHANGED vars

Next == \/ startVpn \/ onBind \/ ProcessKilled \/ MainStep \/ Rest
        \/ \E b \in Binder : BinderStop(b) \/ onRevoke(b) \/ stopMe(b)
        \/ \E r \in Run : \/ Deployed(r) \/ DeployFails(r) \/ Listen(r)
                         \/ \E d \in Daemon : DaemonExits(d, r)

Spec == Init /\ [][Next]_vars

-----------------------------------------------------------------------------
(* Safety.                                                                 *)

(* An instance says that it is running only when a tun2socks received its    *)
(* descriptor, also after the process died and was restarted.                *)
RunningMeansServed ==
  \A i \in Instance : mRunning[i] => \E r \in Run : got[r] = i

(* A daemon that works and was not told to end. *)
Working(d) == {r \in Run : proc[d][r] = "run" /\ <<d, r>> \notin term}

(* Once the service is gone and nothing is under way, the descriptor is      *)
(* closed and every daemon is gone or was sent SIGTERM, however stopMe and    *)
(* onStartCommand were interleaved, with two exceptions: the service process *)
(* died, or a killPidFile deleted a pid file it had not read.  A tun2socks    *)
(* that never got a descriptor is not covered: it stays in accept.            *)
NoOrphanDaemon ==
  Quiescent /\ cur = 0 /\ deaths = 0 =>
    /\ \A i \in Instance : fd[i] # "open"
    /\ \A d \in Daemon : \A r \in Working(d) : <<d, r>> \in unread

(* A working daemon can still be stopped: its pid file names it, unless a    *)
(* killPidFile deleted the file unread, or the service process died and a     *)
(* later start replaced the file.  So while the process lives no start       *)
(* replaces the pid file of a daemon at work, and one tun2socks at most      *)
(* forwards packets; after a crash the newest start can still be stopped.    *)
DaemonNamed ==
  \A d \in Daemon : \A r \in Working(d) :
    \/ pidfile[d] = r
    \/ <<d, r>> \in unread
    \/ deaths > 0 /\ r < run

(* Every variable has its type, and every daemon at work can be stopped.     *)
DaemonsKnown == TypeOK /\ DaemonNamed

(* A verticle outlives the service only if Launcher.stop came between its    *)
(* deployment and the callback that sets ID, or the late callback of another *)
(* verticle overwrote ID: in every other order Launcher.stop undeploys it.   *)
VerticleLeakNeedsRace ==
  Quiescent /\ cur = 0 => \A r \in Run : vert[r] = "deployed" => r \in raced

(* mRunning says the truth of the handover.  An instance that says it is     *)
(* running had its descriptor received, and sendfd hands it to the tun2socks *)
(* that this start launched, or to one of an earlier start that was sent     *)
(* SIGTERM while it waited and is still bound to sock_path (or escaped it,   *)
(* see NoOrphanDaemon): such a one ends at once, and mRunning is set without *)
(* a tunnel.                                                                 *)
DescriptorServed ==
  [][ /\ RunningMeansServed'
      /\ \A r \in Run : got'[r] # got[r] =>
           \/ r = run
           \/ <<"tun2socks", r>> \in term \cup unread
           \/ deaths > 0 ]_vars
=============================================================================
