----------------------------- MODULE VpnSwitch -----------------------------
(***************************************************************************)
(* The switch of ProfileFragment.groovy that starts and stops the VPN, and  *)
(* shows whether it runs.                                                   *)
(*                                                                         *)
(* `sw' holds the fragment's fields and switch, what Android keeps for it    *)
(* (its binding to the service, callbacks on their way) and the service, in *)
(* its own process, as the fragment can tell it: not there, in              *)
(* onStartCommand, running, there but not running, or stopped half-way with *)
(* mRunning still set (SocksVpnService.stopMe ended by an exception, see    *)
(* VpnService).  A method of the fragment is an operator that returns the   *)
(* changed sw. The callbacks run one at a time on the UI thread; updateState *)
(* asks the service by a binder call and acts on the answer afterwards, and *)
(* the service may change in between: `answer' is what is not yet acted on.  *)
(***************************************************************************)
EXTENDS Naturals, Sequences

CONSTANT MaxNotes    \* bound: the service is lost only while fewer callbacks wait

ASSUME NotesAssumption == MaxNotes \in Nat

VARIABLES sw, answer

switchVars == <<sw, answer>>

ServiceState == {"none", "starting", "up", "idle", "half"}

(* The instance mBinder belongs to: none, the current one, or a former one   *)
(* that would say it runs, or would not (or its process is dead).            *)
ServiceBinder == {"null", "live", "old_up", "old_down"}

SwitchState ==
  [ checked : BOOLEAN, enabled : BOOLEAN, listener : BOOLEAN,
    mRunning : BOOLEAN, mStarting : BOOLEAN, mStopping : BOOLEAN,
    mBinder : ServiceBinder,
    bind : {"none", "pending", "bound"},     \* bindService calls
    notes : Seq({"live", "old_up", "old_down", "gone"}),
    svc : ServiceState,
    prepared : BOOLEAN,                      \* VpnService.prepare is null
    dialog : BOOLEAN,                        \* the consent dialog is open
    booted : BOOLEAN,                        \* BOOT_COMPLETED was sent
    wanted : BOOLEAN, unasked : BOOLEAN, lost : BOOLEAN ]     \* history

SwitchTypeOK == sw \in SwitchState /\ answer \in {"none", "yes", "no"}

-----------------------------------------------------------------------------
(* Android.                                                                 *)

(* The instance ends: its binders are old, and the fragment will be told.    *)
Ended(t, up) ==
  LET old == IF up THEN "old_up" ELSE "old_down"
      notes == [i \in DOMAIN t.notes |-> IF t.notes[i] = "live" THEN old ELSE t.notes[i]]
  IN  [t EXCEPT !.mBinder = IF @ = "live" THEN old ELSE @,
                !.notes = IF t.bind = "bound" THEN Append(notes, "gone") ELSE notes,
                !.bind = "none"]

(* A binding without BIND_AUTO_CREATE is connected once there is an instance. *)
Created(t) ==
  [t EXCEPT !.notes = IF t.bind = "pending" THEN Append(@, "live") ELSE @,
            !.bind = IF @ = "pending" THEN "bound" ELSE @]

bindService(t) ==
  CASE t.bind = "bound" -> t
    [] t.bind # "bound" /\ t.svc = "none" -> [t EXCEPT !.bind = "pending"]
    [] OTHER -> Created([t EXCEPT !.bind = "pending"])

unbindService(t) == [t EXCEPT !.bind = "none", !.notes = <<>>]

(* onStartCommand returns at once if the instance runs already.              *)
startService(t) ==
  CASE t.svc = "none" -> [Created(t) EXCEPT !.svc = "starting"]
    [] t.svc = "idle" -> [t EXCEPT !.svc = "starting"]
    [] OTHER -> t

IsRunning(t) == \/ t.mBinder = "live" /\ t.svc \in {"up", "half"}
                \/ t.mBinder = "old_up"

(* The instance of mBinder is stopped, all the way or half-way.               *)
StopInstance(t, half) ==
  IF t.mBinder # "live" THEN t
  ELSE IF half THEN [t EXCEPT !.svc = IF IsRunning(t) THEN "half" ELSE @]
  ELSE [Ended(t, IsRunning(t)) EXCEPT !.svc = "none"]

-----------------------------------------------------------------------------
(* The fragment's methods.                                                  *)

(* Mutant of checkState: the listener stays attached.                        *)
Mut_checkState_listening(t) ==
  LET u == [t EXCEPT !.mRunning = FALSE, !.enabled = FALSE]
  IN  IF u.mBinder = "null" THEN bindService(u) ELSE u

checkState(t) ==
  LET u == [t EXCEPT !.mRunning = FALSE, !.enabled = FALSE, !.listener = FALSE]
  IN  IF u.mBinder = "null" THEN bindService(u) ELSE u

(* Utility.startVpn and checkState, when consent was or is given.            *)
onActivityResult(t) == checkState(startService(t))

fragmentStartVpn(t) ==
  LET u == [t EXCEPT !.mStarting = TRUE]
  IN  IF u.prepared THEN onActivityResult(u) ELSE [u EXCEPT !.dialog = TRUE]

(* Mutant of stopVpn: mBinder is not cleared.                                *)
Mut_stopVpn_keeps(t, half) ==
  IF t.mBinder = "null" THEN t
  ELSE checkState(unbindService(StopInstance([t EXCEPT !.mStopping = TRUE], half)))

stopVpn(t, half) ==
  IF t.mBinder = "null" THEN t
  ELSE LET u == StopInstance([t EXCEPT !.mStopping = TRUE], half)
       IN  checkState(unbindService([u EXCEPT !.mBinder = "null"]))

(* Setting the switch calls the listener, if it is attached.                 *)
setChecked(t, v, half) ==
  LET u == [t EXCEPT !.checked = v]
  IN  IF t.checked = v \/ ~t.listener THEN u
      ELSE IF v THEN fragmentStartVpn(u) ELSE stopVpn(u, half)

(* Mutant of updateState: the end of a stop does not enable the switch.       *)
Mut_updateState_stopped(t, v, half) ==
  LET u == setChecked([t EXCEPT !.mRunning = v], v, half)
      settled == (~u.mStarting /\ ~u.mStopping) \/ (u.mStarting /\ u.mRunning)
  IN  [u EXCEPT !.enabled = @ \/ settled,
                !.mStarting = @ /\ ~u.mRunning,
                !.mStopping = FALSE,
                !.listener = TRUE]

(* updateState from the answer of isRunning on.                              *)
updateState(t, v, half) ==
  LET u == setChecked([t EXCEPT !.mRunning = v], v, half)
      settled == \/ ~u.mStarting /\ ~u.mStopping
                 \/ u.mStarting /\ u.mRunning
                 \/ u.mStopping /\ ~u.mRunning
  IN  [u EXCEPT !.enabled = @ \/ settled,
                !.mStarting = @ /\ ~u.mRunning,
                !.mStopping = @ /\ u.mRunning,
                !.listener = TRUE]

-----------------------------------------------------------------------------
(* onCreateOptionsMenu has run checkState, on a switch just inflated.         *)
SwitchInit ==
  /\ \E svc \in {"none", "up", "idle"}, prepared \in BOOLEAN :
       sw = checkState([ checked |-> FALSE, enabled |-> TRUE, listener |-> FALSE,
                         mRunning |-> FALSE, mStarting |-> FALSE, mStopping |-> FALSE,
                         mBinder |-> "null", bind |-> "none", notes |-> <<>>,
                         svc |-> svc, prepared |-> prepared \/ svc = "up", dialog |-> FALSE,
                         booted |-> svc # "none",
                         wanted |-> svc = "up", unasked |-> FALSE, lost |-> FALSE ])
  /\ answer = "none"

FewNotes == Len(sw.notes) < MaxNotes

Answer(t) == IF IsRunning(t) THEN "yes" ELSE "no"

(* mStateRunnable, every second: updateState asks the service ...            *)
Tick ==
  /\ answer = "none"
  /\ answer' = Answer(sw)
  /\ UNCHANGED sw

(* ... and acts on the answer.  `unasked' notes that this creates a VPN the  *)
(* user has not asked for.                                                    *)
UpdateState(half) ==
  /\ answer # "none"
  /\ LET t == updateState(sw, answer = "yes", half)
     IN  sw' = [t EXCEPT !.unasked = @ \/ (t.svc = "starting" /\ sw.svc # "starting"
                                          /\ ~sw.wanted)]
  /\ answer' = "none"

(* The user presses the switch.                                              *)
Press(half) ==
  /\ answer = "none" /\ sw.enabled /\ ~sw.dialog
  /\ sw' = setChecked([sw EXCEPT !.wanted = ~sw.checked], ~sw.checked, half)
  /\ UNCHANGED answer

(* The consent dialog is answered; refused, nothing is done.                  *)
Consent(ok) ==
  /\ answer = "none" /\ sw.dialog
  /\ sw' = IF ok THEN onActivityResult([sw EXCEPT !.dialog = FALSE, !.prepared = TRUE])
           ELSE [sw EXCEPT !.dialog = FALSE]
  /\ UNCHANGED answer

(* onServiceConnected and onServiceDisconnected.                              *)
Note ==
  /\ answer = "none" /\ sw.notes # <<>>
  /\ LET n == Head(sw.notes)
         t == [sw EXCEPT !.notes = Tail(@)]
         u == [t EXCEPT !.mBinder = n]
         v == [u EXCEPT !.mRunning = IsRunning(u)]
     IN  \/ /\ n = "gone"
            /\ sw' = [t EXCEPT !.mBinder = "null"]
            /\ UNCHANGED answer
         \/ /\ n # "gone"
            /\ sw' = v
            /\ answer' = IF v.mRunning THEN Answer(v) ELSE "none"

(* BootReceiver.onReceive, with the profile set to connect by itself.         *)
Boot ==
  /\ sw.prepared /\ ~sw.booted
  /\ sw' = [startService(sw) EXCEPT !.wanted = TRUE, !.booted = TRUE]
  /\ UNCHANGED answer

(* onStartCommand ends: running; failed, and stopped; or without an interface. *)
SvcUp == /\ sw.svc = "starting"
         /\ sw' = [sw EXCEPT !.svc = "up"]
         /\ UNCHANGED answer

SvcFails == /\ sw.svc = "starting"
            /\ \E svc \in {"none", "idle"} :
                 /\ svc = "none" => FewNotes
                 /\ sw' = [(IF svc = "none" THEN Ended(sw, FALSE) ELSE sw) EXCEPT !.svc = svc]
            /\ UNCHANGED answer

(* onRevoke: another VPN was started.                                         *)
Revoke(half) ==
  /\ sw.svc = "up" /\ FewNotes
  /\ sw' = [(IF half THEN sw ELSE Ended(sw, TRUE)) EXCEPT
             !.svc = IF half THEN "half" ELSE "none",
             !.prepared = FALSE, !.lost = TRUE]
  /\ UNCHANGED answer

(* The service's process dies; START_STICKY brings back an instance that does *)
(* nothing, and the binding with it.                                          *)
Dies ==
  /\ sw.svc \in {"up", "half"} /\ FewNotes
  /\ sw' = LET t == Ended(sw, FALSE)
           IN  [t EXCEPT !.svc = "idle", !.lost = TRUE,
                         !.bind = sw.bind,
                         !.notes = IF sw.bind = "bound" THEN Append(@, "live") ELSE @]
  /\ UNCHANGED answer

SwitchNext == \/ Tick \/ Note \/ Boot \/ SvcUp \/ SvcFails \/ Dies
              \/ \E half \in BOOLEAN : UpdateState(half) \/ Press(half) \/ Revoke(half)
              \/ \E ok \in BOOLEAN : Consent(ok)

SwitchSpec == SwitchInit /\ [][SwitchNext]_switchVars

SwitchFairness ==
  /\ WF_switchVars(Tick) /\ WF_switchVars(\E half \in BOOLEAN : UpdateState(half))
  /\ WF_switchVars(SvcUp \/ SvcFails) /\ SF_switchVars(Note)

FairSpec == SwitchSpec /\ SwitchFairness

-----------------------------------------------------------------------------
(* A switch the user can press has its listener: checkState takes both away,  *)
(* and only updateState gives them back.                                      *)
PressHeard == sw.enabled => sw.listener

(* After the user switched off, the fragment does not start the VPN by itself:  *)
(* when updateState sets the switch (line 329) its listener is attached, so    *)
(* that showing a running VPN is taken for a press.  That takes an instance    *)
(* that was lost (revoked, or its process killed) while the answer of its      *)
(* binder was under way, or whose binder still says it runs; one stopped        *)
(* half-way is not enough, for its onStartCommand returns at once.             *)
UserStopHolds == sw.unasked => sw.lost

(* In the other direction: updateState showing "not running" is taken for a    *)
(* press too, and never stops a service that starts or runs, unless the VPN    *)
(* was lost before.                                                           *)
EchoNeverStops ==
  [][answer # "none" /\ answer' = "none" /\ sw.svc \in {"starting", "up"} /\ ~sw.lost
       => sw'.svc = sw.svc]_switchVars

(* The fragment is connected, or about to be told so, only while it is bound to *)
(* an instance that is there, and a binding waits only for want of one.         *)
BindingAgrees ==
  /\ sw.bind = "pending" => sw.svc = "none"
  /\ sw.bind = "bound" => sw.svc # "none"
  /\ sw.mBinder = "live" => sw.bind = "bound"
  /\ \A i \in DOMAIN sw.notes : sw.notes[i] = "live" => sw.bind = "bound"
  /\ Len(sw.notes) <= MaxNotes + (IF sw.bind = "bound" THEN 1 ELSE 0)

(* A service only starts and runs with consent, and the dialog asks for it only *)
(* while there is none.                                                        *)
ConsentAgrees ==
  /\ sw.svc \in {"starting", "up"} => sw.prepared
  /\ sw.dialog => ~sw.prepared

(* Before the VPN was lost, no binder of a former instance says it runs, an     *)
(* answer not yet acted on is about the instance that is there, and a switch    *)
(* shown on with its listener attached stands for a VPN that runs, or for a     *)
(* start that waits for consent or was refused it.                              *)
SwitchAgrees ==
  ~sw.lost =>
    /\ sw.mBinder # "old_up"
    /\ \A i \in DOMAIN sw.notes : sw.notes[i] # "old_up"
    /\ answer = "yes" => sw.mBinder = "live" /\ sw.svc \in {"up", "half"}
    /\ sw.checked /\ sw.listener => sw.svc \in {"up", "half"} \/ ~sw.prepared
    /\ answer = "no" /\ sw.checked /\ sw.listener /\ sw.mBinder = "live" => sw.svc # "up"

(* The inductive invariant.                                                     *)
SwitchIInv == /\ SwitchTypeOK /\ BindingAgrees /\ ConsentAgrees /\ SwitchAgrees
              /\ PressHeard /\ UserStopHolds

(* Setting the switch from the program is heard by its own listener, and does    *)
(* no harm but in the cases UserStopHolds and EchoNeverStops name; and no press  *)
(* of the user goes unheard.                                                     *)
EchoHarmless ==
  /\ [](SwitchTypeOK /\ BindingAgrees /\ ConsentAgrees /\ SwitchAgrees
          /\ PressHeard /\ UserStopHolds)
  /\ EchoNeverStops

(* A disabled switch comes back after a stop, if the VPN stays off, and after   *)
(* a start that succeeds, if the fragment is bound to the service.  A start     *)
(* that fails leaves mStarting set and the switch disabled (line 331).          *)
SwitchComesBack ==
  /\ sw.mStopping /\ sw.svc = "none" ~> sw.enabled \/ sw.svc # "none"
  /\ sw.mStarting /\ sw.svc = "up" /\ sw.bind = "bound" ~> sw.enabled \/ sw.svc # "up"

(* The switch comes to show a VPN that stays up, once bound to it, and does not *)
(* go on showing one that is gone, whatever was revoked, killed or stopped      *)
(* half-way before.                                                           *)
StateShown ==
  /\ <>[](sw.svc = "up" /\ sw.bind = "bound") => <>[]sw.checked
  /\ <>[](sw.svc = "none") => []<>~sw.checked
=============================================================================
