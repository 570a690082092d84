------------------------------ MODULE ModeCtl ------------------------------
(***************************************************************************)
(* The three modes of the device and the switch of the probe: the main     *)
(* thread's state machine (__process of application/source/main.c), which  *)
(* a long press of KEY moves from USB to WiFi STA to WiFi AP and back, the *)
(* keys it reads (KeyScan), the jlink_ctl thread that runs the J-Link      *)
(* server and turns the USB switch (application/source/jlink_ctl.c), and   *)
(* what they leave in the configuration for wifi_ctl and the next start.   *)
(*                                                                         *)
(* main enters a mode in several steps, between which time passes (each    *)
(* save syncs the file system) and jlink_ctl runs.  wifi_ctl is the        *)
(* one step it promises: take the flag, go by the saved mode (WifiCtl).    *)
(***************************************************************************)
EXTENDS KeyScan

CONSTANTS
  Key, Power,   \* the two keys
  WaitTime,     \* 500 ms in state WAIT
  RetryTime,    \* 5000 ms in state WAIT of jlink_ctl
  MaxFaults,    \* bound: failed forks and servers that die
  MaxRestarts   \* bound: power losses, power-offs, crashes of the program

ASSUME ModeAssumption ==
  /\ Keys = {Key, Power} /\ Key # Power
  /\ WaitTime \in Nat \ {0} /\ RetryTime \in Nat \ {0}
  /\ MaxFaults \in Nat /\ MaxRestarts \in Nat

Modes == {"USB", "STA", "AP"}
WifiOf(m) == IF m \in {"STA", "AP"} THEN m ELSE "DISABLE"

VARIABLES
  state,      \* __g_state
  entered,    \* s_state_init
  next,       \* s_state_next
  waited,     \* systick - s_state_tick
  change,     \* mode_is_change of the current pass
  pc,         \* where main is in a pass: "tick", "set_mode", .., "key"
  stateLast,  \* main/state_last in the configuration store
  wifiMode,   \* wifi/mode in the configuration store
  wifiFlag,   \* __g_cfg_update of wifi_ctl
  wifi,       \* __g_wifi_mode of wifi_ctl
  isRun,      \* __g_is_run of jlink_ctl
  jstate,     \* s_state of jlink_ctl
  jpc,        \* where jlink_ctl is in a pass
  jwaited,    \* systick - s_tick of jlink_ctl
  servers,    \* J-Link server processes that process_num_get finds
  forked,     \* children of process_exec that have not called execl yet
  probe,      \* USB switch: the J-Link is wired to the "usb" socket or the "mpu"
  spent,      \* history: the present press of KEY has changed the mode
  faults, restarts

mainVars  == <<state, entered, next, waited, change, pc>>
store     == <<stateLast, wifiMode>>
wifiVars  == <<wifiFlag, wifi>>
jlinkVars == <<jstate, jpc, jwaited, servers, forked, probe>>
vars == <<keyVars, mainVars, store, wifiVars, isRun, jlinkVars, spent, faults, restarts>>

-----------------------------------------------------------------------------
(* __process of main.c.                                                    *)

\* Mutant: AP is followed by STA.
SuccSkipsUsb(m) == CASE m = "USB" -> "STA" [] m = "STA" -> "AP" [] m = "AP" -> "STA"

\* Mutant: the next value of enum main_state, which after AP is WAIT.
SuccInEnum(m) == CASE m = "USB" -> "STA" [] m = "STA" -> "AP" [] m = "AP" -> "WAIT"

\* s_state_next of each mode.
Succ(m) == CASE m = "USB" -> "STA" [] m = "STA" -> "AP" [] m = "AP" -> "USB"

\* The start of a pass: the events of both keys are read and cleared.
Pass ==
  /\ pc = "tick" /\ ~Pending(Power, "long_press")
  /\ KeyInfoGet

ProcessNoInit ==
  /\ Pass /\ state = "NO_INIT"
  /\ state' = IF stateLast = "NO_INIT" THEN "USB" ELSE stateLast
  /\ entered' = FALSE
  /\ change' = Pending(Key, "long_press")
  /\ pc' = "key"
  /\ UNCHANGED <<next, waited, store, wifiVars, isRun, jlinkVars, spent, faults, restarts>>

\* Mutant: jlink_ctl is told to run in every mode.
ProcessEnterRuns ==
  /\ Pass /\ state \in Modes /\ ~entered
  /\ entered' = TRUE
  /\ isRun' = TRUE
  /\ change' = Pending(Key, "long_press")
  /\ pc' = "set_mode"
  /\ UNCHANGED <<state, next, waited, store, wifiVars, jlinkVars, spent, faults, restarts>>

\* The first pass in a mode: jlink_ctl_run_set, then ...
ProcessEnter ==
  /\ Pass /\ state \in Modes /\ ~entered
  /\ entered' = TRUE
  /\ isRun' = (state # "USB")
  /\ change' = Pending(Key, "long_press")
  /\ pc' = "set_mode"
  /\ UNCHANGED <<state, next, waited, store, wifiVars, jlinkVars, spent, faults, restarts>>

\* ... cfg_int_set("wifi", "mode", ..) ...
SetMode ==
  /\ pc = "set_mode"
  /\ wifiMode' = WifiOf(state)
  /\ pc' = "flag"
  /\ UNCHANGED <<keyVars, state, entered, next, waited, change, stateLast, wifiVars,
                 isRun, jlinkVars, spent, faults, restarts>>

\* Mutant: wifi_ctl_cfg_update is forgotten.
RaiseFlagNot ==
  /\ pc = "flag"
  /\ pc' = "set_last"
  /\ UNCHANGED <<keyVars, state, entered, next, waited, change, store, wifiVars,
                 isRun, jlinkVars, spent, faults, restarts>>

\* ... wifi_ctl_cfg_update ...
RaiseFlag ==
  /\ pc = "flag"
  /\ wifiFlag' = TRUE
  /\ pc' = "set_last"
  /\ UNCHANGED <<keyVars, state, entered, next, waited, change, store, wifi,
                 isRun, jlinkVars, spent, faults, restarts>>

\* if (mode_is_change), with longPress as its value.
ModeChange(longPress) ==
  /\ IF longPress
     THEN /\ entered' = FALSE /\ next' = Succ(state) /\ state' = "WAIT"
          /\ spent' = TRUE
     ELSE UNCHANGED <<entered, next, state, spent>>
  /\ pc' = "key"
  /\ UNCHANGED <<waited, wifiMode, wifiVars, isRun, jlinkVars, faults, restarts>>

\* ... cfg_int_set("main", "state_last", ..), and the rest of the pass.
SetLast ==
  /\ pc = "set_last"
  /\ stateLast' = state
  /\ ModeChange(change)
  /\ UNCHANGED <<keyVars, change>>

ProcessMode ==
  /\ Pass /\ state \in Modes /\ entered
  /\ change' = Pending(Key, "long_press")
  /\ ModeChange(change')
  /\ UNCHANGED stateLast

\* Mutant: the wait lasts one unit more.
WaitOverLate(age) == age > WaitTime

WaitOver(age) == age >= WaitTime

\* State WAIT does not look at mode_is_change.
ProcessWait ==
  /\ Pass /\ state = "WAIT"
  /\ IF WaitOver(waited)
     THEN state' = next /\ entered' = FALSE /\ waited' = 0
     ELSE state' = state /\ entered' = TRUE /\ UNCHANGED waited
  /\ change' = Pending(Key, "long_press")
  /\ pc' = "key"
  /\ UNCHANGED <<next, store, wifiVars, isRun, jlinkVars, spent, faults, restarts>>

\* The end of a pass of the main loop: key_process.
KeyPass ==
  /\ pc = "key"
  /\ KeyProcess
  /\ change' = FALSE
  /\ spent' = (spent /\ ~(info[Key].state = "release" /\ info'[Key].state = "press"))
  /\ pc' = "tick"
  /\ UNCHANGED <<state, entered, next, waited, store, wifiVars, isRun, jlinkVars,
                 faults, restarts>>

-----------------------------------------------------------------------------
(* __process of jlink_ctl.c.                                               *)

other == <<keyVars, mainVars, store, wifiVars, isRun, spent, restarts>>

\* IDLE: nothing to do until is_run; s_tick is read before the kill.  A child
\* has called execl by the second pass after its fork (a timing assumption: the
\* passes are 10 ms apart).
JlinkIdle ==
  /\ jpc = "tick" /\ jstate = "IDLE" /\ isRun /\ forked = 0
  /\ jpc' = "kill_old"
  /\ jwaited' = 0
  /\ UNCHANGED <<other, jstate, servers, forked, probe, faults>>

\* Mutant: what may be left of an earlier start is not killed.
JlinkKillOldNot ==
  /\ jpc = "kill_old"
  /\ jpc' = "exec"
  /\ UNCHANGED <<other, jstate, jwaited, servers, forked, probe, faults>>

\* __jlink_process_kill: until no process matches.
JlinkKillOld ==
  /\ jpc = "kill_old"
  /\ servers' = 0
  /\ jpc' = "exec"
  /\ UNCHANGED <<other, jstate, jwaited, forked, probe, faults>>

\* process_exec: fork; the child has this program's name until it calls execl.
JlinkExec ==
  /\ jpc = "exec"
  /\ forked' = forked + 1
  /\ jpc' = "switch"
  /\ UNCHANGED <<other, jstate, jwaited, servers, probe, faults>>

JlinkExecFails ==
  /\ jpc = "exec" /\ faults < MaxFaults
  /\ faults' = faults + 1
  /\ jstate' = "WAIT" /\ jpc' = "tick"
  /\ UNCHANGED <<other, jwaited, servers, forked, probe>>

JlinkSwitch ==
  /\ jpc = "switch"
  /\ probe' = "mpu" /\ jstate' = "RUN" /\ jpc' = "tick"
  /\ jwaited' = 0
  /\ UNCHANGED <<other, servers, forked, faults>>

\* RUN, told to stop: kill the server, then give the probe back.
JlinkStop ==
  /\ jpc = "tick" /\ jstate = "RUN" /\ ~isRun
  /\ jpc' = "kill"
  /\ UNCHANGED <<other, jstate, jwaited, servers, forked, probe, faults>>

JlinkKill ==
  /\ jpc = "kill"
  /\ servers' = 0
  /\ jpc' = "unswitch"
  /\ UNCHANGED <<other, jstate, jwaited, forked, probe, faults>>

\* Mutant: the probe stays with the MPU.
JlinkUnswitchNot ==
  /\ jpc = "unswitch"
  /\ jstate' = "IDLE" /\ jpc' = "tick"
  /\ UNCHANGED <<other, jwaited, servers, forked, probe, faults>>

JlinkUnswitch ==
  /\ jpc = "unswitch"
  /\ probe' = "usb" /\ jstate' = "IDLE" /\ jpc' = "tick"
  /\ UNCHANGED <<other, jwaited, servers, forked, faults>>

JlinkWait ==
  /\ jpc = "tick" /\ jstate = "WAIT" /\ jwaited >= RetryTime
  /\ jstate' = "IDLE"
  /\ jwaited' = 0
  /\ UNCHANGED <<other, jpc, servers, forked, probe, faults>>

-----------------------------------------------------------------------------
(* The surroundings.                                                       *)

\* The child calls execl and becomes the server.
ServerStarts ==
  /\ forked > 0
  /\ forked' = forked - 1 /\ servers' = servers + 1
  /\ UNCHANGED <<other, jstate, jpc, jwaited, probe, faults>>

\* A server ends by itself; jlink_ctl does not notice.
ServerDies ==
  /\ servers > 0 /\ faults < MaxFaults
  /\ servers' = servers - 1 /\ faults' = faults + 1
  /\ UNCHANGED <<other, jstate, jpc, jwaited, forked, probe>>

\* The wifi_ctl thread takes a request (WifiCtl, in one step).
WifiTakes ==
  /\ wifiFlag
  /\ wifiFlag' = FALSE /\ wifi' = wifiMode
  /\ UNCHANGED <<keyVars, mainVars, store, isRun, jlinkVars, spent, faults, restarts>>

\* Time passes while main saves, or waits for its timer with nothing to do,
\* and while jlink_ctl has nothing to do or kills a server that takes its time:
\* a kill that finds none ends at once.  The rest of a pass, and a child's way
\* from fork to execl, is short against 500 ms.
MainRests ==
  /\ pc = "tick"
  /\ entered /\ (state = "WAIT" => ~WaitOver(waited))
  /\ \A k \in Keys : queue[k] = <<>> /\ ~Pending(k, "long_press")

JlinkRests ==
  /\ jpc = "tick"
  /\ CASE jstate = "IDLE" -> ~isRun
       [] jstate = "RUN"  -> isRun
       [] jstate = "WAIT" -> jwaited < RetryTime

Elapse ==
  /\ pc \in {"set_mode", "set_last"} \/ MainRests
  /\ (jpc \in {"kill_old", "kill"} /\ servers > 0) \/ JlinkRests
  /\ forked = 0
  /\ KeyTime
  /\ waited' = IF state = "WAIT" /\ entered THEN Longer(waited, WaitTime) ELSE 0
  /\ jwaited' = IF jstate = "WAIT" \/ jpc = "kill_old" THEN Longer(jwaited, RetryTime) ELSE 0
  /\ UNCHANGED <<held, queue, presses, state, entered, next, change, pc, store,
                 wifiVars, isRun, jstate, jpc, servers, forked, probe, spent, faults, restarts>>

\* The program starts: jlink_ctl_init gives the probe to the USB socket,
\* wifi_ctl_init reads the saved mode.
Start(left, fingers) ==
  /\ KeyStart(fingers)
  /\ state' = "NO_INIT" /\ entered' = FALSE /\ next' = "NO_INIT" /\ waited' = 0
  /\ change' = FALSE /\ pc' = "tick" /\ spent' = FALSE
  /\ wifiFlag' = FALSE /\ wifi' = wifiMode /\ isRun' = FALSE
  /\ jstate' = "IDLE" /\ jpc' = "tick" /\ jwaited' = 0
  /\ servers' = left /\ forked' = 0 /\ probe' = "usb"
  /\ UNCHANGED <<store, faults>>

\* Power lost, or switched off by a long press of POWER, or the program killed
\* and started again by start_jlink.sh, which leaves its servers running; a
\* finger may stay on its key.
Restart ==
  /\ restarts < MaxRestarts
  /\ restarts' = restarts + 1
  /\ \E fingers \in {held, Untouched} :
        Start(0, fingers) \/ Start(servers + forked, fingers)

\* poweroff -f; the device starts again when somebody switches it on.
PowerOff ==
  /\ pc = "tick" /\ Pending(Power, "long_press")
  /\ Start(0, Untouched)
  /\ UNCHANGED restarts

-----------------------------------------------------------------------------
Init ==
  /\ KeyInit
  /\ state = "NO_INIT" /\ entered = FALSE /\ next = "NO_INIT" /\ waited = 0
  /\ change = FALSE /\ pc = "tick"
  /\ stateLast \in Modes \union {"NO_INIT"} /\ wifiMode = WifiOf(stateLast)
  /\ wifiFlag = FALSE /\ wifi = wifiMode
  /\ isRun = FALSE /\ jstate = "IDLE" /\ jpc = "tick" /\ jwaited = 0
  /\ servers = 0 /\ forked = 0 /\ probe = "usb"
  /\ spent = FALSE /\ faults = 0 /\ restarts = 0

MainStep ==
  \/ ProcessNoInit \/ ProcessEnter \/ SetMode \/ RaiseFlag \/ SetLast
  \/ ProcessMode \/ ProcessWait \/ KeyPass \/ PowerOff

JlinkStep ==
  \/ JlinkIdle \/ JlinkKillOld \/ JlinkExec \/ JlinkSwitch
  \/ JlinkStop \/ JlinkKill \/ JlinkUnswitch \/ JlinkWait

FingerStep ==
  /\ Finger
  /\ UNCHANGED <<mainVars, store, wifiVars, isRun, jlinkVars, spent, faults, restarts>>

Next ==
  \/ MainStep \/ JlinkStep \/ JlinkExecFails
  \/ ServerStarts \/ ServerDies \/ WifiTakes
  \/ Elapse \/ FingerStep \/ Restart

Spec == Init /\ [][Next]_vars

\* Both threads run on their timers, a child that was forked comes to run,
\* wifi_ctl takes its requests and time goes on; nothing is promised of the
\* user, of faults or of the power.
FairSpec ==
  /\ Spec
  /\ WF_vars(MainStep) /\ WF_vars(JlinkStep) /\ WF_vars(ServerStarts)
  /\ WF_vars(WifiTakes) /\ SF_vars(Elapse)

-----------------------------------------------------------------------------
(* Properties.                                                             *)

TypeOK ==
  /\ KeyTypeOK
  /\ state \in Modes \union {"NO_INIT", "WAIT"} /\ next \in Modes \union {"NO_INIT"}
  /\ entered \in BOOLEAN /\ change \in BOOLEAN /\ isRun \in BOOLEAN /\ spent \in BOOLEAN
  /\ waited \in 0 .. WaitTime /\ jwaited \in 0 .. RetryTime
  /\ pc \in {"tick", "set_mode", "flag", "set_last", "key"}
  /\ stateLast \in Modes \union {"NO_INIT"}
  /\ wifiMode \in {"DISABLE", "STA", "AP"} /\ wifi \in {"DISABLE", "STA", "AP"}
  /\ wifiFlag \in BOOLEAN
  /\ jstate \in {"IDLE", "RUN", "WAIT"}
  /\ jpc \in {"tick", "kill_old", "exec", "switch", "kill", "unswitch"}
  /\ servers \in Nat /\ forked \in Nat /\ probe \in {"usb", "mpu"}
  /\ faults \in Nat /\ restarts \in Nat

\* A long press is never dropped: state WAIT and the first pass after a start
\* ignore it, but none can be read there, because WAIT is shorter than the
\* threshold of a press that begins in it.
PressNeverIgnored == pc = "tick" /\ Pending(Key, "long_press") => state \in Modes

\* One press of KEY changes the mode once, however long it is held and
\* whatever main does meanwhile.
OneChangePerPress ==
  [][(state \in Modes /\ state' = "WAIT") => ~spent]_vars

\* The modes follow one another as the README says, also across a restart:
\* what follows WAIT is the successor of the mode that is saved for the next start.
Cycle == {<<"USB", "STA">>, <<"STA", "AP">>, <<"AP", "USB">>}
CycleOrder ==
  [][(state = "WAIT" /\ state' \in Modes) => <<stateLast, state'>> \in Cycle]_vars

\* At most one J-Link server at any time, whatever was left running by an
\* earlier start of the program.
OneServer == servers + forked <= 1

\* When presses, faults and restarts stop, everything agrees with the mode: the
\* configuration, wifi_ctl, jlink_ctl and the USB switch.
Agreed ==
  /\ state \in Modes
  /\ stateLast = state /\ wifiMode = WifiOf(state) /\ wifi = wifiMode
  /\ isRun = (state # "USB")
  /\ jstate = (IF isRun THEN "RUN" ELSE "IDLE") /\ probe = (IF isRun THEN "mpu" ELSE "usb")
Settles == <>[]Agreed

\* __g_is_run says whether the J-Link process runs (jlink_ctl.c:75): once it is
\* false no server goes on running.
ServerStops == (~isRun /\ servers > 0) ~> (isRun \/ servers = 0)

=============================================================================
