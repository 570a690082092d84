------------------------------ MODULE WifiCtl ------------------------------
(***************************************************************************)
(* The wifi_ctl thread (application/source/wifi_ctl.c) and those who ask   *)
(* it for a new configuration: the main thread, which saves wifi/mode when *)
(* it enters a state, and the web thread, which saves wifi/sta_ssid and    *)
(* wifi/sta_password.  A request is a volatile flag and nothing else: the  *)
(* requester saves its keys one call at a time and then raises the flag;   *)
(* the thread clears the flag, reads the keys one call at a time, kills    *)
(* the four daemons and starts those of the new mode.                      *)
(*                                                                         *)
(* A cfg_*_get or cfg_*_set is one step here: CfgStore shows that readers  *)
(* see whole files and that no save is lost to another.  An SSID or a      *)
(* password is the number of the save that wrote it.  The daemons answer   *)
(* on their control socket whenever they run.                              *)
(***************************************************************************)
EXTENDS Integers

CONSTANTS
  Stubborn,   \* daemons that may outlive a 10 s process_kill (stuck in the driver)
  MaxEntries, \* bound: states main enters after the first
  MaxSaves,   \* bound: saves from the web page
  MaxFaults   \* bound: daemons that die, daemons that fail to start

Modes   == {"DISABLE", "STA", "AP"}
Daemons == {"wpa_supplicant", "udhcpc", "hostapd", "dnsmasq"}
Settings == [mode : Modes, ssid : Nat, psk : Nat]

ASSUME WifiAssumption ==
  /\ Stubborn \subseteq Daemons
  /\ MaxEntries \in Nat /\ MaxSaves \in Nat /\ MaxFaults \in Nat

VARIABLES
  cfg,        \* Settings in the configuration store
  cfgUpdate,  \* __g_cfg_update of wifi_ctl.c
  main,       \* main thread entering a state: "set", "flag", else "idle"
  web,        \* web thread serving /save1.html: "psk", "flag", else "idle"
  pc,         \* stage of the wifi_ctl thread
  wifi,       \* Settings in __g_wifi_mode, __g_sta_ssid, __g_sta_password
  alive,      \* SUBSET Daemons: processes that run
  radio,      \* rfkill state: TRUE = powered
  net,        \* <<ssid, psk>> wpa_supplicant was given, or NoNet
  link,       \* wpa_state=COMPLETED in wpa_supplicant
  address,    \* wlan0 has an IP address
  staState,   \* __g_sta_state: 0 connected, -1 not
  staIp,      \* __g_sta_ip_addr # INADDR_NONE
  entries, saves, faults    \* what the bounds count

NoNet == <<>>

request == <<cfg, main, web, entries, saves>>
device  == <<alive, radio, net, link, address>>
status  == <<staState, staIp>>
vars == <<cfg, cfgUpdate, main, web, pc, wifi, alive, radio, net, link, address,
          staState, staIp, entries, saves, faults>>

Reading == {"read_mode", "read_ssid", "read_psk"}
Killing == {"kill_wpa", "kill_udhcpc", "kill_hostapd", "kill_dnsmasq"}
Stages  == {"wait", "deinit", "netif", "start", "sta_init", "sta_addr",
            "ap_init", "status"} \union Reading \union Killing

Killed(d) == alive \ {d}

-----------------------------------------------------------------------------
(* The requesters.                                                         *)

\* main.c, first pass in a state: cfg_int_set("wifi", "mode", m) ...
MainSetMode ==
  /\ main = "set"
  /\ \E m \in Modes : cfg' = [cfg EXCEPT !.mode = m]
  /\ main' = "flag"
  /\ UNCHANGED <<cfgUpdate, web, pc, wifi, device, status, entries, saves, faults>>

\* ... then wifi_ctl_cfg_update().
MainRaiseFlag ==
  /\ main = "flag"
  /\ cfgUpdate' = TRUE
  /\ main' = "idle"
  /\ UNCHANGED <<cfg, web, pc, wifi, device, status, entries, saves, faults>>

\* A long press of KEY moves main to another state.
MainEnter ==
  /\ main = "idle" /\ entries < MaxEntries
  /\ main' = "set"
  /\ entries' = entries + 1
  /\ UNCHANGED <<cfg, cfgUpdate, web, pc, wifi, device, status, saves, faults>>

\* __req_process on POST /save1.html: T0, T1, then wifi_ctl_cfg_update().
WebSaveSsid ==
  /\ web = "idle" /\ saves < MaxSaves
  /\ saves' = saves + 1
  /\ cfg' = [cfg EXCEPT !.ssid = saves']
  /\ web' = "psk"
  /\ UNCHANGED <<cfgUpdate, main, pc, wifi, device, status, entries, faults>>

WebSavePsk ==
  /\ web = "psk"
  /\ cfg' = [cfg EXCEPT !.psk = saves]
  /\ web' = "flag"
  /\ UNCHANGED <<cfgUpdate, main, pc, wifi, device, status, entries, saves, faults>>

WebRaiseFlag ==
  /\ web = "flag"
  /\ cfgUpdate' = TRUE
  /\ web' = "idle"
  /\ UNCHANGED <<cfg, main, pc, wifi, device, status, entries, saves, faults>>

-----------------------------------------------------------------------------
(* The wifi_ctl thread.                                                    *)

\* Mutant: the flag stays up until the configuration has been read.
TickKeepFlag ==
  /\ pc = "wait"
  /\ pc' = IF cfgUpdate THEN "deinit" ELSE "status"
  /\ UNCHANGED <<cfgUpdate, request, wifi, device, status, faults>>

\* Timer tick: a raised flag is cleared before anything else is done.
Tick ==
  /\ pc = "wait"
  /\ cfgUpdate' = FALSE
  /\ pc' = IF cfgUpdate THEN "deinit" ELSE "status"
  /\ UNCHANGED <<request, wifi, device, status, faults>>

\* __sta_deinit sends DISCONNECT, __ap_deinit sends DISABLE, to the old mode.
Deinit ==
  /\ pc = "deinit"
  /\ link' = (link /\ wifi.mode # "STA")
  /\ pc' = "read_mode"
  /\ UNCHANGED <<request, cfgUpdate, wifi, alive, radio, net, address, status, faults>>

\* __cfg_read: the keys in this order, each under its own lock.
ReadMode ==
  /\ pc = "read_mode"
  /\ wifi' = [wifi EXCEPT !.mode = cfg.mode]
  /\ pc' = "read_ssid"
  /\ UNCHANGED <<request, cfgUpdate, device, status, faults>>

ReadSsid ==
  /\ pc = "read_ssid"
  /\ wifi' = [wifi EXCEPT !.ssid = cfg.ssid]
  /\ pc' = "read_psk"
  /\ UNCHANGED <<request, cfgUpdate, device, status, faults>>

\* Mutant: the flag is cleared once the configuration has been read.
ReadPskThenClear ==
  /\ pc = "read_psk"
  /\ wifi' = [wifi EXCEPT !.psk = cfg.psk]
  /\ cfgUpdate' = FALSE
  /\ pc' = "kill_wpa"
  /\ UNCHANGED <<request, device, status, faults>>

ReadPsk ==
  /\ pc = "read_psk"
  /\ wifi' = [wifi EXCEPT !.psk = cfg.psk]
  /\ pc' = "kill_wpa"
  /\ UNCHANGED <<request, cfgUpdate, device, status, faults>>

\* process_kill(d, 10000): SIGTERM, later SIGKILL, until no process matches or
\* the time is up.  It returns 0 in both cases (err is never set), so that the
\* reboot its four callers hold ready for a failure never happens.
Kill(d, here, next) ==
  /\ pc = here
  /\ \/ alive' = Killed(d)
     \/ d \in Stubborn \cap alive /\ alive' = alive
  /\ net'  = IF "wpa_supplicant" \in alive' THEN net ELSE NoNet
  /\ link' = (link /\ "wpa_supplicant" \in alive')
  /\ pc' = next
  /\ UNCHANGED <<request, cfgUpdate, wifi, radio, address, status, faults>>

\* Mutant: hostapd is missing from the daemons killed on a mode change.
KillDaemonsNoHostapd ==
  \/ Kill("wpa_supplicant", "kill_wpa", "kill_udhcpc")
  \/ Kill("udhcpc", "kill_udhcpc", "kill_dnsmasq")
  \/ Kill("dnsmasq", "kill_dnsmasq", "netif")

KillDaemons ==
  \/ Kill("wpa_supplicant", "kill_wpa", "kill_udhcpc")
  \/ Kill("udhcpc", "kill_udhcpc", "kill_hostapd")
  \/ Kill("hostapd", "kill_hostapd", "kill_dnsmasq")
  \/ Kill("dnsmasq", "kill_dnsmasq", "netif")

\* ip addr flush, link down, link up.
NetRestart ==
  /\ pc = "netif"
  /\ address' = FALSE
  /\ pc' = "start"
  /\ UNCHANGED <<request, cfgUpdate, wifi, alive, radio, net, link, status, faults>>

\* Mode DISABLE only cuts the power of the radio.
StartDisabled ==
  /\ pc = "start" /\ wifi.mode = "DISABLE"
  /\ radio' = FALSE
  /\ pc' = "status"
  /\ UNCHANGED <<request, cfgUpdate, wifi, alive, net, link, address, status, faults>>

\* Mutant: the mode is read from the store again when the daemon is started.
StartDaemonReread ==
  /\ pc = "start" /\ cfg.mode # "DISABLE"
  /\ radio' = TRUE
  /\ IF cfg.mode = "STA"
     THEN alive' = alive \union {"wpa_supplicant"} /\ pc' = "sta_init"
     ELSE alive' = alive \union {"hostapd"} /\ pc' = "ap_init"
  /\ UNCHANGED <<request, cfgUpdate, wifi, net, link, address, status, faults>>

\* Power the radio, process_start the daemon of the mode.
StartDaemon ==
  /\ pc = "start" /\ wifi.mode # "DISABLE"
  /\ radio' = TRUE
  /\ IF wifi.mode = "STA"
     THEN alive' = alive \union {"wpa_supplicant"} /\ pc' = "sta_init"
     ELSE alive' = alive \union {"hostapd"} /\ pc' = "ap_init"
  /\ UNCHANGED <<request, cfgUpdate, wifi, net, link, address, status, faults>>

\* process_start fails: sync and reboot -f.  Every thread starts afresh:
\* wifi_ctl_init reads the store, main enters its first state.
StartFails ==
  /\ pc = "start" /\ wifi.mode # "DISABLE"
  /\ faults < MaxFaults
  /\ faults' = faults + 1
  /\ wifi' = cfg /\ cfgUpdate' = FALSE /\ pc' = "wait"
  /\ main' = "set" /\ web' = "idle"
  /\ alive' = {} /\ radio' \in BOOLEAN /\ net' = NoNet /\ link' = FALSE /\ address' = FALSE
  /\ staState' = -1 /\ staIp' = FALSE
  /\ UNCHANGED <<cfg, entries, saves>>

\* __sta_init: remove all networks, add one, set it, enable, RECONNECT; a
\* control socket that does not open ends it, and the result is not looked at.
StaInit ==
  /\ pc = "sta_init"
  /\ net' = IF "wpa_supplicant" \in alive THEN <<wifi.ssid, wifi.psk>> ELSE net
  /\ pc' = "sta_addr"
  /\ UNCHANGED <<request, cfgUpdate, wifi, alive, radio, link, address, status, faults>>

\* sta_addr_mode: udhcpc in the background, or the static address.
StaAddr ==
  /\ pc = "sta_addr"
  /\ \/ alive' = alive \union {"udhcpc"} /\ UNCHANGED address
     \/ address' = TRUE /\ UNCHANGED alive
  /\ pc' = "status"
  /\ UNCHANGED <<request, cfgUpdate, wifi, radio, net, link, status, faults>>

\* __ap_init, the fixed address, dnsmasq.
ApInit ==
  /\ pc = "ap_init"
  /\ address' = TRUE
  /\ alive' = alive \union {"dnsmasq"}
  /\ pc' = "status"
  /\ UNCHANGED <<request, cfgUpdate, wifi, radio, net, link, status, faults>>

\* Mutant: a connected station is 1, as in the s_sta_state of main.c.
StaAnswerOne == IF link THEN 1 ELSE -1

\* Mutant: a reply without wpa_state=COMPLETED leaves the state as it was.
StaAnswerKeeps == IF link THEN 0 ELSE staState

\* The sta_state that __sta_status_get makes of the reply to STATUS.
StaAnswer == IF link THEN 0 ELSE -1

\* __wifi_process: in mode STA ask wpa_supplicant, and keep the last answer
\* when its socket does not open; in mode AP reset; in mode DISABLE nothing.
WifiProcess ==
  /\ pc = "status"
  /\ IF wifi.mode = "STA" /\ "wpa_supplicant" \in alive
     THEN /\ staState' = StaAnswer
          /\ staIp' = (link /\ address)
     ELSE IF wifi.mode = "AP"
     THEN staState' = -1 /\ staIp' = FALSE
     ELSE UNCHANGED status
  /\ pc' = "wait"
  /\ UNCHANGED <<request, cfgUpdate, wifi, device, faults>>

-----------------------------------------------------------------------------
(* The daemons and the radio, as wifi_ctl.c sees them.                     *)

Associate ==
  /\ net # NoNet /\ ~link
  /\ link' = TRUE
  /\ UNCHANGED <<request, cfgUpdate, pc, wifi, alive, radio, net, address, status, faults>>

Disassociate ==
  /\ link
  /\ link' = FALSE
  /\ UNCHANGED <<request, cfgUpdate, pc, wifi, alive, radio, net, address, status, faults>>

Lease ==
  /\ "udhcpc" \in alive /\ link /\ ~address
  /\ address' = TRUE
  /\ UNCHANGED <<request, cfgUpdate, pc, wifi, alive, radio, net, link, status, faults>>

Dies(d) ==
  /\ d \in alive /\ faults < MaxFaults
  /\ faults' = faults + 1
  /\ alive' = Killed(d)
  /\ net'  = IF d = "wpa_supplicant" THEN NoNet ELSE net
  /\ link' = (link /\ d # "wpa_supplicant")
  /\ UNCHANGED <<request, cfgUpdate, pc, wifi, radio, address, status>>

-----------------------------------------------------------------------------
\* wifi_ctl_init has read the store; main is about to enter its first state.
Init ==
  /\ cfg \in [mode : Modes, ssid : {0}, psk : {0}]
  /\ wifi = cfg
  /\ cfgUpdate = FALSE /\ main = "set" /\ web = "idle" /\ pc = "wait"
  /\ alive = {} /\ radio \in BOOLEAN /\ net = NoNet /\ link = FALSE /\ address = FALSE
  /\ staState = -1 /\ staIp = FALSE
  /\ entries = 0 /\ saves = 0 /\ faults = 0

MainStep == MainSetMode \/ MainRaiseFlag
WebStep  == WebSavePsk \/ WebRaiseFlag
WifiThread ==
  \/ Tick \/ Deinit \/ ReadMode \/ ReadSsid \/ ReadPsk \/ KillDaemons
  \/ NetRestart \/ StartDisabled \/ StartDaemon \/ StaInit \/ StaAddr \/ ApInit \/ WifiProcess
Surroundings ==
  Associate \/ Disassociate \/ Lease \/ \E d \in Daemons : Dies(d)

Next ==
  \/ MainStep \/ MainEnter \/ WebStep \/ WebSaveSsid
  \/ WifiThread \/ StartFails \/ Surroundings

Spec == Init /\ [][Next]_vars

\* The threads run on their own timers and every call they make ends; what
\* users, daemons and the radio do is not promised.
FairSpec == Spec /\ WF_vars(WifiThread) /\ WF_vars(MainStep) /\ WF_vars(WebStep)

-----------------------------------------------------------------------------
(* Properties.                                                             *)

TypeOK ==
  /\ cfg \in Settings /\ wifi \in Settings
  /\ cfgUpdate \in BOOLEAN
  /\ main \in {"idle", "set", "flag"} /\ web \in {"idle", "psk", "flag"}
  /\ pc \in Stages
  /\ alive \subseteq Daemons
  /\ radio \in BOOLEAN /\ link \in BOOLEAN /\ address \in BOOLEAN
  /\ net \in (Nat \X Nat) \union {NoNet}
  /\ staState \in {-1, 0} /\ staIp \in BOOLEAN
  /\ entries \in Nat /\ saves \in Nat /\ faults \in Nat

\* No request is lost, however the flag, the saves and the reads interleave:
\* with the flag down, no requester under way and the thread at rest, the
\* thread works with the mode, the SSID and the password that are saved.
NoMissedUpdate ==
  (~cfgUpdate /\ main # "flag" /\ web = "idle" /\ pc \in {"wait", "status"})
     => wifi = cfg

\* wpa_supplicant and hostapd never drive wlan0 together: the thread kills
\* both before it starts either, and reboots when a kill fails
\* ("kill wpa_supplicant error, reboot system", wifi_ctl.c:749).
OneRadioUser == ~({"wpa_supplicant", "hostapd"} \subseteq alive)

\* Between two requests only daemons of the thread's mode run, apart from
\* those a kill could not end.
DaemonsOfMode ==
  pc \in {"wait", "status"} =>
     alive \ Stubborn \subseteq
        CASE wifi.mode = "STA" -> {"wpa_supplicant", "udhcpc"}
          [] wifi.mode = "AP"  -> {"hostapd", "dnsmasq"}
          [] OTHER             -> {}

\* When the requests stop, the thread comes to rest on the saved settings,
\* with the radio powered accordingly and wpa_supplicant given the saved
\* network.
Settled ==
  /\ wifi = cfg /\ pc \in {"wait", "status"}
  /\ radio = (cfg.mode # "DISABLE")
  /\ (cfg.mode = "STA" /\ faults = 0) => net = <<cfg.ssid, cfg.psk>>
Settles == <>[]Settled

\* A lost association is reported: wifi_ctl_sta_state_get does not go on
\* returning 0 ("STA connected", wifi_ctl.h:42), unless the mode is DISABLE, in
\* which nothing is asked, or wpa_supplicant is gone, which keeps the last answer.
StatusDrops ==
  (staState = 0 /\ ~link) ~>
     (staState = -1 \/ link \/ wifi.mode = "DISABLE" \/ "wpa_supplicant" \notin alive)

\* Between the flag that is cleared and the mode that is read a request is still
\* under way; with that, the thread and its flag are the service ModeCtl relies on.
Asked   == cfgUpdate \/ pc \in {"deinit", "read_mode"}
Service == INSTANCE WifiService WITH saved <- cfg.mode, asked <- Asked, applied <- wifi.mode
ImplementsService == Service!Spec

=============================================================================
