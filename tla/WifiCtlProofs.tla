--------------------------- MODULE WifiCtlProofs ---------------------------
(***************************************************************************)
(* Proofs about WifiCtl for every number of requests and of faults:        *)
(* its type invariant, that no request is lost (NoMissedUpdate), and that  *)
(* only daemons of the thread's mode outlive a mode change (DaemonsOfMode, *)
(* OneRadioUser).                                                          *)
(***************************************************************************)
EXTENDS WifiCtl, TLAPS

(***************************************************************************)
(* NoMissedUpdate is not inductive: it says nothing while a request or a   *)
(* configuration read is under way.  One key at a time, either the thread  *)
(* has the saved value, or somebody is still going to see to it: the flag  *)
(* is up, its requester is about to raise it, or the thread has yet to     *)
(* reach that key in __cfg_read.                                           *)
(***************************************************************************)
ModeSync ==
  \/ wifi.mode = cfg.mode
  \/ cfgUpdate \/ main = "flag"
  \/ pc \in {"deinit", "read_mode"}

SsidSync ==
  \/ wifi.ssid = cfg.ssid
  \/ cfgUpdate \/ web \in {"psk", "flag"}
  \/ pc \in {"deinit", "read_mode", "read_ssid"}

PskSync ==
  \/ wifi.psk = cfg.psk
  \/ cfgUpdate \/ web \in {"psk", "flag"}
  \/ pc \in {"deinit", "read_mode", "read_ssid", "read_psk"}

SyncInv == TypeOK /\ ModeSync /\ SsidSync /\ PskSync

(***************************************************************************)
(* The daemons, killed in a fixed order, then started anew.                *)
(***************************************************************************)
\* The daemons whose process_kill has returned when the thread is at stage s.
Stopped(s) ==
  CASE s = "kill_udhcpc"        -> {"wpa_supplicant"}
    [] s = "kill_hostapd"       -> {"wpa_supplicant", "udhcpc"}
    [] s = "kill_dnsmasq"       -> {"wpa_supplicant", "udhcpc", "hostapd"}
    [] s \in {"netif", "start"} -> Daemons
    [] OTHER                    -> {}

KillProgress == (alive \ Stubborn) \cap Stopped(pc) = {}

StartProgress ==
  /\ pc \in {"sta_init", "sta_addr"} =>
       wifi.mode = "STA" /\ alive \ Stubborn \subseteq {"wpa_supplicant"}
  /\ pc = "ap_init" =>
       wifi.mode = "AP" /\ alive \ Stubborn \subseteq {"hostapd"}

DaemonInv == TypeOK /\ KillProgress /\ StartProgress /\ DaemonsOfMode

RadioInv == DaemonInv /\ OneRadioUser

-----------------------------------------------------------------------------
(* Type correctness.                                                       *)

LEMMA TypeInit == Init => TypeOK
<1> SUFFICES ASSUME Init PROVE TypeOK
  OBVIOUS
<1>1. cfg \in Settings /\ wifi \in Settings
  BY DEF Init, Settings
<1>2. radio \in BOOLEAN
  BY DEF Init
<1>3. net \in (Nat \X Nat) \union {NoNet}
  BY DEF Init
<1> QED
  BY <1>1, <1>2, <1>3 DEF Init, TypeOK, Stages

\* One kill of process_kill's callers keeps the types of everything it touches.
LEMMA KillType ==
  ASSUME TypeOK, NEW d, NEW here, NEW next \in Stages, Kill(d, here, next)
  PROVE  TypeOK'
<1>1. alive' \subseteq Daemons
  BY DEF TypeOK, Kill, Killed
<1>2. net' \in (Nat \X Nat) \union {NoNet} /\ link' \in BOOLEAN
  BY DEF TypeOK, Kill
<1> QED
  BY <1>1, <1>2 DEF TypeOK, Kill, request, status

LEMMA TypeStep == TypeOK /\ [Next]_vars => TypeOK'
<1> SUFFICES ASSUME TypeOK, [Next]_vars PROVE TypeOK'
  OBVIOUS
<1>1. CASE MainSetMode
  BY <1>1 DEF MainSetMode, request, device, status, TypeOK, Settings
<1>2. CASE MainRaiseFlag
  BY <1>2 DEF MainRaiseFlag, request, device, status, TypeOK
<1>3. CASE MainEnter
  BY <1>3 DEF MainEnter, request, device, status, TypeOK
<1>4. CASE WebSaveSsid
  BY <1>4 DEF WebSaveSsid, request, device, status, TypeOK, Settings
<1>5. CASE WebSavePsk
  BY <1>5 DEF WebSavePsk, request, device, status, TypeOK, Settings
<1>6. CASE WebRaiseFlag
  BY <1>6 DEF WebRaiseFlag, request, device, status, TypeOK
<1>7. CASE Tick
  BY <1>7 DEF Tick, request, device, status, TypeOK, Stages
<1>8. CASE Deinit
  BY <1>8 DEF Deinit, request, device, status, TypeOK, Stages, Reading
<1>9. CASE ReadMode
  BY <1>9 DEF ReadMode, request, device, status, TypeOK, Settings, Stages, Reading
<1>10. CASE ReadSsid
  BY <1>10 DEF ReadSsid, request, device, status, TypeOK, Settings, Stages, Reading
<1>11. CASE ReadPsk
  BY <1>11 DEF ReadPsk, request, device, status, TypeOK, Settings, Stages, Killing
<1>12. CASE KillDaemons
  BY <1>12, KillType DEF KillDaemons, Stages, Killing
<1>13. CASE NetRestart
  BY <1>13 DEF NetRestart, request, device, status, TypeOK, Stages
<1>14. CASE StartDisabled
  BY <1>14 DEF StartDisabled, request, device, status, TypeOK, Stages
<1>15. CASE StartDaemon
  BY <1>15 DEF StartDaemon, request, device, status, TypeOK, Stages, Daemons
<1>16. CASE StartFails
  <2>1. radio' \in BOOLEAN /\ wifi' \in Settings
    BY <1>16 DEF StartFails, TypeOK
  <2>2. net' \in (Nat \X Nat) \union {NoNet}
    BY <1>16 DEF StartFails
  <2>3. cfg' \in Settings /\ main' = "set" /\ web' = "idle" /\ pc' \in Stages
    BY <1>16 DEF StartFails, TypeOK, Stages
  <2>4. /\ cfgUpdate' \in BOOLEAN /\ alive' \subseteq Daemons
        /\ link' \in BOOLEAN /\ address' \in BOOLEAN
        /\ staState' \in {-1, 0} /\ staIp' \in BOOLEAN
    BY <1>16 DEF StartFails
  <2>5. entries' \in Nat /\ saves' \in Nat /\ faults' \in Nat
    BY <1>16 DEF StartFails, TypeOK
  <2> QED
    BY <2>1, <2>2, <2>3, <2>4, <2>5 DEF TypeOK
<1>17. CASE StaInit
  BY <1>17 DEF StaInit, request, device, status, TypeOK, Stages, Settings
<1>18. CASE StaAddr
  BY <1>18 DEF StaAddr, request, device, status, TypeOK, Stages, Daemons
<1>19. CASE ApInit
  BY <1>19 DEF ApInit, request, device, status, TypeOK, Stages, Daemons
<1>20. CASE WifiProcess
  BY <1>20 DEF WifiProcess, request, device, status, TypeOK, Stages, StaAnswer
<1>21. CASE Associate
  BY <1>21 DEF Associate, request, device, status, TypeOK
<1>22. CASE Disassociate
  BY <1>22 DEF Disassociate, request, device, status, TypeOK
<1>23. CASE Lease
  BY <1>23 DEF Lease, request, device, status, TypeOK
<1>24. ASSUME NEW d \in Daemons, Dies(d) PROVE TypeOK'
  BY <1>24 DEF Dies, request, device, status, TypeOK, Killed, NoNet
<1>25. CASE UNCHANGED vars
  BY <1>25 DEF vars, TypeOK
<1> QED
  BY <1>1, <1>2, <1>3, <1>4, <1>5, <1>6, <1>7, <1>8, <1>9, <1>10, <1>11, <1>12, <1>13, <1>14, <1>15, <1>16, <1>17, <1>18, <1>19, <1>20, <1>21, <1>22, <1>23, <1>24, <1>25 DEF Next, MainStep, WebStep, WifiThread, Surroundings

\* Every variable of the thread, of its requesters and of the daemons keeps to
\* the values the code can give it, whatever the bounds.
THEOREM TypeCorrect == Spec => []TypeOK
  BY TypeInit, TypeStep, PTL DEF Spec

-----------------------------------------------------------------------------
(* No request is lost.                                                     *)

LEMMA SyncInit == Init => SyncInv
  BY TypeInit DEF Init, SyncInv, ModeSync, SsidSync, PskSync

LEMMA SyncStep == SyncInv /\ [Next]_vars => SyncInv'
<1> SUFFICES ASSUME SyncInv, [Next]_vars PROVE ModeSync' /\ SsidSync' /\ PskSync'
  BY TypeStep DEF SyncInv
<1> USE DEF SyncInv
<1>1. CASE MainSetMode
  BY <1>1 DEF MainSetMode, request, device, status, ModeSync, SsidSync, PskSync, Settings, TypeOK
<1>2. CASE MainRaiseFlag
  BY <1>2 DEF MainRaiseFlag, request, device, status, ModeSync, SsidSync, PskSync
<1>3. CASE MainEnter
  BY <1>3 DEF MainEnter, request, device, status, ModeSync, SsidSync, PskSync
<1>4. CASE WebSaveSsid
  BY <1>4 DEF WebSaveSsid, request, device, status, ModeSync, SsidSync, PskSync, Settings, TypeOK
<1>5. CASE WebSavePsk
  BY <1>5 DEF WebSavePsk, request, device, status, ModeSync, SsidSync, PskSync, Settings, TypeOK
<1>6. CASE WebRaiseFlag
  BY <1>6 DEF WebRaiseFlag, request, device, status, ModeSync, SsidSync, PskSync
<1>7. CASE Tick
  BY <1>7 DEF Tick, request, device, status, ModeSync, SsidSync, PskSync
<1>8. CASE Deinit
  BY <1>8 DEF Deinit, request, device, status, ModeSync, SsidSync, PskSync
<1>9. CASE ReadMode
  BY <1>9 DEF ReadMode, request, device, status, ModeSync, SsidSync, PskSync, Settings, TypeOK
<1>10. CASE ReadSsid
  BY <1>10 DEF ReadSsid, request, device, status, ModeSync, SsidSync, PskSync, Settings, TypeOK
<1>11. CASE ReadPsk
  BY <1>11 DEF ReadPsk, request, device, status, ModeSync, SsidSync, PskSync, Settings, TypeOK
<1>12. CASE KillDaemons
  BY <1>12 DEF KillDaemons, Kill, request, ModeSync, SsidSync, PskSync
<1>13. CASE NetRestart
  BY <1>13 DEF NetRestart, request, device, status, ModeSync, SsidSync, PskSync
<1>14. CASE StartDisabled
  BY <1>14 DEF StartDisabled, request, device, status, ModeSync, SsidSync, PskSync
<1>15. CASE StartDaemon
  BY <1>15 DEF StartDaemon, request, device, status, ModeSync, SsidSync, PskSync
<1>16. CASE StartFails
  BY <1>16 DEF StartFails, request, device, status, ModeSync, SsidSync, PskSync
<1>17. CASE StaInit
  BY <1>17 DEF StaInit, request, device, status, ModeSync, SsidSync, PskSync
<1>18. CASE StaAddr
  BY <1>18 DEF StaAddr, request, device, status, ModeSync, SsidSync, PskSync
<1>19. CASE ApInit
  BY <1>19 DEF ApInit, request, device, status, ModeSync, SsidSync, PskSync
<1>20. CASE WifiProcess
  BY <1>20 DEF WifiProcess, request, device, status, ModeSync, SsidSync, PskSync
<1>21. CASE Associate
  BY <1>21 DEF Associate, request, device, status, ModeSync, SsidSync, PskSync
<1>22. CASE Disassociate
  BY <1>22 DEF Disassociate, request, device, status, ModeSync, SsidSync, PskSync
<1>23. CASE Lease
  BY <1>23 DEF Lease, request, device, status, ModeSync, SsidSync, PskSync
<1>24. ASSUME NEW d \in Daemons, Dies(d) PROVE ModeSync' /\ SsidSync' /\ PskSync'
  BY <1>24 DEF Dies, request, device, status, ModeSync, SsidSync, PskSync
<1>25. CASE UNCHANGED vars
  BY <1>25 DEF vars, ModeSync, SsidSync, PskSync
<1> QED
  BY <1>1, <1>2, <1>3, <1>4, <1>5, <1>6, <1>7, <1>8, <1>9, <1>10, <1>11, <1>12, <1>13, <1>14, <1>15, <1>16, <1>17, <1>18, <1>19, <1>20, <1>21, <1>22, <1>23, <1>24, <1>25 DEF Next, MainStep, WebStep, WifiThread, Surroundings

\* At rest with no request pending, a record that agrees key by key agrees.
LEMMA SyncImplies == SyncInv => NoMissedUpdate
<1> SUFFICES ASSUME SyncInv,
                    ~cfgUpdate, main # "flag", web = "idle", pc \in {"wait", "status"}
             PROVE  wifi = cfg
  BY DEF NoMissedUpdate
<1>1. wifi \in Settings /\ cfg \in Settings
  BY DEF SyncInv, TypeOK
<1>2. wifi.mode = cfg.mode /\ wifi.ssid = cfg.ssid /\ wifi.psk = cfg.psk
  BY DEF SyncInv, ModeSync, SsidSync, PskSync
<1> QED
  BY <1>1, <1>2 DEF Settings

\* However the requesters' saves and flag, and the thread's clearing of the flag
\* and reading of the keys interleave, a thread at rest with no request pending
\* works with the saved mode, SSID and password.
THEOREM RequestsSeen == Spec => []NoMissedUpdate
  BY SyncInit, SyncStep, SyncImplies, PTL DEF Spec

-----------------------------------------------------------------------------
(* Which daemons run.                                                      *)

LEMMA DaemonInit == Init => DaemonInv
  BY TypeInit DEF Init, DaemonInv, KillProgress, StartProgress, DaemonsOfMode

\* Each kill adds its daemon to those stopped, and none of them comes back.
LEMMA KillDaemon ==
  ASSUME DaemonInv, KillDaemons
  PROVE  KillProgress' /\ StartProgress' /\ DaemonsOfMode'
<1>1. CASE Kill("wpa_supplicant", "kill_wpa", "kill_udhcpc")
  BY <1>1 DEF Kill, Killed, DaemonInv, KillProgress, StartProgress, DaemonsOfMode, Stopped
<1>2. CASE Kill("udhcpc", "kill_udhcpc", "kill_hostapd")
  BY <1>2 DEF Kill, Killed, DaemonInv, KillProgress, StartProgress, DaemonsOfMode, Stopped
<1>3. CASE Kill("hostapd", "kill_hostapd", "kill_dnsmasq")
  BY <1>3 DEF Kill, Killed, DaemonInv, KillProgress, StartProgress, DaemonsOfMode, Stopped
<1>4. CASE Kill("dnsmasq", "kill_dnsmasq", "netif")
  BY <1>4 DEF Kill, Killed, DaemonInv, KillProgress, StartProgress, DaemonsOfMode, Stopped,
              TypeOK, Daemons
<1> QED
  BY <1>1, <1>2, <1>3, <1>4 DEF KillDaemons

LEMMA DaemonStep == DaemonInv /\ [Next]_vars => DaemonInv'
<1> SUFFICES ASSUME DaemonInv, [Next]_vars
             PROVE  KillProgress' /\ StartProgress' /\ DaemonsOfMode'
  BY TypeStep DEF DaemonInv
<1>1. CASE MainSetMode
  BY <1>1 DEF MainSetMode, request, device, status, DaemonInv, KillProgress, StartProgress, DaemonsOfMode, Stopped
<1>2. CASE MainRaiseFlag
  BY <1>2 DEF MainRaiseFlag, request, device, status, DaemonInv, KillProgress, StartProgress, DaemonsOfMode, Stopped
<1>3. CASE MainEnter
  BY <1>3 DEF MainEnter, request, device, status, DaemonInv, KillProgress, StartProgress, DaemonsOfMode, Stopped
<1>4. CASE WebSaveSsid
  BY <1>4 DEF WebSaveSsid, request, device, status, DaemonInv, KillProgress, StartProgress, DaemonsOfMode, Stopped
<1>5. CASE WebSavePsk
  BY <1>5 DEF WebSavePsk, request, device, status, DaemonInv, KillProgress, StartProgress, DaemonsOfMode, Stopped
<1>6. CASE WebRaiseFlag
  BY <1>6 DEF WebRaiseFlag, request, device, status, DaemonInv, KillProgress, StartProgress, DaemonsOfMode, Stopped
<1>7. CASE Tick
  BY <1>7 DEF Tick, request, device, status, DaemonInv, KillProgress, StartProgress, DaemonsOfMode, Stopped
<1>8. CASE Deinit
  BY <1>8 DEF Deinit, request, device, status, DaemonInv, KillProgress, StartProgress, DaemonsOfMode, Stopped
<1>9. CASE ReadMode
  BY <1>9 DEF ReadMode, request, device, status, DaemonInv, KillProgress, StartProgress, DaemonsOfMode, Stopped
<1>10. CASE ReadSsid
  BY <1>10 DEF ReadSsid, request, device, status, DaemonInv, KillProgress, StartProgress, DaemonsOfMode, Stopped
<1>11. CASE ReadPsk
  BY <1>11 DEF ReadPsk, request, device, status, DaemonInv, KillProgress, StartProgress, DaemonsOfMode, Stopped
<1>12. CASE KillDaemons
  BY <1>12, KillDaemon
<1>13. CASE NetRestart
  BY <1>13 DEF NetRestart, request, device, status, DaemonInv, KillProgress, StartProgress, DaemonsOfMode, Stopped
<1>14. CASE StartDisabled
  BY <1>14 DEF StartDisabled, request, device, status, DaemonInv, KillProgress, StartProgress, DaemonsOfMode, Stopped, TypeOK, Daemons
<1>15. CASE StartDaemon
  BY <1>15 DEF StartDaemon, request, device, status, DaemonInv, KillProgress, StartProgress, DaemonsOfMode, Stopped, TypeOK, Daemons, Settings, Modes
<1>16. CASE StartFails
  BY <1>16 DEF StartFails, request, device, status, DaemonInv, KillProgress, StartProgress, DaemonsOfMode, Stopped
<1>17. CASE StaInit
  BY <1>17 DEF StaInit, request, device, status, DaemonInv, KillProgress, StartProgress, DaemonsOfMode, Stopped
<1>18. CASE StaAddr
  BY <1>18 DEF StaAddr, request, device, status, DaemonInv, KillProgress, StartProgress, DaemonsOfMode, Stopped, TypeOK, Daemons
<1>19. CASE ApInit
  BY <1>19 DEF ApInit, request, device, status, DaemonInv, KillProgress, StartProgress, DaemonsOfMode, Stopped, TypeOK, Daemons
<1>20. CASE WifiProcess
  BY <1>20 DEF WifiProcess, request, device, status, DaemonInv, KillProgress, StartProgress, DaemonsOfMode, Stopped
<1>21. CASE Associate
  BY <1>21 DEF Associate, request, device, status, DaemonInv, KillProgress, StartProgress, DaemonsOfMode, Stopped
<1>22. CASE Disassociate
  BY <1>22 DEF Disassociate, request, device, status, DaemonInv, KillProgress, StartProgress, DaemonsOfMode, Stopped
<1>23. CASE Lease
  BY <1>23 DEF Lease, request, device, status, DaemonInv, KillProgress, StartProgress, DaemonsOfMode, Stopped
<1>24. ASSUME NEW d \in Daemons, Dies(d) PROVE KillProgress' /\ StartProgress' /\ DaemonsOfMode'
  BY <1>24 DEF Dies, request, device, status, DaemonInv, KillProgress, StartProgress, DaemonsOfMode, Stopped, Killed
<1>25. CASE UNCHANGED vars
  BY <1>25 DEF vars, DaemonInv, KillProgress, StartProgress, DaemonsOfMode, Stopped
<1> QED
  BY <1>1, <1>2, <1>3, <1>4, <1>5, <1>6, <1>7, <1>8, <1>9, <1>10, <1>11, <1>12, <1>13, <1>14, <1>15, <1>16, <1>17, <1>18, <1>19, <1>20, <1>21, <1>22, <1>23, <1>24, <1>25 DEF Next, MainStep, WebStep, WifiThread, Surroundings

\* After a mode change nothing of another mode runs but what a kill could not
\* end: the four kills are not undone before the daemon of the mode starts.
THEOREM OnlyDaemonsOfMode == Spec => []DaemonsOfMode
<1>1. DaemonInv => DaemonsOfMode
  BY DEF DaemonInv
<1> QED
  BY <1>1, DaemonInit, DaemonStep, PTL DEF Spec

\* A daemon that drives the radio is only started when both have been killed.
LEMMA RadioStep ==
  ASSUME Stubborn \cap {"wpa_supplicant", "hostapd"} = {},
         RadioInv, [Next]_vars
  PROVE  RadioInv'
<1>1. DaemonInv'
  BY DaemonStep DEF RadioInv
<1>2. alive' \subseteq alive \union {"udhcpc", "dnsmasq"} \/ StartDaemon
  BY DEF Next, MainStep, WebStep, WifiThread, Surroundings, vars, request, device, status,
         MainSetMode, MainRaiseFlag, MainEnter, WebSaveSsid, WebSavePsk, WebRaiseFlag,
         Tick, Deinit, ReadMode, ReadSsid, ReadPsk, KillDaemons, Kill, Killed, NetRestart,
         StartDisabled, StartFails, StaInit, StaAddr, ApInit, WifiProcess,
         Associate, Disassociate, Lease, Dies
<1>3. CASE alive' \subseteq alive \union {"udhcpc", "dnsmasq"}
  BY <1>1, <1>3 DEF RadioInv, OneRadioUser
<1>4. CASE StartDaemon
  <2>1. alive \cap {"wpa_supplicant", "hostapd"} = {}
    BY <1>4 DEF StartDaemon, RadioInv, DaemonInv, KillProgress, Stopped, Daemons
  <2> QED
    BY <1>1, <1>4, <2>1 DEF StartDaemon, RadioInv, OneRadioUser
<1> QED
  BY <1>2, <1>3, <1>4

\* When a kill ends the daemons that use the radio, wpa_supplicant and hostapd
\* never run together; WifiKillTimeout shows that the condition is needed.
THEOREM RadioExclusive ==
  ASSUME Stubborn \cap {"wpa_supplicant", "hostapd"} = {}
  PROVE  Spec => []OneRadioUser
<1>1. Init => RadioInv
  BY DaemonInit DEF Init, RadioInv, OneRadioUser
<1>2. RadioInv /\ [Next]_vars => RadioInv'
  BY RadioStep
<1>3. RadioInv => OneRadioUser
  BY DEF RadioInv
<1> QED
  BY <1>1, <1>2, <1>3, PTL DEF Spec

-----------------------------------------------------------------------------
(* The thread, with its stages, takes the steps of the service only.       *)

LEMMA ServiceInit == Init => Service!Init
<1> SUFFICES ASSUME Init PROVE Service!Init
  OBVIOUS
<1>1. cfg.mode \in Modes /\ wifi.mode = cfg.mode /\ Asked = FALSE
  BY DEF Init, Asked
<1> QED
  BY <1>1 DEF Service!Init

LEMMA ServiceStep == TypeOK /\ [Next]_vars => [Service!Next]_Service!vars
<1> SUFFICES ASSUME TypeOK, [Next]_vars PROVE [Service!Next]_Service!vars
  OBVIOUS
<1> DEFINE Same == cfg'.mode = cfg.mode /\ wifi'.mode = wifi.mode /\ Asked' = Asked
<1>1. /\ cfg.mode \in Modes /\ cfgUpdate \in BOOLEAN
      /\ \A v : /\ [cfg EXCEPT !.ssid = v].mode = cfg.mode
                /\ [cfg EXCEPT !.psk = v].mode = cfg.mode
                /\ [cfg EXCEPT !.mode = v].mode = v
                /\ [wifi EXCEPT !.ssid = v].mode = wifi.mode
                /\ [wifi EXCEPT !.psk = v].mode = wifi.mode
                /\ [wifi EXCEPT !.mode = v].mode = v
  BY DEF TypeOK, Settings
<1>2. Same => [Service!Next]_Service!vars
  BY DEF Service!vars
<1>3. CASE MainSetMode
  <2>1. cfg'.mode \in Modes /\ wifi'.mode = wifi.mode /\ Asked' = Asked
    BY <1>1, <1>3 DEF MainSetMode, Asked
  <2> QED
    BY <2>1 DEF Service!Next, Service!Save
<1>4. CASE MainRaiseFlag \/ WebRaiseFlag
  <2>1. cfg'.mode = cfg.mode /\ wifi'.mode = wifi.mode /\ Asked' = TRUE
    BY <1>4 DEF MainRaiseFlag, WebRaiseFlag, Asked
  <2> QED
    BY <2>1 DEF Service!Next, Service!Ask
<1>5. CASE MainEnter \/ WebSaveSsid \/ WebSavePsk
  <2>1. cfg' = cfg \/ (\E v : cfg' = [cfg EXCEPT !.ssid = v])
                   \/ (\E v : cfg' = [cfg EXCEPT !.psk = v])
    BY <1>5, Zenon DEF MainEnter, WebSaveSsid, WebSavePsk
  <2>2. cfg'.mode = cfg.mode
    <3>1. \A v : /\ [cfg EXCEPT !.ssid = v].mode = cfg.mode
                 /\ [cfg EXCEPT !.psk = v].mode = cfg.mode
      BY <1>1
    <3>2. CASE \E v : cfg' = [cfg EXCEPT !.ssid = v]
      <4>1. PICK v : cfg' = [cfg EXCEPT !.ssid = v]
        BY <3>2, Zenon
      <4>2. [cfg EXCEPT !.ssid = v].mode = cfg.mode
        BY <3>1, Zenon
      <4> QED
        BY <4>1, <4>2, Zenon
    <3>3. CASE \E v : cfg' = [cfg EXCEPT !.psk = v]
      <4>1. PICK v : cfg' = [cfg EXCEPT !.psk = v]
        BY <3>3, Zenon
      <4>2. [cfg EXCEPT !.psk = v].mode = cfg.mode
        BY <3>1, Zenon
      <4> QED
        BY <4>1, <4>2, Zenon
    <3> QED
      BY <2>1, <3>2, <3>3
  <2>3. wifi' = wifi /\ cfgUpdate' = cfgUpdate /\ pc' = pc
    BY <1>5, Zenon DEF MainEnter, WebSaveSsid, WebSavePsk
  <2>4. Asked' = Asked
    BY <2>3 DEF Asked
  <2> QED
    BY <1>2, <2>2, <2>3, <2>4
<1>6. CASE Tick \/ Deinit
  <2>1. Same
    BY <1>1, <1>6 DEF Tick, Deinit, request, Asked
  <2> QED
    BY <1>2, <2>1
<1>7. CASE ReadMode
  <2>1. cfg'.mode = cfg.mode /\ wifi'.mode = cfg.mode /\ Asked /\ Asked' \in BOOLEAN
    BY <1>1, <1>7 DEF ReadMode, request, Asked
  <2> QED
    BY <2>1 DEF Service!Next, Service!Take
<1>8. CASE ReadSsid \/ ReadPsk
  <2>1. (\E v : wifi' = [wifi EXCEPT !.ssid = v]) \/ (\E v : wifi' = [wifi EXCEPT !.psk = v])
    BY <1>8, Zenon DEF ReadSsid, ReadPsk
  <2>2. wifi'.mode = wifi.mode
    BY <1>1, <2>1
  <2>3. cfg' = cfg /\ cfgUpdate' = cfgUpdate
    BY <1>8 DEF ReadSsid, ReadPsk, request
  <2>4. /\ pc \in {"read_ssid", "read_psk"}
        /\ pc' \notin {"deinit", "read_mode"}
    BY <1>8 DEF ReadSsid, ReadPsk
  <2>5. Asked' = Asked
    BY <2>3, <2>4 DEF Asked
  <2> QED
    BY <1>2, <2>2, <2>3, <2>5
<1>9. CASE KillDaemons
  <2>1. Same
    BY <1>9 DEF KillDaemons, Kill, request, Asked
  <2> QED
    BY <1>2, <2>1
<1>10. CASE NetRestart \/ StartDisabled \/ StartDaemon \/ StaInit \/ StaAddr \/ ApInit
            \/ WifiProcess
  <2>1. Same
    BY <1>10 DEF NetRestart, StartDisabled, StartDaemon, StaInit, StaAddr, ApInit,
       WifiProcess, request, Asked
  <2> QED
    BY <1>2, <2>1
<1>11. CASE StartFails
  <2>1. cfg'.mode = cfg.mode /\ wifi'.mode = cfg.mode /\ Asked' = FALSE
    BY <1>11 DEF StartFails, Asked
  <2> QED
    BY <2>1 DEF Service!Next, Service!Restart
<1>12. CASE Surroundings
  <2>1. Same
    BY <1>12 DEF Surroundings, Associate, Disassociate, Lease, Dies, request, Asked
  <2> QED
    BY <1>2, <2>1
<1>13. CASE UNCHANGED vars
  <2>1. Same
    BY <1>13 DEF vars, Asked
  <2> QED
    BY <1>2, <2>1
<1> QED
  BY <1>3, <1>4, <1>5, <1>6, <1>7, <1>8, <1>9, <1>10, <1>11, <1>12, <1>13
  DEF Next, MainStep, WebStep, WifiThread

\* The wifi_ctl thread implements, as far as safety goes, the service that main
\* relies on: the mode it works with changes only to the one that is saved, and
\* a request ends only by being taken.
THEOREM ServiceRefined == Spec => Service!Init /\ [][Service!Next]_Service!vars
  BY ServiceInit, ServiceStep, TypeCorrect, PTL DEF Spec

=============================================================================
