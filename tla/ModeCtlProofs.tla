--------------------------- MODULE ModeCtlProofs ---------------------------
(***************************************************************************)
(* Proofs about ModeCtl, for every number of presses, faults and restarts  *)
(* and every length of the waits: the mode machine and the keys it reads   *)
(* (PressNeverIgnored, OneChangePerPress, CycleOrder), and the start and   *)
(* the stop of the J-Link server (OneServer).                              *)
(***************************************************************************)
EXTENDS ModeCtl, TLAPS

\* The steps of main between the first pass in a mode and the end of that pass.
Entering == {"set_mode", "flag", "set_last"}

TypeInv == TypeOK /\ (pc \in Entering => state \in Modes)

(***************************************************************************)
(* The invariant of the mode machine.  What main saves, and the keys, are  *)
(* read in one step and acted on in a later one: this says what is still   *)
(* true by then.                                                           *)
(***************************************************************************)

\* Before the first pass nothing is pressed as far as the program knows.
NoInitInv == state = "NO_INIT" => pc = "tick" /\ ~entered /\ info[Key] = KeyNew

\* main enters modes only, and once it is in one the store says so.
EnterInv ==
  /\ pc \in Entering => entered
  /\ state \in Modes /\ entered /\ pc \notin Entering => stateLast = state

\* In state WAIT the next mode is the successor of the saved one.
WaitInv == state = "WAIT" => stateLast \in Modes /\ next = Succ(stateLast)

\* A press that has changed the mode, or is about to, has been read.
SpentInv ==
  /\ spent => info[Key].event = "clean"
  /\ pc \in Entering /\ change => ~spent /\ info[Key].event = "clean"

ModeInv == NoInitInv /\ EnterInv /\ WaitInv /\ SpentInv

\* A press that begins in state WAIT is no older than the wait.
YoungInv ==
  state = "WAIT" =>
     /\ info[Key].event # "long_press"
     /\ info[Key].state = "press" /\ info[Key].event = "none" => info[Key].age <= waited

(***************************************************************************)
(* The invariant of jlink_ctl: from the kill of what an earlier start left *)
(* to the fork, no server is alive and none is on its way.                 *)
(***************************************************************************)
ServerInv ==
  /\ OneServer
  /\ jpc = "kill_old" => forked = 0
  /\ jpc = "exec" => servers = 0 /\ forked = 0

-----------------------------------------------------------------------------
(* Type correctness.                                                       *)

LEMMA ConstantFacts ==
  /\ Key \in Keys /\ Power \in Keys
  /\ LongPress \in Nat \ {0} /\ WaitTime \in Nat \ {0} /\ RetryTime \in Nat \ {0}
  BY KeyAssumption, ModeAssumption

\* The machine of a key, case by case.
LEMMA MachineCases ==
  ASSUME NEW i, NEW v
  PROVE  /\ i.state = "release" /\ v # "up" =>
              Machine(i, v) = [state |-> "press", event |-> "none", age |-> 0]
         /\ i.state = "press" /\ v # "up" /\ i.event = "none" /\ i.age >= LongPress =>
              Machine(i, v) = [i EXCEPT !.event = "long_press"]
         /\ i.state = "press" /\ v = "up" =>
              Machine(i, v) = [state |-> "release",
                               event |-> IF i.event = "none" THEN "click" ELSE i.event,
                               age |-> 0]
         /\ i.state = "release" /\ v = "up" => Machine(i, v) = i
         /\ i.state = "press" /\ v # "up" /\ (i.event # "none" \/ ~(i.age >= LongPress)) =>
              Machine(i, v) = i
  BY DEF Machine

LEMMA KeyInfoType ==
  ASSUME NEW i \in KeyInfo
  PROVE  /\ i.state \in {"release", "press"} /\ i.age \in 0 .. LongPress
         /\ i.event \in {"none", "click", "long_press", "clean"}
         /\ [i EXCEPT !.event = "clean"] \in KeyInfo
         /\ [i EXCEPT !.event = "long_press"] \in KeyInfo
         /\ [i EXCEPT !.age = Longer(@, LongPress)] \in KeyInfo
<1>1. Longer(i.age, LongPress) \in 0 .. LongPress
  BY ConstantFacts DEF Longer, KeyInfo
<1> QED
  BY <1>1 DEF KeyInfo

LEMMA MachineType ==
  ASSUME NEW i \in KeyInfo, NEW v
  PROVE  Machine(i, v) \in KeyInfo
<1>1. 0 \in 0 .. LongPress
  BY ConstantFacts
<1>2. CASE i.state = "release" /\ v # "up"
  BY <1>1, <1>2, MachineCases DEF KeyInfo
<1>3. CASE i.state = "press" /\ v = "up"
  BY <1>1, <1>3, MachineCases, KeyInfoType DEF KeyInfo
<1>4. CASE i.state = "release" /\ v = "up"
  BY <1>4, MachineCases
<1>5. CASE i.state = "press" /\ v # "up"
  BY <1>5, MachineCases, KeyInfoType
<1> QED
  BY <1>2, <1>3, <1>4, <1>5, KeyInfoType

LEMMA NewKeyType == KeyNew \in KeyInfo
  BY ConstantFacts DEF KeyNew, KeyInfo

LEMMA FingerType ==
  ASSUME KeyTypeOK, Finger
  PROVE  KeyTypeOK' /\ info' = info
<1>1. PICK k \in Keys : Press(k) \/ Repeat(k) \/ Release(k)
  BY DEF Finger
<1>2. PICK v \in Values : Queue(k, v)
  BY <1>1 DEF Press, Repeat, Release, Values
<1>3. queue' \in [Keys -> Seq(Values)]
  BY <1>2 DEF Queue, KeyTypeOK
<1>4. CASE Press(k)
  BY <1>3, <1>4 DEF Press, KeyTypeOK
<1>5. CASE Repeat(k)
  BY <1>3, <1>5 DEF Repeat, KeyTypeOK
<1>6. CASE Release(k)
  BY <1>3, <1>6 DEF Release, KeyTypeOK
<1> QED
  BY <1>1, <1>4, <1>5, <1>6

LEMMA KeyTimeType ==
  ASSUME KeyTypeOK, KeyTime
  PROVE  info' \in [Keys -> KeyInfo]
  BY KeyInfoType DEF KeyTime, KeyTypeOK

LEMMA KeyProcessType ==
  ASSUME KeyTypeOK, KeyProcess
  PROVE  KeyTypeOK'
<1>1. info' \in [Keys -> KeyInfo]
  BY MachineType DEF KeyProcess, KeyTypeOK
<1>2. queue' \in [Keys -> Seq(Values)]
  BY DEF KeyProcess, KeyTypeOK
<1> QED
  BY <1>1, <1>2 DEF KeyProcess, KeyTypeOK

LEMMA KeyInfoGetType ==
  ASSUME KeyTypeOK, KeyInfoGet
  PROVE  KeyTypeOK'
<1>1. info' \in [Keys -> KeyInfo]
  BY KeyInfoType DEF KeyInfoGet, KeyTypeOK
<1> QED
  BY <1>1 DEF KeyInfoGet, KeyTypeOK

LEMMA KeyStartType ==
  ASSUME KeyTypeOK, NEW fingers \in {held, Untouched}, KeyStart(fingers)
  PROVE  KeyTypeOK'
<1>1. held' \in [Keys -> BOOLEAN]
  BY DEF KeyStart, KeyTypeOK, Untouched
<1>2. info' \in [Keys -> KeyInfo]
  BY NewKeyType DEF KeyStart
<1>3. queue' \in [Keys -> Seq(Values)] /\ presses' \in Nat
  BY DEF KeyStart, KeyTypeOK
<1> QED
  BY <1>1, <1>2, <1>3 DEF KeyTypeOK

LEMMA SuccType == \A m \in Modes : Succ(m) \in Modes /\ <<m, Succ(m)>> \in Cycle
  BY DEF Modes, Succ, Cycle

\* What the type invariant says beside the keys.
ModeTypeOK ==
  /\ state \in Modes \union {"NO_INIT", "WAIT"} /\ next \in Modes \union {"NO_INIT"}
  /\ entered \in BOOLEAN /\ change \in BOOLEAN /\ isRun \in BOOLEAN /\ spent \in BOOLEAN
  /\ waited \in 0 .. WaitTime /\ jwaited \in 0 .. RetryTime
  /\ pc \in {"tick", "set_mode", "flag", "set_last", "key"}
  /\ stateLast \in Modes \union {"NO_INIT"}
  /\ wifiMode \in {"DISABLE", "STA", "AP"} /\ wifi \in {"DISABLE", "STA", "AP"}
  /\ wifiFlag \in BOOLEAN
  /\ jstate \in {"IDLE", "RUN", "WAIT"}
  /\ jpc \in {"tick", "kill_old", "exec", "switch", "kill", "unswitch"}
  /\ servers \in Nat /\ forked \in Nat /\ probe \in {"usb", "mpu"}
  /\ faults \in Nat /\ restarts \in Nat
  /\ pc \in Entering => state \in Modes

LEMMA TypeParts == TypeInv <=> KeyTypeOK /\ ModeTypeOK
  BY Zenon DEF TypeInv, TypeOK, ModeTypeOK

LEMMA TypePartsNext == TypeInv' <=> KeyTypeOK' /\ ModeTypeOK'
  BY Zenon DEF TypeInv, TypeOK, ModeTypeOK

LEMMA WifiOfType == \A m : WifiOf(m) \in {"DISABLE", "STA", "AP"}
  BY DEF WifiOf

LEMMA TypeInit == Init => TypeInv
<1> SUFFICES ASSUME Init PROVE TypeInv
  OBVIOUS
<1>1. KeyTypeOK
  BY NewKeyType DEF Init, KeyInit, KeyTypeOK, Untouched
<1>2. /\ state = "NO_INIT" /\ entered \in BOOLEAN /\ next = "NO_INIT" /\ waited = 0
      /\ change \in BOOLEAN /\ pc = "tick"
      /\ stateLast \in Modes \union {"NO_INIT"} /\ wifiMode = WifiOf(stateLast)
      /\ wifiFlag \in BOOLEAN /\ wifi = wifiMode
      /\ isRun \in BOOLEAN /\ jstate = "IDLE" /\ jpc = "tick" /\ jwaited = 0
      /\ servers = 0 /\ forked = 0 /\ probe = "usb"
      /\ spent \in BOOLEAN /\ faults = 0 /\ restarts = 0
  BY Zenon DEF Init
<1>3. ModeTypeOK
  BY <1>2, WifiOfType, ConstantFacts DEF ModeTypeOK, Entering
<1> QED
  BY <1>1, <1>3, TypeParts

LEMMA PassType ==
  ASSUME TypeInv, Pass
  PROVE  KeyTypeOK'
  BY TypeParts, KeyInfoGetType DEF Pass

LEMMA ModeChangeType ==
  ASSUME ModeTypeOK, NEW p, p \in BOOLEAN, ModeChange(p), state \in Modes
  PROVE  /\ state' \in Modes \union {"WAIT"} /\ next' \in Modes \union {"NO_INIT"}
         /\ entered' \in BOOLEAN /\ spent' \in BOOLEAN /\ pc' = "key"
<1>1. Succ(state) \in Modes
  BY SuccType
<1>2. CASE p = TRUE
  BY <1>1, <1>2 DEF ModeChange
<1>3. CASE p = FALSE
  BY <1>3 DEF ModeChange, ModeTypeOK
<1> QED
  BY <1>2, <1>3

LEMMA StartType ==
  ASSUME ModeTypeOK, NEW n \in Nat, NEW fingers, Start(n, fingers), restarts' \in Nat
  PROVE  ModeTypeOK'
<1>1. /\ state' = "NO_INIT" /\ entered' \in BOOLEAN /\ next' = "NO_INIT" /\ waited' = 0
      /\ change' \in BOOLEAN /\ pc' = "tick" /\ spent' \in BOOLEAN
      /\ wifiFlag' \in BOOLEAN /\ wifi' = wifiMode /\ isRun' \in BOOLEAN
      /\ jstate' = "IDLE" /\ jpc' = "tick" /\ jwaited' = 0
      /\ servers' = n /\ forked' = 0 /\ probe' = "usb"
      /\ UNCHANGED <<store, faults>>
  BY Zenon DEF Start
<1> QED
  BY <1>1, ConstantFacts DEF ModeTypeOK, Entering, store

LEMMA MainKeyType ==
  ASSUME TypeInv, MainStep
  PROVE  KeyTypeOK'
<1>1. CASE Pass
  BY <1>1, PassType
<1>2. CASE KeyProcess
  BY <1>2, TypeParts, KeyProcessType
<1>3. CASE KeyStart(Untouched)
  BY <1>3, TypeParts, KeyStartType
<1>4. CASE UNCHANGED keyVars
  BY <1>4, TypeParts DEF keyVars, KeyTypeOK
<1> QED
  BY <1>1, <1>2, <1>3, <1>4, Zenon
  DEF MainStep, ProcessNoInit, ProcessEnter, SetMode, RaiseFlag, SetLast, ProcessMode,
      ProcessWait, KeyPass, PowerOff, Start

LEMMA MainType ==
  ASSUME ModeTypeOK, MainStep
  PROVE  ModeTypeOK'
<1>1. CASE ProcessNoInit
  <2>1. /\ state' = (IF stateLast = "NO_INIT" THEN "USB" ELSE stateLast)
        /\ entered' \in BOOLEAN /\ change' \in BOOLEAN /\ pc' = "key"
        /\ UNCHANGED <<next, waited, store, wifiVars, isRun, jlinkVars, spent, faults, restarts>>
    BY <1>1 DEF ProcessNoInit, Pending
  <2>2. state' \in Modes
    BY <2>1 DEF ModeTypeOK, Modes
  <2> QED
    BY <2>1, <2>2 DEF ModeTypeOK, Entering, store, wifiVars, jlinkVars
<1>2. CASE ProcessEnter
  BY <1>2 DEF ProcessEnter, Pending, ModeTypeOK, Entering, store, wifiVars, jlinkVars
<1>3. CASE SetMode
  BY <1>3 DEF SetMode, ModeTypeOK, Entering, WifiOf, wifiVars, jlinkVars
<1>4. CASE RaiseFlag
  BY <1>4 DEF RaiseFlag, ModeTypeOK, Entering, store, jlinkVars
<1>5. CASE SetLast
  <2>1. state \in Modes /\ change \in BOOLEAN /\ ModeChange(change)
    BY <1>5 DEF SetLast, ModeTypeOK, Entering
  <2>2. /\ state' \in Modes \union {"WAIT"} /\ next' \in Modes \union {"NO_INIT"}
        /\ entered' \in BOOLEAN /\ spent' \in BOOLEAN /\ pc' = "key"
    BY <2>1, ModeChangeType
  <2>3. UNCHANGED <<waited, change, wifiMode, wifiVars, isRun, jlinkVars, faults, restarts>>
        /\ stateLast' \in Modes
    BY <1>5, <2>1, Zenon DEF SetLast, ModeChange
  <2> QED
    BY <2>2, <2>3 DEF ModeTypeOK, Entering, wifiVars, jlinkVars
<1>6. CASE ProcessMode
  <2>1. state \in Modes /\ change' \in BOOLEAN /\ ModeChange(change')
    BY <1>6 DEF ProcessMode, Pending
  <2>2. /\ state' \in Modes \union {"WAIT"} /\ next' \in Modes \union {"NO_INIT"}
        /\ entered' \in BOOLEAN /\ spent' \in BOOLEAN /\ pc' = "key"
    BY <2>1, SuccType DEF ModeChange, ModeTypeOK
  <2>3. UNCHANGED <<waited, stateLast, wifiMode, wifiVars, isRun, jlinkVars, faults, restarts>>
    BY <1>6, <2>1, Zenon DEF ProcessMode, ModeChange
  <2> QED
    BY <2>1, <2>2, <2>3 DEF ModeTypeOK, Entering, wifiVars, jlinkVars
<1>7. CASE ProcessWait
  <2>1. change' \in BOOLEAN /\ entered' \in BOOLEAN /\ pc' = "key"
        /\ state' \in {state, next} /\ waited' \in {waited, 0}
        /\ UNCHANGED <<next, store, wifiVars, isRun, jlinkVars, spent, faults, restarts>>
    BY <1>7 DEF ProcessWait, Pending
  <2> QED
    BY <2>1, ConstantFacts DEF ModeTypeOK, Entering, store, wifiVars, jlinkVars
<1>8. CASE KeyPass
  <2>1. change' \in BOOLEAN /\ spent' \in BOOLEAN /\ pc' = "tick"
        /\ UNCHANGED <<state, entered, next, waited, store, wifiVars, isRun, jlinkVars, faults, restarts>>
    BY <1>8 DEF KeyPass
  <2> QED
    BY <2>1 DEF ModeTypeOK, Entering, store, wifiVars, jlinkVars
<1>9. CASE PowerOff
  <2>1. Start(0, Untouched) /\ restarts' = restarts
    BY <1>9 DEF PowerOff
  <2> QED
    BY <2>1, StartType DEF ModeTypeOK
<1> QED
  BY <1>1, <1>2, <1>3, <1>4, <1>5, <1>6, <1>7, <1>8, <1>9 DEF MainStep

\* The steps of jlink_ctl and of its servers.
ServerStep == JlinkStep \/ JlinkExecFails \/ ServerStarts \/ ServerDies

LEMMA ServerType ==
  ASSUME TypeInv, ServerStep
  PROVE  TypeInv' /\ UNCHANGED other
<1>1. UNCHANGED other
  BY Zenon DEF ServerStep, JlinkStep, JlinkExecFails, ServerStarts, ServerDies, JlinkIdle,
     JlinkKillOld, JlinkExec, JlinkSwitch, JlinkStop, JlinkKill, JlinkUnswitch, JlinkWait
<1>2. KeyTypeOK'
  BY <1>1, TypeParts DEF other, KeyTypeOK, keyVars
<1>3. ModeTypeOK
  BY TypeParts
<1>4. ModeTypeOK'
  <2> USE <1>1, <1>3, ConstantFacts DEF ModeTypeOK, other, mainVars, store, wifiVars
  <2>1. CASE JlinkIdle
    BY <2>1 DEF JlinkIdle
  <2>2. CASE JlinkKillOld
    BY <2>2 DEF JlinkKillOld
  <2>3. CASE JlinkExec
    BY <2>3 DEF JlinkExec
  <2>4. CASE JlinkSwitch
    BY <2>4 DEF JlinkSwitch
  <2>5. CASE JlinkStop
    BY <2>5 DEF JlinkStop
  <2>6. CASE JlinkKill
    BY <2>6 DEF JlinkKill
  <2>7. CASE JlinkUnswitch
    BY <2>7 DEF JlinkUnswitch
  <2>8. CASE JlinkWait
    BY <2>8 DEF JlinkWait
  <2>9. CASE JlinkExecFails
    BY <2>9 DEF JlinkExecFails
  <2>10. CASE ServerStarts
    BY <2>10 DEF ServerStarts
  <2>11. CASE ServerDies
    BY <2>11 DEF ServerDies
  <2> QED
    BY <2>1, <2>2, <2>3, <2>4, <2>5, <2>6, <2>7, <2>8, <2>9, <2>10, <2>11, Zenon
    DEF ServerStep, JlinkStep
<1> QED
  BY <1>1, <1>2, <1>4, TypePartsNext

LEMMA TypeStep == TypeInv /\ [Next]_vars => TypeInv'
<1> SUFFICES ASSUME TypeInv, [Next]_vars PROVE TypeInv'
  OBVIOUS
<1>1. KeyTypeOK /\ ModeTypeOK
  BY TypeParts
<1>2. CASE MainStep
  BY <1>1, <1>2, MainKeyType, MainType, TypePartsNext
<1>3. CASE ServerStep
  BY <1>3, ServerType
<1>4. CASE WifiTakes
  <2>1. KeyTypeOK'
    BY <1>1, <1>4 DEF WifiTakes, KeyTypeOK, keyVars
  <2>2. ModeTypeOK'
    <3>1. /\ wifiFlag' \in BOOLEAN /\ wifi' = wifiMode
          /\ UNCHANGED <<mainVars, store, isRun, jlinkVars, spent, faults, restarts>>
      BY <1>4 DEF WifiTakes
    <3> QED
      BY <1>1, <3>1 DEF ModeTypeOK, mainVars, store, jlinkVars
  <2> QED
    BY <2>1, <2>2, TypePartsNext
<1>5. CASE Elapse
  <2>1. waited' \in 0 .. WaitTime /\ jwaited' \in 0 .. RetryTime
    BY <1>1, <1>5, ConstantFacts DEF Elapse, Longer, ModeTypeOK
  <2>2. KeyTypeOK'
    BY <1>1, <1>5, KeyTimeType DEF Elapse, KeyTypeOK
  <2>3. ModeTypeOK'
    BY <1>1, <1>5, <2>1 DEF Elapse, ModeTypeOK, store, wifiVars
  <2> QED
    BY <2>2, <2>3, TypePartsNext
<1>6. CASE FingerStep
  <2>1. KeyTypeOK'
    BY <1>1, <1>6, FingerType DEF FingerStep
  <2>2. ModeTypeOK'
    BY <1>1, <1>6 DEF FingerStep, Finger, ModeTypeOK, mainVars, store, wifiVars, jlinkVars
  <2> QED
    BY <2>1, <2>2, TypePartsNext
<1>7. CASE Restart
  <2>1. PICK n \in Nat, fingers \in {held, Untouched} : Start(n, fingers) /\ restarts' = restarts + 1
    BY <1>1, <1>7 DEF Restart, ModeTypeOK
  <2>2. KeyTypeOK'
    BY <1>1, <2>1, KeyStartType DEF Start
  <2>3. ModeTypeOK'
    BY <1>1, <2>1, StartType DEF ModeTypeOK
  <2> QED
    BY <2>2, <2>3, TypePartsNext
<1>8. CASE UNCHANGED vars
  <2>1. KeyTypeOK'
    BY <1>1, <1>8 DEF vars, KeyTypeOK, keyVars
  <2>2. ModeTypeOK'
    BY <1>1, <1>8 DEF vars, ModeTypeOK, mainVars, store, wifiVars, jlinkVars
  <2> QED
    BY <2>1, <2>2, TypePartsNext
<1> QED
  BY <1>2, <1>3, <1>4, <1>5, <1>6, <1>7, <1>8, Zenon DEF Next, ServerStep

\* Every variable keeps its type; in the steps of the first pass in a mode,
\* main is in a mode.
THEOREM TypeCorrect == Spec => []TypeOK
<1>1. TypeInv => TypeOK
  BY DEF TypeInv
<1> QED
  BY <1>1, TypeInit, TypeStep, PTL DEF Spec

-----------------------------------------------------------------------------
(* The J-Link server.                                                      *)

LEMMA ServerInit == Init => ServerInv
<1> SUFFICES ASSUME Init PROVE ServerInv
  OBVIOUS
<1>1. servers = 0 /\ forked = 0 /\ jpc = "tick"
  BY Zenon DEF Init
<1> QED
  BY <1>1 DEF ServerInv, OneServer

LEMMA ServerInvStep == TypeInv /\ ServerInv /\ [Next]_vars => ServerInv'
<1> SUFFICES ASSUME TypeInv, ServerInv, [Next]_vars PROVE ServerInv'
  OBVIOUS
<1>1. servers \in Nat /\ forked \in Nat /\ servers + forked <= 1
  BY TypeParts DEF ModeTypeOK, ServerInv, OneServer
<1>2. CASE UNCHANGED <<servers, forked, jpc>>
  BY <1>2 DEF ServerInv, OneServer
<1>3. ASSUME ServerStep PROVE ServerInv'
  <2> USE <1>1 DEF ServerInv, OneServer
  <2>1. CASE JlinkIdle
    BY <2>1 DEF JlinkIdle
  <2>2. CASE JlinkKillOld
    BY <2>2 DEF JlinkKillOld
  <2>3. CASE JlinkExec
    BY <2>3 DEF JlinkExec
  <2>4. CASE JlinkSwitch
    BY <2>4 DEF JlinkSwitch
  <2>5. CASE JlinkStop
    BY <2>5 DEF JlinkStop
  <2>6. CASE JlinkKill
    BY <2>6 DEF JlinkKill
  <2>7. CASE JlinkUnswitch
    BY <2>7 DEF JlinkUnswitch
  <2>8. CASE JlinkWait
    BY <2>8 DEF JlinkWait
  <2>9. CASE JlinkExecFails
    BY <2>9 DEF JlinkExecFails
  <2>10. CASE ServerStarts
    BY <2>10 DEF ServerStarts
  <2>11. CASE ServerDies
    BY <2>11 DEF ServerDies
  <2> QED
    BY <1>3, <2>1, <2>2, <2>3, <2>4, <2>5, <2>6, <2>7, <2>8, <2>9, <2>10, <2>11, Zenon
    DEF ServerStep, JlinkStep
<1>4. ASSUME NEW n \in Nat, n <= 1, NEW fingers, Start(n, fingers) PROVE ServerInv'
  <2>1. servers' = n /\ forked' = 0 /\ jpc' = "tick"
    BY <1>4, Zenon DEF Start
  <2> QED
    BY <1>4, <2>1 DEF ServerInv, OneServer
<1>5. CASE Restart
  BY <1>1, <1>4, <1>5 DEF Restart
<1>6. CASE PowerOff
  BY <1>4, <1>6 DEF PowerOff
<1>7. MainStep => PowerOff \/ UNCHANGED jlinkVars
  BY Zenon DEF MainStep, ProcessNoInit, ProcessEnter, SetMode, RaiseFlag, SetLast, ModeChange,
     ProcessMode, ProcessWait, KeyPass
<1>8. WifiTakes \/ FingerStep => UNCHANGED jlinkVars
  BY Zenon DEF WifiTakes, FingerStep
<1>9. CASE UNCHANGED vars
  BY <1>2, <1>9 DEF vars, jlinkVars
<1>10. CASE UNCHANGED jlinkVars
  BY <1>2, <1>10 DEF jlinkVars
<1>11. CASE Elapse
  BY <1>2, <1>11 DEF Elapse
<1> QED
  BY <1>3, <1>5, <1>6, <1>7, <1>8, <1>9, <1>10, <1>11, Zenon DEF Next, ServerStep

\* There is never a second J-Link server, nor one on its way beside another,
\* although a crash of the program leaves its servers running and each failed
\* or dead one may be followed by another start.
THEOREM OneServerOnly == Spec => []OneServer
<1>1. Init => TypeInv /\ ServerInv
  BY TypeInit, ServerInit
<1>2. TypeInv /\ ServerInv /\ [Next]_vars => (TypeInv /\ ServerInv)'
  BY TypeStep, ServerInvStep
<1>3. ServerInv => OneServer
  BY DEF ServerInv
<1> QED
  BY <1>1, <1>2, <1>3, PTL DEF Spec

-----------------------------------------------------------------------------
(* The mode machine.                                                       *)

\* What a pass reads of KEY is cleared.
LEMMA GetKey ==
  ASSUME KeyTypeOK, KeyInfoGet
  PROVE  /\ info'[Key].state = info[Key].state /\ info'[Key].age = info[Key].age
         /\ info[Key].event = "none" => info'[Key].event = "none"
         /\ info[Key].event # "none" => info'[Key].event = "clean"
  BY ConstantFacts DEF KeyInfoGet, KeyTypeOK, KeyInfo

\* What key_process makes of KEY: nothing, a press, a long press or a release.
LEMMA ProcessKey ==
  ASSUME KeyTypeOK, KeyProcess
  PROVE  \/ info'[Key] = info[Key]
         \/ /\ info[Key].state = "release"
            /\ info'[Key].state = "press" /\ info'[Key].event = "none" /\ info'[Key].age = 0
         \/ /\ info[Key].state = "press" /\ info[Key].event = "none"
            /\ info[Key].age >= LongPress
            /\ info'[Key].state = "press" /\ info'[Key].event = "long_press"
         \/ /\ info[Key].state = "press" /\ info'[Key].state = "release"
            /\ info'[Key].event = IF info[Key].event = "none" THEN "click" ELSE info[Key].event
<1> DEFINE i == info[Key]
<1>1. i \in KeyInfo /\ i.state \in {"release", "press"}
  BY ConstantFacts, KeyInfoType DEF KeyTypeOK
<1>2. info'[Key] = i \/ \E v : info'[Key] = Machine(i, v)
  BY ConstantFacts DEF KeyProcess, KeyTypeOK
<1>3. CASE info'[Key] = i
  BY <1>3
<1>4. ASSUME NEW v, info'[Key] = Machine(i, v)
      PROVE  \/ info'[Key] = i
             \/ /\ i.state = "release"
                /\ info'[Key].state = "press" /\ info'[Key].event = "none" /\ info'[Key].age = 0
             \/ /\ i.state = "press" /\ i.event = "none" /\ i.age >= LongPress
                /\ info'[Key].state = "press" /\ info'[Key].event = "long_press"
             \/ /\ i.state = "press" /\ info'[Key].state = "release"
                /\ info'[Key].event = IF i.event = "none" THEN "click" ELSE i.event
  <2> HIDE DEF i
  <2>1. CASE i.state = "release" /\ v # "up"
    BY <1>4, <2>1, MachineCases
  <2>2. CASE i.state = "release" /\ v = "up"
    BY <1>4, <2>2, MachineCases
  <2>3. CASE i.state = "press" /\ v = "up"
    BY <1>4, <2>3, MachineCases
  <2>4. CASE i.state = "press" /\ v # "up" /\ i.event = "none" /\ i.age >= LongPress
    <3>1. info'[Key] = [i EXCEPT !.event = "long_press"]
      BY <1>4, <2>4, MachineCases
    <3> QED
      BY <1>1, <2>4, <3>1 DEF KeyInfo
  <2>5. CASE i.state = "press" /\ v # "up" /\ (i.event # "none" \/ ~(i.age >= LongPress))
    BY <1>4, <2>5, MachineCases
  <2> QED
    BY <1>1, <2>1, <2>2, <2>3, <2>4, <2>5
<1> QED
  BY <1>2, <1>3, <1>4

LEMMA ModeInit == Init => ModeInv /\ YoungInv
<1> SUFFICES ASSUME Init PROVE ModeInv /\ YoungInv
  OBVIOUS
<1>1. state = "NO_INIT" /\ entered = FALSE /\ pc = "tick" /\ spent = FALSE
  BY Zenon DEF Init
<1>2. info[Key] = KeyNew
  BY ConstantFacts DEF Init, KeyInit
<1> QED
  BY <1>1, <1>2
  DEF ModeInv, NoInitInv, EnterInv, WaitInv, YoungInv, SpentInv, Entering, Modes

LEMMA StartMode ==
  ASSUME NEW n, NEW fingers, Start(n, fingers)
  PROVE  ModeInv' /\ YoungInv'
<1>1. state' = "NO_INIT" /\ entered' = FALSE /\ pc' = "tick" /\ spent' = FALSE
  BY Zenon DEF Start
<1>2. info'[Key] = KeyNew
  BY ConstantFacts DEF Start, KeyStart
<1> QED
  BY <1>1, <1>2
  DEF ModeInv, NoInitInv, EnterInv, WaitInv, YoungInv, SpentInv, Entering, Modes

LEMMA AsideMode ==
  ASSUME ModeInv, UNCHANGED <<info, mainVars, store, spent>>
  PROVE  ModeInv' /\ (YoungInv => YoungInv')
  BY DEF mainVars, store, ModeInv, NoInitInv, EnterInv, WaitInv, YoungInv, SpentInv

\* The first pass after a start finds no event.
LEMMA NoInitMode ==
  ASSUME TypeInv, ModeInv, ProcessNoInit
  PROVE  ModeInv' /\ YoungInv'
<1>1. info[Key] = KeyNew /\ state = "NO_INIT"
  BY Zenon DEF ProcessNoInit, ModeInv, NoInitInv
<1>2. state' \in Modes /\ entered' = FALSE /\ pc' = "key" /\ spent' = spent
  BY TypeParts DEF ProcessNoInit, ModeTypeOK, Modes
<1>3. ~spent'
  BY <1>1, <1>2 DEF ModeInv, SpentInv, KeyNew
<1> QED
  BY <1>2, <1>3
  DEF ModeInv, NoInitInv, EnterInv, WaitInv, YoungInv, SpentInv, Entering, Modes

LEMMA EnterMode ==
  ASSUME TypeInv, ModeInv, ProcessEnter
  PROVE  ModeInv' /\ YoungInv'
<1>1. KeyTypeOK /\ KeyInfoGet /\ pc = "tick" /\ state \in Modes
  BY TypeParts DEF ProcessEnter, Pass
<1>2. /\ state' = state /\ entered' = TRUE /\ pc' = "set_mode" /\ spent' = spent
      /\ change' = (info[Key].event = "long_press")
  BY DEF ProcessEnter, Pending
<1>3. spent => info'[Key].event = "clean"
  BY <1>1, GetKey DEF ModeInv, SpentInv
<1>4. change' => ~spent /\ info'[Key].event = "clean"
  BY <1>1, <1>2, GetKey DEF ModeInv, SpentInv
<1> QED
  BY <1>1, <1>2, <1>3, <1>4
  DEF ModeInv, NoInitInv, EnterInv, WaitInv, YoungInv, SpentInv, Entering, Modes

LEMMA SetModeFlagMode ==
  ASSUME TypeInv, ModeInv, SetMode \/ RaiseFlag
  PROVE  ModeInv' /\ YoungInv'
<1>1. /\ pc \in Entering /\ state \in Modes /\ entered
      /\ pc' \in Entering
      /\ UNCHANGED <<info, state, entered, next, change, stateLast, spent>>
  BY TypeParts DEF SetMode, RaiseFlag, Entering, ModeTypeOK, ModeInv, EnterInv, keyVars, store
<1> QED
  BY <1>1 DEF ModeInv, NoInitInv, EnterInv, WaitInv, YoungInv, SpentInv, Entering, Modes

\* The change that was read in the first pass happens at its end, when the
\* store has the mode that is left.
LEMMA SetLastMode ==
  ASSUME TypeInv, ModeInv, SetLast
  PROVE  ModeInv' /\ YoungInv' /\ (state' = "WAIT" => ~spent)
<1>1. /\ pc \in Entering /\ state \in Modes /\ entered /\ change \in BOOLEAN
      /\ stateLast' = state /\ pc' = "key" /\ info' = info
  BY TypeParts DEF SetLast, ModeChange, Entering, ModeTypeOK, ModeInv, EnterInv, keyVars
<1>2. CASE change = TRUE
  <2>1. entered' = FALSE /\ next' = Succ(state) /\ state' = "WAIT" /\ spent' = TRUE
    BY <1>2 DEF SetLast, ModeChange
  <2>2. info[Key].event = "clean" /\ ~spent
    BY <1>1, <1>2 DEF ModeInv, SpentInv
  <2> QED
    BY <1>1, <2>1, <2>2
    DEF ModeInv, NoInitInv, EnterInv, WaitInv, YoungInv, SpentInv, Entering, Modes
<1>3. CASE change = FALSE
  <2>1. UNCHANGED <<entered, next, state, spent>>
    BY <1>3 DEF SetLast, ModeChange
  <2> QED
    BY <1>1, <2>1
    DEF ModeInv, NoInitInv, EnterInv, WaitInv, YoungInv, SpentInv, Entering, Modes
<1> QED
  BY <1>1, <1>2, <1>3

LEMMA ModeMode ==
  ASSUME TypeInv, ModeInv, ProcessMode
  PROVE  ModeInv' /\ YoungInv' /\ (state' = "WAIT" => ~spent)
<1> DEFINE long == info[Key].event = "long_press"
<1>1. KeyTypeOK /\ KeyInfoGet /\ pc = "tick" /\ state \in Modes /\ entered /\ pc' = "key"
  BY TypeParts DEF ProcessMode, Pass, ModeChange
<1>2. stateLast = state /\ stateLast' = stateLast
  BY <1>1 DEF ProcessMode, ModeInv, EnterInv, Entering
<1>3. ModeChange(long)
  BY DEF ProcessMode, Pending
<1>4. CASE long
  <2>1. entered' = FALSE /\ next' = Succ(state) /\ state' = "WAIT" /\ spent' = TRUE
    BY <1>3, <1>4 DEF ModeChange
  <2>2. info'[Key].event = "clean" /\ ~spent
    BY <1>1, <1>4, GetKey DEF ModeInv, SpentInv
  <2> QED
    BY <1>1, <1>2, <2>1, <2>2
    DEF ModeInv, NoInitInv, EnterInv, WaitInv, YoungInv, SpentInv, Entering, Modes
<1>5. CASE ~long
  <2>1. UNCHANGED <<entered, next, state, spent>>
    BY <1>3, <1>5 DEF ModeChange
  <2>2. spent => info'[Key].event = "clean"
    BY <1>1, GetKey DEF ModeInv, SpentInv
  <2> QED
    BY <1>1, <1>2, <2>1, <2>2
    DEF ModeInv, NoInitInv, EnterInv, WaitInv, YoungInv, SpentInv, Entering, Modes
<1> QED
  BY <1>4, <1>5

\* State WAIT ends in the successor of the mode that is saved.
LEMMA WaitMode ==
  ASSUME TypeInv, ModeInv, ProcessWait
  PROVE  /\ ModeInv' /\ (YoungInv => YoungInv')
         /\ state' \in Modes => <<stateLast, state'>> \in Cycle
<1>1. KeyTypeOK /\ KeyInfoGet /\ pc' = "key" /\ spent' = spent /\ next' = next
      /\ stateLast' = stateLast /\ state = "WAIT"
  BY TypeParts DEF ProcessWait, Pass, store
<1>2. stateLast \in Modes /\ next = Succ(stateLast) /\ next \in Modes
      /\ <<stateLast, next>> \in Cycle
  BY <1>1, SuccType DEF ModeInv, WaitInv
<1>3. spent' => info'[Key].event = "clean"
  BY <1>1, GetKey DEF ModeInv, SpentInv
<1>4. CASE WaitOver(waited)
  <2>1. state' = next /\ entered' = FALSE
    BY <1>4 DEF ProcessWait
  <2> QED
    BY <1>1, <1>2, <1>3, <2>1
    DEF ModeInv, NoInitInv, EnterInv, WaitInv, YoungInv, SpentInv, Entering, Modes
<1>5. CASE ~WaitOver(waited)
  <2>1. state' = "WAIT" /\ waited' = waited
    BY <1>1, <1>5 DEF ProcessWait
  <2>2. ModeInv' /\ state' \notin Modes
    BY <1>1, <1>2, <1>3, <2>1
    DEF ModeInv, NoInitInv, EnterInv, WaitInv, SpentInv, Entering, Modes
  <2>3. ASSUME YoungInv PROVE YoungInv'
    BY <1>1, <2>1, <2>3, GetKey DEF YoungInv
  <2> QED
    BY <2>2, <2>3
<1> QED
  BY <1>4, <1>5

\* A key that is pressed anew starts a press of its own; one that is held, or
\* released, takes along what was read of it.
LEMMA KeyPassMode ==
  ASSUME TypeInv, ModeInv, KeyPass
  PROVE  ModeInv' /\ (WaitTime < LongPress /\ YoungInv => YoungInv')
<1>1. /\ KeyTypeOK /\ KeyProcess /\ pc = "key" /\ pc' = "tick"
      /\ UNCHANGED <<state, entered, next, waited, stateLast>>
  BY TypeParts DEF KeyPass, store
<1>2. spent' => spent /\ ~(info[Key].state = "release" /\ info'[Key].state = "press")
  BY DEF KeyPass
<1>3. spent' => info'[Key].event = "clean"
  BY <1>1, <1>2, ProcessKey DEF ModeInv, SpentInv
<1>4. ModeInv'
  BY <1>1, <1>3 DEF ModeInv, NoInitInv, EnterInv, WaitInv, SpentInv, Entering
<1>5. ASSUME WaitTime < LongPress, YoungInv PROVE YoungInv'
  <2> SUFFICES ASSUME state = "WAIT"
               PROVE  /\ info'[Key].event # "long_press"
                      /\ info'[Key].state = "press" /\ info'[Key].event = "none" =>
                           info'[Key].age <= waited
    BY <1>1 DEF YoungInv
  <2>1. waited \in 0 .. WaitTime /\ info[Key].age \in 0 .. LongPress
    BY <1>1, TypeParts, ConstantFacts, KeyInfoType DEF ModeTypeOK, KeyTypeOK
  <2>2. /\ info[Key].event # "long_press"
        /\ info[Key].state = "press" /\ info[Key].event = "none" => info[Key].age <= waited
    BY <1>5 DEF YoungInv
  <2>3. ~(info[Key].state = "press" /\ info[Key].event = "none" /\ info[Key].age >= LongPress)
    BY <1>5, <2>1, <2>2, ConstantFacts
  <2> QED
    BY <1>1, <2>1, <2>2, <2>3, ProcessKey
<1> QED
  BY <1>4, <1>5

\* Time passes for a press no faster than for state WAIT.
LEMMA ElapseMode ==
  ASSUME TypeInv, ModeInv, Elapse
  PROVE  ModeInv' /\ (YoungInv => YoungInv')
<1>1. /\ KeyTypeOK /\ KeyTime /\ (pc \in Entering \/ MainRests)
      /\ UNCHANGED <<state, entered, next, change, pc, stateLast, spent>>
  BY TypeParts DEF Elapse, Entering, store
<1>2. /\ info'[Key].state = info[Key].state /\ info'[Key].event = info[Key].event
      /\ info[Key].state = "press" => info'[Key].age <= info[Key].age + 1
  BY <1>1, ConstantFacts DEF KeyTime, KeyTypeOK, KeyInfo, Longer
<1>3. state # "NO_INIT"
  BY <1>1 DEF MainRests, ModeInv, NoInitInv, Entering
<1>4. ModeInv'
  BY <1>1, <1>2, <1>3 DEF ModeInv, NoInitInv, EnterInv, WaitInv, SpentInv
<1>5. ASSUME YoungInv PROVE YoungInv'
  <2> SUFFICES ASSUME state = "WAIT"
               PROVE  /\ info'[Key].event # "long_press"
                      /\ info'[Key].state = "press" /\ info'[Key].event = "none" =>
                           info'[Key].age <= waited'
    BY <1>1 DEF YoungInv
  <2>1. pc \notin Entering
    BY TypeParts DEF ModeTypeOK, Modes
  <2>2. entered /\ ~WaitOver(waited)
    BY <1>1, <2>1 DEF MainRests
  <2>3. waited \in 0 .. WaitTime /\ info[Key].age \in 0 .. LongPress
    BY <1>1, TypeParts, ConstantFacts, KeyInfoType DEF ModeTypeOK, KeyTypeOK
  <2>4. waited' = waited + 1
    BY <2>2, <2>3, ConstantFacts DEF Elapse, WaitOver, Longer
  <2>5. info' \in [Keys -> KeyInfo]
    BY <1>1, KeyTimeType
  <2>6. info'[Key].age \in Int
    BY <2>5, ConstantFacts DEF KeyInfo
  <2> QED
    BY <1>2, <1>5, <2>3, <2>4, <2>6 DEF YoungInv
<1> QED
  BY <1>4, <1>5

\* The invariant is kept by every step, and what an action property says of it.
LEMMA ModeStep ==
  ASSUME TypeInv, ModeInv, [Next]_vars
  PROVE  /\ ModeInv'
         /\ WaitTime < LongPress /\ YoungInv => YoungInv'
         /\ state \in Modes /\ state' = "WAIT" => ~spent
         /\ state = "WAIT" /\ state' \in Modes => <<stateLast, state'>> \in Cycle
<1> DEFINE Kept == ModeInv' /\ (WaitTime < LongPress /\ YoungInv => YoungInv')
           Once == state \in Modes /\ state' = "WAIT" => ~spent
           Order == state = "WAIT" /\ state' \in Modes => <<stateLast, state'>> \in Cycle
<1>1. ASSUME state' = state PROVE Once /\ Order
  BY <1>1 DEF Modes
<1>2. ASSUME UNCHANGED <<info, mainVars, store, spent>> PROVE Kept /\ Once /\ Order
  <2>1. state' = state
    BY <1>2 DEF mainVars
  <2> QED
    BY <1>1, <1>2, <2>1, AsideMode
<1>3. ASSUME NEW n, NEW fingers, Start(n, fingers) PROVE Kept /\ Once /\ Order
  <2>1. state' = "NO_INIT"
    BY <1>3, Zenon DEF Start
  <2>2. Kept
    BY <1>3, StartMode
  <2> QED
    BY <2>1, <2>2 DEF Modes
<1>4. CASE ProcessNoInit
  <2>1. state = "NO_INIT"
    BY <1>4 DEF ProcessNoInit
  <2>2. Kept
    BY <1>4, NoInitMode
  <2> QED
    BY <2>1, <2>2 DEF Modes
<1>5. CASE ProcessEnter
  <2>1. state' = state
    BY <1>5 DEF ProcessEnter
  <2> QED
    BY <1>1, <1>5, <2>1, EnterMode
<1>6. CASE SetMode \/ RaiseFlag
  <2>1. state' = state
    BY <1>6 DEF SetMode, RaiseFlag
  <2> QED
    BY <1>1, <1>6, <2>1, SetModeFlagMode
<1>7. CASE SetLast
  <2>1. state # "WAIT"
    BY <1>7, TypeParts DEF SetLast, ModeTypeOK, Entering, Modes
  <2> QED
    BY <1>7, <2>1, SetLastMode
<1>8. CASE ProcessMode
  <2>1. state # "WAIT"
    BY <1>8 DEF ProcessMode, Modes
  <2> QED
    BY <1>8, <2>1, ModeMode
<1>9. CASE ProcessWait
  <2>1. state = "WAIT"
    BY <1>9 DEF ProcessWait
  <2> QED
    BY <1>9, <2>1, WaitMode DEF Modes
<1>10. CASE KeyPass
  <2>1. state' = state
    BY <1>10 DEF KeyPass
  <2> QED
    BY <1>1, <1>10, <2>1, KeyPassMode
<1>11. CASE PowerOff
  BY <1>3, <1>11 DEF PowerOff
<1>12. CASE Restart
  BY <1>3, <1>12 DEF Restart
<1>13. CASE Elapse
  <2>1. state' = state
    BY <1>13 DEF Elapse
  <2> QED
    BY <1>1, <1>13, <2>1, ElapseMode
<1>14. CASE ServerStep
  <2>1. UNCHANGED other
    BY <1>14, ServerType
  <2>2. UNCHANGED <<info, mainVars, store, spent>>
    BY <2>1 DEF other, keyVars
  <2> QED
    BY <1>2, <2>2
<1>15. CASE FingerStep
  <2>1. info' = info
    BY <1>15, TypeParts, FingerType DEF FingerStep
  <2>2. UNCHANGED <<info, mainVars, store, spent>>
    BY <1>15, <2>1 DEF FingerStep
  <2> QED
    BY <1>2, <2>2
<1>16. CASE WifiTakes \/ UNCHANGED vars
  <2>1. UNCHANGED <<info, mainVars, store, spent>>
    BY <1>16 DEF WifiTakes, vars, keyVars
  <2> QED
    BY <1>2, <2>1
<1> QED
  BY <1>4, <1>5, <1>6, <1>7, <1>8, <1>9, <1>10, <1>11, <1>12, <1>13, <1>14, <1>15, <1>16, Zenon
  DEF Next, MainStep, ServerStep

LEMMA ModeAlways == Spec => [](TypeInv /\ ModeInv)
<1>1. Init => TypeInv /\ ModeInv
  BY TypeInit, ModeInit
<1>2. TypeInv /\ ModeInv /\ [Next]_vars => (TypeInv /\ ModeInv)'
  BY TypeStep, ModeStep
<1> QED
  BY <1>1, <1>2, PTL DEF Spec

\* Wherever main reads a long press of KEY it is in a mode and acts on it, if
\* the threshold of a long press, which is configured, is longer than state
\* WAIT, which is fixed: as it is unless the configuration says 500 ms or less.
THEOREM PressesNotIgnored ==
  ASSUME WaitTime < LongPress
  PROVE  Spec => []PressNeverIgnored
<1>1. Init => TypeInv /\ ModeInv /\ YoungInv
  BY TypeInit, ModeInit
<1>2. TypeInv /\ ModeInv /\ YoungInv /\ [Next]_vars => (TypeInv /\ ModeInv /\ YoungInv)'
  BY TypeStep, ModeStep
<1>3. TypeInv /\ ModeInv /\ YoungInv => PressNeverIgnored
  BY TypeParts DEF ModeTypeOK, ModeInv, NoInitInv, YoungInv, PressNeverIgnored, Pending, KeyNew
<1> QED
  BY <1>1, <1>2, <1>3, PTL DEF Spec

\* One press of KEY changes the mode once, also when the long press is read in
\* one step and main, which saves in between, acts on it in a later one.
THEOREM OneChange == Spec => OneChangePerPress
<1>1. TypeInv /\ ModeInv /\ [Next]_vars => [(state \in Modes /\ state' = "WAIT") => ~spent]_vars
  BY ModeStep
<1> QED
  BY <1>1, ModeAlways, PTL DEF Spec, OneChangePerPress

\* What follows state WAIT is the successor of the mode that is saved, so the
\* modes follow one another in the same order across a restart.
THEOREM CycleKept == Spec => CycleOrder
<1>1. TypeInv /\ ModeInv /\ [Next]_vars =>
        [(state = "WAIT" /\ state' \in Modes) => <<stateLast, state'>> \in Cycle]_vars
  BY ModeStep
<1> QED
  BY <1>1, ModeAlways, PTL DEF Spec, CycleOrder

=============================================================================
