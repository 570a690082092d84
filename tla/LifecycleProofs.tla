-------------------------- MODULE LifecycleProofs --------------------------
(***************************************************************************)
(* Proofs about Lifecycle for any number of plain resources and of         *)
(* services, whether or not a service may fail to be initialised:          *)
(* the threads start together, none of them outlives what it uses, and     *)
(* the end is clean.                                                       *)
(***************************************************************************)
EXTENDS Lifecycle, FiniteSetTheorems, TLAPS

(***************************************************************************)
(* What ties the stage of main to the level, to the barrier and to the     *)
(* threads.  A thread above the level has not been created or has ended.   *)
(***************************************************************************)
LevelOfStage ==
  /\ stage \in {"arrive", "barrier", "loop"} => level = Last
  /\ stage = "join" => level \in Threads
  /\ stage = "end" => level = 0

MainWaits == Main \in waiting <=> stage = "barrier"

NoneAbove == \A t \in Threads : t > level => thread[t] \in {"none", "exited"}

LifeInv == TypeOK /\ LevelOfStage /\ MainWaits /\ NoneAbove /\ StartTogether

-----------------------------------------------------------------------------
LEMMA ThreadFacts ==
  /\ Base \in Nat /\ Base > 0 /\ Services \in Nat /\ Services > 0
  /\ Last \in Nat /\ Last = Base + Services
  /\ \A t \in Threads : t \in Nat /\ t > Base /\ t <= Last
  /\ Main \notin Threads
  BY LifecycleAssumption DEF Threads, Last, Main

\* The barrier counts its parties: when it is full all of them are there.
LEMMA BarrierFull ==
  ASSUME NEW S, S \subseteq Threads \union {Main}, Cardinality(S) = BarrierCount
  PROVE  S = Threads \union {Main}
<1>1. IsFiniteSet(Threads) /\ Cardinality(Threads) = Services
  <2>1. Base + 1 \in Int /\ Last \in Int /\ Base + 1 <= Last
        /\ Last - (Base + 1) + 1 = Services
    BY ThreadFacts
  <2> QED
    BY <2>1, FS_Interval DEF Threads
<1>2. IsFiniteSet(Threads \union {Main}) /\ Cardinality(Threads \union {Main}) = Services + 1
  BY <1>1, ThreadFacts, FS_AddElement
<1> QED
  BY <1>2, FS_Subset DEF BarrierCount

LEMMA LifeInit == Init => LifeInv
  BY ThreadFacts
  DEF Init, LifeInv, TypeOK, LevelOfStage, MainWaits, NoneAbove, StartTogether,
      Active, ThreadStages

\* main acquires.
LEMMA AcquireStep ==
  ASSUME LifeInv, InitResource \/ InitService \/ InitFails
  PROVE  LifeInv'
<1> USE ThreadFacts
    DEF LifeInv, TypeOK, LevelOfStage, MainWaits, NoneAbove, StartTogether, Active
<1>1. CASE InitResource
  BY <1>1 DEF InitResource
<1>2. CASE InitService
  <2>1. level + 1 \in Threads
    BY <1>2 DEF InitService, Threads
  <2>2. TypeOK'
    BY <1>2, <2>1 DEF InitService, ThreadStages
  <2>3. LevelOfStage' /\ MainWaits'
    BY <1>2, <2>1 DEF InitService
  <2>4. NoneAbove' /\ StartTogether'
    BY <1>2, <2>1 DEF InitService
  <2> QED
    BY <2>2, <2>3, <2>4
<1>3. CASE InitFails
  BY <1>3 DEF InitFails
<1> QED
  BY <1>1, <1>2, <1>3

\* The last of the parties lets all of them go, and main is then one of them.
LEMMA ArriveStep ==
  ASSUME LifeInv, MainArrives \/ \E t \in Threads : ThreadArrives(t)
  PROVE  LifeInv'
<1>1. CASE MainArrives
  <2> DEFINE all == waiting \union {Main}
  <2>1. stage = "arrive" /\ all \subseteq Threads \union {Main} /\ level = Last
    BY <1>1 DEF MainArrives, LifeInv, TypeOK, LevelOfStage
  <2>2. CASE Cardinality(all) = BarrierCount
    <3>1. all = Threads \union {Main}
      BY <2>1, <2>2, BarrierFull
    <3>2. \A t \in Threads : t \in waiting
      BY <3>1, ThreadFacts
    <3>3. waiting' = {} /\ stage' = "loop" /\ thread' = [t \in Threads |-> "start"]
          /\ level' = level /\ mainRun' = mainRun /\ run' = run
      BY <1>1, <2>2, <3>2 DEF MainArrives
    <3> QED
      BY <2>1, <3>3, ThreadFacts
      DEF LifeInv, TypeOK, LevelOfStage, MainWaits, NoneAbove, StartTogether, ThreadStages
  <2>3. CASE Cardinality(all) # BarrierCount
    <3>1. waiting' = all /\ stage' = "barrier" /\ thread' = thread
          /\ level' = level /\ mainRun' = mainRun /\ run' = run
      BY <1>1, <2>3 DEF MainArrives
    <3> QED
      BY <2>1, <3>1
      DEF LifeInv, TypeOK, LevelOfStage, MainWaits, NoneAbove, StartTogether, Active
  <2> QED
    BY <2>2, <2>3
<1>2. ASSUME NEW t \in Threads, ThreadArrives(t) PROVE LifeInv'
  <2> DEFINE all == waiting \union {t}
  <2>1. thread[t] = "arrive" /\ all \subseteq Threads \union {Main} /\ t # Main
        /\ level' = level /\ mainRun' = mainRun /\ run' = run
    BY <1>2, ThreadFacts DEF ThreadArrives, LifeInv, TypeOK
  <2>2. CASE Cardinality(all) = BarrierCount
    <3>1. all = Threads \union {Main}
      BY <2>1, <2>2, BarrierFull
    <3>2. Main \in waiting
      BY <2>1, <3>1
    <3>3. level = Last
      BY <3>2 DEF LifeInv, MainWaits, LevelOfStage
    <3>4. waiting' = {} /\ stage' = "loop" /\ thread' = [u \in Threads |-> "start"]
      BY <1>2, <2>2, <3>1, <3>2 DEF ThreadArrives
    <3> QED
      BY <2>1, <3>3, <3>4, ThreadFacts
      DEF LifeInv, TypeOK, LevelOfStage, MainWaits, NoneAbove, StartTogether, ThreadStages
  <2>3. CASE Cardinality(all) # BarrierCount
    <3>1. waiting' = all /\ thread' = [thread EXCEPT ![t] = "barrier"] /\ stage' = stage
      BY <1>2, <2>3 DEF ThreadArrives
    <3>2. TypeOK' /\ LevelOfStage' /\ MainWaits'
      BY <2>1, <3>1 DEF LifeInv, TypeOK, LevelOfStage, MainWaits, ThreadStages
    <3>3. ~(t > level)
      BY <2>1 DEF LifeInv, NoneAbove
    <3>4. NoneAbove' /\ StartTogether'
      BY <2>1, <3>1, <3>3 DEF LifeInv, TypeOK, NoneAbove, StartTogether, Active
    <3> QED
      BY <3>2, <3>4 DEF LifeInv
  <2> QED
    BY <2>2, <2>3
<1> QED
  BY <1>1, <1>2

\* A thread at work works in no stage of main before the loop.
LEMMA WorkStep ==
  ASSUME LifeInv,
         NEW t \in Threads, ThreadStarts(t) \/ ThreadStops(t) \/ ThreadFails(t)
  PROVE  LifeInv'
<1>1. /\ Active(t)
      /\ \E s \in {"loop", "exited"} : thread' = [thread EXCEPT ![t] = s]
      /\ UNCHANGED <<stage, level, mainRun, run, waiting>>
  BY DEF ThreadStarts, ThreadStops, ThreadFails, Active
<1>2. PICK s \in {"loop", "exited"} : thread' = [thread EXCEPT ![t] = s]
  BY <1>1
<1>3. stage \notin {"init", "arrive", "barrier"} /\ ~(t > level)
  BY <1>1 DEF LifeInv, StartTogether, NoneAbove, Active
<1>4. TypeOK' /\ LevelOfStage' /\ MainWaits'
  BY <1>1, <1>2 DEF LifeInv, TypeOK, LevelOfStage, MainWaits, ThreadStages
<1>5. NoneAbove' /\ StartTogether'
  BY <1>1, <1>2, <1>3 DEF LifeInv, TypeOK, NoneAbove, StartTogether
<1> QED
  BY <1>4, <1>5 DEF LifeInv

\* main stops and releases, from the top.
LEMMA ReleaseStep ==
  ASSUME LifeInv,
         MainLoopEnds \/ MainStops \/ ReleaseService \/ Join \/ ReleaseResource \/ Signal
  PROVE  LifeInv'
<1> USE ThreadFacts
    DEF LifeInv, TypeOK, LevelOfStage, MainWaits, NoneAbove, StartTogether, Active
<1>1. CASE MainLoopEnds \/ MainStops
  BY <1>1 DEF MainLoopEnds, MainStops
<1>2. CASE ReleaseService
  BY <1>2 DEF ReleaseService
<1>3. CASE Join
  <2>1. level \in Threads /\ thread[level] = "exited" /\ level' = level - 1
        /\ stage' = "release" /\ UNCHANGED <<mainRun, run, thread, waiting>>
    BY <1>3 DEF Join
  <2>2. TypeOK' /\ LevelOfStage' /\ MainWaits' /\ StartTogether'
    BY <1>3, <2>1 DEF Join
  <2>3. NoneAbove'
    BY <2>1
  <2> QED
    BY <2>2, <2>3
<1>4. CASE ReleaseResource
  <2>1. level \in 1 .. Base /\ level' = level - 1 /\ stage = "release"
    BY <1>4 DEF ReleaseResource
  <2>2. stage' \in {"end", "release"} /\ (stage' = "end" => level = 1)
    BY <1>4 DEF ReleaseResource
  <2>3. mainRun' = mainRun /\ run' = run /\ thread' = thread /\ waiting' = waiting
    BY <1>4 DEF ReleaseResource
  <2>4. \A t \in Threads : t > level
    BY <2>1
  <2>5. NoneAbove'
    BY <2>3, <2>4
  <2>6. TypeOK'
    BY <2>1, <2>2, <2>3
  <2>7. LevelOfStage' /\ MainWaits' /\ StartTogether'
    BY <2>1, <2>2, <2>3
  <2> QED
    BY <2>5, <2>6, <2>7
<1>5. CASE Signal
  BY <1>5 DEF Signal
<1> QED
  BY <1>1, <1>2, <1>3, <1>4, <1>5

LEMMA LifeStep == LifeInv /\ [Next]_vars => LifeInv'
<1> SUFFICES ASSUME LifeInv, [Next]_vars PROVE LifeInv'
  OBVIOUS
<1>1. CASE MainStep \/ MainLoopEnds \/ Signal
  BY <1>1, AcquireStep, ArriveStep, ReleaseStep DEF MainStep
<1>2. CASE \E t \in Threads : ThreadStep(t) \/ ThreadFails(t)
  BY <1>2, ArriveStep, WorkStep DEF ThreadStep
<1>3. CASE UNCHANGED vars
  BY <1>3
  DEF vars, LifeInv, TypeOK, LevelOfStage, MainWaits, NoneAbove, StartTogether, Active
<1> QED
  BY <1>1, <1>2, <1>3 DEF Next

LEMMA LifeHolds == Spec => []LifeInv
  BY LifeInit, LifeStep, PTL DEF Spec

-----------------------------------------------------------------------------
\* The variables of start and end keep their types.
THEOREM TypeCorrect == Spec => []TypeOK
<1>1. LifeInv => TypeOK
  BY DEF LifeInv
<1> QED
  BY <1>1, LifeHolds, PTL

\* No service thread works before main has initialised everything and has come
\* to the barrier itself.
THEOREM StartsTogether == Spec => []StartTogether
<1>1. LifeInv => StartTogether
  BY DEF LifeInv
<1> QED
  BY <1>1, LifeHolds, PTL

\* A service thread at work finds its own service and all that was acquired
\* before it initialised: the release joins it first.
THEOREM ResourcesOutlive == Spec => []UsesInitialised
<1>1. LifeInv => UsesInitialised
  BY ThreadFacts DEF LifeInv, TypeOK, NoneAbove, UsesInitialised, Active
<1> QED
  BY <1>1, LifeHolds, PTL

\* When main returns nothing is left initialised and no thread is left running,
\* although a start may have failed at any point.
THEOREM EndsClean == Spec => []CleanEnd
<1>1. LifeInv => CleanEnd
  BY ThreadFacts DEF LifeInv, LevelOfStage, NoneAbove, CleanEnd
<1> QED
  BY <1>1, LifeHolds, PTL

=============================================================================
