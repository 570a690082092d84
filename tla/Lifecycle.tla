----------------------------- MODULE Lifecycle -----------------------------
(***************************************************************************)
(* Start and end of the process (main() of application/source/main.c with  *)
(* the *_init, *_deinit and thread functions of wifi_ctl, jlink_ctl, web   *)
(* and udp_ctl).                                                           *)
(*                                                                         *)
(* main acquires its resources one after the other: zlog, the mutex, the   *)
(* timer, cfg, led, key, the barrier (the plain ones, 1..Base), then the   *)
(* services, each of which creates a thread.  All of them meet at the      *)
(* barrier, then run until told to stop.  The goto chain at the end of     *)
(* main releases in the reverse order whatever has been acquired.          *)
(***************************************************************************)
EXTENDS Integers, FiniteSets

CONSTANTS
  Base,         \* number of plain resources main acquires first
  Services,     \* number of service threads
  InitMayFail   \* TRUE: creating a service may fail (pthread_create, mutex)

ASSUME LifecycleAssumption ==
  Base \in Nat \ {0} /\ Services \in Nat \ {0} /\ InitMayFail \in BOOLEAN

Last     == Base + Services
Threads  == Base + 1 .. Last     \* a service and its thread: its resource number
Main     == 0

VARIABLES
  stage,     \* main: "init", "arrive", "barrier", "loop", "release", "join", "end"
  level,     \* resources 1..level are initialised (the __g_is_init flags)
  mainRun,   \* __g_thread_run of main.c
  run,       \* [Threads -> BOOLEAN]: __g_thread_run of each service
  thread,    \* [Threads -> ThreadStages]
  waiting    \* SUBSET (Threads \union {Main}): who is in pthread_barrier_wait

vars == <<stage, level, mainRun, run, thread, waiting>>

ThreadStages == {"none", "arrive", "barrier", "start", "loop", "exited"}

\* Mutant: the barrier is made for the service threads alone.
BarrierCountNoMain == Services

\* pthread_barrier_init(.., 5): the services and main.
BarrierCount == Services + 1

-----------------------------------------------------------------------------
(* main(): acquiring.                                                      *)

\* Mutant: a failed *_init returns at once instead of going to its label.
InitFailsReturns ==
  /\ stage = "init"
  /\ level < Base \/ InitMayFail
  /\ stage' = "end"
  /\ UNCHANGED <<level, mainRun, run, thread, waiting>>

InitFails ==
  /\ stage = "init"
  /\ level < Base \/ InitMayFail
  /\ stage' = IF level = 0 THEN "end" ELSE "release"
  /\ UNCHANGED <<level, mainRun, run, thread, waiting>>

InitResource ==
  /\ stage = "init" /\ level < Base
  /\ level' = level + 1
  /\ UNCHANGED <<stage, mainRun, run, thread, waiting>>

\* wifi_ctl_init, jlink_ctl_init, web_init, udp_ctl_init: the new thread runs
\* at once, and __g_is_init is set after it was created.
InitService ==
  /\ stage = "init" /\ level \in Base .. Last - 1
  /\ level' = level + 1
  /\ thread' = [thread EXCEPT ![level + 1] = "arrive"]
  /\ stage' = IF level + 1 = Last THEN "arrive" ELSE "init"
  /\ UNCHANGED <<mainRun, run, waiting>>

-----------------------------------------------------------------------------
(* main_wait_init(): the last to arrive releases everyone.                 *)

MainArrives ==
  /\ stage = "arrive"
  /\ LET all == waiting \union {Main}
     IN  IF Cardinality(all) = BarrierCount
         THEN /\ waiting' = {}
              /\ stage' = "loop"
              /\ thread' = [t \in Threads |->
                              IF t \in waiting THEN "start" ELSE thread[t]]
         ELSE waiting' = all /\ stage' = "barrier" /\ UNCHANGED thread
  /\ UNCHANGED <<level, mainRun, run>>

ThreadArrives(t) ==
  /\ thread[t] = "arrive"
  /\ LET all == waiting \union {t}
     IN  IF Cardinality(all) = BarrierCount
         THEN /\ waiting' = {}
              /\ stage' = IF Main \in waiting THEN "loop" ELSE stage
              /\ thread' = [u \in Threads |-> IF u \in all THEN "start" ELSE thread[u]]
         ELSE /\ waiting' = all
              /\ thread' = [thread EXCEPT ![t] = "barrier"]
              /\ UNCHANGED stage
  /\ UNCHANGED <<level, mainRun, run>>

-----------------------------------------------------------------------------
(* The service threads.                                                    *)

\* epoll_timer_init works, and the loop begins; or it fails, and the thread ends.
ThreadStarts(t) ==
  /\ thread[t] = "start"
  /\ \E s \in {"loop", "exited"} : thread' = [thread EXCEPT ![t] = s]
  /\ UNCHANGED <<stage, level, mainRun, run, waiting>>

\* while (__g_thread_run): the 10 ms timer wakes it whatever signals arrive.
ThreadStops(t) ==
  /\ thread[t] = "loop" /\ ~run[t]
  /\ thread' = [thread EXCEPT ![t] = "exited"]
  /\ UNCHANGED <<stage, level, mainRun, run, waiting>>

\* An epoll_wait error ends one thread; nobody is told.
ThreadFails(t) ==
  /\ thread[t] = "loop" /\ run[t]
  /\ thread' = [thread EXCEPT ![t] = "exited"]
  /\ UNCHANGED <<stage, level, mainRun, run, waiting>>

-----------------------------------------------------------------------------
(* Stopping.                                                               *)

\* SIGTERM or SIGINT: __singnl_callback, in whichever thread.
Signal ==
  /\ stage # "end" /\ level >= 1
  /\ mainRun' = FALSE
  /\ UNCHANGED <<stage, level, run, thread, waiting>>

\* The loop of main ends on the flag, or on an epoll_wait error.
MainLoopEnds ==
  /\ stage = "loop"
  /\ stage' = "release"
  /\ UNCHANGED <<level, mainRun, run, thread, waiting>>

MainStops == ~mainRun /\ MainLoopEnds

\* Mutant: *_deinit clears the flag of main instead of the service's.
ReleaseServiceWrongFlag ==
  /\ stage = "release" /\ level \in Threads
  /\ mainRun' = FALSE
  /\ stage' = "join"
  /\ UNCHANGED <<level, run, thread, waiting>>

\* *_deinit of the service on top: clear its flag, pthread_kill(SIGINT), whose
\* handler also clears the flag of main ...
ReleaseService ==
  /\ stage = "release" /\ level \in Threads
  /\ run' = [run EXCEPT ![level] = FALSE]
  /\ mainRun' = FALSE
  /\ stage' = "join"
  /\ UNCHANGED <<level, thread, waiting>>

\* Mutant: the thread is cancelled, not joined.
JoinNotWaiting ==
  /\ stage = "join"
  /\ level' = level - 1
  /\ stage' = "release"
  /\ UNCHANGED <<mainRun, run, thread, waiting>>

\* ... then pthread_join, and the mutex of the service is destroyed.
Join ==
  /\ stage = "join" /\ thread[level] = "exited"
  /\ level' = level - 1
  /\ stage' = "release"
  /\ UNCHANGED <<mainRun, run, thread, waiting>>

\* Mutant: the chain of labels does not stop at the first resource.
ReleaseResourceOneMore ==
  /\ stage = "release" /\ level \in 0 .. Base
  /\ level' = level - 1
  /\ stage' = IF level = 0 THEN "end" ELSE "release"
  /\ UNCHANGED <<mainRun, run, thread, waiting>>

ReleaseResource ==
  /\ stage = "release" /\ level \in 1 .. Base
  /\ level' = level - 1
  /\ stage' = IF level = 1 THEN "end" ELSE "release"
  /\ UNCHANGED <<mainRun, run, thread, waiting>>

-----------------------------------------------------------------------------
Init ==
  /\ stage = "init" /\ level = 0 /\ mainRun = TRUE
  /\ run = [t \in Threads |-> TRUE]
  /\ thread = [t \in Threads |-> "none"]
  /\ waiting = {}

MainStep ==
  \/ InitResource \/ InitService \/ InitFails
  \/ MainArrives \/ MainStops \/ ReleaseService \/ Join \/ ReleaseResource

ThreadStep(t) == ThreadArrives(t) \/ ThreadStarts(t) \/ ThreadStops(t)

Next ==
  \/ MainStep \/ MainLoopEnds
  \/ \E t \in Threads : ThreadStep(t) \/ ThreadFails(t)
  \/ Signal

Spec == Init /\ [][Next]_vars

\* The kernel runs every thread that is not blocked.
FairSpec == Spec /\ WF_vars(MainStep) /\ \A t \in Threads : WF_vars(ThreadStep(t))

-----------------------------------------------------------------------------
(* Properties.                                                             *)

TypeOK ==
  /\ stage \in {"init", "arrive", "barrier", "loop", "release", "join", "end"}
  /\ level \in 0 .. Last
  /\ mainRun \in BOOLEAN
  /\ run \in [Threads -> BOOLEAN]
  /\ thread \in [Threads -> ThreadStages]
  /\ waiting \subseteq Threads \union {Main}

Active(t) == thread[t] \in {"start", "loop"}

\* No thread does any work before everything has been initialised.
StartTogether ==
  stage \in {"init", "arrive", "barrier"} => \A t \in Threads : ~Active(t)

\* A running thread never meets a destroyed mutex, log or configuration: its
\* own service and everything acquired before it are still initialised.
UsesInitialised == \A t \in Threads : Active(t) => t <= level

\* main leaves no thread behind and nothing initialised.
CleanEnd ==
  stage = "end" =>
     level = 0 /\ \A t \in Threads : thread[t] \in {"none", "exited"}

\* After SIGTERM the process ends, whichever threads failed before.
TerminateEnds == ~mainRun ~> stage = "end"

\* When a service cannot be initialised main leaves through its error labels
\* and returns ("goto err_wifi_ctl_deinit" and those after it, main.c:516).
InitFailureEnds == (stage = "release") ~> (stage = "end")

=============================================================================
