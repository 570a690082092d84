---------------------------- MODULE DurableStore ----------------------------
(***************************************************************************)
(* What a configuration store promises to the program: a save changes one  *)
(* setting at one moment, one that has returned is kept by every restart,  *)
(* and one that has not may be kept or not.  After a restart nothing is    *)
(* older than the last save that returned.  Nothing more is promised: a    *)
(* setting that a start has shown without its save having returned may be  *)
(* gone after the next one.                                                *)
(***************************************************************************)
EXTENDS Integers

CONSTANT Threads      \* each saves a setting of its own

VARIABLES
  up,      \* the store has been opened and is in use
  now,     \* [Threads -> Nat]: what a reader gets, when the store is up
  tried,   \* [Threads -> Nat]: the last save each thread has begun
  kept     \* [Threads -> Nat]: the last save that returned

vars == <<up, now, tried, kept>>

Init ==
  /\ up = FALSE
  /\ now = [t \in Threads |-> 0] /\ tried = now /\ kept = now

Begin(t) ==
  /\ up
  /\ tried' = [tried EXCEPT ![t] = @ + 1]
  /\ UNCHANGED <<up, now, kept>>

Take(t) ==
  /\ up
  /\ now' = [now EXCEPT ![t] = tried[t]]
  /\ UNCHANGED <<up, tried, kept>>

Return(t) ==
  /\ up /\ now[t] = tried[t]
  /\ kept' = [kept EXCEPT ![t] = tried[t]]
  /\ UNCHANGED <<up, now, tried>>

Fail ==
  /\ up' = FALSE /\ now' = kept
  /\ UNCHANGED <<tried, kept>>

Start ==
  /\ ~up /\ up' = TRUE
  /\ DOMAIN now' = Threads
  /\ \A t \in Threads : now'[t] \in kept[t] .. tried[t]
  /\ UNCHANGED <<tried, kept>>

Next == (\E t \in Threads : Begin(t) \/ Take(t) \/ Return(t)) \/ Fail \/ Start

Spec == Init /\ [][Next]_vars

=============================================================================
