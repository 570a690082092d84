------------------------------ MODULE KeyScan ------------------------------
(***************************************************************************)
(* The keys (application/source/key.c): the main thread takes one input    *)
(* event per key and timer tick (key_process), runs the press/release      *)
(* machine of the key on it, and hands each event it finds, a click or a   *)
(* long press, to the first key_info_get that follows.                     *)
(*                                                                         *)
(* Each key has an input device of its own (event_path0, event_path1) and  *)
(* the kernel repeats the event of a key that is held.  Times are counted  *)
(* in units of 500 ms, while they matter and as far as they are compared.  *)
(***************************************************************************)
EXTENDS Integers, Sequences

CONSTANTS
  Keys,        \* KEY_USER_KEY, KEY_USER_POWER
  LongPress,   \* __g_key_long_press_ms
  MaxQueue,    \* bound: events waiting in an input device
  MaxPresses   \* bound: presses of all keys together

ASSUME KeyAssumption ==
  LongPress \in Nat \ {0} /\ MaxQueue \in Nat \ {0} /\ MaxPresses \in Nat

VARIABLES
  held,      \* [Keys -> BOOLEAN]: a finger is on the key
  queue,     \* [Keys -> Seq(Values)]: unread events of the input device
  info,      \* [Keys -> KeyInfo]: __g_key_info; age is systick - tick_press
  presses    \* what the bound counts

keyVars == <<held, queue, info, presses>>

Values  == {"up", "down", "repeat"}
KeyInfo == [state : {"release", "press"},
            event : {"none", "click", "long_press", "clean"},
            age   : 0 .. LongPress]

Longer(age, cap) == IF age < cap THEN age + 1 ELSE cap

-----------------------------------------------------------------------------
(* The finger and the kernel.                                              *)

Queue(k, v) ==
  /\ Len(queue[k]) < MaxQueue
  /\ queue' = [queue EXCEPT ![k] = Append(@, v)]

Press(k) ==
  /\ ~held[k] /\ presses < MaxPresses
  /\ Queue(k, "down")
  /\ held' = [held EXCEPT ![k] = TRUE]
  /\ presses' = presses + 1
  /\ UNCHANGED info

Repeat(k) ==
  /\ held[k]
  /\ Queue(k, "repeat")
  /\ UNCHANGED <<held, info, presses>>

Release(k) ==
  /\ held[k]
  /\ Queue(k, "up")
  /\ held' = [held EXCEPT ![k] = FALSE]
  /\ UNCHANGED <<info, presses>>

KeyTime ==
  info' = [k \in Keys |-> IF info[k].state = "press"
                          THEN [info[k] EXCEPT !.age = Longer(@, LongPress)]
                          ELSE info[k]]

-----------------------------------------------------------------------------
(* key_process and key_info_get, in the main thread.                       *)

\* Mutant: a key that is held reports its long press again after it was read.
MachineRepeats(i, v) ==
  CASE i.state = "release" /\ v # "up" -> [state |-> "press", event |-> "none", age |-> 0]
    [] i.state = "press" /\ v # "up" /\ i.age >= LongPress ->
         [i EXCEPT !.event = "long_press"]
    [] i.state = "press" /\ v = "up" ->
         [state |-> "release", event |-> IF i.event = "none" THEN "click" ELSE i.event, age |-> 0]
    [] OTHER -> i

\* __key_state_machine: the new __g_key_info of a key whose event has value v.
Machine(i, v) ==
  CASE i.state = "release" /\ v # "up" -> [state |-> "press", event |-> "none", age |-> 0]
    [] i.state = "press" /\ v # "up" /\ i.event = "none" /\ i.age >= LongPress ->
         [i EXCEPT !.event = "long_press"]
    [] i.state = "press" /\ v = "up" ->
         [state |-> "release", event |-> IF i.event = "none" THEN "click" ELSE i.event, age |-> 0]
    [] OTHER -> i

\* key_process: one event of every device that has one.
KeyProcess ==
  /\ info' = [k \in Keys |-> IF queue[k] = <<>> THEN info[k]
                             ELSE Machine(info[k], Head(queue[k]))]
  /\ queue' = [k \in Keys |-> IF queue[k] = <<>> THEN <<>> ELSE Tail(queue[k])]
  /\ UNCHANGED <<held, presses>>

\* Mutant: the event stays where it is when it is read.
KeyInfoGetKeeps == UNCHANGED keyVars

\* key_info_get of every key: what was read is cleared.
KeyInfoGet ==
  /\ info' = [k \in Keys |-> IF info[k].event = "none" THEN info[k]
                             ELSE [info[k] EXCEPT !.event = "clean"]]
  /\ UNCHANGED <<held, queue, presses>>

Pending(k, e) == info[k].event = e

-----------------------------------------------------------------------------
Untouched == [k \in Keys |-> FALSE]

KeyNew == [state |-> "release", event |-> "none", age |-> 0]

\* key_init: the devices are opened anew, their queues empty; the events of a
\* key that is held go on, and the first one counts as the begin of a press.
KeyStart(fingers) ==
  /\ held'  = fingers
  /\ queue' = [k \in Keys |-> <<>>]
  /\ info'  = [k \in Keys |-> KeyNew]
  /\ UNCHANGED presses

KeyInit ==
  /\ held  = Untouched
  /\ queue = [k \in Keys |-> <<>>]
  /\ info  = [k \in Keys |-> KeyNew]
  /\ presses = 0

Finger == \E k \in Keys : Press(k) \/ Repeat(k) \/ Release(k)

KeyTypeOK ==
  /\ held \in [Keys -> BOOLEAN]
  /\ queue \in [Keys -> Seq(Values)]
  /\ info \in [Keys -> KeyInfo]
  /\ presses \in Nat

=============================================================================
