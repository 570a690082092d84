---------------------------- MODULE WifiService ----------------------------
(***************************************************************************)
(* What wifi_ctl promises to the thread that changes the mode: the mode is *)
(* saved, then asked for, and a request is taken in the end.  To take one  *)
(* is to work with the mode that is saved at that moment; a request made   *)
(* while another is being taken stays.  ModeCtl puts this in the place of  *)
(* the wifi_ctl thread (WifiTakes).                                        *)
(***************************************************************************)
CONSTANT Modes

VARIABLES
  saved,     \* wifi/mode in the store
  asked,     \* a request has not been taken
  applied    \* the mode the thread works with

vars == <<saved, asked, applied>>

Init == saved \in Modes /\ applied = saved /\ asked = FALSE

Save == saved' \in Modes /\ UNCHANGED <<asked, applied>>

Ask == asked' = TRUE /\ UNCHANGED <<saved, applied>>

Take ==
  /\ asked
  /\ asked' \in BOOLEAN
  /\ applied' = saved
  /\ UNCHANGED saved

\* The device starts again and reads the store.
Restart == asked' = FALSE /\ applied' = saved /\ UNCHANGED saved

Next == Save \/ Ask \/ Take \/ Restart

Spec == Init /\ [][Next]_vars /\ WF_vars(Take)

=============================================================================
