-------------------------- MODULE MCMonitorLiveness --------------------------
(***************************************************************************)
(* A small instance of MonitorLiveness for TLC.                            *)
(***************************************************************************)
EXTENDS MonitorLiveness

Default5 == <<5>>

\* Bound: the driver presses keys that mean something where they are pressed, and types
\* the default password, 5, or the new one, 3.  It takes from the driver's choice of keys
\* and from no other step.
LongKeys == CASE key_state = "MAIN_MENU"   -> {3, 5, Star}
              [] key_state = "GARAGE_MENU" -> {1, 5, Star}
              [] OTHER                     -> {Star}
ShortKeys == IF key_state \in {"IDLE", "ASTRIX_RECEIVED"} THEN {3, 5, Star} ELSE {}
KeysThatCount ==
  received' /\ ~received =>
    msg_key'.key_release /\ msg_key'.key \in (IF msg_key'.is_long_key THEN LongKeys ELSE ShortKeys)
=============================================================================
