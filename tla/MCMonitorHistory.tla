--------------------------- MODULE MCMonitorHistory ---------------------------
(***************************************************************************)
(* Small instances of MonitorHistory for TLC: passwords of one or two      *)
(* digits, timers that expire after one or two ticks.                      *)
(***************************************************************************)
EXTENDS MonitorHistory

Default5 == <<5>>
Default53 == <<5, 3>>
Default2 == <<2>>
PasswordOnes == {<<1>>}

\* Every message: nothing is assumed of what a failed receive leaves in msg_key.
AnyMessage == Messages
=============================================================================
