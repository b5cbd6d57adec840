---------------------------- MODULE SecurityModes ----------------------------
(***************************************************************************)
(* What the keypad promises about the immobiliser, and nothing of how:     *)
(* "live" is the mode the device is in, "durable" the mode it would wake   *)
(* up in.  The two change at different moments, and power can fail between *)
(* any two of them.                                                        *)
(***************************************************************************)
VARIABLES live, durable

Live == {"off", "armed", "locked", "disarmed", "garage", "newPassword"}
Durable == {"armed", "locked", "disarmed", "garageOnce"}

TypeOK == live \in Live /\ durable \in Durable

Init == live = "off" /\ durable = "armed"

\* The device wakes up in the durable mode; a garage session is granted once.
PowerOn ==
  /\ live = "off"
  /\ IF durable = "garageOnce"
       THEN live' = "garage" /\ durable' = "disarmed"
       ELSE live' = durable /\ UNCHANGED durable

\* A reset or a power loss; a damaged store is replaced by the defaults: armed.
PowerOff == live' = "off" /\ durable' \in {durable, "armed"}

\* Wrong passwords lock an armed keypad, at once and across resets.  A disarmed one
\* records the lock only when the defaults have been restored under it.
Lock == live = "armed" /\ live' = "locked" /\ durable' = "locked"
RecordLock ==
  live = "disarmed" /\ durable = "armed" /\ durable' = "locked" /\ UNCHANGED live

Disarm ==
  /\ live \in {"armed", "locked", "garage", "newPassword"}
  /\ live' = "disarmed" /\ UNCHANGED durable

\* Only a disarmed device opens a menu, and only a disarmed one wakes up disarmed.
OpenMenu == live = "disarmed" /\ live' \in {"garage", "newPassword"} /\ UNCHANGED durable
RecordDisarm ==
  live = "disarmed" /\ durable' \in {"disarmed", "garageOnce"} /\ UNCHANGED live

\* Arming.  A locked keypad opens only once the durable lock is lifted; a lock that
\* outlived a disarmed session comes back with the armed mode.
Arm ==
  /\ live # "off" /\ (live = "locked" => durable # "locked")
  /\ live' = "armed" /\ UNCHANGED durable
Relock == live = "disarmed" /\ live' = "locked" /\ UNCHANGED durable
RecordArm ==
  /\ live \in {"armed", "locked"} /\ durable # "locked"
  /\ durable' \in {"armed", "locked"} /\ UNCHANGED live
LiftLock ==
  live \in {"armed", "locked"} /\ durable = "locked" /\ durable' = "armed" /\ UNCHANGED live

\* The defaults, saved at any time on command or when everything is erased.
Defaults == live # "off" /\ durable' = "armed" /\ UNCHANGED live

Next == \/ PowerOn \/ PowerOff \/ Lock \/ RecordLock \/ Disarm \/ OpenMenu
        \/ RecordDisarm \/ Arm \/ Relock \/ RecordArm \/ LiftLock \/ Defaults

Spec == Init /\ [][Next]_<<live, durable>>
=============================================================================
