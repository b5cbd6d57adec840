-------------------------- MODULE KeypadMonitorModes --------------------------
(***************************************************************************)
(* The monitor task implements SecurityModes: "live" is read from the two  *)
(* RAM state variables, "durable" from what the EEPROM would restore.      *)
(***************************************************************************)
EXTENDS KeypadMonitor

LiveMode ==
  CASE security_state = "NONE"         -> "off"
    [] security_state = "ARMED"        -> IF key_state = "LOCKED" THEN "locked" ELSE "armed"
    [] security_state = "DISARMED"     -> "disarmed"
    [] security_state = "GARAGE"       -> "garage"
    [] security_state = "NEW_PASSWORD" -> "newPassword"

DurableMode ==
  CASE ~rom_ok -> "armed"
    [] rom_ok /\ rom.security_state = "ARMED"    -> IF rom.is_locked THEN "locked" ELSE "armed"
    [] rom_ok /\ rom.security_state = "DISARMED" ->
         IF rom.garage_mode THEN "garageOnce" ELSE "disarmed"

Modes == INSTANCE SecurityModes WITH live <- LiveMode, durable <- DurableMode

(* Every behaviour of the monitor task, with its resets, power losses, torn saves   *)
(* and remote commands, is a behaviour of SecurityModes: the device wakes up in the *)
(* mode the EEPROM recorded last, or armed; wakes up once in the garage menu after  *)
(* an erase; opens a menu only from the disarmed mode; and lifts a lock in the      *)
(* EEPROM before it opens the keypad (change_security_state and                     *)
(* back_to_armed_state assign the RAM and the EEPROM at different moments).  It     *)
(* does not say that arming is recorded before power can fail (ArmedIsRecorded says *)
(* when it is), nor that a lock outlives a torn save or a BACK_DEFAULT: it does not. *)
ImplementsModes == Modes!Spec
=============================================================================
