--------------------------- MODULE MonitorLiveness ---------------------------
(***************************************************************************)
(* What the monitor task must eventually do.  The scheduler gives the task *)
(* its turn again and again (a task of equal priority and of higher ones   *)
(* that all block), and the tick interrupt lets time pass.  Nothing is     *)
(* assumed of keys, commands, the ignition or the power supply.            *)
(***************************************************************************)
EXTENDS KeypadMonitor

FairSpec == Spec /\ WF_vars(MonitorStep) /\ WF_vars(Tick)

(* Left alone, with the ignition off, the device ends up armed and its keypad open  *)
(* to a password: out of a menu, a password change, a remote disarm or the lock, by *)
(* the time-outs of keypad_state_machine's last switch.                             *)
Quiet == ~received /\ ~ignition_flag /\ mailbox = "NONE"
QuietRearms ==
  <>[]Quiet => <>[](security_state = "ARMED" /\ key_state # "LOCKED" /\ ~rom.is_locked)

(* A remote DISARM is carried out, and in the EEPROM, whatever the driver does at   *)
(* the keypad meanwhile, unless an ARM follows it or the device resets first.       *)
RemoteDisarmServed ==
  (mailbox = "DISARMED")
    ~> (rom.security_state = "DISARMED" \/ mailbox = "ARMED" \/ pc = "boot")

(* Garage key 1 ends with the device back in the garage menu, the flag that brought *)
(* it there used up, with the default password (readme.txt, versions 1.1.8 and      *)
(* 1.3.9), through the reset in between.                                            *)
EraseReopensGarage ==
  (pc = "erase") ~> (/\ pc = "mailbox" /\ key_state = "GARAGE_MENU"
                     /\ rom.password = DEFAULT_PASSWORD /\ ~rom.garage_mode)
=============================================================================
