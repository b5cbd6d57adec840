---------------------------- MODULE MonitorHistory ----------------------------
(***************************************************************************)
(* KeypadMonitor with a record of what happened: why the device is         *)
(* disarmed, for how long, which passwords this session's entries spelled, *)
(* whether an enrolment is under way, for how long the keypad has been     *)
(* locked, and how many wrong passwords it has let pass.  The record never *)
(* constrains the monitor task; it lets properties speak of the past.      *)
(***************************************************************************)
EXTENDS KeypadMonitorModes

VARIABLES
  authorised,  \* someone entitled disarmed the device since it was last armed
  session,     \* seconds since then, capped
  entries,     \* passwords completed in this password change, the first two
  enrolled,    \* garage key 4 was pressed since the last reset
  held,        \* seconds since the keypad was locked or woke up locked, capped
  guesses,     \* wrong passwords since a lock, the right one, a reset or a quiet time
  quiet        \* seconds since the last of them

history == <<authorised, session, entries, enrolled, held, guesses, quiet>>

\* The three causes that entitle: the password, a remote DISARM when it is polled, and
\* the phone application that carries the serial number of the first leach.
PasswordEntered ==
  /\ pc = "keys" /\ pc' # "keys" /\ key_state = "ASTRIX_RECEIVED"
  /\ Completes /\ Typed = cfg.password
RemoteDisarm == pc = "mailbox" /\ pc' # "mailbox" /\ mailbox = "DISARMED"
ApplicationDisarm ==
  /\ pc = "security" /\ pc' = "commit" /\ needToDoReset' /\ "same" \in AppSerials

Entitled == PasswordEntered \/ RemoteDisarm \/ ApplicationDisarm

\* Armed again: at the end of back_to_armed_state, or by waking up armed.
ArmedAgain ==
  \/ pc = "rearmTail" /\ pc' # "rearmTail"
  \/ pc = "boot" /\ security_state' = "ARMED"

RecordAuthorised ==
  authorised' = CASE Entitled                 -> TRUE
                  [] ArmedAgain /\ ~Entitled  -> FALSE
                  [] ~ArmedAgain /\ ~Entitled -> authorised

\* The clock ticked, for a timer that is not at its cap.
SecondPassed == age' # age /\ UNCHANGED pc

RecordSession ==
  session' = CASE Entitled \/ pc' = "boot"    -> 0
               [] ~Entitled /\ SecondPassed /\ session <= MAX_VALUE -> session + 1
               [] OTHER                       -> session

EntryCompleted ==
  /\ pc = "keys" /\ pc' # "keys" /\ key_state = "ASTRIX_RECEIVED"
  /\ security_state = "NEW_PASSWORD" /\ Completes

RecordEntries ==
  entries' = CASE security_state' # "NEW_PASSWORD"        -> <<>>
               [] security_state' = "NEW_PASSWORD" /\ EntryCompleted /\ Len(entries) < 2
                                                          -> Append(entries, Typed)
               [] OTHER                                   -> entries

RecordEnrolled ==
  enrolled' = CASE pc' = "boot"                      -> FALSE
                [] pc' # "boot" /\ afterStudy' = TRUE -> TRUE
                [] OTHER                             -> enrolled

RecordHeld ==
  held' = CASE "LOCKED" \notin {key_state, key_state'} \/ key_state # key_state' -> 0
            [] key_state = "LOCKED" /\ key_state' = "LOCKED" ->
                 IF SecondPassed /\ held <= LOCKED_STATE_TIME_SEC THEN held + 1 ELSE held

WrongEntered ==
  /\ pc = "keys" /\ pc' # "keys" /\ key_state = "ASTRIX_RECEIVED"
  /\ security_state # "NEW_PASSWORD" /\ Completes /\ Typed # cfg.password

Quieter == IF SecondPassed THEN quiet + 1 ELSE quiet

\* Wrong passwords are forgotten by a lock, the right password, a reset, and a time
\* without any.
Forgiven ==
  \/ pc' = "boot" \/ key_state' = "LOCKED"
  \/ PasswordEntered /\ security_state # "NEW_PASSWORD"

RecordGuesses ==
  /\ guesses' = CASE Forgiven                  -> 0
                  [] ~Forgiven /\ WrongEntered -> guesses + 1
                  [] ~Forgiven /\ ~WrongEntered ->
                       IF Quieter > LOCKED_STATE_TIME_SEC THEN 0 ELSE guesses
  /\ quiet' = IF guesses' = 0 \/ WrongEntered THEN 0 ELSE Quieter

Record ==
  /\ RecordAuthorised /\ RecordSession /\ RecordEntries /\ RecordEnrolled
  /\ RecordHeld /\ RecordGuesses

HistoryInit ==
  /\ Init
  /\ authorised = FALSE /\ session = 0 /\ entries = <<>> /\ enrolled = FALSE
  /\ held = 0 /\ guesses = 0 /\ quiet = 0

HistoryNext ==
  \/ MonitorStep /\ Record
  \/ Command /\ Record
  \/ PeripheralVerified /\ Record
  \/ Tick /\ Record
  \/ Crash /\ Record

HistorySpec == HistoryInit /\ [][HistoryNext]_<<vars, history>>

-----------------------------------------------------------------------------
(* The device opens only to the password, a remote DISARM or the application since *)
(* it was last armed: no reset, damaged EEPROM, erase sequence, timeout or stale   *)
(* command disarms it, in RAM or in what the EEPROM would restore.                 *)
DisarmAuthorised ==
  (\/ security_state \in {"DISARMED", "GARAGE", "NEW_PASSWORD"}
   \/ rom_ok /\ rom.security_state = "DISARMED") => authorised

(* The keypad saves a new password only when it was typed twice running in this     *)
(* password change, as its first entry and as its second: an entry of an earlier,   *)
(* abandoned change never counts as one of the two, a second entry that differs     *)
(* saves nothing, and neither does a third attempt (monitor.c's static              *)
(* new_password_count and candidate_password_received survive the session).         *)
PasswordConfirmed ==
  [][(/\ pc = "keys" /\ pc' # pc /\ pc' # "boot" /\ cfg'.password # cfg.password
      /\ security_state = "NEW_PASSWORD")
       => /\ EntryCompleted
          /\ entries = <<cfg'.password>> /\ Typed = cfg'.password]_<<vars, history>>

(* The disarmed time is not cut short: the device re-arms by timeout only when more *)
(* than its duration has passed since it was disarmed or woke up disarmed.  (Not so *)
(* after a disarm by the application, which does not restart the time.)             *)
SessionNotCutShort ==
  [][(pc = "security" /\ security_state = "DISARMED" /\ pc' = "rearm")
       => session > disarmed_state_timeout_value]_<<vars, history>>

(* A lock is served: the lock of an armed keypad leaves the EEPROM only when the    *)
(* keypad has been locked for more than its time since a wrong password locked it   *)
(* or it woke up locked, when a remote ARM is carried out, or by a BACK_DEFAULT,    *)
(* behind the monitor task's back.  No key, and no timer left over from an earlier  *)
(* lock, ends it sooner (refreshed where the lock is saved, read in another pass).  *)
LockServed ==
  [][(rom_ok /\ rom.is_locked /\ ~rom'.is_locked /\ security_state = "ARMED")
       => \/ held > LOCKED_STATE_TIME_SEC
          \/ pc = "rearm" /\ ret = "receive"
          \/ UNCHANGED pc /\ rom' = DefaultConfiguration]_<<vars, history>>

(* A guesser meets the lock: no more than WRONG_PASSWORD_TRIES - 1 wrong passwords   *)
(* pass without one, unless the right one, a reset or LOCKED_STATE_TIME_SEC without  *)
(* a wrong one comes between, however they are spread over menus, time-outs, arming  *)
(* and remote commands (wrong_password_count is cleared in three places and checked  *)
(* in a fourth).                                                                     *)
GuessesBounded == guesses < WRONG_PASSWORD_TRIES

(* A device that enrolled peripherals resets when it leaves the garage: stated by   *)
(* save_bondings' comment "perform reset in order to improve ble connectivity after *)
(* bonding stage completed".  configuration_save_address_list clears afterStudy     *)
(* before save_bondings tests it.                                                   *)
BondingEndsInReset ==
  [][(pc = "bondingReset" /\ pc' # pc /\ enrolled) => pc' = "boot"]_<<vars, history>>
=============================================================================
