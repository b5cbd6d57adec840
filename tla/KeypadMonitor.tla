---------------------------- MODULE KeypadMonitor ----------------------------
(***************************************************************************)
(* The monitor task: monitor_thread's boot and keypad_state_machine, with  *)
(* the routines they call (cloud-wise-sdk/logic/monitor.c), the part of    *)
(* the EEPROM configuration they persist, and the Ruptela commands that    *)
(* the ble task applies to the same data (leach/Ruptela.c).                *)
(*                                                                         *)
(* The task is one loop.  "pc" names the point the loop has reached: the   *)
(* points between which another task can run, the device can lose power or *)
(* reset itself, or an EEPROM write completes.  "cont" is the point        *)
(* change_security_state returns to, "ret" the one back_to_armed_state     *)
(* returns to.                                                             *)
(*                                                                         *)
(* A definition introduced by "Mutant:" is not part of the specification:  *)
(* it is its neighbour with a plausible mistake, and the property named    *)
(* there must fail when it takes the neighbour's place.                    *)
(***************************************************************************)
EXTENDS Naturals, Sequences, FiniteSets

CONSTANTS
  Keys,                       \* the keys of the matrix in use, 6 is "asterisk"
  QUEUE_SIZE,                 \* digits of a password (4 in the source)
  DEFAULT_PASSWORD,           \* "5321" in the source
  WRONG_PASSWORD_TRIES,       \* wrong passwords until the keypad locks (3)
  LOCKED_STATE_TIME_SEC,      \* the lock, and how long wrong tries count
  DISARM_WITHOUT_DRIVING_SEC, \* disarmed, ignition off, until re-armed
  DISARM_GARAGE_TIMEOUT_SEC,  \* garage menu and password change
  RemoteCommands,             \* Ruptela command codes that can arrive
  RemoteValues,               \* their value1 field: seconds, when disarming
  RemotePasswords,            \* valid passwords a command may set
  Residue,                    \* messages a failed receive may leave in msg_key
  LinksFail,                  \* can bonded peripherals be missing, come or go?
  AppSerials,                 \* phone applications that may connect while armed
  TornSaves,                  \* can power fail in the middle of a save?
  MAX_VALUE,                  \* bound: caps the age of the disarm timer
  MAX_CRASHES                 \* bound: power losses in a behaviour

Star == 6
Digits == Keys \ {Star}
Passwords == [1..QUEUE_SIZE -> Digits]
Messages == [key : Keys, is_long_key : {FALSE}, key_release : BOOLEAN]
              \cup [key : Keys, is_long_key : {TRUE}, key_release : {TRUE}]
Commands == {"DISARM", "ARM", "NEW_PASSWORD", "BACK_DEFAULT", "OTHER"}

ASSUME MonitorAssumption ==
  /\ Star \in Keys /\ Keys \subseteq 1..6
  /\ QUEUE_SIZE \in Nat \ {0}
  /\ DEFAULT_PASSWORD \in Passwords
  /\ WRONG_PASSWORD_TRIES \in Nat \ {0}
  /\ LOCKED_STATE_TIME_SEC \in Nat
  /\ DISARM_WITHOUT_DRIVING_SEC \in Nat
  /\ DISARM_GARAGE_TIMEOUT_SEC \in Nat
  /\ RemoteCommands \subseteq Commands
  /\ RemoteValues \subseteq Nat
  /\ RemotePasswords \subseteq Passwords
  /\ Residue \subseteq Messages
  /\ LinksFail \in BOOLEAN /\ TornSaves \in BOOLEAN
  /\ AppSerials \subseteq {"same", "other"}
  /\ MAX_VALUE \in Nat /\ MAX_CRASHES \in Nat
  /\ \A v \in RemoteValues : v <= MAX_VALUE
  /\ DISARM_WITHOUT_DRIVING_SEC <= MAX_VALUE

KeyStates == {"IDLE", "ASTRIX_RECEIVED", "MAIN_MENU", "GARAGE_MENU", "LOCKED"}
SecurityStates == {"NONE", "ARMED", "DISARMED", "GARAGE", "NEW_PASSWORD"}
Timers == {"disarmed", "garage", "locked", "password"}
Points == {"boot", "mailbox", "remoteDisarmed", "receive", "longStar",
           "forget", "keys", "unlocked", "erase", "eraseReset", "security",
           "ignitionOff", "commit", "rearm", "saveBondings",
           "bondingReset", "rearmChange", "rearmTail"}

Configuration == [security_state : {"ARMED", "DISARMED"}, is_locked : BOOLEAN,
                  garage_mode : BOOLEAN, password : Passwords]

\* Mutant: the defaults leave the device disarmed (DisarmAuthorised).
DefaultDisarmed == [security_state |-> "DISARMED", is_locked |-> FALSE,
                    garage_mode |-> FALSE, password |-> DEFAULT_PASSWORD]

\* configuration_set_default
DefaultConfiguration == [security_state |-> "ARMED", is_locked |-> FALSE,
                         garage_mode |-> FALSE, password |-> DEFAULT_PASSWORD]

VARIABLES
  pc, cont, ret,         \* control
  key_state, security_state,
  msg_key, received, ignition_flag, \* locals: message slot, "ret", sampled pin
  my_queue,              \* digits typed so far
  candidate,             \* candidate_password_received
  new_password_count, wrong_password_count,
  age,                   \* seconds since each timer was last refreshed, capped
  disarmed_state_timeout_value,
  cfg,                   \* eprom_configuration, the RAM copy
  rom, rom_ok,           \* what the EEPROM holds, and whether its CRC matches
  mailbox, value1,       \* Ruptela.c's security_state, and ruptela_command.value1
  needToDoReset, in_bonding_state, afterStudy,
  crashes

control == <<pc, cont, ret>>
locals == <<msg_key, received, ignition_flag>>
entry == <<my_queue, candidate, new_password_count>>
timing == <<age, disarmed_state_timeout_value>>
store == <<cfg, rom, rom_ok>>
remote == <<mailbox, value1>>
bonding == <<needToDoReset, in_bonding_state, afterStudy>>

vars == <<control, key_state, security_state, locals, entry, wrong_password_count,
          timing, store, remote, bonding, crashes>>

NoMessage == [key |-> Star, is_long_key |-> FALSE, key_release |-> FALSE]

\* The counters saturate one above the largest value the code compares them with:
\* every larger value behaves the same.
TryCap == WRONG_PASSWORD_TRIES + 1
EntryCap == 3
Count(n, cap) == IF n < cap THEN n + 1 ELSE n

Limit(t) ==
  CASE t = "disarmed" -> disarmed_state_timeout_value
    [] t = "garage"   -> DISARM_GARAGE_TIMEOUT_SEC
    [] OTHER          -> LOCKED_STATE_TIME_SEC

AgeCap(t) == IF t = "disarmed" THEN MAX_VALUE + 1 ELSE Limit(t) + 1
Elapsed(t) == age[t] > Limit(t)
Touch(S) == age' = [t \in Timers |-> IF t \in S THEN 0 ELSE age[t]]

-----------------------------------------------------------------------------
(* Saving and restarting.                                                  *)

\* configuration_save_with_crc: the RAM copy becomes the EEPROM's content.
Save(c) == cfg' = c /\ rom' = c /\ rom_ok' = TRUE

\* RAM after a reset: every static and global is back at its initial value.
Restart ==
  /\ pc' = "boot" /\ cont' = "mailbox" /\ ret' = "mailbox"
  /\ key_state' = "IDLE" /\ security_state' = "NONE"
  /\ msg_key' \in {NoMessage} \cup Residue
  /\ received' = FALSE /\ ignition_flag' = FALSE
  /\ my_queue' = <<>> /\ candidate' = <<>> /\ new_password_count' = 0
  /\ wrong_password_count' = 0
  /\ age' = [t \in Timers |-> 0]
  /\ disarmed_state_timeout_value' = DISARM_WITHOUT_DRIVING_SEC
  /\ mailbox' = "NONE" /\ value1' = 0
  /\ needToDoReset' = FALSE /\ in_bonding_state' = FALSE /\ afterStudy' = FALSE

\* reset_device: saves the configuration (with the reset code), then resets.
ResetDevice == Save(cfg) /\ Restart /\ UNCHANGED crashes

\* monitor_thread up to its loop: load, check the CRC, restore the security state
\* the EEPROM holds, consume the garage flag.
BootConfiguration == IF rom_ok THEN rom ELSE DefaultConfiguration

\* Mutant: the flag alone reopens the garage menu (ImplementsModes).
BootsOnFlag(c) == c.garage_mode

BootsInGarage(c) == c.security_state = "DISARMED" /\ c.garage_mode

\* Mutant: is_locked is not honoured (LockInForce).
BootUnlocked(c) ==
  CASE BootsInGarage(c)                          -> "GARAGE_MENU"
    [] c.security_state = "DISARMED" /\ ~c.garage_mode -> "MAIN_MENU"
    [] c.security_state = "ARMED"                -> "IDLE"

BootKeyState(c) ==
  CASE BootsInGarage(c)                          -> "GARAGE_MENU"
    [] c.security_state = "DISARMED" /\ ~c.garage_mode -> "MAIN_MENU"
    [] c.security_state = "ARMED" /\ c.is_locked -> "LOCKED"
    [] c.security_state = "ARMED" /\ ~c.is_locked -> "IDLE"

\* Mutant: the flag stays set (GarageFlagConsumed).
KeepFlag(c) == c

ConsumeFlag(c) == [c EXCEPT !.garage_mode = FALSE]

Boot ==
  /\ pc = "boot"
  /\ pc' = "mailbox"
  /\ Save(ConsumeFlag(BootConfiguration))
  /\ key_state' = BootKeyState(BootConfiguration)
  /\ security_state' = IF BootsInGarage(BootConfiguration) THEN "GARAGE"
                       ELSE BootConfiguration.security_state
  /\ UNCHANGED <<cont, ret, locals, entry, wrong_password_count, timing, remote,
                 bonding, crashes>>

-----------------------------------------------------------------------------
(* change_security_state: assign, refresh the peripherals, save.           *)

\* The assignment, and the point the routine returns to.
ChangeSecurityState(s, back) ==
  security_state' = s /\ pc' = "commit" /\ cont' = back

\* set_leach_state, called on every change, once a second, and by the ble task for
\* every link it verifies, whatever the monitor task is doing.  Either a leach or modem
\* that had been seen connected is gone, which ends in a reset ...
DropReset == LinksFail /\ pc # "boot" /\ ResetDevice

\* ... or it may, when armed, open the scan for the phone application, with bonding,
\* and close it when disarmed; it does nothing if the connection list is not free.
LeachState ==
  \/ UNCHANGED in_bonding_state
  \/ security_state = "ARMED" /\ in_bonding_state' = TRUE
  \/ security_state = "DISARMED" /\ in_bonding_state' = FALSE

\* Mutant: only the armed state is saved (RemoteDisarmServed).
CommittedArmedOnly ==
  IF security_state = "ARMED" THEN [cfg EXCEPT !.security_state = "ARMED"] ELSE cfg

\* Mutant: only the disarmed state is saved (ArmedIsRecorded).
CommittedDisarmedOnly ==
  IF security_state = "DISARMED" THEN [cfg EXCEPT !.security_state = "DISARMED"] ELSE cfg

\* The configuration with the states that survive a reset: armed and disarmed.
Committed ==
  IF security_state \in {"ARMED", "DISARMED"}
    THEN [cfg EXCEPT !.security_state = security_state] ELSE cfg

CommitSecurityState ==
  /\ pc = "commit"
  /\ LeachState
  /\ IF security_state \in {"ARMED", "DISARMED"} THEN Save(Committed) ELSE UNCHANGED store
  /\ pc' = cont /\ cont' = "mailbox"
  /\ UNCHANGED <<ret, key_state, security_state, locals, entry, wrong_password_count,
                 timing, remote, needToDoReset, afterStudy, crashes>>

-----------------------------------------------------------------------------
(* back_to_armed_state, entered at "rearm".                                *)

BackToArmedState(back) == pc' = "rearm" /\ ret' = back

\* Mutant: the duration of a remote disarm is kept (DefaultDurationWhenArmed).
UnlockKeepsDuration ==
  /\ pc = "rearm"
  /\ Save([cfg EXCEPT !.is_locked = FALSE])
  /\ pc' = IF in_bonding_state THEN "saveBondings" ELSE "rearmChange"
  /\ UNCHANGED <<cont, ret, key_state, security_state, locals, entry,
                 wrong_password_count, timing, remote, bonding, crashes>>

Unlock ==
  /\ pc = "rearm"
  /\ Save([cfg EXCEPT !.is_locked = FALSE])
  /\ disarmed_state_timeout_value' = DISARM_WITHOUT_DRIVING_SEC
  /\ pc' = IF in_bonding_state THEN "saveBondings" ELSE "rearmChange"
  /\ UNCHANGED <<cont, ret, key_state, security_state, locals, entry,
                 wrong_password_count, age, remote, bonding, crashes>>

\* save_bondings: the address list is written, and afterStudy cleared, only when the
\* enrolment was started from the garage menu.
SaveBondings ==
  /\ pc = "saveBondings"
  /\ IF afterStudy THEN Save(cfg) ELSE UNCHANGED store
  /\ in_bonding_state' = FALSE /\ afterStudy' = FALSE
  /\ ChangeSecurityState("ARMED", "bondingReset")
  /\ UNCHANGED <<ret, key_state, locals, entry, wrong_password_count, timing, remote,
                 needToDoReset, crashes>>

BondingReset ==
  /\ pc = "bondingReset"
  /\ IF afterStudy
       THEN ResetDevice
       ELSE /\ pc' = "rearmChange"
            /\ UNCHANGED <<cont, ret, key_state, security_state, locals, entry,
                           wrong_password_count, timing, store, remote, bonding,
                           crashes>>

\* Mutant: the menu stays open (MenuMatchesSecurity).
RearmKeepsMenu ==
  /\ pc = "rearmChange"
  /\ ChangeSecurityState("ARMED", "rearmTail")
  /\ UNCHANGED <<key_state, ret, locals, entry, wrong_password_count, timing, store,
                 remote, bonding, crashes>>

RearmChange ==
  /\ pc = "rearmChange"
  /\ key_state' = "IDLE"
  /\ ChangeSecurityState("ARMED", "rearmTail")
  /\ UNCHANGED <<ret, locals, entry, wrong_password_count, timing, store, remote,
                 bonding, crashes>>

\* Links closed since the list was loaded make it close them again, which saves.
RearmTail ==
  /\ pc = "rearmTail"
  /\ my_queue' = <<>>
  /\ UNCHANGED store \/ Save(cfg)
  /\ pc' = ret /\ ret' = "mailbox"
  /\ UNCHANGED <<cont, key_state, security_state, locals, candidate,
                 new_password_count, wrong_password_count, timing, remote, bonding,
                 crashes>>

-----------------------------------------------------------------------------
(* One pass of keypad_state_machine.                                       *)

\* read_new_security_state empties the mailbox; its answer is acted on at once.
PollMailbox ==
  /\ pc = "mailbox"
  /\ mailbox' = "NONE"
  /\ received' = FALSE /\ ignition_flag' = FALSE
  /\ CASE mailbox = "DISARMED" -> /\ ChangeSecurityState("DISARMED", "remoteDisarmed")
                                  /\ UNCHANGED ret
       [] mailbox = "ARMED"    -> /\ ChangeSecurityState("ARMED", "rearm")
                                  /\ ret' = "receive"
       [] mailbox = "NONE"     -> /\ pc' = "receive"
                                  /\ UNCHANGED <<cont, ret, security_state>>
  /\ UNCHANGED <<key_state, msg_key, entry, wrong_password_count, timing, store, value1,
                 bonding, crashes>>

\* value1 is read from the last command record, whichever command wrote it.
RemoteDisarmed ==
  /\ pc = "remoteDisarmed"
  /\ Touch({"disarmed"})
  /\ disarmed_state_timeout_value' = value1
  /\ key_state' = "MAIN_MENU"
  /\ pc' = "receive"
  /\ UNCHANGED <<cont, ret, security_state, locals, entry, wrong_password_count, store,
                 remote, bonding, crashes>>

\* keypad_receive_key, the ignition pin and, once a second, set_leach_state.  When the
\* queue is empty msg_key is not written: the stack slot keeps the last pass's message
\* or what a callee left there.
ReceiveKey ==
  /\ pc = "receive"
  /\ \/ received' = TRUE /\ msg_key' \in Messages
     \/ received' = FALSE /\ msg_key' \in {msg_key} \cup Residue
  /\ ignition_flag' \in BOOLEAN
  /\ LeachState
  /\ pc' = "longStar"
  /\ UNCHANGED <<cont, ret, key_state, security_state, entry, wrong_password_count,
                 timing, store, remote, needToDoReset, afterStudy, crashes>>

\* A long asterisk arms.  The test reads msg_key whether or not a key was received.
LongStar ==
  /\ pc = "longStar"
  /\ IF /\ msg_key.is_long_key /\ msg_key.key = Star
        /\ key_state # "LOCKED" /\ security_state # "ARMED"
       THEN BackToArmedState("forget")
       ELSE pc' = "forget" /\ UNCHANGED ret
  /\ UNCHANGED <<cont, key_state, security_state, locals, entry, wrong_password_count,
                 timing, store, remote, bonding, crashes>>

ForgetWrongPasswords ==
  /\ pc = "forget"
  /\ IF Elapsed("password")
       THEN wrong_password_count' = 0 /\ Touch({"password"})
       ELSE UNCHANGED <<wrong_password_count, age>>
  /\ pc' = "keys"
  /\ UNCHANGED <<cont, ret, key_state, security_state, locals, entry,
                 disarmed_state_timeout_value, store, remote, bonding, crashes>>

-----------------------------------------------------------------------------
(* switch (key_state)                                                      *)

Idle ==
  /\ pc = "keys" /\ key_state = "IDLE"
  /\ key_state' = IF received /\ ~msg_key.is_long_key /\ msg_key.key = Star
                    THEN "ASTRIX_RECEIVED" ELSE "IDLE"
  /\ pc' = "security"
  /\ UNCHANGED <<cont, ret, security_state, locals, entry, wrong_password_count, timing,
                 store, remote, bonding, crashes>>

\* A released short key, while a password is being typed, and the digits it makes.
KeyTyped == msg_key.key_release /\ ~msg_key.is_long_key
Typed == Append(my_queue, msg_key.key)

\* Mutant: the queue takes one digit more (TypeOK).
CompletesLate == KeyTyped /\ msg_key.key # Star /\ Len(Typed) = QUEUE_SIZE + 1

Completes == KeyTyped /\ msg_key.key # Star /\ Len(Typed) = QUEUE_SIZE

\* What reading a message while typing always does: key_release is cleared, so that
\* the same message is not read again.
ReadTyped ==
  /\ pc = "keys" /\ key_state = "ASTRIX_RECEIVED"
  /\ msg_key' = [msg_key EXCEPT !.key_release = FALSE]
  /\ UNCHANGED <<ret, received, ignition_flag, remote, bonding, crashes>>

TypeKey ==
  /\ ReadTyped /\ ~Completes
  /\ my_queue' = CASE ~KeyTyped                      -> my_queue
                   [] KeyTyped /\ msg_key.key = Star -> <<>>
                   [] KeyTyped /\ msg_key.key # Star -> Typed
  /\ pc' = "security"
  /\ UNCHANGED <<cont, key_state, security_state, candidate, new_password_count,
                 wrong_password_count, timing, store>>

\* Mutant: the second entry need not repeat the first (PasswordConfirmed).
NewPasswordUnconfirmed ==
  /\ ReadTyped /\ Completes /\ security_state = "NEW_PASSWORD"
  /\ my_queue' = <<>>
  /\ new_password_count' = Count(new_password_count, EntryCap)
  /\ key_state' = "IDLE" /\ pc' = "security"
  /\ Touch(IF new_password_count < 2 THEN {"garage", "disarmed"} ELSE {"garage"})
  /\ candidate' = IF new_password_count = 0 THEN Typed ELSE candidate
  /\ IF new_password_count = 1
       THEN Save([cfg EXCEPT !.password = candidate])
       ELSE UNCHANGED store
  /\ UNCHANGED <<cont, security_state, wrong_password_count,
                 disarmed_state_timeout_value>>

\* A password typed while changing the password: first the candidate, then the
\* repetition, which is saved when equal; later entries only extend the timeout.
NewPassword ==
  /\ ReadTyped /\ Completes /\ security_state = "NEW_PASSWORD"
  /\ my_queue' = <<>>
  /\ new_password_count' = Count(new_password_count, EntryCap)
  /\ key_state' = "IDLE" /\ pc' = "security"
  /\ Touch(IF new_password_count < 2 THEN {"garage", "disarmed"} ELSE {"garage"})
  /\ candidate' = IF new_password_count = 0 THEN Typed ELSE candidate
  /\ IF new_password_count = 1 /\ Typed = candidate
       THEN Save([cfg EXCEPT !.password = candidate])
       ELSE UNCHANGED store
  /\ UNCHANGED <<cont, security_state, wrong_password_count,
                 disarmed_state_timeout_value>>

RightPassword ==
  /\ ReadTyped /\ Completes /\ security_state # "NEW_PASSWORD" /\ Typed = cfg.password
  /\ my_queue' = <<>>
  /\ key_state' = "MAIN_MENU"
  /\ ChangeSecurityState("DISARMED", "unlocked")
  /\ UNCHANGED <<candidate, new_password_count, wrong_password_count, timing, store>>

\* Mutant: the disarmed time is not restarted (SessionNotCutShort).
UnlockedStale ==
  /\ pc = "unlocked"
  /\ wrong_password_count' = 0
  /\ Touch({"password"})
  /\ pc' = "security"
  /\ UNCHANGED <<cont, ret, key_state, security_state, locals, entry,
                 disarmed_state_timeout_value, store, remote, bonding, crashes>>

\* Once the disarm is saved; check_all_peripheral_connected may then ask for a reset.
Unlocked ==
  /\ pc = "unlocked"
  /\ wrong_password_count' = 0
  /\ Touch({"disarmed", "password"})
  /\ pc' = "security"
  /\ UNCHANGED <<cont, ret, key_state, security_state, locals, entry,
                 disarmed_state_timeout_value, store, remote, bonding, crashes>>

\* No bonded peripheral is connected: after a password, or when tested while armed.
MissingReset ==
  /\ LinksFail
  /\ \/ pc = "unlocked"
     \/ pc = "security" /\ security_state = "ARMED" /\ key_state # "LOCKED"
  /\ ResetDevice

\* Mutant: the lock is kept in RAM only (LockDurable).
LockUnsaved == key_state' = "LOCKED" /\ Touch({"password", "locked"}) /\ UNCHANGED store

\* Mutant: the lock's timer goes on from the last lock (LockServed).
LockOnOldTimer ==
  key_state' = "LOCKED" /\ Save([cfg EXCEPT !.is_locked = TRUE]) /\ Touch({"password"})

LockKeypad ==
  /\ key_state' = "LOCKED"
  /\ Save([cfg EXCEPT !.is_locked = TRUE])
  /\ Touch({"password", "locked"})

\* Mutant: a wrong password does not restart the time that wrong ones count (GuessesBounded).
WrongUntimed ==
  /\ ReadTyped /\ Completes /\ security_state # "NEW_PASSWORD" /\ Typed # cfg.password
  /\ my_queue' = <<>>
  /\ wrong_password_count' = Count(wrong_password_count, TryCap)
  /\ pc' = "security"
  /\ IF wrong_password_count' >= WRONG_PASSWORD_TRIES
       THEN LockKeypad
       ELSE key_state' = "IDLE" /\ UNCHANGED <<store, age>>
  /\ UNCHANGED <<cont, security_state, candidate, new_password_count,
                 disarmed_state_timeout_value>>

\* strcpy(previous_password_received, NULL) copies the empty string at address 0, so
\* a repeated wrong password counts like a new one.
WrongPassword ==
  /\ ReadTyped /\ Completes /\ security_state # "NEW_PASSWORD" /\ Typed # cfg.password
  /\ my_queue' = <<>>
  /\ wrong_password_count' = Count(wrong_password_count, TryCap)
  /\ pc' = "security"
  /\ IF wrong_password_count' >= WRONG_PASSWORD_TRIES
       THEN LockKeypad
       ELSE /\ key_state' = "IDLE"
            /\ Touch({"password"})
            /\ UNCHANGED store
  /\ UNCHANGED <<cont, security_state, candidate, new_password_count,
                 disarmed_state_timeout_value>>

\* A long key in a menu; the ignition pin is read again, and may have changed.
MenuKey(k) == received /\ msg_key.is_long_key /\ msg_key.key = k

\* Every link is closed first (disconnect_and_delete_all_peripheral, which saves).
EnterGarage ==
  /\ pc = "keys" /\ key_state = "MAIN_MENU" /\ MenuKey(5)
  /\ Save(cfg)
  /\ Touch({"garage", "disarmed"})
  /\ key_state' = "GARAGE_MENU"
  /\ ChangeSecurityState("GARAGE", "security")
  /\ UNCHANGED <<ret, locals, entry, wrong_password_count,
                 disarmed_state_timeout_value, remote, bonding, crashes>>

\* Mutant: entries of an earlier session count (PasswordConfirmed).
EnterKeepsCount ==
  /\ pc = "keys" /\ key_state = "MAIN_MENU" /\ MenuKey(3)
  /\ Touch({"garage", "disarmed"})
  /\ key_state' = "IDLE"
  /\ ChangeSecurityState("NEW_PASSWORD", "security")
  /\ UNCHANGED <<ret, locals, entry, wrong_password_count,
                 disarmed_state_timeout_value, store, remote, bonding, crashes>>

EnterNewPassword ==
  /\ pc = "keys" /\ key_state = "MAIN_MENU" /\ MenuKey(3)
  /\ Touch({"garage", "disarmed"})
  /\ key_state' = "IDLE" /\ new_password_count' = 0
  /\ ChangeSecurityState("NEW_PASSWORD", "security")
  /\ UNCHANGED <<ret, locals, my_queue, candidate, wrong_password_count,
                 disarmed_state_timeout_value, store, remote, bonding, crashes>>

\* Garage key 1: defaults, then every peripheral and address is deleted, then one
\* reset with garage_mode set, so that the device comes back in the garage menu.
EraseAll ==
  /\ pc = "keys" /\ key_state = "GARAGE_MENU" /\ MenuKey(1)
  /\ Touch({"garage", "disarmed"})
  /\ Save(DefaultConfiguration)
  /\ pc' = "erase"
  /\ UNCHANGED <<cont, ret, key_state, security_state, locals, entry,
                 wrong_password_count, disarmed_state_timeout_value, remote, bonding,
                 crashes>>

\* garage_mode is set in RAM and saved with the security state.
ErasePeripherals ==
  /\ pc = "erase"
  /\ cfg' = [cfg EXCEPT !.garage_mode = TRUE] /\ rom' = cfg /\ rom_ok' = TRUE
  /\ ChangeSecurityState("DISARMED", "eraseReset")
  /\ UNCHANGED <<ret, key_state, locals, entry, wrong_password_count, timing, remote,
                 bonding, crashes>>

EraseReset == pc = "eraseReset" /\ ResetDevice

\* Garage key 4: enrolment.
StartBonding ==
  /\ pc = "keys" /\ key_state = "GARAGE_MENU" /\ MenuKey(4)
  /\ Touch({"garage", "disarmed"})
  /\ in_bonding_state' = TRUE /\ afterStudy' = TRUE
  /\ pc' = "security"
  /\ UNCHANGED <<cont, ret, key_state, security_state, locals, entry,
                 wrong_password_count, disarmed_state_timeout_value, store, remote,
                 needToDoReset, crashes>>

\* Garage key 5 prolongs the garage mode, another long key the disarmed time only.
\* (Key 6 is never seen here: LongStar has armed the device.)
ProlongGarage ==
  /\ pc = "keys" /\ key_state = "GARAGE_MENU"
  /\ \E k \in Keys \ {1, 4, Star} :
       MenuKey(k) /\ Touch(IF k = 5 THEN {"garage", "disarmed"} ELSE {"disarmed"})
  /\ pc' = "security"
  /\ UNCHANGED <<cont, ret, key_state, security_state, locals, entry,
                 wrong_password_count, disarmed_state_timeout_value, store, remote,
                 bonding, crashes>>

\* No key, a key without meaning, or the ignition off when it is read again.
MenuStays ==
  /\ pc = "keys" /\ key_state \in {"MAIN_MENU", "GARAGE_MENU", "LOCKED"}
  /\ pc' = "security"
  /\ UNCHANGED <<cont, ret, key_state, security_state, locals, entry,
                 wrong_password_count, timing, store, remote, bonding, crashes>>

-----------------------------------------------------------------------------
(* switch (security_state)                                                 *)

\* What these steps never change.
SecurityStep ==
  /\ pc = "security"
  /\ UNCHANGED <<key_state, locals, entry, disarmed_state_timeout_value, store, remote,
                 in_bonding_state, afterStudy, crashes>>

\* Mutant: every pass restarts the disarmed time (QuietRearms).
DisarmedForever ==
  /\ SecurityStep /\ security_state = "DISARMED"
  /\ IF ~ignition_flag /\ Elapsed("disarmed")
       THEN BackToArmedState("mailbox")
       ELSE pc' = "mailbox" /\ UNCHANGED ret
  /\ Touch({"disarmed"})
  /\ UNCHANGED <<cont, security_state, wrong_password_count, needToDoReset>>

Disarmed ==
  /\ SecurityStep /\ security_state = "DISARMED"
  /\ IF ~ignition_flag /\ Elapsed("disarmed")
       THEN BackToArmedState("mailbox")
       ELSE pc' = "mailbox" /\ UNCHANGED ret
  /\ Touch(IF ignition_flag THEN {"disarmed"} ELSE {})
  /\ UNCHANGED <<cont, security_state, wrong_password_count, needToDoReset>>

\* Armed, a leach in entry 2 of the connection list is the phone application: it
\* disarms when its serial number is that of the first leach.
ServeApplication ==
  /\ SecurityStep /\ security_state = "ARMED" /\ key_state # "LOCKED"
  /\ \E app \in AppSerials :
       IF app = "same"
         THEN ChangeSecurityState("DISARMED", "mailbox")
         ELSE pc' = "mailbox" /\ UNCHANGED <<cont, security_state>>
  /\ needToDoReset' = TRUE
  /\ UNCHANGED <<ret, age, wrong_password_count>>

\* The next armed pass without it resets the device.
ApplicationReset ==
  /\ pc = "security" /\ security_state = "ARMED" /\ key_state # "LOCKED"
  /\ needToDoReset /\ ResetDevice

Armed ==
  /\ SecurityStep /\ security_state = "ARMED" /\ key_state # "LOCKED"
  /\ ~needToDoReset
  /\ pc' = "mailbox"
  /\ UNCHANGED <<cont, ret, security_state, age, wrong_password_count, needToDoReset>>

Locked ==
  /\ SecurityStep /\ security_state = "ARMED" /\ key_state = "LOCKED"
  /\ IF Elapsed("locked")
       THEN BackToArmedState("mailbox") /\ wrong_password_count' = 0
       ELSE pc' = "mailbox" /\ UNCHANGED <<ret, wrong_password_count>>
  /\ UNCHANGED <<cont, security_state, age, needToDoReset>>

\* Garage and password change end by timeout, and when the ignition is off: two
\* tests in sequence, so that back_to_armed_state may run twice.
GarageTimeout ==
  /\ SecurityStep /\ security_state \in {"GARAGE", "NEW_PASSWORD"}
  /\ IF Elapsed("garage")
       THEN BackToArmedState("ignitionOff")
       ELSE pc' = "ignitionOff" /\ UNCHANGED ret
  /\ UNCHANGED <<cont, security_state, age, wrong_password_count, needToDoReset>>

IgnitionOff ==
  /\ pc = "ignitionOff"
  /\ IF ignition_flag
       THEN pc' = "mailbox" /\ UNCHANGED ret
       ELSE BackToArmedState("mailbox")
  /\ UNCHANGED <<cont, key_state, security_state, locals, entry, wrong_password_count,
                 timing, store, remote, bonding, crashes>>

-----------------------------------------------------------------------------
(* The ble task, time and the power supply.                                *)

\* ruptela_decode_command: the record is written first, whatever the command.
RemoteCommand(c, v) ==
  /\ pc # "boot"
  /\ value1' = v
  /\ mailbox' = CASE c = "DISARM" -> "DISARMED"
                  [] c = "ARM"    -> "ARMED"
                  [] OTHER        -> mailbox
  /\ CASE c = "NEW_PASSWORD" -> \E p \in RemotePasswords :
                                  Save([cfg EXCEPT !.password = p])
       [] c = "BACK_DEFAULT" -> Save(DefaultConfiguration)
       [] OTHER              -> UNCHANGED store
  /\ UNCHANGED <<control, key_state, security_state, locals, entry, wrong_password_count,
                 timing, bonding, crashes>>

\* verify_peripheral, at the end of which the ble task calls set_leach_state.
PeripheralVerified ==
  /\ LinksFail /\ pc # "boot"
  /\ LeachState
  /\ UNCHANGED <<control, key_state, security_state, locals, entry, wrong_password_count,
                 timing, store, remote, needToDoReset, afterStudy, crashes>>

Tick ==
  /\ pc # "boot"
  /\ age' = [t \in Timers |-> IF age[t] < AgeCap(t) THEN age[t] + 1 ELSE age[t]]
  /\ UNCHANGED <<control, key_state, security_state, locals, entry, wrong_password_count,
                 disarmed_state_timeout_value, store, remote, bonding, crashes>>

\* Power is lost.  In the middle of a save, by this task's next step or by the ble
\* task's, only some of the pages are written, and the stored CRC does not match.
MaySave ==
  \/ RemoteCommands \cap {"NEW_PASSWORD", "BACK_DEFAULT"} # {}
  \/ pc \in {"boot", "commit", "rearm", "saveBondings", "bondingReset", "rearmTail",
             "receive", "keys", "unlocked", "erase", "eraseReset", "security"}

Crash ==
  /\ crashes < MAX_CRASHES /\ crashes' = crashes + 1
  /\ \/ UNCHANGED rom_ok
     \/ TornSaves /\ MaySave /\ rom_ok' = FALSE
  /\ UNCHANGED <<cfg, rom>>
  /\ Restart

-----------------------------------------------------------------------------
MonitorStep ==
  \/ Boot \/ DropReset \/ CommitSecurityState
  \/ Unlock \/ SaveBondings \/ BondingReset \/ RearmChange \/ RearmTail
  \/ PollMailbox \/ RemoteDisarmed \/ ReceiveKey \/ LongStar
  \/ ForgetWrongPasswords
  \/ Idle \/ TypeKey \/ NewPassword \/ RightPassword \/ Unlocked \/ WrongPassword
  \/ EnterGarage \/ EnterNewPassword \/ EraseAll \/ ErasePeripherals \/ EraseReset
  \/ StartBonding \/ ProlongGarage \/ MenuStays
  \/ Disarmed \/ MissingReset \/ ServeApplication \/ ApplicationReset \/ Armed
  \/ Locked \/ GarageTimeout \/ IgnitionOff

Command == \E c \in RemoteCommands, v \in RemoteValues : RemoteCommand(c, v)

Next == MonitorStep \/ Command \/ PeripheralVerified \/ Tick \/ Crash

Init ==
  /\ pc = "boot" /\ cont = "mailbox" /\ ret = "mailbox"
  /\ key_state = "IDLE" /\ security_state = "NONE"
  /\ msg_key \in {NoMessage} \cup Residue
  /\ received = FALSE /\ ignition_flag = FALSE
  /\ my_queue = <<>> /\ candidate = <<>> /\ new_password_count = 0
  /\ wrong_password_count = 0
  /\ age = [t \in Timers |-> 0]
  /\ disarmed_state_timeout_value = DISARM_WITHOUT_DRIVING_SEC
  /\ cfg = DefaultConfiguration /\ rom = DefaultConfiguration /\ rom_ok = FALSE
  /\ mailbox = "NONE" /\ value1 = 0
  /\ needToDoReset = FALSE /\ in_bonding_state = FALSE /\ afterStudy = FALSE
  /\ crashes = 0

Spec == Init /\ [][Next]_vars

-----------------------------------------------------------------------------
\* The shape of every variable (the globals and statics of monitor.c), group by group.
ControlTypes == pc \in Points /\ cont \in Points /\ ret \in Points

StateTypes == key_state \in KeyStates /\ security_state \in SecurityStates

LocalTypes ==
  /\ msg_key \in [key : Keys, is_long_key : BOOLEAN, key_release : BOOLEAN]
  /\ received \in BOOLEAN /\ ignition_flag \in BOOLEAN

EntryTypes ==
  /\ my_queue \in Seq(Digits) /\ Len(my_queue) < QUEUE_SIZE
  /\ candidate \in Passwords \cup {<<>>}
  /\ new_password_count \in 0..EntryCap

TimingTypes ==
  age \in [Timers -> Nat] /\ disarmed_state_timeout_value \in 0..MAX_VALUE

StoreTypes == cfg \in Configuration /\ rom \in Configuration /\ rom_ok \in BOOLEAN

RemoteTypes ==
  mailbox \in {"NONE", "ARMED", "DISARMED"} /\ value1 \in {0} \cup RemoteValues

BondingTypes ==
  needToDoReset \in BOOLEAN /\ in_bonding_state \in BOOLEAN /\ afterStudy \in BOOLEAN

TypeOK ==
  /\ ControlTypes /\ StateTypes /\ LocalTypes /\ EntryTypes
  /\ TimingTypes /\ StoreTypes /\ RemoteTypes /\ BondingTypes
  /\ wrong_password_count \in 0..TryCap /\ crashes \in 0..MAX_CRASHES

(* At the top of the loop the two state variables, which different handlers assign *)
(* one after the other, describe one state: the garage menu is open exactly in     *)
(* garage mode and the main menu only when disarmed.  keypad_state_machine         *)
(* dispatches on key_state without looking at security_state.                      *)
MenuMatchesSecurity ==
  pc = "mailbox" =>
    /\ key_state = "GARAGE_MENU" <=> security_state = "GARAGE"
    /\ key_state = "MAIN_MENU" => security_state = "DISARMED"
    /\ security_state # "NONE"

(* A lock that the EEPROM holds for an armed device is in force: whatever command, *)
(* time-out or reset intervenes, the keypad is LOCKED until is_locked is cleared.  *)
(* The one gap: a remote DISARM leaves is_locked set, and a later remote ARM saves  *)
(* the armed state before back_to_armed_state clears the lock ("rearm").           *)
LockInForce ==
  (pc \notin {"boot", "rearm"} /\ rom.is_locked /\ rom.security_state = "ARMED")
    => key_state = "LOCKED"

(* Conversely a lock in force is in the EEPROM, so that a reset does not lift it.  *)
(* (BACK_DEFAULT clears is_locked behind the monitor's back: with that command the *)
(* property does not hold.)                                                        *)
LockDurable ==
  (key_state = "LOCKED" /\ pc \in {"mailbox", "receive", "longStar", "forget", "keys",
                                   "security"})
    => rom.is_locked /\ rom_ok

(* garage_mode brings the device back into the garage menu once: outside the erase *)
(* sequence the EEPROM never holds it, so no later power loss can reopen the menu. *)
GarageFlagConsumed ==
  rom.garage_mode => pc \in {"boot", "commit", "eraseReset"}

(* The duration a remote DISARM brought never outlives its session: an armed       *)
(* device has the default duration, so that the next local disarm is not cut short *)
(* or prolonged by it.                                                             *)
DefaultDurationWhenArmed ==
  (pc = "mailbox" /\ security_state = "ARMED")
    => disarmed_state_timeout_value = DISARM_WITHOUT_DRIVING_SEC

(* An armed device wakes up armed: from the save of change_security_state on, and   *)
(* through locks, enrolment, password changes and every command that rewrites the  *)
(* EEPROM behind the monitor task, the EEPROM holds ARMED for as long as the device *)
(* is armed.  Only between the assignment and that save ("commit", where            *)
(* set_leach_state may sleep or reset) can a power loss bring the old state back.   *)
ArmedIsRecorded ==
  (security_state = "ARMED" /\ pc # "commit") => rom_ok /\ rom.security_state = "ARMED"

-----------------------------------------------------------------------------
(* The inductive invariant behind these properties: what holds at each point.      *)

LoopPoints == {"mailbox", "receive", "longStar", "forget", "keys", "security"}
Returns == {"mailbox", "receive", "forget", "ignitionOff"}
Returning(back) == pc = "commit" /\ cont = back

MenusAgree ==
  /\ key_state = "GARAGE_MENU" <=> security_state = "GARAGE"
  /\ key_state = "MAIN_MENU" => security_state = "DISARMED"

\* The states the two variables can have at each point of the loop and its routines.
StatesAtPoints ==
  /\ ret \in Returns
  /\ key_state = "LOCKED" => security_state \in {"ARMED", "DISARMED"}
  /\ pc = "commit" => cont \in {"remoteDisarmed", "rearm", "unlocked", "security",
                                "eraseReset", "mailbox", "bondingReset", "rearmTail"}
  /\ pc \in LoopPoints => MenusAgree
  /\ security_state = "NONE" <=> pc = "boot"
  /\ pc = "ignitionOff" =>
       /\ MenusAgree
       /\ security_state \in {"GARAGE", "NEW_PASSWORD"}
            \/ (security_state = "ARMED" /\ key_state = "IDLE")
  /\ (pc = "unlocked" \/ Returning("unlocked"))
       => security_state = "DISARMED" /\ key_state = "MAIN_MENU"
  /\ (pc = "remoteDisarmed" \/ Returning("remoteDisarmed")) => security_state = "DISARMED"
  /\ pc = "erase" => security_state = "GARAGE" /\ key_state = "GARAGE_MENU"
  /\ (pc = "eraseReset" \/ Returning("eraseReset")) => security_state = "DISARMED"
  /\ Returning("security") => /\ MenusAgree
                              /\ security_state \in {"GARAGE", "NEW_PASSWORD"}
  /\ Returning("mailbox") => /\ security_state = "DISARMED"
                             /\ key_state \in {"IDLE", "ASTRIX_RECEIVED"}
  /\ (pc = "bondingReset" \/ Returning("bondingReset") \/ Returning("rearm"))
       => security_state = "ARMED"
  /\ (pc = "rearmTail" \/ Returning("rearmTail"))
       => security_state = "ARMED" /\ key_state = "IDLE"

\* RAM and EEPROM agree, but for the garage flag while it waits to be saved; the
\* erase sequence has restored the defaults by then.
StoreAgrees ==
  /\ pc # "boot" =>
       rom_ok /\ (rom = cfg \/ (/\ Returning("eraseReset")
                               /\ rom = [cfg EXCEPT !.garage_mode = FALSE]))
  /\ (pc = "erase" \/ Returning("eraseReset")) => cfg.security_state = "ARMED"

\* Where is_locked is known to be cleared, and that it is honoured.
LockAtPoints ==
  /\ LockInForce
  /\ pc \in {"saveBondings", "bondingReset", "rearmChange", "rearmTail", "erase"}
       => ~rom.is_locked
  /\ (Returning("bondingReset") \/ Returning("rearmTail") \/ Returning("eraseReset"))
       => ~rom.is_locked
  /\ pc = "remoteDisarmed" => ~rom.is_locked \/ rom.security_state = "DISARMED"

GarageAtPoints ==
  (rom.garage_mode \/ cfg.garage_mode)
    => pc \in {"boot", "eraseReset"} \/ Returning("eraseReset")

DurationAtPoints ==
  (security_state = "ARMED" /\ pc # "rearm" /\ ~Returning("rearm"))
    \/ pc \in {"boot", "saveBondings", "bondingReset", "rearmChange", "rearmTail"}
    => disarmed_state_timeout_value = DISARM_WITHOUT_DRIVING_SEC

IInv == TypeOK /\ StatesAtPoints /\ StoreAgrees /\ LockAtPoints /\ GarageAtPoints
          /\ DurationAtPoints /\ ArmedIsRecorded
=============================================================================
