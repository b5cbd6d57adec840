# The keypad firmware in TLA+

A keypad immobiliser on a Nordic nRF52 (FreeRTOS): a driver types a
password, the keypad disarms and tells up to two relay boxes ("leaches"), a CAN-bus leach
and a modem over Bluetooth LE whether the ignition may work. This directory holds TLA+
modules translated from the C source, TLC configurations that check them on small
instances, and TLAPS proofs for every value of the constants.

Run `tlc -config X.cfg M` and `tlapm M.tla` in this directory. `PROJECT.json` lists the
runs, which definition stands for which lines of the source (`map`), the mutants each
property is known to catch, the findings, the hazards and the theorems.

## 1. Inventory

Own code is about 6000 lines of C in `cloud-wise-sdk/` and `leach/`; `FreeRTOS-Kernel/`
and `nrf5-sdk/` are third-party: vendor headers, drivers and examples, some 960 000 lines of which
the firmware uses a few drivers. Of the own code the modules stand for about a third; of the
whole tree that is a fraction of a percent, and modelling register definitions and vendor
examples would not say more about this program.

| component | state it keeps | operations | what makes it correct |
|---|---|---|---|
| Monitor task (`logic/monitor.c`) | `key_state`, `security_state`, four timers, password queue and counters, flags | boot; one pass of `keypad_state_machine` after another | disarms only for someone entitled; locks hold through resets; always re-arms |
| Configuration store (`logic/configuration.c`, `drivers/eprom.c`) | one RAM structure, its CRC, 12 EEPROM pages | load, set default, save, save with CRC, address list | a boot accepts only a whole configuration; quiet means saved |
| Ruptela protocol (`leach/Ruptela.c`) | last command record, one-place mailbox for the security state | decode a command (BLE task), read the mailbox (monitor task), send a log | a remote DISARM is carried out; its duration stays with its session |
| BLE task (`leach/ble/ble_task.c`) | `connections_array`, `bonded_count`, bonding flags | wait for event bits, verify, remove, save bondings, delete all | the list is the saved roster, or what was enrolled |
| BLE services manager (`ble_services_manager.c`, `nrf_ble_scan.c`) | links, `current_conn_info`, the scan and its filter | SoftDevice events, start and stop the scan | an event is about the device the list entry names |
| Keypad scanner (`logic/keypad.c`) | last key, press time, a queue of one message | scan the matrix, send press, long press and release | one touch counts once |
| Task watchdog (`state_machine.c`, `monitor.c`) | keep-alive array, a semaphore | set (each task), check (interrupt) | a stalled task is noticed |
| Calendar (`monitor.c` 1063-1215) | date and time in retained RAM | set once at start-up; the rest has no callers | not modelled, section 8 |
| Buzzer (`drivers/buzzer.c`, `nrfx_pwm.c`) | a PWM, `is_initialized` and a semaphore | melodies and notes | silent and free when all calls have returned; melodies wait for each other |
| Start-up, peripherals, HAL, GATT clients, bootloader | pins, handles | initialisation, I/O | not modelled, section 8 |

### How the parts interact

- Four tasks: monitor, BLE and logger at priority 1, keypad at 2, beside the SoftDevice's
  event task; a 1 Hz RTC interrupt. Equal priorities are not time-sliced
  (`configUSE_TIME_SLICING` is 0), but whenever the keypad task has run, the kernel goes on
  with the next of the others, so two tasks can interleave between any two statements.
- *keypad -> monitor*: `keypad_message_queue`, one place; sending waits one tick.
- *BLE -> monitor*: `security_state` of `Ruptela.c` (a mailbox that keeps the last command)
  and `ruptela_command`, a record overwritten by every command.
- *SoftDevice -> BLE*: event bits, and a single `current_conn_info` for all links.
- *Shared*: `eprom_configuration` (fields assigned freely; `configuration_semaphore` only
  inside the CRC computation and the save), `connections_array` under
  `connection_list_semaphore`, a binary semaphore any task can give; the buzzer's PWM, under
  another of that kind.
- *Resets are part of the normal control flow*: a lost peripheral, an erase, a finished
  application session all end in `reset_device`, and the state goes on from the EEPROM.

### Which behaviours are hard

Resets and power losses between the RAM and the EEPROM assignment of one change of state;
commands that arrive in the middle of a pass; a message slot read whether or not a message
came; statics that survive a session; two tasks saving one structure; a lock released by a
task that does not hold it; an enrolment that overlaps a verification. The full list, each
at its line, is under `hazards` in `PROJECT.json`.

## 2. Modules

| module | what it is | extends / instantiates |
|---|---|---|
| `KeypadMonitor` | the monitor task, the remote commands, time, power | - |
| `SecurityModes` | what the keypad promises: live and durable mode | - |
| `KeypadMonitorModes` | the refinement mapping | `KeypadMonitor`, INSTANCE `SecurityModes` |
| `MonitorHistory` | a record of causes, durations and entries, and properties over it | `KeypadMonitorModes` |
| `MonitorLiveness` | fairness and what must happen | `KeypadMonitor` |
| `ConfigurationStore` | what the store promises: a configuration kept, one that a boot would take | - |
| `EepromStore` | the paged, CRC-protected save under two tasks, and the refinement mapping | INSTANCE `ConfigurationStore` |
| `KeypadScanner` | scanner, queue of one, its reader | - |
| `Connections` | SoftDevice, BLE task and monitor task on the list of peripherals | - |
| `TaskWatchdog` | the keep-alive array and its check | - |
| `Buzzer` | melodies and notes of two tasks on one PWM | - |
| `KeypadMonitorProofs`, `KeypadMonitorModesProofs`, `MonitorHistoryProofs`, `EepromStoreProofs`, `KeypadScannerProofs`, `ConnectionsProofs`, `BuzzerProofs`, `TaskWatchdogProofs` | theorems | the modules they are named for |
| `MCMonitorHistory`, `MCMonitorModes`, `MCMonitorLiveness`, `MCKeypadScanner`, `MCConnections` | instances for TLC | the modules they are named for |

`KeypadMonitor` sees the other components through small interfaces: the EEPROM as one
record saved at once (`EepromStore` has the detail), the keypad as a message or none
(`KeypadScanner`), the peripherals as "one may be missing now" (`Connections`).

### KeypadMonitor

The monitor task is a loop. `pc` names the point reached, `cont` and `ret` the return
points of the two routines it calls, `change_security_state` (point `commit`) and
`back_to_armed_state` (points `rearm` to `rearmTail`). The points are placed where another
task can get in between: at each take of a semaphore, delay or EEPROM write.

| point | code | actions |
|---|---|---|
| `boot` | `monitor_thread` to its loop, 209-286 | `Boot` |
| `mailbox`, `remoteDisarmed` | 314-332 | `PollMailbox`, `RemoteDisarmed` |
| `receive` | 337-372 | `ReceiveKey` |
| `longStar`, `forget` | 375-392 | `LongStar`, `ForgetWrongPasswords` |
| `keys`, `unlocked`, `erase`, `eraseReset` | `switch (key_state)`, 394-672 | `Idle`, `TypeKey`, `NewPassword`, `RightPassword`, `Unlocked`, `WrongPassword`, `EnterGarage`, `EnterNewPassword`, `EraseAll`, `ErasePeripherals`, `EraseReset`, `StartBonding`, `ProlongGarage`, `MenuStays` |
| `security`, `ignitionOff` | `switch (security_state)`, 674-838 | `Disarmed`, `ServeApplication`, `ApplicationReset`, `Armed`, `Locked`, `GarageTimeout`, `IgnitionOff`, `MissingReset` |
| `commit` | `set_leach_state` and the save, 995-1010 | `CommitSecurityState`, `DropReset` |
| `rearm` .. `rearmTail` | `back_to_armed_state`, `save_bondings` | `Unlock`, `SaveBondings`, `BondingReset`, `RearmChange`, `RearmTail` |

`Command`, `PeripheralVerified` (the BLE task), `Tick` and `Crash` may come between any two
of them. State names are those of `KeyState` and `SecurityState` in `monitor.h`.

Abstractions, all towards more behaviours unless stated:
- A timer is its age in seconds, capped one above the largest value it is compared with.
- The ignition pin may change at every reading; the keypad may deliver any message.
- `msg_key` is an uninitialised local. With `Residue` empty a failed receive leaves the
  last message; with `Residue = Messages` it leaves anything a callee can have put there.
- Which link is missing, the spacing of the connection test, and the counters
  `startScanOnOperation` and `stopScanDone` are nondeterministic (`LinksFail`, `LeachState`).
- An application has the serial number of the first leach or not (`AppSerials`).
- A save is one step. A power loss in the middle of one, by either task, leaves an EEPROM
  whose CRC does not match (`TornSaves`, `Crash`); a reset that tears the BLE task's save is
  that same outcome. That this is all a torn save of one task can leave, beside the
  configuration kept, is what `EepromStore` shows (`ImplementsStore`); what two overlapping saves
  leave is `StoreCrc`'s question and stays there.
- A NEW_PASSWORD command whose password is refused by `is_valid_password` is `"OTHER"`.

Things the source does that a reader may not expect, and the model keeps: the application's
disarm does not restart the disarm timer; digits typed before a change of state stay in
`my_queue`; both tests of garage mode can run `back_to_armed_state` in one pass;
`strcpy(previous_password_received, NULL)` reads address 0, the empty string, so that a
repeated wrong password counts again; BACK_DEFAULT changes the EEPROM behind the state in
RAM; a change to armed is saved only when `set_leach_state` has returned; `readme.txt` speaks of a disarm time of two minutes where `monitor.h` has `3*60`.

### SecurityModes and the refinement

`live` is off, armed, locked, disarmed, garage or newPassword; `durable` is what the device
would wake up in: armed, locked, disarmed, or the garage once. The steps state the promise:
a menu opens only from disarmed, a device wakes up in the durable mode and a damaged store
means armed, a locked keypad opens to the armed mode only after the durable lock is
lifted. `KeypadMonitorModes` reads `live` from `security_state` and `key_state`, `durable`
from the EEPROM. The specification admits a locked keypad to disarm (a remote DISARM does
it in the source) and the defaults to be restored at any time. It does not promise that a
device wakes up as protected as it was: `change_security_state` assigns the RAM first, so
power that fails before the save wakes the device in the mode recorded last (`Arm`,
`PowerOff`), and a torn save or BACK_DEFAULT replaces a recorded lock by the defaults. When arming
is recorded is `ArmedIsRecorded`, when a lock is, `LockDurable`.

### EepromStore

Two tasks change pages, compute the CRC under the semaphore, store it without, and save page
by page under the semaphore; power fails at any moment; the monitor task resets without
asking the other one. A CRC is the content itself (no collisions), a page is written whole or
not at all. `saved` and `writers` are history.

`ConfigurationStore` says the same without pages and semaphores: a configuration in RAM, the one
`kept`, the one a boot would take (`wakes`), and whether two tasks share the RAM copy. A save can
be torn, which leaves `wakes` with what was kept or the defaults; when it ends, `wakes` is what
was saved. In `EepromStore`, `wakes` is the EEPROM if its CRC matches and the defaults otherwise,
a save goes on while a task holds the semaphore to copy and write pages, and `shared` is `~Lone`.
While two tasks share the copy the promise is void until the next good boot, as finding 2 says it
must be.

### KeypadScanner

`Scan` is one pass over the matrix with any set of pressed keys after any scan time, so that
rollovers are included; time is counted in scan units up to `LONG_PRESS`. `SendKey` drops the
message when the queue of one is full. The reader is the typing part of the monitor task,
with `LeaveTyping` for everything else that changes `key_state`. Its `msg_key` is the same
uninitialised local as in `KeypadMonitor`: after a failed receive it holds the last message
or any of `Residue`, and the typing branch, which does not look at `ret`, reads either.
`touches` is what the finger did, from the pressed keys alone; `stray` is up while no message
has filled `msg_key` as it is, `digits` are the digits queued that did come with a message;
`lost` counts the releases the full queue turned away.

### Connections

A step ends wherever its task sleeps, waits for the semaphore, or has read what another task may
write before it is done with it. What decides when the monitor acts is `KeypadMonitor`'s; here its
actions may come at any time.

| code | actions |
|---|---|
| `nrf_ble_scan.c` 93-115, `ble_evt_handler` | `Match`, `Connected`, `Discover`, `Drop` |
| `ble_thread`, `verify_peripheral`, `add_new_device_to_list` | `Wait`, `StartVerify`, `Find`, `Recognise` or `Accept`, `Unlock`, `Announce`, `ClearBits`, `ResumeScan` |
| `remove_peripheral`; `Ruptela.c` (ENABLE_PAIRING) | `RemovePeripheral`; `EnablePairing` |
| `set_leach_state`, `change_security_state`, `send_log` | `KeepAlive`, `Disarm`, `RemoteArm`, `ClearApp`, `Log`, `Report` |
| garage menu, `disconnect_and_delete_all_peripheral`, `activate_bonding_state` | `EnterGarage`, `EmptyList`, `OpenGarage`, `StartEnrolment`, `ActivateBonding`, `EraseBondings` |
| `back_to_armed_state`, `save_bondings`, `configuration_save_address_list` | `SaveBondings`, `SaveRoster`, `EndBonding`, `Rearm`, `Refresh` |
| `configuration_load_address_list` | `ResetList`, `LoadSlot`, `Reloaded`; at start-up `Loaded` |

- *Connecting.* A match stops the scan before the SoftDevice is asked to connect (`connecting`).
  It refuses when every link is in use, which the source ignores; otherwise the connection
  comes later, or never. A link may drop at any time, one the firmware asked to drop included.
- *Garage mode.* `EmptyList` empties the list, the save sleeps in every page, and only
  `OpenGarage` changes the state; a verification may end anywhere in between.
- *Loading the list* takes no semaphore and goes slot by slot, so that the BLE task can find
  or write a list half loaded.
- *Verifying.* `Find` chooses an entry, a later step writes it. The semaphore it was taken for
  may have been given by the monitor's `send_log` since.

Histories: `enrolled` are the devices accepted in garage mode or on the way into it;
`interrupted` says that a server command ended garage mode with the enrolment open;
`app_session`, that the list was changed for the application; `raced`, that the monitor emptied
or loaded the list between the BLE task's choice of an entry and its write.

`Restart` is any reset that leaves the roster as saved. NEW_PASSWORD is not told
from DISARMED; the every-eighth-call counter of the application scan is "any call"; the
serial comparison is nondeterministic. `bonded_count` stops at `MAX_CONNECTIONS`, since the
firmware reads past the array beyond it. The array has four entries, one for each address the
EEPROM holds: `configuration_load_address_list` writes as many, whatever the list's length.

### TaskWatchdog

Each task takes the semaphore, sets its bit and gives it; the interrupt checks every
`MONITOR_TEST_TIME` seconds and looks at nothing when the semaphore is taken. A stalled task
stops somewhere else in its loop.

### Buzzer

A call is cut at each access to the semaphore, the PWM driver or `is_initialized`; the delays
of a note are `nrf_delay_ms`, which waits busily, and the keypad task can hand the processor
to the other task in between. `play_melody` without the semaphore goes to its last statement
and stops the PWM of whoever plays; a note gives a semaphore its caller took, and `buzzer_train`
gives it again after every round. `state`, `enabled` and `top_value` are the driver's state and
the registers `nrfx_pwm.c` writes; its debug assertions are left out. Stopping is as the driver
has it: the STOP task (`StopPwm`), then `nrfx_pwm_is_stopped` in a loop, which reads the state
(`AskState`), then the latched STOPPED event (`AskEvent`), and makes the driver INITIALIZED
when the event is there (`SetInitialized`), also a driver that another task has uninitialised
meanwhile, whose `nrfx_pwm_init` then fails. The PWM itself is external: it falls silent at the STOP task and
latches its event then or later (`RaiseStopped`); one that is disabled does neither play nor
raise an event. A task may wait for an event that another has cleared: no fairness is
assumed. `mixed` and `overlap` are history. `docs/GLOSSARY.md` (46-47) calls the drivers' interfaces thread-safe; what holds
of this one is in section 4, and not more.

## 3. Runs

| run | question | instance | result |
|---|---|---|---|
| `MonitorLocal` | typing, menus, password change, time-outs, peripherals that drop | two-digit password over {3,5}, one try, every time-out zero | pass |
| `MonitorRemote` | DISARM, ARM and other commands between any two steps, a torn save and a power loss, any residue in `msg_key` | one-digit password, two tries, lock and disarmed time of one second, one crash | pass |
| `MonitorGarage` | garage menu, erase, enrolment, application, the commands that rewrite the EEPROM; is an armed device recorded? | all five menu keys, one crash | pass |
| `MonitorLiveness` | what must happen, under fairness | four keys where they mean something, default password 5 and new password 3, DISARM commands, a disarmed time of one second, no crash | pass |
| `BondingReset` | is the reset announced after an enrolment reached? | three keys | violated |
| `EepromStore` | overlapping saves, power losses, resets; is it a `ConfigurationStore`? | two tasks, three pages, two values, three changes, two crashes | pass |
| `StoreCrc` | does the stored CRC match when all is quiet? | same, smaller | violated |
| `KeypadScanner` | is a touch counted once? | three keys, threshold of three units, scans of one or two, three touches, any short release left in `msg_key` | pass |
| `Connections` | what gets into the list and the roster | two leaches, a modem, two links, two connections, a list of four | pass |
| `ListExclusive` | is the list protected during a verification? | one connection | violated |
| `Buzzer` | what do overlapping calls leave behind? | two tasks, two pitches, two notes, three rounds | pass |
| `TaskWatchdog` | is a stalled task detected? | three tasks | violated |

Why these bounds are enough to see the interesting cases: a zero time-out expires after one
tick, so both sides of every comparison occur, and `MonitorRemote` has times of one second
where a stale age or a foreign duration (0) makes a difference. In `MonitorLiveness` the disarmed
time lasts longer than a pass can be sure to take, so that it has to add up over passes. Its
driver presses any of the keys that lead on from where he is (`KeysThatCount`, an action
constraint on the messages received and on nothing else, so that no step of the fair actions
is lost: a receive without a message is always possible). He gets through a password change, from 5 to 3, and
an erase after it, which has to bring 5 back. One-digit passwords reach
every verdict in one touch; `MonitorLocal` has two digits so that a partly typed password
meets state changes, and three different completed entries. One wrong try locks in most runs;
`MonitorRemote` has two, so that the counter is forgotten in between. One crash is enough for
each wake-up because the state after a boot depends on the EEPROM only. Three pages have a
first, a middle and the CRC page. Only a short release left in `msg_key` can be read as a star or a
digit, so `KeypadScanner` has those (`ShortReleases`). Two sessions over two links give a verification that
overlaps a drop, a reconnection, and a device enrolled twice; the list is as long as in the
source. `Bound` of `MCConnections` cuts behaviours after a race for the list, of which nothing is claimed, and
makes no second connection once a server command has cut an enrolment short or when a modem
is involved; the two leaches are interchangeable (`Symmetry`). Melodies of two notes have a first and a last one, and two pitches tell whose period
the PWM has; rounds are as many as in the source. `OneNewPassword` (a constraint of `MonitorGarage`) leaves
out password changes other than to 1, which `MonitorLocal` has.

Deadlock is checked everywhere except in `EepromStore`, where the device rests when nobody
changes anything, and in the violation runs that say so.

## 4. Properties

- *KeypadMonitor*: `MenuMatchesSecurity` (the dispatch on `key_state` is safe),
  `LockInForce` and `LockDurable` (RAM and EEPROM agree on the lock, in both directions),
  `GarageFlagConsumed`, `DefaultDurationWhenArmed`, `ArmedIsRecorded` (but for the way from
  `change_security_state`'s assignment to its save, an armed device has ARMED in a good EEPROM,
  through every reset, BACK_DEFAULT and erase), and `IInv`, the inductive invariant.
- *Modes*: `ImplementsModes`: the device wakes up in the mode recorded last, or armed; once in
  the garage menu after an erase; menus open only from disarmed; a lock in the EEPROM is
  lifted before the keypad opens.
- *History*: `DisarmAuthorised` (no disarmed state in RAM or EEPROM without the password, a
  remote DISARM or the application since it was last armed), `PasswordConfirmed` (a changed password was entered first, and the
  second entry, just completed, is the same),
  `SessionNotCutShort`, `LockServed` (a lock is served to its end, whatever timer an earlier one
  left), `GuessesBounded` (wrong passwords add up to a lock, however they are spread).
- *Liveness*: `QuietRearms`, `RemoteDisarmServed`, `EraseReopensGarage`.
- *Store*: `QuietStoreIsCurrent`, `LoneSaveIsValid`, `RecoversLastSaved`, `ImplementsStore` (of
  two tasks that save at once only the first can be claimed, see finding 2, and the last claims
  nothing of what they leave).
- *Scanner*: `TouchCountsOnce`, `DigitsWereTouched` (of the digits that came with a message): both through a mapping from what was
  received to what the finger did; `LostOnlyWhenFull`, a balance of touches made, received, on
  their way and lost at the full queue, which is out by one at most: the first touch of all,
  when the uninitialised `long_key_found` happens to be set, is reported to nobody.
- *Connections*: `SavedDistinct`; `EnrolmentList` (in garage mode the list is the devices
  accepted there, each once, and no other); `RosterIsSaved` (elsewhere it is the saved roster);
  `SavedWasEnrolled`; `ScanPending` (a scan that a match stopped is off only while the
  connection is being made, an event is to be served or every link is in use, though event bits
  are cleared together).
- *Buzzer*: `QuietBuzzer` (no call leaves a sound or a taken semaphore behind),
  `MelodiesExclusive`, `OwnPitch` (a call alone sounds, and at its pitch, whatever earlier
  overlaps left of the driver and its latched event).

Exceptions are part of the statements. `LockDurable` does not hold with BACK_DEFAULT, and
`LockServed` names it, with the remote ARM, among the ends of a lock; it is about an armed
device, a remote DISARM having opened the others. `GuessesBounded` forgets what the source
forgets: a reset clears the count in RAM, so that it bounds the tries between resets.
`SessionNotCutShort` not after a disarm by the application; `SavedWasEnrolled` and
`RosterIsSaved` not after a server's ARM or DISARM in garage mode, which leaves the enrolment
open (`interrupted`), so that a device let in later for the application can be saved; these two
and `EnrolmentList` not after a race for the list (`raced`), in which the firmware writes to
an entry it chose in another list. `ScanPending` does not claim that an attempt to connect ends:
that is up to the radio, and the firmware sets it no time-out. `DigitsWereTouched` leaves out the
digits of an uninitialised `msg_key`, which need no touch at all.
`MelodiesExclusive` speaks of a time in which only melodies were played, and `OwnPitch` of a
call that no other overlaps: notes and melodies of two tasks do cut each other off.

Every property of a passing run has a mutant in `PROJECT.json`: a definition replaced by its
neighbour with a plausible mistake (introduced by "Mutant:" in the modules), for which TLC
finds the property violated.

## 5. Findings

1. `BondingEndsInReset`: `configuration_save_address_list` clears `afterStudy`, and
   `save_bondings` tests it afterwards, so the reset that its comment announces "in order to
   improve ble connectivity after bonding stage completed" is never reached: the run shows it
   for one instance, the theorem `BondingNeverResets` for all.
2. `QuietStoreIsValid`: `configuration_save_with_crc` stores its CRC between two uses of the
   semaphore; two tasks that save at once can leave a CRC that does not match, and the next
   boot restores the defaults.
3. `ListExclusive`: `send_log` gives `connection_list_semaphore` without having taken it (the
   take is commented out), which releases the other task's lock.
4. `StallIsDetected`: nothing clears `task_keep_alive_array`; after the first pass of every
   task no check can fail (`BlindAfterFirstPass`, for any number of tasks), and a reset by the
   check means that some task never ran at all (`ResetMeansNeverRan`).

## 6. Fairness

`MonitorLiveness` assumes weak fairness of `MonitorStep` and of `Tick`, nothing else. The
monitor task has priority 1, shared with two tasks that block in every pass, and the higher
ones block between their scans and events, so it gets its turn for ever; its own
waits have time-outs or are for semaphores that are given back. The tick is an interrupt.
Keys, commands, the ignition, links and power are free: `QuietRearms` is conditional on their
staying quiet. Liveness is checked without crashes and lost links: a device that keeps being
reset makes no progress. `TaskWatchdog` assumes that the second interrupt keeps coming and
that a task in `monitor_task_set`, which does not block there, gets through.

## 7. Proofs

The inductive invariant `IInv` of `KeypadMonitor` is a conjunction of named parts:

- `TypeOK`, group by group;
- `StatesAtPoints`: which combinations of `key_state` and `security_state` each point of the
  loop and its routines can see. `MenuMatchesSecurity` alone is not inductive: it speaks of
  the top of the loop, and the two variables disagree inside the routines;
- `StoreAgrees`: RAM and EEPROM hold the same configuration except for the garage flag while
  it waits to be saved;
- `LockAtPoints`: `LockInForce`, and where the lock is known to be lifted;
- `GarageAtPoints`, `DurationAtPoints`: where the flag and a remote duration can exist;
- `ArmedIsRecorded`.

`KeypadMonitorProofs` proves `Init => IInv`, that every action preserves it (types first, then
the rest, one case per action) and the consequences `TypeCorrect`, `MenusMatch`, `LockHolds`,
`GarageOnce`, `DurationRestored`, `ArmedRecorded`. `LockSurvives` is proved under the assumption that
BACK_DEFAULT is not among the commands, with its own step lemma. `KeypadMonitorModesProofs`
proves the refinement: under `IInv` every action is a step of `SecurityModes` or a stutter.
`MonitorHistoryProofs` proves, from `IInv` and the record:
- `DisarmAuthorised`, with one more conjunct (the armed state is saved before
  `back_to_armed_state` ends);
- `PasswordConfirmed`, with `EntriesInv`: outside of a password change there are no entries,
  and before the second one the entries are what `new_password_count` and `candidate` say, so
  that the comparison of the typed password with `candidate` is one with the first entry;
- `SessionNotCutShort`, with `SessionInv` (the disarm timer is no older than the session, but
  on the way to restarting it), under the assumption that no application disarms;
- `LockServed` (`FullLock`), with `HeldInv`: while the keypad is locked, its timer is no older
  than the lock, and whoever is about to lift the lock of an armed device was sent by a remote
  ARM or has found the time over;
- `GuessesBounded` (`BoundedGuesses`), with `GuessInv`: the count in RAM is never below the
  guesses recorded, and the password timer is no older than the last of them, so that the source
  does not forget before the record does.

`BondingNeverResets` (in `KeypadMonitorProofs`) has an invariant of its own over `IInv`,
`StudyCleared`: from `SaveBondings` to the test, nothing sets the flag.

The other proof modules each have an inductive invariant of their own:
- `EepromStoreProofs`: every page that differs from RAM, or CRC, is owed by a task that has yet
  to save or has that page before it (`Current`); what a task without rivals has computed is
  right (`Sound`), and its torn save shows in the last page. `StoreImplementation` maps every
  action to a step of `ConfigurationStore` or a stutter: all but the last page of a save tear it,
  the last ends it (`LoneSaveEnds`: no page is owed any more, so the EEPROM is RAM).
  `StoreKeeps` carries over what holds of the abstract store (a lemma, `AbstractKeeps`).
- `KeypadScannerProofs`: every release under way, behind what was delivered, is a subsequence
  of the touches, and every digit that can still be read and came with a message is one of what
  was delivered, for any `Residue`. For
  `LostOnlyWhenFull` the balance is exact as long as the flag is up without a long touch
  (`Balance`), a state no scan can bring about.
- `ConnectionsProofs`: `IInv` is `TypeOK`, `SavedDistinct`, which states go with the points of the
  two tasks (`Points`), that an attempt to connect has a link left for it (`LinkLeft`), that
  whatever is about to be verified has a handle (`NewsIsNamed`), `ScanPending`, and, unless the
  list was raced for, `ListInv`: what the list holds in garage mode, while it is loaded slot by
  slot and elsewhere, and that the entry the BLE task has chosen is still the right one when it
  writes it. What `StoredTo`, a recursive function, preserves is shown with a least
  counterexample (`WFMin`).
- `BuzzerProofs`: whoever has a give, a stop or a STOPPED event still before it is answerable for
  the semaphore and for the sound, and whoever still waits for the PWM for what its driver
  believes; the number of gives does not matter. A call alone (`Alone`) initialises a driver
  that its own `nrfx_pwm_uninit` has uninitialised, because `is_initialized` is set whenever
  the PWM has been in use (`Used`).
- `TaskWatchdogProofs`: bits are only ever set, and only a check that finds one clear resets.

The assumptions are those that say what the constants are (`MonitorAssumption`,
`StoreAssumption`, `ScannerAssumption`, `ConnectionsAssumption`, `BuzzerAssumption`), which TLC
evaluates on every run, and the two restrictions named above. With them every safety property
of a passing run is a theorem.

Only model-checked: liveness, which together with ENABLED is outside what the prover handles.
The properties of the violation runs are refuted, so there is nothing to prove.

## 8. Not modelled

- The calendar (`monitor.c` 1063-1215): `AddSecondsToDate` and `GetTimeStampFromDate` have no
  callers, `SetTimeFromString` is called once with constants, and nothing reads the date.
- The CRC-16 as an algorithm: in `EepromStore` a CRC is the content it was computed from.
- Start-up (sequential, before the scheduler), `peripherals.c`, `hal.c`, `ble_lbs_c.c`,
  `ble_dis_c.c`, `ble_leach.c` (pins, set-up, GATT requests: no state the properties need),
  `ignition.c` (not compiled in), the Nordic modules kept beside the code, the bootloader, the
  kernel and the SDK but for the parts named in `map`.
- Reads past an array: `bonded_count` beyond the list, `leachConnectedFlag` and `deviceSerialCo`
  are listed as hazards; the models stop short of them or leave the outcome open.
- Log texts, LED patterns, the moments at which something beeps, and the serial-number strings
  are left out everywhere.

## 9. Plan

Done: every component whose state decides what the device does is modelled, composed where parts meet
(`KeypadMonitor` with the commands and the store, `Connections` with three parties), and every
safety property is proved.

What could follow, in this order:
1. `readme.txt` on the bonding list ("periphrals will not connected if not in the bonding list
   until selecting 4 (save bondings) in garage mode") against the scan for the application.
2. The growth of `bonded_count` past the array, as a choice over what the memory behind it
   holds.
3. Liveness of `Connections` under conditions on the radio: a device that stays in range and
   answers is listed in the end.
