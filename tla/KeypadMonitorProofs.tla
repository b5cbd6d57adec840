------------------------ MODULE KeypadMonitorProofs -------------------------
(***************************************************************************)
(* The inductive invariant of KeypadMonitor and the safety properties it   *)
(* implies, proved for every value of the constants that satisfies         *)
(* MonitorAssumption.                                                      *)
(*                                                                         *)
(* Types first: TypeStep treats each action once, with one step for each   *)
(* group of variables it assigns, and the groups it leaves alone keep      *)
(* their type by Untouched. AgreementStep then uses the types to keep the  *)
(* rest.                                                                   *)
(***************************************************************************)
EXTENDS KeypadMonitor, TLAPS

(* The configuration configuration_set_default restores is a configuration.  *)
LEMMA DefaultType == DefaultConfiguration \in Configuration
BY MonitorAssumption DEF DefaultConfiguration, Configuration

(* Assigning one field of the configuration, as every handler does before it *)
(* saves, leaves a configuration.                                            *)
LEMMA UpdateType ==
  ASSUME NEW c \in Configuration
  PROVE  /\ \A b \in BOOLEAN : [c EXCEPT !.is_locked = b] \in Configuration
         /\ \A b \in BOOLEAN : [c EXCEPT !.garage_mode = b] \in Configuration
         /\ \A s \in {"ARMED", "DISARMED"} :
              [c EXCEPT !.security_state = s] \in Configuration
         /\ \A p \in Passwords : [c EXCEPT !.password = p] \in Configuration
BY DEF Configuration

(* The fields of a configuration, as monitor_thread reads them at boot.      *)
LEMMA FieldType ==
  ASSUME NEW c \in Configuration
  PROVE  /\ c.security_state \in {"ARMED", "DISARMED"}
         /\ c.is_locked \in BOOLEAN /\ c.garage_mode \in BOOLEAN
         /\ c.password \in Passwords
BY DEF Configuration

(* Every message of the keypad task fits the monitor's message slot.         *)
LEMMA MessagesType ==
  \A m \in Messages : m \in [key : Keys, is_long_key : BOOLEAN, key_release : BOOLEAN]
BY DEF Messages

(* Refreshing a timer keeps every age a number of seconds.                   *)
LEMMA TouchType ==
  ASSUME NEW S, age \in [Timers -> Nat], Touch(S)
  PROVE  age' \in [Timers -> Nat]
BY DEF Touch

(* A typed key extends the queue by a digit: it either completes a password  *)
(* of QUEUE_SIZE digits or leaves room for another digit.                    *)
LEMMA TypedType ==
  ASSUME TypeOK, KeyTyped, msg_key.key # Star
  PROVE  /\ Typed \in Seq(Digits)
         /\ Completes => Typed \in Passwords
         /\ ~Completes => Len(Typed) < QUEUE_SIZE
<1>1. msg_key.key \in Digits
  BY DEF TypeOK, LocalTypes, Digits
<1>2. Typed \in Seq(Digits) /\ Len(Typed) = Len(my_queue) + 1
  BY <1>1 DEF TypeOK, EntryTypes, Typed
<1>3. ASSUME Completes PROVE Typed \in Passwords
  <2>1. Len(Typed) = QUEUE_SIZE
    BY <1>3 DEF Completes
  <2>2. Typed \in [1..Len(Typed) -> Digits]
    BY <1>2
  <2> QED BY <2>1, <2>2 DEF Passwords
<1>4. ASSUME ~Completes PROVE Len(Typed) < QUEUE_SIZE
  BY <1>2, <1>4, MonitorAssumption DEF TypeOK, EntryTypes, Completes
<1> QED BY <1>2, <1>3, <1>4

(* A restart leaves every variable of its type, when the EEPROM's content    *)
(* is.                                                                       *)
LEMMA RestartType ==
  ASSUME TypeOK, Restart, StoreTypes', crashes' \in 0..MAX_CRASHES
  PROVE  TypeOK'
<1>1. ControlTypes' /\ StateTypes'
  BY DEF Restart, ControlTypes, Points, StateTypes, KeyStates, SecurityStates
<1>2. LocalTypes'
  <2>1. NoMessage \in Messages /\ Residue \subseteq Messages
    BY MonitorAssumption DEF NoMessage, Messages
  <2>2. msg_key' \in Messages
    BY <2>1 DEF Restart
  <2> QED BY <2>2, MessagesType DEF Restart, LocalTypes
<1>3. EntryTypes' /\ BondingTypes'
  <2>1. my_queue' = <<>> /\ candidate' = <<>> /\ new_password_count' = 0
    BY DEF Restart
  <2>2. EntryTypes'
    BY <2>1, MonitorAssumption DEF EntryTypes, EntryCap
  <2> QED BY <2>2 DEF Restart, BondingTypes
<1>4. TimingTypes' /\ RemoteTypes'
  BY MonitorAssumption DEF Restart, TimingTypes, RemoteTypes
<1>5. wrong_password_count' \in 0..TryCap
  BY MonitorAssumption DEF Restart, TryCap
<1> QED BY <1>1, <1>2, <1>3, <1>4, <1>5 DEF TypeOK

(* reset_device, which saves and restarts, keeps the types.                  *)
LEMMA ResetType == ASSUME TypeOK, ResetDevice PROVE TypeOK'
<1>1. StoreTypes'
  BY DEF ResetDevice, Save, TypeOK, StoreTypes
<1>2. crashes' \in 0..MAX_CRASHES
  BY DEF ResetDevice, TypeOK
<1> QED BY <1>1, <1>2, RestartType DEF ResetDevice

(* What monitor_thread works with after the CRC test is a configuration.     *)
LEMMA BootConfigurationType == ASSUME TypeOK PROVE BootConfiguration \in Configuration
BY DefaultType DEF TypeOK, StoreTypes, BootConfiguration

(* What change_security_state saves is a configuration.                      *)
LEMMA CommittedType == ASSUME TypeOK PROVE Committed \in Configuration
BY UpdateType DEF TypeOK, StoreTypes, Committed

(* A group of variables that a step leaves alone keeps its type.             *)
LEMMA Untouched ==
  ASSUME TypeOK
  PROVE  /\ UNCHANGED control => ControlTypes'
         /\ UNCHANGED <<key_state, security_state>> => StateTypes'
         /\ UNCHANGED locals => LocalTypes'
         /\ UNCHANGED entry => EntryTypes'
         /\ UNCHANGED timing => TimingTypes'
         /\ UNCHANGED store => StoreTypes'
         /\ UNCHANGED remote => RemoteTypes'
         /\ UNCHANGED bonding => BondingTypes'
         /\ UNCHANGED wrong_password_count => wrong_password_count' \in 0..TryCap
         /\ UNCHANGED crashes => crashes' \in 0..MAX_CRASHES
BY
  DEF TypeOK, ControlTypes, StateTypes, LocalTypes, EntryTypes, TimingTypes, StoreTypes,
       RemoteTypes, BondingTypes, control, locals, entry, timing, store, remote, bonding

(* Every step keeps the types: one case per action, and under it one step    *)
(* per group of variables that the action assigns.                           *)
LEMMA TypeStep == ASSUME TypeOK, [Next]_vars PROVE TypeOK'
<1> USE DEF TypeOK
<1>1. CASE Boot
  <2>1. ControlTypes'
    BY <1>1, BootConfigurationType, UpdateType, FieldType
      DEF Boot, BootKeyState, BootsInGarage, ConsumeFlag, Save, ControlTypes, Points,
          control
  <2>2. StateTypes'
    BY <1>1, BootConfigurationType, UpdateType, FieldType
      DEF Boot, BootKeyState, BootsInGarage, ConsumeFlag, Save, StateTypes, KeyStates,
          SecurityStates
  <2>3. StoreTypes'
    BY <1>1, BootConfigurationType, UpdateType, FieldType
      DEF Boot, BootKeyState, BootsInGarage, ConsumeFlag, Save, StoreTypes, store
  <2> QED
    BY <1>1, <2>1, <2>2, <2>3, Untouched
      DEF Boot, BootKeyState, BootsInGarage, ConsumeFlag, Save
<1>2. CASE DropReset
  BY <1>2, ResetType DEF DropReset
<1>3. CASE CommitSecurityState
  <2>1. ControlTypes'
    BY <1>3, CommittedType
      DEF CommitSecurityState, LeachState, Save, ControlTypes, Points, control
  <2>2. StoreTypes'
    BY <1>3, CommittedType DEF CommitSecurityState, LeachState, Save, StoreTypes, store
  <2>3. BondingTypes'
    BY <1>3, CommittedType
      DEF CommitSecurityState, LeachState, Save, BondingTypes, bonding
  <2> QED BY <1>3, <2>1, <2>2, <2>3, Untouched DEF CommitSecurityState, LeachState, Save
<1>4. CASE Unlock
  <2>1. ControlTypes'
    BY <1>4, UpdateType, MonitorAssumption
      DEF Unlock, Save, ControlTypes, Points, control
  <2>2. TimingTypes'
    BY <1>4, UpdateType, MonitorAssumption DEF Unlock, Save, TimingTypes, timing
  <2>3. StoreTypes'
    BY <1>4, UpdateType, MonitorAssumption DEF Unlock, Save, StoreTypes, store
  <2> QED BY <1>4, <2>1, <2>2, <2>3, Untouched DEF Unlock, Save
<1>5. CASE SaveBondings
  <2>1. ControlTypes'
    BY <1>5 DEF SaveBondings, ChangeSecurityState, Save, ControlTypes, Points, control
  <2>2. StateTypes'
    BY <1>5
      DEF SaveBondings, ChangeSecurityState, Save, StateTypes, KeyStates, SecurityStates
  <2>3. StoreTypes'
    BY <1>5 DEF SaveBondings, ChangeSecurityState, Save, StoreTypes, store
  <2>4. BondingTypes'
    BY <1>5 DEF SaveBondings, ChangeSecurityState, Save, BondingTypes, bonding
  <2> QED
    BY <1>5, <2>1, <2>2, <2>3, <2>4, Untouched
      DEF SaveBondings, ChangeSecurityState, Save
<1>6. CASE BondingReset
  <2>1. CASE afterStudy
    BY <1>6, <2>1, ResetType DEF BondingReset
  <2>2. CASE ~afterStudy
    <3>1. ControlTypes'
      BY <1>6, <2>2 DEF BondingReset, ControlTypes, Points
    <3> QED BY <1>6, <2>2, <3>1, Untouched DEF BondingReset
  <2> QED BY <2>1, <2>2
<1>7. CASE RearmChange
  <2>1. ControlTypes'
    BY <1>7 DEF RearmChange, ChangeSecurityState, ControlTypes, Points, control
  <2>2. StateTypes'
    BY <1>7 DEF RearmChange, ChangeSecurityState, StateTypes, KeyStates, SecurityStates
  <2> QED BY <1>7, <2>1, <2>2, Untouched DEF RearmChange, ChangeSecurityState
<1>8. CASE RearmTail
  <2>1. ControlTypes'
    BY <1>8, MonitorAssumption DEF RearmTail, Save, ControlTypes, Points, control
  <2>2. EntryTypes'
    BY <1>8, MonitorAssumption DEF RearmTail, Save, EntryTypes, EntryCap, Count, entry
  <2>3. StoreTypes'
    BY <1>8, MonitorAssumption DEF RearmTail, Save, StoreTypes, store
  <2> QED BY <1>8, <2>1, <2>2, <2>3, Untouched DEF RearmTail, Save
<1>9. CASE PollMailbox
  <2>1. ControlTypes'
    BY <1>9
      DEF PollMailbox, ChangeSecurityState, RemoteTypes, ControlTypes, Points, control
  <2>2. StateTypes'
    BY <1>9
      DEF PollMailbox, ChangeSecurityState, RemoteTypes, StateTypes, KeyStates,
          SecurityStates
  <2>3. LocalTypes'
    BY <1>9 DEF PollMailbox, ChangeSecurityState, RemoteTypes, LocalTypes, locals
  <2>4. RemoteTypes'
    BY <1>9 DEF PollMailbox, ChangeSecurityState, RemoteTypes, RemoteTypes, remote
  <2> QED
    BY <1>9, <2>1, <2>2, <2>3, <2>4, Untouched
      DEF PollMailbox, ChangeSecurityState, RemoteTypes
<1>10. CASE RemoteDisarmed
  <2>1. ControlTypes'
    BY <1>10, TouchType, MonitorAssumption
      DEF RemoteDisarmed, RemoteTypes, ControlTypes, Points, control
  <2>2. StateTypes'
    BY <1>10, TouchType, MonitorAssumption
      DEF RemoteDisarmed, RemoteTypes, StateTypes, KeyStates, SecurityStates
  <2>3. TimingTypes'
    BY <1>10, TouchType, MonitorAssumption
      DEF RemoteDisarmed, RemoteTypes, TimingTypes, timing
  <2> QED BY <1>10, <2>1, <2>2, <2>3, Untouched DEF RemoteDisarmed, RemoteTypes
<1>11. CASE ReceiveKey
  <2>1. ControlTypes'
    BY <1>11, MessagesType, MonitorAssumption
      DEF ReceiveKey, LeachState, ControlTypes, Points, control
  <2>2. LocalTypes'
    BY <1>11, MessagesType, MonitorAssumption
      DEF ReceiveKey, LeachState, LocalTypes, locals
  <2>3. BondingTypes'
    BY <1>11, MessagesType, MonitorAssumption
      DEF ReceiveKey, LeachState, BondingTypes, bonding
  <2> QED BY <1>11, <2>1, <2>2, <2>3, Untouched DEF ReceiveKey, LeachState
<1>12. CASE LongStar
  <2>1. ControlTypes'
    BY <1>12 DEF LongStar, BackToArmedState, ControlTypes, Points, control
  <2> QED BY <1>12, <2>1, Untouched DEF LongStar, BackToArmedState
<1>13. CASE ForgetWrongPasswords
  <2>1. ControlTypes'
    BY <1>13, TouchType, MonitorAssumption
      DEF ForgetWrongPasswords, ControlTypes, Points, control
  <2>2. TimingTypes'
    BY <1>13, TouchType, MonitorAssumption DEF ForgetWrongPasswords, TimingTypes, timing
  <2>3. wrong_password_count' \in 0..TryCap
    BY <1>13, TouchType, MonitorAssumption DEF ForgetWrongPasswords, TryCap, Count
  <2> QED BY <1>13, <2>1, <2>2, <2>3, Untouched DEF ForgetWrongPasswords
<1>14. CASE Idle
  <2>1. ControlTypes'
    BY <1>14 DEF Idle, ControlTypes, Points, control
  <2>2. StateTypes'
    BY <1>14 DEF Idle, StateTypes, KeyStates, SecurityStates
  <2> QED BY <1>14, <2>1, <2>2, Untouched DEF Idle
<1>15. CASE TypeKey
  <2>1. ControlTypes'
    BY <1>15, TypedType, MonitorAssumption
      DEF TypeKey, ReadTyped, ControlTypes, Points, control
  <2>2. LocalTypes'
    BY <1>15, TypedType, MonitorAssumption DEF TypeKey, ReadTyped, LocalTypes, locals
  <2>3. EntryTypes'
    BY <1>15, TypedType, MonitorAssumption
      DEF TypeKey, ReadTyped, EntryTypes, EntryCap, Count, entry
  <2> QED BY <1>15, <2>1, <2>2, <2>3, Untouched DEF TypeKey, ReadTyped
<1>16. CASE NewPassword
  <2>1. Typed \in Passwords
    BY <1>16, TypedType DEF NewPassword, Completes
  <2>2. ControlTypes' /\ StateTypes'
    BY <1>16 DEF NewPassword, ReadTyped, ControlTypes, Points, StateTypes, KeyStates,
       SecurityStates
  <2>3. LocalTypes'
    BY <1>16 DEF NewPassword, ReadTyped, LocalTypes
  <2>4. my_queue' \in Seq(Digits) /\ Len(my_queue') < QUEUE_SIZE
    BY <1>16, MonitorAssumption DEF NewPassword
  <2>5. candidate' \in Passwords \cup {<<>>}
    BY <1>16, <2>1 DEF NewPassword, EntryTypes
  <2>6. new_password_count' \in 0..EntryCap
    BY <1>16 DEF NewPassword, EntryTypes, EntryCap, Count
  <2>7. TimingTypes'
    BY <1>16, TouchType DEF NewPassword, TimingTypes
  <2>8. StoreTypes'
    <3>1. CASE new_password_count = 1 /\ Typed = candidate
      BY <1>16, <2>1, <3>1, UpdateType DEF NewPassword, Save, StoreTypes
    <3>2. CASE ~(new_password_count = 1 /\ Typed = candidate)
      BY <1>16, <3>2, Untouched DEF NewPassword
    <3> QED BY <3>1, <3>2
  <2>9. EntryTypes'
    BY <2>4, <2>5, <2>6 DEF EntryTypes
  <2> QED
    BY <1>16, <2>2, <2>3, <2>7, <2>8, <2>9, Untouched DEF NewPassword, ReadTyped
<1>17. CASE RightPassword
  <2>1. ControlTypes'
    BY <1>17, MonitorAssumption
      DEF RightPassword, ReadTyped, ChangeSecurityState, ControlTypes, Points, control
  <2>2. StateTypes'
    BY <1>17, MonitorAssumption
      DEF RightPassword, ReadTyped, ChangeSecurityState, StateTypes, KeyStates,
          SecurityStates
  <2>3. LocalTypes'
    BY <1>17, MonitorAssumption
      DEF RightPassword, ReadTyped, ChangeSecurityState, LocalTypes, locals
  <2>4. EntryTypes'
    BY <1>17, MonitorAssumption
      DEF RightPassword, ReadTyped, ChangeSecurityState, EntryTypes, EntryCap, Count,
          entry
  <2> QED
    BY <1>17, <2>1, <2>2, <2>3, <2>4, Untouched
      DEF RightPassword, ReadTyped, ChangeSecurityState
<1>18. CASE Unlocked
  <2>1. ControlTypes'
    BY <1>18, TouchType, MonitorAssumption DEF Unlocked, ControlTypes, Points, control
  <2>2. TimingTypes'
    BY <1>18, TouchType, MonitorAssumption DEF Unlocked, TimingTypes, timing
  <2>3. wrong_password_count' \in 0..TryCap
    BY <1>18, TouchType, MonitorAssumption DEF Unlocked, TryCap, Count
  <2> QED BY <1>18, <2>1, <2>2, <2>3, Untouched DEF Unlocked
<1>19. CASE WrongPassword
  <2>1. ControlTypes'
    BY <1>19, TouchType, UpdateType, MonitorAssumption
      DEF WrongPassword, ReadTyped, LockKeypad, Save, ControlTypes, Points, control
  <2>2. StateTypes'
    BY <1>19, TouchType, UpdateType, MonitorAssumption
      DEF WrongPassword, ReadTyped, LockKeypad, Save, StateTypes, KeyStates,
          SecurityStates
  <2>3. LocalTypes'
    BY <1>19, TouchType, UpdateType, MonitorAssumption
      DEF WrongPassword, ReadTyped, LockKeypad, Save, LocalTypes, locals
  <2>4. EntryTypes'
    BY <1>19, TouchType, UpdateType, MonitorAssumption
      DEF WrongPassword, ReadTyped, LockKeypad, Save, EntryTypes, EntryCap, Count, entry
  <2>5. TimingTypes'
    BY <1>19, TouchType, UpdateType, MonitorAssumption
      DEF WrongPassword, ReadTyped, LockKeypad, Save, TimingTypes, timing
  <2>6. StoreTypes'
    BY <1>19, TouchType, UpdateType, MonitorAssumption
      DEF WrongPassword, ReadTyped, LockKeypad, Save, StoreTypes, store
  <2>7. wrong_password_count' \in 0..TryCap
    BY <1>19, TouchType, UpdateType, MonitorAssumption
      DEF WrongPassword, ReadTyped, LockKeypad, Save, TryCap, Count
  <2> QED
    BY <1>19, <2>1, <2>2, <2>3, <2>4, <2>5, <2>6, <2>7, Untouched
      DEF WrongPassword, ReadTyped, LockKeypad, Save
<1>20. CASE EnterGarage
  <2>1. ControlTypes'
    BY <1>20, TouchType
      DEF EnterGarage, ChangeSecurityState, Save, ControlTypes, Points, control
  <2>2. StateTypes'
    BY <1>20, TouchType
      DEF EnterGarage, ChangeSecurityState, Save, StateTypes, KeyStates, SecurityStates
  <2>3. TimingTypes'
    BY <1>20, TouchType DEF EnterGarage, ChangeSecurityState, Save, TimingTypes, timing
  <2>4. StoreTypes'
    BY <1>20, TouchType DEF EnterGarage, ChangeSecurityState, Save, StoreTypes, store
  <2> QED
    BY <1>20, <2>1, <2>2, <2>3, <2>4, Untouched
      DEF EnterGarage, ChangeSecurityState, Save
<1>21. CASE EnterNewPassword
  <2>1. ControlTypes'
    BY <1>21, TouchType
      DEF EnterNewPassword, ChangeSecurityState, ControlTypes, Points, control
  <2>2. StateTypes'
    BY <1>21, TouchType
      DEF EnterNewPassword, ChangeSecurityState, StateTypes, KeyStates, SecurityStates
  <2>3. EntryTypes'
    BY <1>21, TouchType
      DEF EnterNewPassword, ChangeSecurityState, EntryTypes, EntryCap, Count, entry
  <2>4. TimingTypes'
    BY <1>21, TouchType DEF EnterNewPassword, ChangeSecurityState, TimingTypes, timing
  <2> QED
    BY <1>21, <2>1, <2>2, <2>3, <2>4, Untouched
      DEF EnterNewPassword, ChangeSecurityState
<1>22. CASE EraseAll
  <2>1. ControlTypes'
    BY <1>22, TouchType, DefaultType DEF EraseAll, Save, ControlTypes, Points, control
  <2>2. TimingTypes'
    BY <1>22, TouchType, DefaultType DEF EraseAll, Save, TimingTypes, timing
  <2>3. StoreTypes'
    BY <1>22, TouchType, DefaultType DEF EraseAll, Save, StoreTypes, store
  <2> QED BY <1>22, <2>1, <2>2, <2>3, Untouched DEF EraseAll, Save
<1>23. CASE ErasePeripherals
  <2>1. ControlTypes'
    BY <1>23, UpdateType
      DEF ErasePeripherals, ChangeSecurityState, ControlTypes, Points, control
  <2>2. StateTypes'
    BY <1>23, UpdateType
      DEF ErasePeripherals, ChangeSecurityState, StateTypes, KeyStates, SecurityStates
  <2>3. StoreTypes'
    BY <1>23, UpdateType DEF ErasePeripherals, ChangeSecurityState, StoreTypes, store
  <2> QED
    BY <1>23, <2>1, <2>2, <2>3, Untouched DEF ErasePeripherals, ChangeSecurityState
<1>24. CASE EraseReset
  BY <1>24, ResetType DEF EraseReset
<1>25. CASE StartBonding
  <2>1. ControlTypes'
    BY <1>25, TouchType DEF StartBonding, ControlTypes, Points, control
  <2>2. TimingTypes'
    BY <1>25, TouchType DEF StartBonding, TimingTypes, timing
  <2>3. BondingTypes'
    BY <1>25, TouchType DEF StartBonding, BondingTypes, bonding
  <2> QED BY <1>25, <2>1, <2>2, <2>3, Untouched DEF StartBonding
<1>26. CASE ProlongGarage
  <2>1. ControlTypes'
    BY <1>26, TouchType DEF ProlongGarage, ControlTypes, Points, control
  <2>2. TimingTypes'
    BY <1>26, TouchType DEF ProlongGarage, TimingTypes, timing
  <2> QED BY <1>26, <2>1, <2>2, Untouched DEF ProlongGarage
<1>27. CASE MenuStays
  <2>1. ControlTypes'
    BY <1>27 DEF MenuStays, ControlTypes, Points, control
  <2> QED BY <1>27, <2>1, Untouched DEF MenuStays
<1>28. CASE Disarmed
  <2>1. ControlTypes'
    BY <1>28, TouchType
      DEF Disarmed, SecurityStep, BackToArmedState, ControlTypes, Points, control
  <2>2. TimingTypes'
    BY <1>28, TouchType
      DEF Disarmed, SecurityStep, BackToArmedState, TimingTypes, timing
  <2> QED
    BY <1>28, <2>1, <2>2, Untouched
      DEF Disarmed, SecurityStep, BackToArmedState, bonding, timing
<1>29. CASE MissingReset
  BY <1>29, ResetType DEF MissingReset
<1>30. CASE ServeApplication
  <2>1. ControlTypes'
    BY <1>30
      DEF ServeApplication, SecurityStep, ChangeSecurityState, ControlTypes, Points,
          control
  <2>2. StateTypes'
    BY <1>30
      DEF ServeApplication, SecurityStep, ChangeSecurityState, StateTypes, KeyStates,
          SecurityStates
  <2>3. BondingTypes'
    BY <1>30
      DEF ServeApplication, SecurityStep, ChangeSecurityState, BondingTypes, bonding
  <2> QED
    BY <1>30, <2>1, <2>2, <2>3, Untouched
      DEF ServeApplication, SecurityStep, ChangeSecurityState, bonding, timing
<1>31. CASE ApplicationReset
  BY <1>31, ResetType DEF ApplicationReset
<1>32. CASE Armed
  <2>1. ControlTypes'
    BY <1>32 DEF Armed, SecurityStep, ControlTypes, Points, control
  <2> QED BY <1>32, <2>1, Untouched DEF Armed, SecurityStep, bonding, timing
<1>33. CASE Locked
  <2>1. ControlTypes'
    BY <1>33, MonitorAssumption
      DEF Locked, SecurityStep, BackToArmedState, ControlTypes, Points, control
  <2>2. wrong_password_count' \in 0..TryCap
    BY <1>33, MonitorAssumption
      DEF Locked, SecurityStep, BackToArmedState, TryCap, Count
  <2> QED
    BY <1>33, <2>1, <2>2, Untouched
      DEF Locked, SecurityStep, BackToArmedState, bonding, timing
<1>34. CASE GarageTimeout
  <2>1. ControlTypes'
    BY <1>34
      DEF GarageTimeout, SecurityStep, BackToArmedState, ControlTypes, Points, control
  <2> QED
    BY <1>34, <2>1, Untouched
      DEF GarageTimeout, SecurityStep, BackToArmedState, bonding, timing
<1>35. CASE IgnitionOff
  <2>1. ControlTypes'
    BY <1>35 DEF IgnitionOff, BackToArmedState, ControlTypes, Points, control
  <2> QED BY <1>35, <2>1, Untouched DEF IgnitionOff, BackToArmedState
<1>36. CASE Command
  <2>1. StoreTypes'
    BY <1>36, UpdateType, DefaultType, MonitorAssumption
      DEF Command, RemoteCommand, Save, StoreTypes, store
  <2>2. RemoteTypes'
    BY <1>36, UpdateType, DefaultType, MonitorAssumption
      DEF Command, RemoteCommand, Save, RemoteTypes, remote
  <2> QED BY <1>36, <2>1, <2>2, Untouched DEF Command, RemoteCommand, Save
<1>37. CASE Tick
  <2>1. TimingTypes'
    BY <1>37 DEF Tick, TimingTypes, timing
  <2> QED BY <1>37, <2>1, Untouched DEF Tick
<1>38. CASE Crash
  <2>1. StoreTypes'
    BY <1>38 DEF Crash, StoreTypes
  <2>2. crashes' \in 0..MAX_CRASHES
    BY <1>38, MonitorAssumption DEF Crash
  <2> QED BY <1>38, <2>1, <2>2, RestartType DEF Crash
<1>40. CASE PeripheralVerified
  <2>1. BondingTypes'
    BY <1>40 DEF PeripheralVerified, LeachState, BondingTypes
  <2> QED BY <1>40, <2>1, Untouched DEF PeripheralVerified
<1>39. CASE UNCHANGED vars
  BY <1>39, Untouched DEF vars, control, locals, entry, timing, store, remote, bonding
<1> QED
  BY <1>1, <1>2, <1>3, <1>4, <1>5, <1>6, <1>7, <1>8, <1>9, <1>10, <1>11, <1>12, <1>13,
       <1>14, <1>15, <1>16, <1>17, <1>18, <1>19, <1>20, <1>21, <1>22, <1>23, <1>24,
       <1>25, <1>26, <1>27, <1>28, <1>29, <1>30, <1>31, <1>32, <1>33, <1>34, <1>35,
       <1>36, <1>37, <1>38, <1>39, <1>40
  DEF Next, MonitorStep

(* Every step keeps what holds at each point of the loop: the two state      *)
(* variables, RAM and EEPROM, the lock, the garage flag, the disarm duration *)
(* and the record of an armed device.                                        *)
LEMMA AgreementStep ==
  ASSUME IInv, TypeOK', [Next]_vars
  PROVE  StatesAtPoints' /\ StoreAgrees' /\ LockAtPoints' /\ GarageAtPoints'
           /\ DurationAtPoints' /\ ArmedIsRecorded'
<1> USE DEF IInv, StatesAtPoints, StoreAgrees, LockAtPoints, LockInForce, GarageAtPoints,
            DurationAtPoints, ArmedIsRecorded, MenusAgree, Returning, LoopPoints, Returns,
            vars, control, locals, entry, timing, store, remote, bonding,
            ChangeSecurityState, BackToArmedState, Save
<1>1. CASE Boot
  BY <1>1
    DEF Boot, BootKeyState, BootsInGarage, BootConfiguration, ConsumeFlag, TypeOK,
        StoreTypes, Configuration, DefaultConfiguration
<1>2. CASE DropReset
  BY <1>2 DEF DropReset, ResetDevice, Restart
<1>3. CASE CommitSecurityState
  BY <1>3
    DEF CommitSecurityState, Committed, LeachState, TypeOK, StoreTypes, Configuration
<1>4. CASE Unlock
  BY <1>4 DEF Unlock, TypeOK, StoreTypes, Configuration
<1>5. CASE SaveBondings
  BY <1>5 DEF SaveBondings
<1>6. CASE BondingReset
  BY <1>6 DEF BondingReset, ResetDevice, Restart
<1>7. CASE RearmChange
  BY <1>7 DEF RearmChange
<1>8. CASE RearmTail
  BY <1>8 DEF RearmTail
<1>9. CASE PollMailbox
  BY <1>9 DEF PollMailbox, TypeOK, RemoteTypes, StateTypes, SecurityStates, KeyStates
<1>10. CASE RemoteDisarmed
  BY <1>10 DEF RemoteDisarmed
<1>11. CASE ReceiveKey
  BY <1>11 DEF ReceiveKey, LeachState
<1>12. CASE LongStar
  BY <1>12 DEF LongStar
<1>13. CASE ForgetWrongPasswords
  BY <1>13 DEF ForgetWrongPasswords
<1>14. CASE Idle
  BY <1>14 DEF Idle
<1>15. CASE TypeKey
  BY <1>15 DEF TypeKey, ReadTyped
<1>16. CASE NewPassword
  BY <1>16 DEF NewPassword, ReadTyped, TypeOK, StoreTypes, Configuration
<1>17. CASE RightPassword
  BY <1>17 DEF RightPassword, ReadTyped
<1>18. CASE Unlocked
  BY <1>18 DEF Unlocked
<1>19. CASE WrongPassword
  <2>1. security_state \in {"ARMED", "DISARMED"}
    BY <1>19 DEF WrongPassword, ReadTyped, TypeOK, StateTypes, SecurityStates
  <2>2. CASE wrong_password_count' >= WRONG_PASSWORD_TRIES
    BY <1>19, <2>1, <2>2 DEF WrongPassword, ReadTyped, LockKeypad, TypeOK, StoreTypes,
       Configuration
  <2>3. CASE ~(wrong_password_count' >= WRONG_PASSWORD_TRIES)
    BY <1>19, <2>1, <2>3 DEF WrongPassword, ReadTyped
  <2> QED BY <2>2, <2>3
<1>20. CASE EnterGarage
  BY <1>20 DEF EnterGarage
<1>21. CASE EnterNewPassword
  BY <1>21 DEF EnterNewPassword
<1>22. CASE EraseAll
  BY <1>22 DEF EraseAll, TypeOK, StoreTypes, Configuration, DefaultConfiguration
<1>23. CASE ErasePeripherals
  BY <1>23 DEF ErasePeripherals, TypeOK, StoreTypes, Configuration
<1>24. CASE EraseReset
  BY <1>24 DEF EraseReset, ResetDevice, Restart
<1>25. CASE StartBonding
  BY <1>25 DEF StartBonding
<1>26. CASE ProlongGarage
  BY <1>26 DEF ProlongGarage
<1>27. CASE MenuStays
  BY <1>27 DEF MenuStays
<1>28. CASE Disarmed
  BY <1>28 DEF Disarmed, SecurityStep
<1>29. CASE MissingReset
  BY <1>29 DEF MissingReset, ResetDevice, Restart
<1>30. CASE ServeApplication
  BY <1>30
    DEF ServeApplication, SecurityStep, TypeOK, RemoteTypes, StateTypes, SecurityStates,
        KeyStates
<1>31. CASE ApplicationReset
  BY <1>31 DEF ApplicationReset, ResetDevice, Restart
<1>32. CASE Armed
  BY <1>32 DEF Armed, SecurityStep
<1>33. CASE Locked
  BY <1>33 DEF Locked, SecurityStep
<1>34. CASE GarageTimeout
  BY <1>34 DEF GarageTimeout, SecurityStep
<1>35. CASE IgnitionOff
  BY <1>35 DEF IgnitionOff
<1>36. CASE Command
  <2>1. PICK c \in RemoteCommands, v \in RemoteValues : RemoteCommand(c, v)
    BY <1>36 DEF Command
  <2>2. UNCHANGED <<control, key_state, security_state, disarmed_state_timeout_value>>
    BY <2>1 DEF RemoteCommand
  <2>3. CASE c = "NEW_PASSWORD"
    BY <2>1, <2>3 DEF RemoteCommand, TypeOK, StoreTypes, Configuration
  <2>4. CASE c = "BACK_DEFAULT"
    <3>1. cfg' = DefaultConfiguration /\ rom' = cfg' /\ rom_ok'
      BY <2>1, <2>4 DEF RemoteCommand
    <3>2. cfg'.security_state = "ARMED" /\ ~cfg'.is_locked /\ ~cfg'.garage_mode
      BY <3>1 DEF DefaultConfiguration
    <3> QED BY <2>2, <3>1, <3>2
  <2>5. CASE c \notin {"NEW_PASSWORD", "BACK_DEFAULT"}
    <3>1. UNCHANGED store
      BY <2>1, <2>5 DEF RemoteCommand
    <3> QED BY <2>2, <3>1
  <2> QED BY <2>3, <2>4, <2>5
<1>37. CASE Tick
  BY <1>37 DEF Tick
<1>38. CASE Crash
  BY <1>38 DEF Crash, Restart
<1>40. CASE PeripheralVerified
  BY <1>40 DEF PeripheralVerified
<1>39. CASE UNCHANGED vars
  BY <1>39
<1> QED
  BY <1>1, <1>2, <1>3, <1>4, <1>5, <1>6, <1>7, <1>8, <1>9, <1>10, <1>11, <1>12, <1>13,
       <1>14, <1>15, <1>16, <1>17, <1>18, <1>19, <1>20, <1>21, <1>22, <1>23, <1>24,
       <1>25, <1>26, <1>27, <1>28, <1>29, <1>30, <1>31, <1>32, <1>33, <1>34, <1>35,
       <1>36, <1>37, <1>38, <1>39, <1>40
  DEF Next, MonitorStep

(* The program starts with blank RAM and an EEPROM whose CRC does not match: *)
(* the invariant holds.                                                      *)
LEMMA InitIInv == Init => IInv
<1> SUFFICES ASSUME Init PROVE IInv
  OBVIOUS
<1>1. ControlTypes /\ StateTypes
  BY DEF Init, ControlTypes, Points, StateTypes, KeyStates, SecurityStates
<1>2. LocalTypes
  <2>1. NoMessage \in Messages /\ Residue \subseteq Messages
    BY MonitorAssumption DEF NoMessage, Messages
  <2>2. msg_key \in Messages
    BY <2>1 DEF Init
  <2> QED
    BY <2>2, MessagesType DEF Init, LocalTypes
<1>3. EntryTypes /\ BondingTypes
  <2>1. my_queue = <<>> /\ candidate = <<>> /\ new_password_count = 0
    BY DEF Init
  <2>2. EntryTypes
    BY <2>1, MonitorAssumption DEF EntryTypes, EntryCap
  <2> QED
    BY <2>2 DEF Init, BondingTypes
<1>4. TimingTypes /\ RemoteTypes
  <2>1. age = [t \in Timers |-> 0] /\ mailbox = "NONE" /\ value1 = 0
    BY DEF Init
  <2>2. disarmed_state_timeout_value \in 0..MAX_VALUE
    BY MonitorAssumption DEF Init
  <2> QED
    BY <2>1, <2>2 DEF TimingTypes, RemoteTypes
<1>5. StoreTypes
  BY DefaultType DEF Init, StoreTypes
<1>6. wrong_password_count \in 0..TryCap /\ crashes \in 0..MAX_CRASHES
  BY MonitorAssumption DEF Init, TryCap
<1>7. StatesAtPoints /\ StoreAgrees
  BY DEF Init, StatesAtPoints, StoreAgrees, Returns, LoopPoints, MenusAgree, Returning
<1>8. LockAtPoints /\ GarageAtPoints /\ DurationAtPoints /\ ArmedIsRecorded
  BY DEF Init, LockAtPoints, LockInForce, GarageAtPoints, DurationAtPoints,
         ArmedIsRecorded, Returning, DefaultConfiguration
<1> QED
  BY <1>1, <1>2, <1>3, <1>4, <1>5, <1>6, <1>7, <1>8 DEF IInv, TypeOK

(* The inductive invariant: in every reachable state, whatever the keys, the *)
(* commands, the resets and the power losses, what the monitor task relies   *)
(* on at each point of its loop holds.                                       *)
THEOREM Invariance == Spec => []IInv
<1>1. Init => IInv
  BY InitIInv
<1>2. IInv /\ [Next]_vars => IInv'
  <2> SUFFICES ASSUME IInv, [Next]_vars PROVE IInv'
    OBVIOUS
  <2>1. TypeOK'
    BY TypeStep DEF IInv
  <2> QED
    BY <2>1, AgreementStep DEF IInv
<1> QED
  BY <1>1, <1>2, PTL DEF Spec

(* Every variable keeps its type; in particular the password queue never     *)
(* holds a whole password between two steps.                                 *)
THEOREM TypeCorrect == Spec => []TypeOK
<1>1. IInv => TypeOK
  BY DEF IInv
<1> QED
  BY <1>1, Invariance, PTL

(* At the top of the loop the menu that keypad_state_machine dispatches on   *)
(* is the one of the security state.                                         *)
THEOREM MenusMatch == Spec => []MenuMatchesSecurity
<1>1. IInv => MenuMatchesSecurity
  BY DEF IInv, StatesAtPoints, MenusAgree, MenuMatchesSecurity,
         LoopPoints
<1> QED
  BY <1>1, Invariance, PTL

(* A lock the EEPROM holds for an armed device is in force, through resets   *)
(* and remote commands.                                                      *)
THEOREM LockHolds == Spec => []LockInForce
<1>1. IInv => LockInForce
  BY DEF IInv, LockAtPoints
<1> QED
  BY <1>1, Invariance, PTL

(* The garage flag is in the EEPROM only between the erase and the boot that *)
(* consumes it.                                                              *)
THEOREM GarageOnce == Spec => []GarageFlagConsumed
<1>1. IInv => GarageFlagConsumed
  BY DEF IInv, GarageAtPoints, GarageFlagConsumed, Returning
<1> QED
  BY <1>1, Invariance, PTL

(* Once change_security_state has saved it, an armed device wakes up armed,  *)
(* whatever the commands and the resets.                                     *)
THEOREM ArmedRecorded == Spec => []ArmedIsRecorded
<1>1. IInv => ArmedIsRecorded
  BY DEF IInv
<1> QED
  BY <1>1, Invariance, PTL

(* The duration of a remote disarm ends with its session.                    *)
THEOREM DurationRestored == Spec => []DefaultDurationWhenArmed
<1>1. IInv => DefaultDurationWhenArmed
  BY DEF IInv, DurationAtPoints, DefaultDurationWhenArmed, Returning
<1> QED
  BY <1>1, Invariance, PTL

(* A step keeps a lock in force in the EEPROM, when no command restores the  *)
(* defaults behind the monitor task.                                         *)
LEMMA LockDurableStep ==
  ASSUME "BACK_DEFAULT" \notin RemoteCommands, IInv, TypeOK', StoreAgrees', LockDurable,
         [Next]_vars
  PROVE  LockDurable'
<1> USE DEF IInv, StatesAtPoints, StoreAgrees, MenusAgree, Returning, LoopPoints, Returns,
            vars, control, locals, entry, timing, store, remote, bonding,
            ChangeSecurityState, BackToArmedState, Save, LockDurable
<1>1. CASE Boot
  BY <1>1
    DEF Boot, BootKeyState, BootsInGarage, BootConfiguration, ConsumeFlag, TypeOK,
        StoreTypes, Configuration, DefaultConfiguration
<1>2. CASE DropReset
  BY <1>2 DEF DropReset, ResetDevice, Restart
<1>3. CASE CommitSecurityState
  BY <1>3
    DEF CommitSecurityState, Committed, LeachState, TypeOK, StoreTypes, Configuration
<1>4. CASE Unlock
  BY <1>4 DEF Unlock
<1>5. CASE SaveBondings
  BY <1>5 DEF SaveBondings
<1>6. CASE BondingReset
  BY <1>6 DEF BondingReset, ResetDevice, Restart
<1>7. CASE RearmChange
  BY <1>7 DEF RearmChange
<1>8. CASE RearmTail
  BY <1>8 DEF RearmTail
<1>9. CASE PollMailbox
  BY <1>9 DEF PollMailbox, TypeOK, RemoteTypes
<1>10. CASE RemoteDisarmed
  BY <1>10 DEF RemoteDisarmed
<1>11. CASE ReceiveKey
  BY <1>11 DEF ReceiveKey, LeachState
<1>12. CASE LongStar
  BY <1>12 DEF LongStar
<1>13. CASE ForgetWrongPasswords
  BY <1>13 DEF ForgetWrongPasswords
<1>14. CASE Idle
  BY <1>14 DEF Idle
<1>15. CASE TypeKey
  BY <1>15 DEF TypeKey, ReadTyped
<1>16. CASE NewPassword
  BY <1>16 DEF NewPassword, ReadTyped, TypeOK, StoreTypes, Configuration
<1>17. CASE RightPassword
  BY <1>17 DEF RightPassword, ReadTyped
<1>18. CASE Unlocked
  BY <1>18 DEF Unlocked
<1>19. CASE WrongPassword
  BY <1>19
    DEF WrongPassword, ReadTyped, LockKeypad, TypeOK, StoreTypes, Configuration,
        StateTypes
<1>20. CASE EnterGarage
  BY <1>20 DEF EnterGarage
<1>21. CASE EnterNewPassword
  BY <1>21 DEF EnterNewPassword
<1>22. CASE EraseAll
  BY <1>22 DEF EraseAll
<1>23. CASE ErasePeripherals
  BY <1>23 DEF ErasePeripherals
<1>24. CASE EraseReset
  BY <1>24 DEF EraseReset, ResetDevice, Restart
<1>25. CASE StartBonding
  BY <1>25 DEF StartBonding
<1>26. CASE ProlongGarage
  BY <1>26 DEF ProlongGarage
<1>27. CASE MenuStays
  BY <1>27 DEF MenuStays
<1>28. CASE Disarmed
  BY <1>28 DEF Disarmed, SecurityStep
<1>29. CASE MissingReset
  BY <1>29 DEF MissingReset, ResetDevice, Restart
<1>30. CASE ServeApplication
  BY <1>30 DEF ServeApplication, SecurityStep
<1>31. CASE ApplicationReset
  BY <1>31 DEF ApplicationReset, ResetDevice, Restart
<1>32. CASE Armed
  BY <1>32 DEF Armed, SecurityStep
<1>33. CASE Locked
  BY <1>33 DEF Locked, SecurityStep
<1>34. CASE GarageTimeout
  BY <1>34 DEF GarageTimeout, SecurityStep
<1>35. CASE IgnitionOff
  BY <1>35 DEF IgnitionOff
<1>36. CASE Command
  <2>1. PICK c \in RemoteCommands, v \in RemoteValues : RemoteCommand(c, v)
    BY <1>36 DEF Command
  <2>2. rom_ok' /\ (rom'.is_locked = cfg.is_locked \/ rom' = rom)
    BY <2>1 DEF RemoteCommand, TypeOK, StoreTypes, Configuration
  <2>3. UNCHANGED <<control, key_state>>
    BY <2>1 DEF RemoteCommand
  <2> QED
    BY <2>2, <2>3
<1>37. CASE Tick
  BY <1>37 DEF Tick
<1>38. CASE Crash
  BY <1>38 DEF Crash, Restart
<1>40. CASE PeripheralVerified
  BY <1>40 DEF PeripheralVerified
<1>39. CASE UNCHANGED vars
  BY <1>39
<1> QED
  BY <1>1, <1>2, <1>3, <1>4, <1>5, <1>6, <1>7, <1>8, <1>9, <1>10, <1>11, <1>12, <1>13,
     <1>14, <1>15, <1>16, <1>17, <1>18, <1>19, <1>20, <1>21, <1>22, <1>23, <1>24, <1>25,
     <1>26, <1>27, <1>28, <1>29, <1>30, <1>31, <1>32, <1>33, <1>34, <1>35, <1>36, <1>37,
     <1>38, <1>39, <1>40
    DEF Next, MonitorStep
(* A lock in force survives any reset, when no command restores the          *)
(* defaults.                                                                 *)
THEOREM LockSurvives == "BACK_DEFAULT" \notin RemoteCommands => (Spec => []LockDurable)
<1> SUFFICES ASSUME "BACK_DEFAULT" \notin RemoteCommands PROVE Spec => []LockDurable
  OBVIOUS
<1>1. Init => LockDurable
  BY DEF Init, LockDurable
<1>2. IInv /\ IInv' /\ LockDurable /\ [Next]_vars => LockDurable'
  BY LockDurableStep DEF IInv
<1> QED
  BY <1>1, <1>2, Invariance, PTL DEF Spec

-----------------------------------------------------------------------------
(* The reset after an enrolment.                                           *)

\* From save_bondings to the test of afterStudy that follows it.
StudyCleared == pc = "bondingReset" \/ Returning("bondingReset") => ~afterStudy

LEMMA StudyStep == ASSUME IInv, StudyCleared, [Next]_vars PROVE StudyCleared'
<1> USE DEF StudyCleared, Returning, vars, control, bonding, ChangeSecurityState, BackToArmedState
<1>1. CASE Boot
  BY <1>1 DEF Boot
<1>2. CASE DropReset \/ EraseReset \/ MissingReset \/ ApplicationReset
  BY <1>2 DEF DropReset, EraseReset, MissingReset, ApplicationReset, ResetDevice, Restart
<1>3. CASE CommitSecurityState
  BY <1>3 DEF CommitSecurityState
<1>4. CASE Unlock \/ RearmChange
  BY <1>4 DEF Unlock, RearmChange
<1>5. CASE RearmTail \/ LongStar \/ IgnitionOff
  <2>1. pc' \in Returns \cup {"forget", "rearm"}
    BY <1>5 DEF RearmTail, LongStar, IgnitionOff, IInv, StatesAtPoints, Returns
  <2> QED BY <2>1 DEF Returns
<1>6. CASE SaveBondings
  BY <1>6 DEF SaveBondings
<1>7. CASE BondingReset
  BY <1>7 DEF BondingReset, ResetDevice, Restart
<1>8. CASE PollMailbox
  BY <1>8 DEF PollMailbox, IInv, TypeOK, RemoteTypes
<1>9. CASE RemoteDisarmed \/ ReceiveKey \/ ForgetWrongPasswords \/ Idle
  BY <1>9 DEF RemoteDisarmed, ReceiveKey, ForgetWrongPasswords, Idle
<1>10. CASE TypeKey \/ NewPassword \/ RightPassword \/ Unlocked \/ WrongPassword
  BY <1>10 DEF TypeKey, NewPassword, RightPassword, Unlocked, WrongPassword, ReadTyped
<1>11. CASE EnterGarage \/ EnterNewPassword \/ EraseAll \/ ErasePeripherals
  BY <1>11 DEF EnterGarage, EnterNewPassword, EraseAll, ErasePeripherals
<1>12. CASE StartBonding \/ ProlongGarage \/ MenuStays
  BY <1>12 DEF StartBonding, ProlongGarage, MenuStays
<1>13. CASE Disarmed \/ ServeApplication \/ Armed \/ Locked \/ GarageTimeout
  BY <1>13 DEF Disarmed, ServeApplication, Armed, Locked, GarageTimeout, SecurityStep
<1>14. CASE Command \/ PeripheralVerified \/ Tick
  BY <1>14 DEF Command, RemoteCommand, PeripheralVerified, Tick
<1>15. CASE Crash
  BY <1>15 DEF Crash, Restart
<1>16. CASE UNCHANGED vars
  BY <1>16
<1> QED
  BY <1>1, <1>2, <1>3, <1>4, <1>5, <1>6, <1>7, <1>8, <1>9, <1>10, <1>11, <1>12, <1>13,
     <1>14, <1>15, <1>16
  DEF Next, MonitorStep

(* save_bondings clears afterStudy (in configuration_save_address_list) before   *)
(* it tests it: its reset, "in order to improve ble connectivity after bonding   *)
(* stage completed", is never reached, whatever the keys, commands and resets.   *)
THEOREM BondingNeverResets == Spec => [](pc = "bondingReset" => ~afterStudy)
<1>1. Init => StudyCleared
  BY DEF Init, StudyCleared, Returning
<1>2. IInv /\ StudyCleared /\ [Next]_vars => StudyCleared'
  BY StudyStep
<1>3. StudyCleared => (pc = "bondingReset" => ~afterStudy)
  BY DEF StudyCleared
<1> QED
  BY <1>1, <1>2, <1>3, Invariance, PTL DEF Spec
=============================================================================
