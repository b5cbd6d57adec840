------------------------ MODULE MonitorHistoryProofs ------------------------
(***************************************************************************)
(* The device is disarmed only by someone entitled, a new password is one  *)
(* that was typed twice, and a session lasts its time: the properties of   *)
(* MonitorHistory, proved for every value of the constants from the        *)
(* invariant of KeypadMonitorProofs and the record.                        *)
(***************************************************************************)
EXTENDS MonitorHistory, KeypadMonitorProofs

\* Inductive: once back_to_armed_state is about to end, the armed state is saved.
AuthorisedInv ==
  /\ DisarmAuthorised
  /\ pc = "rearmTail" => rom.security_state = "ARMED"

(* What the record of authorisations says of a step: a cause that entitles   *)
(* is recorded, and only arming clears the record.                           *)
LEMMA RecordFacts ==
  ASSUME Record, authorised \in BOOLEAN
  PROVE  /\ authorised' \in BOOLEAN
         /\ Entitled => authorised'
         /\ (authorised /\ ~ArmedAgain) => authorised'
BY DEF Record, RecordAuthorised

(* Every step keeps the authorisation: no action but the three that entitle  *)
(* brings the device, or the EEPROM, to a disarmed state.                    *)
LEMMA AuthorisedStep ==
  ASSUME IInv, IInv', AuthorisedInv, authorised \in BOOLEAN,
         [HistoryNext]_<<vars, history>>
  PROVE  AuthorisedInv' /\ authorised' \in BOOLEAN
<1> USE DEF IInv, StatesAtPoints, StoreAgrees, MenusAgree, Returning, LoopPoints, Returns,
            vars, control, locals, entry, timing, store, remote, bonding,
            ChangeSecurityState, BackToArmedState, Save, TypeOK, StateTypes,
            StoreTypes, SecurityStates, Configuration, AuthorisedInv,
            DisarmAuthorised, ArmedAgain
<1>1. CASE Boot /\ Record
  BY <1>1, RecordFacts
    DEF Boot, BootKeyState, BootsInGarage, BootConfiguration, ConsumeFlag,
        DefaultConfiguration
<1>2. CASE DropReset /\ Record
  BY <1>2, RecordFacts DEF DropReset, ResetDevice, Restart
<1>3. CASE CommitSecurityState /\ Record
  BY <1>3, RecordFacts DEF CommitSecurityState, Committed, LeachState
<1>4. CASE Unlock /\ Record
  BY <1>4, RecordFacts DEF Unlock
<1>5. CASE SaveBondings /\ Record
  BY <1>5, RecordFacts DEF SaveBondings
<1>6. CASE BondingReset /\ Record
  BY <1>6, RecordFacts DEF BondingReset, ResetDevice, Restart
<1>7. CASE RearmChange /\ Record
  BY <1>7, RecordFacts DEF RearmChange
<1>8. CASE RearmTail /\ Record
  BY <1>8, RecordFacts DEF RearmTail
<1>9. CASE PollMailbox /\ Record
  BY <1>9, RecordFacts DEF PollMailbox, RemoteTypes, Entitled, RemoteDisarm
<1>10. CASE RemoteDisarmed /\ Record
  BY <1>10, RecordFacts DEF RemoteDisarmed
<1>11. CASE ReceiveKey /\ Record
  BY <1>11, RecordFacts DEF ReceiveKey, LeachState
<1>12. CASE LongStar /\ Record
  BY <1>12, RecordFacts DEF LongStar
<1>13. CASE ForgetWrongPasswords /\ Record
  BY <1>13, RecordFacts DEF ForgetWrongPasswords
<1>14. CASE Idle /\ Record
  BY <1>14, RecordFacts DEF Idle
<1>15. CASE TypeKey /\ Record
  BY <1>15, RecordFacts DEF TypeKey, ReadTyped
<1>16. CASE NewPassword /\ Record
  BY <1>16, RecordFacts DEF NewPassword, ReadTyped
<1>17. CASE RightPassword /\ Record
  BY <1>17, RecordFacts DEF RightPassword, ReadTyped, Entitled, PasswordEntered
<1>18. CASE Unlocked /\ Record
  BY <1>18, RecordFacts DEF Unlocked
<1>19. CASE WrongPassword /\ Record
  BY <1>19, RecordFacts DEF WrongPassword, ReadTyped, LockKeypad
<1>20. CASE EnterGarage /\ Record
  BY <1>20, RecordFacts DEF EnterGarage
<1>21. CASE EnterNewPassword /\ Record
  BY <1>21, RecordFacts DEF EnterNewPassword
<1>22. CASE EraseAll /\ Record
  BY <1>22, RecordFacts DEF EraseAll, DefaultConfiguration
<1>23. CASE ErasePeripherals /\ Record
  BY <1>23, RecordFacts DEF ErasePeripherals
<1>24. CASE EraseReset /\ Record
  BY <1>24, RecordFacts DEF EraseReset, ResetDevice, Restart
<1>25. CASE StartBonding /\ Record
  BY <1>25, RecordFacts DEF StartBonding
<1>26. CASE ProlongGarage /\ Record
  BY <1>26, RecordFacts DEF ProlongGarage
<1>27. CASE MenuStays /\ Record
  BY <1>27, RecordFacts DEF MenuStays
<1>28. CASE Disarmed /\ Record
  BY <1>28, RecordFacts DEF Disarmed, SecurityStep
<1>29. CASE MissingReset /\ Record
  BY <1>29, RecordFacts DEF MissingReset, ResetDevice, Restart
<1>30. CASE ServeApplication /\ Record
  BY <1>30, RecordFacts DEF ServeApplication, SecurityStep, Entitled, ApplicationDisarm
<1>31. CASE ApplicationReset /\ Record
  BY <1>31, RecordFacts DEF ApplicationReset, ResetDevice, Restart
<1>32. CASE Armed /\ Record
  BY <1>32, RecordFacts DEF Armed, SecurityStep
<1>33. CASE Locked /\ Record
  BY <1>33, RecordFacts DEF Locked, SecurityStep
<1>34. CASE GarageTimeout /\ Record
  BY <1>34, RecordFacts DEF GarageTimeout, SecurityStep
<1>35. CASE IgnitionOff /\ Record
  BY <1>35, RecordFacts DEF IgnitionOff
<1>36. CASE Command /\ Record
  BY <1>36, RecordFacts DEF Command, RemoteCommand, DefaultConfiguration
<1>37. CASE Tick /\ Record
  BY <1>37, RecordFacts DEF Tick
<1>38. CASE Crash /\ Record
  BY <1>38, RecordFacts DEF Crash, Restart
<1>40. CASE PeripheralVerified /\ Record
  BY <1>40, RecordFacts DEF PeripheralVerified
<1>39. CASE UNCHANGED <<vars, history>>
  BY <1>39 DEF history
<1> QED
  BY <1>1, <1>2, <1>3, <1>4, <1>5, <1>6, <1>7, <1>8, <1>9, <1>10, <1>11, <1>12, <1>13,
       <1>14, <1>15, <1>16, <1>17, <1>18, <1>19, <1>20, <1>21, <1>22, <1>23, <1>24,
       <1>25, <1>26, <1>27, <1>28, <1>29, <1>30, <1>31, <1>32, <1>33, <1>34, <1>35,
       <1>36, <1>37, <1>38, <1>39, <1>40
  DEF HistoryNext, MonitorStep

(* The record does not constrain the monitor task: its invariant holds here  *)
(* too.                                                                      *)
LEMMA HistoryIInv == HistorySpec => []IInv
<1>1. HistoryInit => IInv
  BY InitIInv DEF HistoryInit
<1>2. IInv /\ [HistoryNext]_<<vars, history>> => IInv'
  <2> SUFFICES ASSUME IInv, [HistoryNext]_<<vars, history>> PROVE IInv'
    OBVIOUS
  <2>1. [Next]_vars
    BY DEF HistoryNext, Next
  <2>2. TypeOK'
    BY <2>1, TypeStep DEF IInv
  <2> QED
    BY <2>1, <2>2, AgreementStep DEF IInv
<1> QED
  BY <1>1, <1>2, PTL DEF HistorySpec

(* The device, and what the EEPROM would restore, is disarmed only if the    *)
(* password, a remote DISARM or the application disarmed it since it was     *)
(* last armed.                                                               *)
THEOREM DisarmNeedsAuthority == HistorySpec => []DisarmAuthorised
<1>1. HistoryInit => AuthorisedInv /\ authorised \in BOOLEAN
  BY DEF HistoryInit, Init, AuthorisedInv, DisarmAuthorised
<1>2. /\ IInv /\ IInv' /\ AuthorisedInv /\ authorised \in BOOLEAN
      /\ [HistoryNext]_<<vars, history>>
      => AuthorisedInv' /\ (authorised \in BOOLEAN)'
  BY AuthorisedStep
<1>3. AuthorisedInv => DisarmAuthorised
  BY DEF AuthorisedInv
<1> QED
  BY <1>1, <1>2, <1>3, HistoryIInv, PTL DEF HistorySpec

-----------------------------------------------------------------------------
(* A new password was typed twice.                                         *)

(* Inductive: what the entries of this password change were, as long as the  *)
(* second one is still to come; none outside of a change.                    *)
EntriesInv ==
  /\ security_state # "NEW_PASSWORD" => entries = <<>>
  /\ security_state = "NEW_PASSWORD" /\ new_password_count = 0 => entries = <<>>
  /\ security_state = "NEW_PASSWORD" /\ new_password_count = 1 => entries = <<candidate>>

(* What the record of entries says of a step.                                *)
LEMMA EntriesFacts ==
  ASSUME Record
  PROVE  /\ security_state' # "NEW_PASSWORD" => entries' = <<>>
         /\ security_state' = "NEW_PASSWORD" /\ ~EntryCompleted => entries' = entries
         /\ security_state' = "NEW_PASSWORD" /\ EntryCompleted /\ entries = <<>>
              => entries' = <<Typed>>
<1>1. Len(<<>>) < 2 /\ Append(<<>>, Typed) = <<Typed>>
  BY DEF Typed
<1>2. security_state' # "NEW_PASSWORD" => entries' = <<>>
  BY DEF Record, RecordEntries
<1>3. security_state' = "NEW_PASSWORD" /\ ~EntryCompleted => entries' = entries
  BY DEF Record, RecordEntries
<1>4. security_state' = "NEW_PASSWORD" /\ EntryCompleted /\ entries = <<>>
        => entries' = <<Typed>>
  BY <1>1, Zenon DEF Record, RecordEntries
<1> QED
  BY <1>2, <1>3, <1>4

(* Every step keeps it: only opening the menu forgets the count, and only    *)
(* where there are no entries.                                               *)
LEMMA EntriesStep ==
  ASSUME IInv, IInv', EntriesInv, [HistoryNext]_<<vars, history>>
  PROVE  EntriesInv'
<1> USE DEF EntriesInv, IInv, TypeOK, EntryTypes, StatesAtPoints, MenusAgree, LoopPoints,
            vars, control, entry, ChangeSecurityState, BackToArmedState
<1>1. CASE Boot /\ Record
  BY <1>1, EntriesFacts
    DEF Boot, BootKeyState, BootsInGarage, BootConfiguration, DefaultConfiguration,
        StoreTypes, Configuration, EntryCompleted
<1>2. CASE DropReset /\ Record
  BY <1>2, EntriesFacts DEF DropReset, ResetDevice, Restart, EntryCompleted
<1>3. CASE CommitSecurityState /\ Record
  BY <1>3, EntriesFacts DEF CommitSecurityState, Committed, LeachState, EntryCompleted
<1>4. CASE Unlock /\ Record
  BY <1>4, EntriesFacts DEF Unlock, EntryCompleted
<1>5. CASE SaveBondings /\ Record
  BY <1>5, EntriesFacts DEF SaveBondings, EntryCompleted
<1>6. CASE BondingReset /\ Record
  BY <1>6, EntriesFacts DEF BondingReset, ResetDevice, Restart, EntryCompleted
<1>7. CASE RearmChange /\ Record
  BY <1>7, EntriesFacts DEF RearmChange, EntryCompleted
<1>8. CASE RearmTail /\ Record
  BY <1>8, EntriesFacts DEF RearmTail, EntryCompleted
<1>9. CASE PollMailbox /\ Record
  BY <1>9, EntriesFacts DEF PollMailbox, RemoteTypes, EntryCompleted
<1>10. CASE RemoteDisarmed /\ Record
  BY <1>10, EntriesFacts DEF RemoteDisarmed, EntryCompleted
<1>11. CASE ReceiveKey /\ Record
  BY <1>11, EntriesFacts DEF ReceiveKey, LeachState, EntryCompleted
<1>12. CASE LongStar /\ Record
  BY <1>12, EntriesFacts DEF LongStar, EntryCompleted
<1>13. CASE ForgetWrongPasswords /\ Record
  BY <1>13, EntriesFacts DEF ForgetWrongPasswords, EntryCompleted
<1>14. CASE Idle /\ Record
  BY <1>14, EntriesFacts DEF Idle, EntryCompleted
<1>15. CASE TypeKey /\ Record
  BY <1>15, EntriesFacts DEF TypeKey, ReadTyped, EntryCompleted
<1>16. CASE NewPassword /\ Record
  BY <1>16, EntriesFacts DEF NewPassword, ReadTyped, EntryCompleted, Count, EntryCap
<1>17. CASE RightPassword /\ Record
  BY <1>17, EntriesFacts DEF RightPassword, ReadTyped, EntryCompleted
<1>18. CASE Unlocked /\ Record
  BY <1>18, EntriesFacts DEF Unlocked, EntryCompleted
<1>19. CASE WrongPassword /\ Record
  BY <1>19, EntriesFacts DEF WrongPassword, ReadTyped, EntryCompleted
<1>20. CASE EnterGarage /\ Record
  BY <1>20, EntriesFacts DEF EnterGarage, EntryCompleted
<1>21. CASE EnterNewPassword /\ Record
  BY <1>21, EntriesFacts DEF EnterNewPassword, EntryCompleted
<1>22. CASE EraseAll /\ Record
  BY <1>22, EntriesFacts DEF EraseAll, EntryCompleted
<1>23. CASE ErasePeripherals /\ Record
  BY <1>23, EntriesFacts DEF ErasePeripherals, EntryCompleted
<1>24. CASE EraseReset /\ Record
  BY <1>24, EntriesFacts DEF EraseReset, ResetDevice, Restart, EntryCompleted
<1>25. CASE StartBonding /\ Record
  BY <1>25, EntriesFacts DEF StartBonding, EntryCompleted
<1>26. CASE ProlongGarage /\ Record
  BY <1>26, EntriesFacts DEF ProlongGarage, EntryCompleted
<1>27. CASE MenuStays /\ Record
  BY <1>27, EntriesFacts DEF MenuStays, EntryCompleted
<1>28. CASE Disarmed /\ Record
  BY <1>28, EntriesFacts DEF Disarmed, SecurityStep, EntryCompleted
<1>29. CASE MissingReset /\ Record
  BY <1>29, EntriesFacts DEF MissingReset, ResetDevice, Restart, EntryCompleted
<1>30. CASE ServeApplication /\ Record
  BY <1>30, EntriesFacts DEF ServeApplication, SecurityStep, EntryCompleted
<1>31. CASE ApplicationReset /\ Record
  BY <1>31, EntriesFacts DEF ApplicationReset, ResetDevice, Restart, EntryCompleted
<1>32. CASE Armed /\ Record
  BY <1>32, EntriesFacts DEF Armed, SecurityStep, EntryCompleted
<1>33. CASE Locked /\ Record
  BY <1>33, EntriesFacts DEF Locked, SecurityStep, EntryCompleted
<1>34. CASE GarageTimeout /\ Record
  BY <1>34, EntriesFacts DEF GarageTimeout, SecurityStep, EntryCompleted
<1>35. CASE IgnitionOff /\ Record
  BY <1>35, EntriesFacts DEF IgnitionOff, EntryCompleted
<1>36. CASE Command /\ Record
  BY <1>36, EntriesFacts DEF Command, RemoteCommand, EntryCompleted
<1>37. CASE PeripheralVerified /\ Record
  BY <1>37, EntriesFacts DEF PeripheralVerified, LeachState, EntryCompleted
<1>38. CASE Tick /\ Record
  BY <1>38, EntriesFacts DEF Tick, EntryCompleted
<1>39. CASE Crash /\ Record
  BY <1>39, EntriesFacts DEF Crash, Restart, EntryCompleted
<1>40. CASE UNCHANGED <<vars, history>>
  BY <1>40 DEF history
<1> QED
  BY <1>1, <1>2, <1>3, <1>4, <1>5, <1>6, <1>7, <1>8, <1>9, <1>10, <1>11, <1>12,
       <1>13, <1>14, <1>15, <1>16, <1>17, <1>18, <1>19, <1>20, <1>21, <1>22, <1>23, <1>24,
       <1>25, <1>26, <1>27, <1>28, <1>29, <1>30, <1>31, <1>32, <1>33, <1>34,
       <1>35, <1>36, <1>37, <1>38, <1>39, <1>40
  DEF HistoryNext, MonitorStep

(* While the password is being changed, only its repetition changes it from  *)
(* "keys" on.                                                                *)
LEMMA KeysStep ==
  ASSUME IInv, [Next]_vars, pc = "keys", pc' # "keys", pc' # "boot",
         security_state = "NEW_PASSWORD", cfg'.password # cfg.password
  PROVE  NewPassword
<1> USE DEF IInv, StatesAtPoints, MenusAgree, LoopPoints, vars, control, store
<1>1. CASE MonitorStep
  BY <1>1 DEF MonitorStep, Boot, DropReset, CommitSecurityState, Unlock, SaveBondings,
     BondingReset, RearmChange, RearmTail, PollMailbox, RemoteDisarmed, ReceiveKey,
     LongStar, ForgetWrongPasswords, Idle, TypeKey, RightPassword, Unlocked,
     WrongPassword, EnterGarage, EnterNewPassword, EraseAll, ErasePeripherals, EraseReset,
     StartBonding, ProlongGarage, MenuStays, Disarmed, MissingReset, ServeApplication,
     ApplicationReset, Armed, Locked, GarageTimeout, IgnitionOff, SecurityStep, ReadTyped,
     ResetDevice, Restart
<1>2. CASE Command \/ PeripheralVerified \/ Tick \/ Crash
  BY <1>2 DEF Command, RemoteCommand, PeripheralVerified, Tick, Crash, Restart
<1> QED
  BY <1>1, <1>2 DEF Next

(* A password change saves only a password that was its first entry and is   *)
(* typed again as its second.                                                *)
THEOREM ConfirmedPassword == HistorySpec => PasswordConfirmed
<1> DEFINE Saves == /\ pc = "keys" /\ pc' # pc /\ pc' # "boot"
                    /\ cfg'.password # cfg.password
                    /\ security_state = "NEW_PASSWORD"
             Confirmed == /\ EntryCompleted
                          /\ entries = <<cfg'.password>> /\ Typed = cfg'.password
<1>1. HistoryInit => EntriesInv
  BY DEF HistoryInit, Init, EntriesInv
<1>2. IInv /\ IInv' /\ EntriesInv /\ [HistoryNext]_<<vars, history>> => EntriesInv'
  BY EntriesStep
<1>3. IInv /\ EntriesInv /\ [HistoryNext]_<<vars, history>>
        => [Saves => Confirmed]_<<vars, history>>
  <2> SUFFICES ASSUME IInv, EntriesInv, [HistoryNext]_<<vars, history>>, Saves
               PROVE  Confirmed
    OBVIOUS
  <2> USE DEF Saves
  <2>1. [Next]_vars
    BY DEF HistoryNext, Next
  <2>2. NewPassword
    BY <2>1, KeysStep
  <2>3. EntryCompleted
    BY <2>2 DEF NewPassword, ReadTyped, EntryCompleted
  <2>4. new_password_count = 1 /\ Typed = candidate
          /\ cfg' = [cfg EXCEPT !.password = candidate]
    BY <2>2 DEF NewPassword, Save, store
  <2>5. cfg'.password = candidate
    BY <2>4 DEF IInv, TypeOK, StoreTypes, Configuration
  <2>6. entries = <<candidate>>
    BY <2>4 DEF EntriesInv
  <2> QED
    BY <2>3, <2>4, <2>5, <2>6
<1> QED
  BY <1>1, <1>2, <1>3, HistoryIInv, PTL DEF HistorySpec, PasswordConfirmed

-----------------------------------------------------------------------------
(* A session lasts its time.                                               *)

Starting == {"unlocked", "remoteDisarmed", "eraseReset"}

(* Inductive: the disarm timer is no older than the session, except where a  *)
(* disarm is still on its way to restart it, or a reset follows.             *)
SessionInv ==
  /\ session \in Nat
  /\ pc = "boot" \/ (/\ security_state = "DISARMED" /\ pc \notin Starting
                     /\ ~(pc = "commit" /\ cont \in Starting))
       => age["disarmed"] <= session

(* What the record of sessions says of a step.                               *)
LEMMA SessionFacts ==
  ASSUME Record, session \in Nat
  PROVE  /\ session' \in Nat
         /\ ~Entitled /\ pc' # "boot" => session' >= session
         /\ ~Entitled /\ pc' # "boot" /\ age' # age /\ UNCHANGED pc /\ session <= MAX_VALUE
              => session' = session + 1
BY MonitorAssumption DEF Record, RecordSession, SecondPassed

(* What Touch and Tick do to the timers.                                     *)
LEMMA TouchFacts ==
  ASSUME TypeOK, NEW S, Touch(S)
  PROVE  /\ age'["disarmed"] <= age["disarmed"]
         /\ "disarmed" \in S => age'["disarmed"] = 0
         /\ age'["locked"] <= age["locked"]
         /\ "locked" \in S => age'["locked"] = 0
BY DEF TypeOK, TimingTypes, Touch, Timers

LEMMA TickFacts ==
  ASSUME TypeOK, Tick
  PROVE  \/ age'["disarmed"] = age["disarmed"]
         \/ age'["disarmed"] = age["disarmed"] + 1 /\ age' # age
              /\ age["disarmed"] <= MAX_VALUE
<1>1. AgeCap("disarmed") = MAX_VALUE + 1
  BY DEF AgeCap
<1>2. age'["disarmed"] = IF age["disarmed"] < AgeCap("disarmed") THEN age["disarmed"] + 1
                                                              ELSE age["disarmed"]
  BY DEF Tick, Timers
<1>3. age["disarmed"] \in Nat
  BY DEF TypeOK, TimingTypes, Timers
<1> QED
  BY <1>1, <1>2, <1>3, MonitorAssumption

LEMMA SessionStep ==
  ASSUME "same" \notin AppSerials,
         IInv, IInv', SessionInv, [HistoryNext]_<<vars, history>>
  PROVE  SessionInv'
<1> USE DEF SessionInv, Starting, IInv, TypeOK, TimingTypes, StatesAtPoints, MenusAgree,
            LoopPoints, Returning, Returns, vars, control, timing, Timers,
            ChangeSecurityState, BackToArmedState, Entitled, PasswordEntered,
            RemoteDisarm, ApplicationDisarm
<1>1. CASE Boot /\ Record
  BY <1>1, SessionFacts
    DEF Boot, BootKeyState, BootsInGarage, BootConfiguration, ConsumeFlag,
        DefaultConfiguration
<1>2. CASE DropReset /\ Record
  BY <1>2, SessionFacts DEF DropReset, ResetDevice, Restart
<1>3. CASE CommitSecurityState /\ Record
  BY <1>3, SessionFacts DEF CommitSecurityState, Committed, LeachState
<1>4. CASE Unlock /\ Record
  BY <1>4, SessionFacts DEF Unlock
<1>5. CASE SaveBondings /\ Record
  BY <1>5, SessionFacts DEF SaveBondings
<1>6. CASE BondingReset /\ Record
  BY <1>6, SessionFacts DEF BondingReset, ResetDevice, Restart
<1>7. CASE RearmChange /\ Record
  BY <1>7, SessionFacts DEF RearmChange
<1>8. CASE RearmTail /\ Record
  BY <1>8, SessionFacts DEF RearmTail
<1>9. CASE PollMailbox /\ Record
  <2>1. mailbox = "NONE" => ~Entitled /\ age' = age /\ pc' = "receive"
                              /\ security_state' = security_state
    BY <1>9 DEF PollMailbox
  <2>2. mailbox # "NONE" => pc' = "commit" /\ (\/ security_state' = "ARMED"
                                               \/ cont' = "remoteDisarmed")
    BY <1>9 DEF PollMailbox, RemoteTypes
  <2> QED
    BY <1>9, <2>1, <2>2, SessionFacts DEF PollMailbox
<1>10. CASE RemoteDisarmed /\ Record
  BY <1>10, SessionFacts, TouchFacts DEF RemoteDisarmed
<1>11. CASE ReceiveKey /\ Record
  BY <1>11, SessionFacts DEF ReceiveKey, LeachState
<1>12. CASE LongStar /\ Record
  BY <1>12, SessionFacts DEF LongStar
<1>13. CASE ForgetWrongPasswords /\ Record
  BY <1>13, SessionFacts, TouchFacts DEF ForgetWrongPasswords
<1>14. CASE Idle /\ Record
  BY <1>14, SessionFacts DEF Idle
<1>15. CASE TypeKey /\ Record
  BY <1>15, SessionFacts DEF TypeKey, ReadTyped
<1>16. CASE NewPassword /\ Record
  BY <1>16, SessionFacts DEF NewPassword, ReadTyped
<1>17. CASE RightPassword /\ Record
  BY <1>17, SessionFacts DEF RightPassword, ReadTyped
<1>18. CASE Unlocked /\ Record
  BY <1>18, SessionFacts, TouchFacts DEF Unlocked
<1>19. CASE WrongPassword /\ Record
  <2>1. age'["disarmed"] <= age["disarmed"]
    BY <1>19, TouchFacts DEF WrongPassword, LockKeypad
  <2>2. ~Entitled /\ pc' = "security"
    BY <1>19 DEF WrongPassword, ReadTyped
  <2> QED
    BY <1>19, <2>1, <2>2, SessionFacts DEF WrongPassword, ReadTyped
<1>20. CASE EnterGarage /\ Record
  BY <1>20, SessionFacts DEF EnterGarage
<1>21. CASE EnterNewPassword /\ Record
  BY <1>21, SessionFacts DEF EnterNewPassword
<1>22. CASE EraseAll /\ Record
  BY <1>22, SessionFacts DEF EraseAll
<1>23. CASE ErasePeripherals /\ Record
  BY <1>23, SessionFacts DEF ErasePeripherals
<1>24. CASE EraseReset /\ Record
  BY <1>24, SessionFacts DEF EraseReset, ResetDevice, Restart
<1>25. CASE StartBonding /\ Record
  BY <1>25, SessionFacts DEF StartBonding
<1>26. CASE ProlongGarage /\ Record
  BY <1>26, SessionFacts DEF ProlongGarage
<1>27. CASE MenuStays /\ Record
  BY <1>27, SessionFacts DEF MenuStays
<1>28. CASE Disarmed /\ Record
  <2>1. age'["disarmed"] <= age["disarmed"]
    BY <1>28, TouchFacts DEF Disarmed
  <2>2. ~Entitled /\ pc' \in {"mailbox", "rearm"}
    BY <1>28 DEF Disarmed, SecurityStep
  <2> QED
    BY <1>28, <2>1, <2>2, SessionFacts DEF Disarmed, SecurityStep
<1>29. CASE MissingReset /\ Record
  BY <1>29, SessionFacts DEF MissingReset, ResetDevice, Restart
<1>30. CASE ServeApplication /\ Record
  BY <1>30, SessionFacts DEF ServeApplication, SecurityStep
<1>31. CASE ApplicationReset /\ Record
  BY <1>31, SessionFacts DEF ApplicationReset, ResetDevice, Restart
<1>32. CASE Armed /\ Record
  BY <1>32, SessionFacts DEF Armed, SecurityStep
<1>33. CASE Locked /\ Record
  BY <1>33, SessionFacts DEF Locked, SecurityStep
<1>34. CASE GarageTimeout /\ Record
  BY <1>34, SessionFacts DEF GarageTimeout, SecurityStep
<1>35. CASE IgnitionOff /\ Record
  BY <1>35, SessionFacts DEF IgnitionOff
<1>36. CASE Command /\ Record
  BY <1>36, SessionFacts DEF Command, RemoteCommand
<1>37. CASE PeripheralVerified /\ Record
  BY <1>37, SessionFacts DEF PeripheralVerified, LeachState
<1>38. CASE Tick /\ Record
  BY <1>38, SessionFacts, TickFacts DEF Tick
<1>39. CASE Crash /\ Record
  BY <1>39, SessionFacts DEF Crash, Restart
<1>40. CASE UNCHANGED <<vars, history>>
  BY <1>40 DEF history
<1> QED
  BY <1>1, <1>2, <1>3, <1>4, <1>5, <1>6, <1>7, <1>8, <1>9, <1>10, <1>11, <1>12,
       <1>13, <1>14, <1>15, <1>16, <1>17, <1>18, <1>19, <1>20, <1>21, <1>22, <1>23, <1>24,
       <1>25, <1>26, <1>27, <1>28, <1>29, <1>30, <1>31, <1>32, <1>33, <1>34,
       <1>35, <1>36, <1>37, <1>38, <1>39, <1>40
  DEF HistoryNext, MonitorStep

(* Disarmed, the device re-arms only when the timer has run out.             *)
LEMMA RearmStep ==
  ASSUME [Next]_vars, pc = "security", pc' = "rearm", security_state = "DISARMED"
  PROVE  age["disarmed"] > disarmed_state_timeout_value
<1> USE DEF vars, control, ChangeSecurityState
<1>1. CASE MonitorStep
  <2>1. Disarmed
    BY <1>1 DEF MonitorStep, Boot, DropReset, CommitSecurityState, Unlock, SaveBondings,
     BondingReset, RearmChange, RearmTail, PollMailbox, RemoteDisarmed, ReceiveKey,
     LongStar, ForgetWrongPasswords, Idle, TypeKey, NewPassword, RightPassword, Unlocked,
     WrongPassword, EnterGarage, EnterNewPassword, EraseAll, ErasePeripherals, EraseReset,
     StartBonding, ProlongGarage, MenuStays, MissingReset, ServeApplication,
     ApplicationReset, Armed, Locked, GarageTimeout, IgnitionOff, SecurityStep, ReadTyped,
     ResetDevice, Restart
  <2> QED
    BY <2>1 DEF Disarmed, Elapsed, Limit
<1>2. CASE Command \/ PeripheralVerified \/ Tick \/ Crash
  BY <1>2 DEF Command, RemoteCommand, PeripheralVerified, Tick, Crash, Restart
<1> QED
  BY <1>1, <1>2 DEF Next

(* Without an application that disarms, the device re-arms by timeout only   *)
(* when the session has lasted longer than its duration.                     *)
THEOREM FullSession ==
  ASSUME "same" \notin AppSerials
  PROVE  HistorySpec => SessionNotCutShort
<1> DEFINE Rearms == pc = "security" /\ security_state = "DISARMED" /\ pc' = "rearm"
<1>1. HistoryInit => SessionInv
  BY DEF HistoryInit, Init, SessionInv, Timers
<1>2. IInv /\ IInv' /\ SessionInv /\ [HistoryNext]_<<vars, history>> => SessionInv'
  BY SessionStep
<1>3. IInv /\ SessionInv /\ [HistoryNext]_<<vars, history>>
        => [Rearms => session > disarmed_state_timeout_value]_<<vars, history>>
  <2> SUFFICES ASSUME IInv, SessionInv, [HistoryNext]_<<vars, history>>, Rearms
               PROVE  session > disarmed_state_timeout_value
    OBVIOUS
  <2> USE DEF Rearms
  <2>1. [Next]_vars
    BY DEF HistoryNext, Next
  <2>2. age["disarmed"] > disarmed_state_timeout_value
    BY <2>1, RearmStep
  <2> QED
    BY <2>2 DEF SessionInv, Starting, IInv, TypeOK, TimingTypes, Timers
<1> QED
  BY <1>1, <1>2, <1>3, HistoryIInv, PTL DEF HistorySpec, SessionNotCutShort

-----------------------------------------------------------------------------
(* A lock is served.                                                       *)

(* Inductive: the lock's timer is no older than the lock, and while an armed *)
(* device is about to lift a lock that the EEPROM holds, either a remote ARM *)
(* asked for it or the time is over.                                         *)
HeldInv ==
  /\ held \in Nat
  /\ pc = "boot" => age["locked"] = 0
  /\ key_state = "LOCKED" => age["locked"] <= held
  /\ Returning("rearm") => ret = "receive"
  /\ pc = "ignitionOff" /\ security_state = "ARMED" => ~rom.is_locked
  /\ pc = "rearm" /\ security_state = "ARMED" /\ rom.is_locked
       => ret = "receive" \/ (key_state = "LOCKED" /\ held > LOCKED_STATE_TIME_SEC)

(* What the record of the lock says of a step.                               *)
LEMMA HeldFacts ==
  ASSUME Record, held \in Nat
  PROVE  /\ held' \in Nat
         /\ key_state = "LOCKED" /\ key_state' = "LOCKED" => held' >= held
         /\ (/\ key_state = "LOCKED" /\ key_state' = "LOCKED"
             /\ age' # age /\ UNCHANGED pc /\ held <= LOCKED_STATE_TIME_SEC)
              => held' = held + 1
BY MonitorAssumption DEF Record, RecordHeld, SecondPassed

LEMMA LockedTick ==
  ASSUME TypeOK, Tick
  PROVE  \/ age'["locked"] = age["locked"]
         \/ age'["locked"] = age["locked"] + 1 /\ age' # age
              /\ age["locked"] <= LOCKED_STATE_TIME_SEC
<1>1. AgeCap("locked") = LOCKED_STATE_TIME_SEC + 1
  BY DEF AgeCap, Limit
<1>2. age'["locked"] = IF age["locked"] < AgeCap("locked") THEN age["locked"] + 1
                                                          ELSE age["locked"]
  BY DEF Tick, Timers
<1>3. age["locked"] \in Nat
  BY DEF TypeOK, TimingTypes, Timers
<1> QED
  BY <1>1, <1>2, <1>3, MonitorAssumption

LEMMA HeldStep ==
  ASSUME IInv, IInv', HeldInv, [HistoryNext]_<<vars, history>>
  PROVE  HeldInv'
<1> USE DEF HeldInv, IInv, TypeOK, TimingTypes, StatesAtPoints, MenusAgree, StoreAgrees,
            LockAtPoints, LoopPoints, Returning, Returns, vars, control, timing, store,
            Timers, ChangeSecurityState, BackToArmedState, Save
<1>1. CASE Boot /\ Record
  BY <1>1, HeldFacts
    DEF Boot, BootKeyState, BootsInGarage, BootConfiguration, ConsumeFlag,
        DefaultConfiguration
<1>2. CASE DropReset /\ Record
  BY <1>2, HeldFacts DEF DropReset, ResetDevice, Restart
<1>3. CASE CommitSecurityState /\ Record
  BY <1>3, HeldFacts DEF CommitSecurityState, Committed, LeachState
<1>4. CASE Unlock /\ Record
  BY <1>4, HeldFacts DEF Unlock
<1>5. CASE SaveBondings /\ Record
  BY <1>5, HeldFacts DEF SaveBondings
<1>6. CASE BondingReset /\ Record
  <2>1. CASE afterStudy
    BY <1>6, <2>1, HeldFacts DEF BondingReset, ResetDevice, Restart
  <2>2. CASE ~afterStudy
    BY <1>6, <2>2, HeldFacts DEF BondingReset
  <2> QED BY <2>1, <2>2
<1>7. CASE RearmChange /\ Record
  BY <1>7, HeldFacts DEF RearmChange
<1>8. CASE RearmTail /\ Record
  BY <1>8, HeldFacts DEF RearmTail
<1>9. CASE PollMailbox /\ Record
  <2>1. UNCHANGED <<key_state, age, rom>>
    BY <1>9 DEF PollMailbox
  <2>2. CASE mailbox = "NONE"
    BY <1>9, <2>1, <2>2, HeldFacts DEF PollMailbox
  <2>3. CASE mailbox # "NONE"
    <3>1. pc' = "commit" /\ (cont' = "rearm" => ret' = "receive")
      BY <1>9, <2>3 DEF PollMailbox, RemoteTypes
    <3> QED BY <1>9, <2>1, <3>1, HeldFacts
  <2> QED BY <2>2, <2>3
<1>10. CASE RemoteDisarmed /\ Record
  BY <1>10, HeldFacts, TouchFacts DEF RemoteDisarmed
<1>11. CASE ReceiveKey /\ Record
  BY <1>11, HeldFacts DEF ReceiveKey, LeachState
<1>12. CASE LongStar /\ Record
  BY <1>12, HeldFacts DEF LongStar
<1>13. CASE ForgetWrongPasswords /\ Record
  BY <1>13, HeldFacts, TouchFacts DEF ForgetWrongPasswords
<1>14. CASE Idle /\ Record
  BY <1>14, HeldFacts DEF Idle
<1>15. CASE TypeKey /\ Record
  BY <1>15, HeldFacts DEF TypeKey, ReadTyped
<1>16. CASE NewPassword /\ Record
  BY <1>16, HeldFacts, TouchFacts DEF NewPassword, ReadTyped
<1>17. CASE RightPassword /\ Record
  BY <1>17, HeldFacts DEF RightPassword, ReadTyped
<1>18. CASE Unlocked /\ Record
  BY <1>18, HeldFacts, TouchFacts DEF Unlocked
<1>19. CASE WrongPassword /\ Record
  <2>1. CASE key_state' = "LOCKED"
    <3>1. age'["locked"] = 0
      BY <1>19, <2>1, TouchFacts DEF WrongPassword, LockKeypad
    <3> QED BY <1>19, <2>1, <3>1, HeldFacts DEF WrongPassword, ReadTyped
  <2>2. CASE key_state' # "LOCKED"
    BY <1>19, <2>2, HeldFacts DEF WrongPassword, ReadTyped
  <2> QED BY <2>1, <2>2
<1>20. CASE EnterGarage /\ Record
  BY <1>20, HeldFacts, TouchFacts DEF EnterGarage
<1>21. CASE EnterNewPassword /\ Record
  BY <1>21, HeldFacts, TouchFacts DEF EnterNewPassword
<1>22. CASE EraseAll /\ Record
  BY <1>22, HeldFacts, TouchFacts DEF EraseAll
<1>23. CASE ErasePeripherals /\ Record
  BY <1>23, HeldFacts DEF ErasePeripherals
<1>24. CASE EraseReset /\ Record
  BY <1>24, HeldFacts DEF EraseReset, ResetDevice, Restart
<1>25. CASE StartBonding /\ Record
  BY <1>25, HeldFacts, TouchFacts DEF StartBonding
<1>26. CASE ProlongGarage /\ Record
  BY <1>26, HeldFacts, TouchFacts DEF ProlongGarage
<1>27. CASE MenuStays /\ Record
  BY <1>27, HeldFacts DEF MenuStays
<1>28. CASE Disarmed /\ Record
  BY <1>28, HeldFacts, TouchFacts DEF Disarmed, SecurityStep
<1>29. CASE MissingReset /\ Record
  BY <1>29, HeldFacts DEF MissingReset, ResetDevice, Restart
<1>30. CASE ServeApplication /\ Record
  BY <1>30, HeldFacts DEF ServeApplication, SecurityStep
<1>31. CASE ApplicationReset /\ Record
  BY <1>31, HeldFacts DEF ApplicationReset, ResetDevice, Restart
<1>32. CASE Armed /\ Record
  BY <1>32, HeldFacts DEF Armed, SecurityStep
<1>33. CASE Locked /\ Record
  <2>1. UNCHANGED <<key_state, age, rom, security_state>> /\ pc' \in {"mailbox", "rearm"}
    BY <1>33 DEF Locked, SecurityStep
  <2>2. pc' = "rearm" => key_state = "LOCKED" /\ age["locked"] > LOCKED_STATE_TIME_SEC
    BY <1>33 DEF Locked, SecurityStep, Elapsed, Limit
  <2>3. age["locked"] \in Nat
    OBVIOUS
  <2> QED BY <1>33, <2>1, <2>2, <2>3, HeldFacts, MonitorAssumption
<1>34. CASE GarageTimeout /\ Record
  BY <1>34, HeldFacts DEF GarageTimeout, SecurityStep
<1>35. CASE IgnitionOff /\ Record
  BY <1>35, HeldFacts DEF IgnitionOff
<1>36. CASE Command /\ Record
  <2>1. UNCHANGED <<control, key_state, security_state, age>>
    BY <1>36 DEF Command, RemoteCommand
  <2>2. pc # "boot" /\ (rom'.is_locked => rom.is_locked)
    BY <1>36 DEF Command, RemoteCommand, DefaultConfiguration, StoreTypes, Configuration
  <2> QED BY <1>36, <2>1, <2>2, HeldFacts, MonitorAssumption
<1>37. CASE PeripheralVerified /\ Record
  <2>1. UNCHANGED <<control, key_state, security_state, age, rom>> /\ pc # "boot"
    BY <1>37 DEF PeripheralVerified
  <2> QED BY <1>37, <2>1, HeldFacts, MonitorAssumption
<1>38. CASE Tick /\ Record
  <2>1. UNCHANGED <<control, key_state, security_state, rom>> /\ pc # "boot"
    BY <1>38 DEF Tick
  <2>2. age["locked"] \in Nat
    OBVIOUS
  <2>3. key_state' = "LOCKED" => age'["locked"] <= held'
    BY <1>38, <2>1, <2>2, HeldFacts, LockedTick, MonitorAssumption
  <2> QED BY <1>38, <2>1, <2>3, HeldFacts, MonitorAssumption
<1>39. CASE Crash /\ Record
  BY <1>39, HeldFacts DEF Crash, Restart
<1>40. CASE UNCHANGED <<vars, history>>
  BY <1>40 DEF history
<1> QED
  BY <1>1, <1>2, <1>3, <1>4, <1>5, <1>6, <1>7, <1>8, <1>9, <1>10, <1>11, <1>12,
       <1>13, <1>14, <1>15, <1>16, <1>17, <1>18, <1>19, <1>20, <1>21, <1>22, <1>23, <1>24,
       <1>25, <1>26, <1>27, <1>28, <1>29, <1>30, <1>31, <1>32, <1>33, <1>34,
       <1>35, <1>36, <1>37, <1>38, <1>39, <1>40
  DEF HistoryNext, MonitorStep

(* With the device armed, only back_to_armed_state and BACK_DEFAULT take the  *)
(* lock out of the EEPROM.                                                    *)
LEMMA LiftStep ==
  ASSUME IInv, [Next]_vars, rom.is_locked, ~rom'.is_locked, security_state = "ARMED"
  PROVE  (Unlock /\ pc = "rearm") \/ (UNCHANGED pc /\ rom' = DefaultConfiguration)
<1> USE DEF IInv, TypeOK, StoreTypes, Configuration, StatesAtPoints, StoreAgrees, MenusAgree,
            LoopPoints, Returning, vars, store, Save
<1>1. rom = cfg
  OBVIOUS
<1>2. CASE MonitorStep
  <2>1. CASE DropReset \/ MissingReset \/ ApplicationReset \/ BondingReset \/ EraseReset
    BY <2>1, <1>1 DEF DropReset, MissingReset, ApplicationReset, BondingReset, EraseReset,
       ResetDevice
  <2>2. CASE CommitSecurityState \/ NewPassword \/ WrongPassword
    BY <2>2, <1>1 DEF CommitSecurityState, Committed, NewPassword, WrongPassword, LockKeypad
  <2>3. CASE Boot \/ EraseAll \/ ErasePeripherals
    BY <2>3 DEF Boot, EraseAll, ErasePeripherals
  <2>4. CASE SaveBondings \/ RearmTail \/ EnterGarage
    BY <2>4, <1>1 DEF SaveBondings, RearmTail, EnterGarage
  <2>5. CASE Unlock
    BY <2>5 DEF Unlock
  <2>6. CASE ~(\/ DropReset \/ MissingReset \/ ApplicationReset \/ BondingReset \/ EraseReset
               \/ CommitSecurityState \/ NewPassword \/ WrongPassword
               \/ Boot \/ EraseAll \/ ErasePeripherals
               \/ SaveBondings \/ RearmTail \/ EnterGarage \/ Unlock)
    <3>1. UNCHANGED rom
      BY <1>2, <2>6 DEF MonitorStep, RearmChange, PollMailbox, RemoteDisarmed, ReceiveKey,
         LongStar, ForgetWrongPasswords, Idle, TypeKey, RightPassword, Unlocked,
         EnterNewPassword, StartBonding, ProlongGarage, MenuStays, Disarmed,
         ServeApplication, Armed, Locked, GarageTimeout, IgnitionOff, SecurityStep, ReadTyped
    <3> QED BY <3>1
  <2> QED BY <2>1, <2>2, <2>3, <2>4, <2>5, <2>6
<1>3. CASE Command
  BY <1>1, <1>3 DEF Command, RemoteCommand, control
<1>4. CASE PeripheralVerified \/ Tick \/ Crash
  BY <1>4 DEF PeripheralVerified, Tick, Crash
<1> QED
  BY <1>2, <1>3, <1>4 DEF Next

(* The lock of an armed keypad leaves the EEPROM at the end of its time, by a *)
(* remote ARM, or with the defaults a command restores.                       *)
THEOREM FullLock == HistorySpec => LockServed
<1> DEFINE Lifts == rom_ok /\ rom.is_locked /\ ~rom'.is_locked /\ security_state = "ARMED"
           Allowed == \/ held > LOCKED_STATE_TIME_SEC
                      \/ pc = "rearm" /\ ret = "receive"
                      \/ UNCHANGED pc /\ rom' = DefaultConfiguration
<1>1. HistoryInit => HeldInv
  BY DEF HistoryInit, Init, HeldInv, Timers, Returning
<1>2. IInv /\ IInv' /\ HeldInv /\ [HistoryNext]_<<vars, history>> => HeldInv'
  BY HeldStep
<1>3. IInv /\ HeldInv /\ [HistoryNext]_<<vars, history>>
        => [Lifts => Allowed]_<<vars, history>>
  <2> SUFFICES ASSUME IInv, HeldInv, [HistoryNext]_<<vars, history>>, Lifts PROVE Allowed
    OBVIOUS
  <2>1. [Next]_vars
    BY DEF HistoryNext, Next
  <2>2. (Unlock /\ pc = "rearm") \/ (UNCHANGED pc /\ rom' = DefaultConfiguration)
    BY <2>1, LiftStep
  <2> QED
    BY <2>2 DEF HeldInv
<1> QED
  BY <1>1, <1>2, <1>3, HistoryIInv, PTL DEF HistorySpec, LockServed

-----------------------------------------------------------------------------
(* A guesser meets the lock.                                               *)

(* Inductive: the monitor task has counted every guess of the record, and    *)
(* forgets none before its time.                                             *)
GuessInv ==
  /\ guesses \in Nat /\ quiet \in Nat
  /\ guesses <= wrong_password_count /\ GuessesBounded
  /\ guesses > 0 => age["password"] <= quiet /\ quiet <= LOCKED_STATE_TIME_SEC
  /\ key_state = "LOCKED" \/ pc \in {"boot", "unlocked"} \/ Returning("unlocked")
       => guesses = 0

(* What the record of guesses says of a step.                                *)
LEMMA GuessFacts ==
  ASSUME Record, guesses \in Nat, quiet \in Nat
  PROVE  /\ guesses' \in Nat /\ quiet' \in Nat
         /\ Forgiven => guesses' = 0
         /\ ~WrongEntered =>
              /\ guesses' <= guesses
              /\ guesses' > 0 => /\ quiet' = IF SecondPassed THEN quiet + 1 ELSE quiet
                                 /\ quiet' <= LOCKED_STATE_TIME_SEC
         /\ WrongEntered => guesses' <= guesses + 1 /\ quiet' = 0
BY MonitorAssumption DEF Record, RecordGuesses, Quieter

(* No guess, nothing forgotten: the step of every action but a few.          *)
LEMMA NoGuess ==
  ASSUME IInv, IInv', GuessInv, Record, ~WrongEntered,
         age'["password"] <= age["password"],
         wrong_password_count <= wrong_password_count',
         pc' = "unlocked" \/ Returning("unlocked")' => guesses = 0 \/ Forgiven
  PROVE  GuessInv'
<1> USE DEF GuessInv
<1>1. /\ guesses' \in Nat /\ quiet' \in Nat /\ guesses' <= guesses
      /\ wrong_password_count \in Nat /\ wrong_password_count' \in Nat
      /\ age["password"] \in Nat /\ age'["password"] \in Nat
  BY GuessFacts, MonitorAssumption DEF IInv, TypeOK, TryCap, TimingTypes, Timers
<1>2. guesses' <= wrong_password_count' /\ GuessesBounded'
  BY <1>1, MonitorAssumption DEF GuessesBounded
<1>3. guesses' > 0 => age'["password"] <= quiet' /\ quiet' <= LOCKED_STATE_TIME_SEC
  BY <1>1, GuessFacts, MonitorAssumption
<1>4. key_state' = "LOCKED" \/ pc' = "boot" => guesses' = 0
  BY GuessFacts DEF Forgiven
<1>5. pc' = "unlocked" \/ Returning("unlocked")' => guesses' = 0
  BY <1>1, GuessFacts
<1> QED
  BY <1>1, <1>2, <1>3, <1>4, <1>5

(* A step that resets the device forgives everything.                        *)
LEMMA ResetForgives ==
  ASSUME IInv, IInv', GuessInv, Record, pc' = "boot" PROVE GuessInv'
<1>1. /\ guesses' = 0 /\ quiet' \in Nat
      /\ wrong_password_count' \in Nat
  BY GuessFacts, MonitorAssumption DEF GuessInv, Forgiven, IInv, TypeOK, TryCap
<1> QED
  BY <1>1, MonitorAssumption DEF GuessInv, GuessesBounded

LEMMA GuessStep ==
  ASSUME IInv, IInv', GuessInv, [HistoryNext]_<<vars, history>>
  PROVE  GuessInv'
<1> USE DEF vars, control, timing, entry, ChangeSecurityState, BackToArmedState
<1>0. /\ age["password"] \in Nat /\ age["disarmed"] \in Nat
      /\ wrong_password_count \in Nat
  BY MonitorAssumption DEF IInv, TypeOK, TryCap, TimingTypes, Timers
<1>1. CASE (\/ DropReset \/ EraseReset \/ MissingReset \/ ApplicationReset \/ Crash) /\ Record
  BY <1>1, ResetForgives
  DEF DropReset, EraseReset, MissingReset, ApplicationReset, ResetDevice, Crash, Restart
<1>2. CASE Boot /\ Record
  <2>1. UNCHANGED <<age, wrong_password_count>> /\ pc = "boot" /\ pc' = "mailbox"
    BY <1>2 DEF Boot
  <2> QED BY <1>0, <1>2, <2>1, NoGuess DEF WrongEntered, Returning
<1>3. CASE CommitSecurityState /\ Record
  <2>1. UNCHANGED <<age, wrong_password_count>> /\ pc = "commit" /\ pc' = cont
        /\ pc' # "commit"
    BY <1>3 DEF CommitSecurityState, IInv, StatesAtPoints
  <2> QED BY <1>0, <1>3, <2>1, NoGuess DEF WrongEntered, Returning, GuessInv
<1>4. CASE (Unlock \/ RearmChange \/ SaveBondings) /\ Record
  <2>1. UNCHANGED <<age, wrong_password_count>> /\ pc # "keys" /\ pc' # "unlocked"
        /\ ~Returning("unlocked")'
    BY <1>4 DEF Unlock, RearmChange, SaveBondings, Returning
  <2> QED BY <1>0, <1>4, <2>1, NoGuess DEF WrongEntered
<1>5. CASE BondingReset /\ Record
  <2>1. CASE afterStudy
    BY <1>5, <2>1, ResetForgives DEF BondingReset, ResetDevice, Restart
  <2>2. CASE ~afterStudy
    <3>1. UNCHANGED <<age, wrong_password_count>> /\ pc = "bondingReset"
          /\ pc' = "rearmChange"
      BY <1>5, <2>2 DEF BondingReset
    <3> QED BY <1>0, <1>5, <3>1, NoGuess DEF WrongEntered, Returning
  <2> QED BY <2>1, <2>2
<1>6. CASE (RearmTail \/ LongStar \/ IgnitionOff \/ GarageTimeout \/ Armed) /\ Record
  <2>1. UNCHANGED <<age, wrong_password_count>> /\ pc # "keys"
        /\ pc' \in Returns \cup {"forget", "rearm", "mailbox", "ignitionOff"}
    BY <1>6 DEF RearmTail, LongStar, IgnitionOff, GarageTimeout, Armed, SecurityStep,
       IInv, StatesAtPoints, Returns
  <2> QED BY <1>0, <1>6, <2>1, NoGuess DEF WrongEntered, Returning, Returns
<1>7. CASE PollMailbox /\ Record
  <2>1. UNCHANGED <<age, wrong_password_count>> /\ pc = "mailbox" /\ pc' # "unlocked"
        /\ ~Returning("unlocked")'
    BY <1>7 DEF PollMailbox, Returning, IInv, TypeOK, RemoteTypes
  <2> QED BY <1>0, <1>7, <2>1, NoGuess DEF WrongEntered
<1>8. CASE (RemoteDisarmed \/ ReceiveKey) /\ Record
  <2>1. age'["password"] <= age["password"] /\ UNCHANGED wrong_password_count
        /\ pc # "keys" /\ pc' \in {"receive", "longStar"}
    BY <1>0, <1>8 DEF RemoteDisarmed, ReceiveKey, Touch, Timers
  <2> QED BY <1>0, <1>8, <2>1, NoGuess DEF WrongEntered, Returning
<1>9. CASE ForgetWrongPasswords /\ Record
  <2>1. pc = "forget" /\ pc' = "keys"
    BY <1>9 DEF ForgetWrongPasswords
  <2>2. CASE ~Elapsed("password")
    <3>1. UNCHANGED <<age, wrong_password_count>>
      BY <1>9, <2>2 DEF ForgetWrongPasswords
    <3> QED BY <1>0, <1>9, <2>1, <3>1, NoGuess DEF WrongEntered, Returning
  <2>3. CASE Elapsed("password")
    <3>1. age["password"] > LOCKED_STATE_TIME_SEC /\ wrong_password_count' = 0
      BY <1>9, <2>3 DEF ForgetWrongPasswords, Elapsed, Limit
    <3>2. guesses = 0
      BY <1>0, <3>1, MonitorAssumption DEF GuessInv
    <3>3. guesses' = 0 /\ quiet' \in Nat
      BY <1>9, <2>1, <3>2, GuessFacts DEF GuessInv, WrongEntered
    <3> QED BY <3>1, <3>3, MonitorAssumption DEF GuessInv, GuessesBounded
  <2> QED BY <2>2, <2>3
<1>10. CASE (Idle \/ MenuStays) /\ Record
  <2>1. UNCHANGED <<age, wrong_password_count>> /\ key_state # "ASTRIX_RECEIVED"
        /\ pc' = "security"
    BY <1>10 DEF Idle, MenuStays
  <2> QED BY <1>0, <1>10, <2>1, NoGuess DEF WrongEntered, Returning
<1>11. CASE TypeKey /\ Record
  <2>1. UNCHANGED <<age, wrong_password_count>> /\ ~Completes /\ pc' = "security"
    BY <1>11 DEF TypeKey, ReadTyped
  <2> QED BY <1>0, <1>11, <2>1, NoGuess DEF WrongEntered, Returning
<1>12. CASE NewPassword /\ Record
  <2>1. age'["password"] <= age["password"] /\ UNCHANGED wrong_password_count
        /\ security_state = "NEW_PASSWORD" /\ pc' = "security"
    BY <1>0, <1>12 DEF NewPassword, ReadTyped, Touch, Timers
  <2> QED BY <1>0, <1>12, <2>1, NoGuess DEF WrongEntered, Returning
<1>13. CASE RightPassword /\ Record
  <2>1. UNCHANGED <<age, wrong_password_count>> /\ Typed = cfg.password /\ Forgiven
    BY <1>13 DEF RightPassword, ReadTyped, Forgiven, PasswordEntered
  <2> QED BY <1>0, <1>13, <2>1, NoGuess DEF WrongEntered
<1>14. CASE (Unlocked \/ Locked) /\ Record
  <2>1. guesses = 0 /\ pc # "keys" /\ pc' \in {"security", "mailbox", "rearm"}
    BY <1>14 DEF Unlocked, Locked, SecurityStep, GuessInv
  <2>2. guesses' = 0 /\ quiet' \in Nat
    BY <1>14, <2>1, GuessFacts DEF GuessInv, WrongEntered
  <2>3. wrong_password_count' \in Nat
    BY MonitorAssumption DEF IInv, TypeOK, TryCap
  <2> QED BY <2>1, <2>2, <2>3, MonitorAssumption DEF GuessInv, GuessesBounded
<1>15. CASE WrongPassword /\ Record
  <2>1. /\ pc = "keys" /\ pc' = "security" /\ WrongEntered
        /\ wrong_password_count' = Count(wrong_password_count, TryCap)
    BY <1>15 DEF WrongPassword, ReadTyped, WrongEntered
  <2>2. guesses' <= guesses + 1 /\ guesses' \in Nat /\ quiet' = 0 /\ guesses \in Nat
    BY <1>15, <2>1, GuessFacts DEF GuessInv
  <2>3. CASE wrong_password_count' >= WRONG_PASSWORD_TRIES
    <3>1. key_state' = "LOCKED"
      BY <1>15, <2>3 DEF WrongPassword, LockKeypad
    <3>2. guesses' = 0
      BY <1>15, <3>1, GuessFacts DEF GuessInv, Forgiven
    <3> QED BY <2>1, <2>2, <2>3, <3>2, MonitorAssumption
            DEF GuessInv, GuessesBounded, IInv, TypeOK, TryCap
  <2>4. CASE ~(wrong_password_count' >= WRONG_PASSWORD_TRIES)
    <3>1. key_state' = "IDLE" /\ age'["password"] = 0
      BY <1>15, <2>4 DEF WrongPassword, Touch, Timers
    <3>2. wrong_password_count' = wrong_password_count + 1
          /\ wrong_password_count' < WRONG_PASSWORD_TRIES
      BY <1>0, <2>1, <2>4, MonitorAssumption DEF Count, TryCap
    <3>3. guesses' <= wrong_password_count' /\ GuessesBounded'
      BY <1>0, <2>2, <3>2, MonitorAssumption DEF GuessInv, GuessesBounded
    <3> QED BY <2>1, <2>2, <3>1, <3>3, MonitorAssumption DEF GuessInv, Returning
  <2> QED BY <2>3, <2>4
<1>16. CASE (EnterGarage \/ EnterNewPassword \/ EraseAll \/ StartBonding \/ ProlongGarage)
            /\ Record
  <2>1. age'["password"] <= age["password"] /\ UNCHANGED wrong_password_count
    BY <1>0, <1>16 DEF EnterGarage, EnterNewPassword, EraseAll, StartBonding, ProlongGarage,
       Touch, Timers
  <2>2. key_state # "ASTRIX_RECEIVED" /\ pc' # "unlocked" /\ ~Returning("unlocked")'
    BY <1>16 DEF EnterGarage, EnterNewPassword, EraseAll, StartBonding, ProlongGarage, Returning
  <2> QED BY <1>16, <2>1, <2>2, <1>0, NoGuess DEF WrongEntered
<1>17. CASE (ErasePeripherals \/ ServeApplication) /\ Record
  <2>1. UNCHANGED <<age, wrong_password_count>> /\ pc # "keys" /\ pc' # "unlocked"
        /\ ~Returning("unlocked")'
    BY <1>17 DEF ErasePeripherals, ServeApplication, SecurityStep, Returning, IInv, StatesAtPoints
  <2> QED BY <1>0, <1>17, <2>1, NoGuess DEF WrongEntered
<1>18. CASE Disarmed /\ Record
  <2>1. age'["password"] <= age["password"] /\ UNCHANGED wrong_password_count
        /\ pc = "security" /\ pc' \in {"mailbox", "rearm"}
    BY <1>0, <1>18 DEF Disarmed, SecurityStep, Touch, Timers
  <2> QED BY <1>0, <1>18, <2>1, NoGuess DEF WrongEntered, Returning
<1>19. CASE (Command \/ PeripheralVerified) /\ Record
  <2>1. UNCHANGED <<control, age, wrong_password_count>>
    BY <1>19 DEF Command, RemoteCommand, PeripheralVerified
  <2> QED BY <1>0, <1>19, <2>1, NoGuess DEF WrongEntered, Returning, GuessInv
<1>20. CASE Tick /\ Record
  <2>1. UNCHANGED <<control, key_state, wrong_password_count>>
    BY <1>20 DEF Tick
  <2>2. /\ guesses' <= guesses /\ guesses' \in Nat /\ quiet' \in Nat
        /\ guesses' > 0 => /\ quiet' = IF SecondPassed THEN quiet + 1 ELSE quiet
                           /\ quiet' <= LOCKED_STATE_TIME_SEC
    BY <1>20, <2>1, GuessFacts DEF GuessInv, WrongEntered
  <2>3. age'["password"] = age["password"]
        \/ (age'["password"] = age["password"] + 1 /\ age' # age)
    BY <1>0, <1>20 DEF Tick, Timers
  <2>4. guesses' > 0 => age'["password"] <= quiet'
    BY <1>0, <2>1, <2>2, <2>3, MonitorAssumption DEF GuessInv, SecondPassed
  <2>5. guesses' <= wrong_password_count' /\ GuessesBounded'
    BY <1>0, <2>1, <2>2, MonitorAssumption DEF GuessInv, GuessesBounded
  <2>6. key_state' = "LOCKED" \/ pc' \in {"boot", "unlocked"} \/ Returning("unlocked")'
          => guesses' = 0
    BY <2>1, <2>2 DEF GuessInv, Returning
  <2> QED BY <2>2, <2>4, <2>5, <2>6 DEF GuessInv
<1>21. CASE UNCHANGED <<vars, history>>
  BY <1>21 DEF history, GuessInv, GuessesBounded, Returning
<1> QED
  BY <1>1, <1>2, <1>3, <1>4, <1>5, <1>6, <1>7, <1>8, <1>9, <1>10, <1>11, <1>12, <1>13,
     <1>14, <1>15, <1>16, <1>17, <1>18, <1>19, <1>20, <1>21
  DEF HistoryNext, MonitorStep

(* However wrong passwords are spread over menus, time-outs, arming and remote *)
(* commands, WRONG_PASSWORD_TRIES of them never pass without a lock.           *)
THEOREM BoundedGuesses == HistorySpec => []GuessesBounded
<1>1. HistoryInit => GuessInv
  BY MonitorAssumption DEF HistoryInit, Init, GuessInv, GuessesBounded
<1>2. IInv /\ IInv' /\ GuessInv /\ [HistoryNext]_<<vars, history>> => GuessInv'
  BY GuessStep
<1>3. GuessInv => GuessesBounded
  BY DEF GuessInv
<1> QED
  BY <1>1, <1>2, <1>3, HistoryIInv, PTL DEF HistorySpec
=============================================================================
