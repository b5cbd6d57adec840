---------------------- MODULE KeypadMonitorModesProofs ----------------------
(***************************************************************************)
(* The monitor task implements SecurityModes: proved from the invariant of *)
(* KeypadMonitorProofs, one case per action. Each case is a step of        *)
(* SecurityModes or a stutter.                                             *)
(***************************************************************************)
EXTENDS KeypadMonitorModes, KeypadMonitorProofs

(* Every step of the monitor task is a step of SecurityModes or leaves both  *)
(* modes as they are.                                                        *)
LEMMA ModesStep ==
  ASSUME IInv, IInv', [Next]_vars PROVE [Modes!Next]_<<LiveMode, DurableMode>>
<1> USE DEF IInv, StatesAtPoints, StoreAgrees, LockAtPoints, LockInForce, GarageAtPoints,
            MenusAgree, Returning, LoopPoints, Returns,
            vars, control, locals, entry, timing, store, remote, bonding,
            ChangeSecurityState, BackToArmedState, Save, TypeOK, StateTypes,
            StoreTypes, SecurityStates, Configuration
<1> USE DEF LiveMode, DurableMode, Modes!Next, Modes!PowerOn, Modes!PowerOff,
            Modes!Lock, Modes!RecordLock, Modes!Disarm, Modes!OpenMenu,
            Modes!RecordDisarm, Modes!Arm, Modes!Relock, Modes!RecordArm,
            Modes!LiftLock, Modes!Defaults
<1>1. CASE Boot
  <2>1. LiveMode = "off"
    BY <1>1 DEF Boot
  <2>2. CASE ~rom_ok
    BY <1>1, <2>1, <2>2
      DEF Boot, BootKeyState, BootsInGarage, BootConfiguration, ConsumeFlag,
       DefaultConfiguration
  <2>3. CASE rom_ok /\ rom.security_state = "ARMED"
    BY <1>1, <2>1, <2>3
      DEF Boot, BootKeyState, BootsInGarage, BootConfiguration, ConsumeFlag
  <2>4. CASE rom_ok /\ rom.security_state = "DISARMED"
    BY <1>1, <2>1, <2>4
      DEF Boot, BootKeyState, BootsInGarage, BootConfiguration, ConsumeFlag
  <2> QED BY <2>2, <2>3, <2>4
<1>2. CASE DropReset
  BY <1>2 DEF DropReset, ResetDevice, Restart
<1>3. CASE CommitSecurityState
  BY <1>3 DEF CommitSecurityState, Committed, LeachState
<1>4. CASE Unlock
  BY <1>4 DEF Unlock
<1>5. CASE SaveBondings
  BY <1>5 DEF SaveBondings
<1>6. CASE BondingReset
  BY <1>6 DEF BondingReset, ResetDevice, Restart
<1>7. CASE RearmChange
  BY <1>7 DEF RearmChange
<1>8. CASE RearmTail
  BY <1>8 DEF RearmTail
<1>9. CASE PollMailbox
  BY <1>9 DEF PollMailbox, RemoteTypes
<1>10. CASE RemoteDisarmed
  BY <1>10 DEF RemoteDisarmed
<1>11. CASE ReceiveKey
  BY <1>11 DEF ReceiveKey, LeachState
<1>12. CASE LongStar
  BY <1>12 DEF LongStar
<1>13. CASE ForgetWrongPasswords
  BY <1>13 DEF ForgetWrongPasswords
<1>14. CASE Idle
  BY <1>14 DEF Idle
<1>15. CASE TypeKey
  BY <1>15 DEF TypeKey, ReadTyped
<1>16. CASE NewPassword
  BY <1>16 DEF NewPassword, ReadTyped
<1>17. CASE RightPassword
  BY <1>17 DEF RightPassword, ReadTyped
<1>18. CASE Unlocked
  BY <1>18 DEF Unlocked
<1>19. CASE WrongPassword
  BY <1>19 DEF WrongPassword, ReadTyped, LockKeypad
<1>20. CASE EnterGarage
  BY <1>20 DEF EnterGarage
<1>21. CASE EnterNewPassword
  BY <1>21 DEF EnterNewPassword
<1>22. CASE EraseAll
  BY <1>22 DEF EraseAll, DefaultConfiguration
<1>23. CASE ErasePeripherals
  BY <1>23 DEF ErasePeripherals
<1>24. CASE EraseReset
  BY <1>24 DEF EraseReset, ResetDevice, Restart
<1>25. CASE StartBonding
  BY <1>25 DEF StartBonding
<1>26. CASE ProlongGarage
  BY <1>26 DEF ProlongGarage
<1>27. CASE MenuStays
  BY <1>27 DEF MenuStays
<1>28. CASE Disarmed
  BY <1>28 DEF Disarmed, SecurityStep
<1>29. CASE MissingReset
  BY <1>29 DEF MissingReset, ResetDevice, Restart
<1>30. CASE ServeApplication
  BY <1>30 DEF ServeApplication, SecurityStep
<1>31. CASE ApplicationReset
  BY <1>31 DEF ApplicationReset, ResetDevice, Restart
<1>32. CASE Armed
  BY <1>32 DEF Armed, SecurityStep
<1>33. CASE Locked
  BY <1>33 DEF Locked, SecurityStep
<1>34. CASE GarageTimeout
  BY <1>34 DEF GarageTimeout, SecurityStep
<1>35. CASE IgnitionOff
  BY <1>35 DEF IgnitionOff
<1>36. CASE Command
  BY <1>36 DEF Command, RemoteCommand, DefaultConfiguration
<1>37. CASE Tick
  BY <1>37 DEF Tick
<1>38. CASE Crash
  BY <1>38 DEF Crash, Restart
<1>40. CASE PeripheralVerified
  BY <1>40 DEF PeripheralVerified
<1>39. CASE UNCHANGED vars
  BY <1>39
<1> QED
  BY <1>1, <1>2, <1>3, <1>4, <1>5, <1>6, <1>7, <1>8, <1>9, <1>10, <1>11, <1>12, <1>13,
       <1>14, <1>15, <1>16, <1>17, <1>18, <1>19, <1>20, <1>21, <1>22, <1>23, <1>24,
       <1>25, <1>26, <1>27, <1>28, <1>29, <1>30, <1>31, <1>32, <1>33, <1>34, <1>35,
       <1>36, <1>37, <1>38, <1>39, <1>40
  DEF Next, MonitorStep

(* Every behaviour of the monitor task, its resets, power losses, torn saves *)
(* and remote commands included, is a behaviour of SecurityModes.            *)
THEOREM Implementation == Spec => ImplementsModes
<1>1. Init => Modes!Init
  BY DEF Init, Modes!Init, LiveMode, DurableMode
<1>2. IInv /\ IInv' /\ [Next]_vars => [Modes!Next]_<<LiveMode, DurableMode>>
  BY ModesStep
<1> QED
  BY <1>1, <1>2, Invariance, PTL DEF Spec, ImplementsModes, Modes!Spec
=============================================================================
