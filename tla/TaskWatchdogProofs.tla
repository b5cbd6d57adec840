-------------------------- MODULE TaskWatchdogProofs --------------------------
(***************************************************************************)
(* What the supervision of the tasks can see, for any number of tasks and  *)
(* any test time: nothing clears task_keep_alive_array, so that a bit says *)
(* that a task has run, not that it still runs.                            *)
(***************************************************************************)
EXTENDS TaskWatchdog, TLAPS

\* Every task has been at the head of its loop once since the reset.
AllPassed == \A t \in Tasks : task_keep_alive_array[t]

\* A task of which the check has seen nothing yet.
SomeNeverPassed == \E t \in Tasks : ~task_keep_alive_array[t]

Types == task_keep_alive_array \in [Tasks -> BOOLEAN] /\ reset \in BOOLEAN

\* The bits are only ever set, and only the check resets the device.
LEMMA Step ==
  ASSUME Types, [Next]_vars
  PROVE  /\ Types'
         /\ \A t \in Tasks : task_keep_alive_array[t] => task_keep_alive_array'[t]
         /\ reset' # reset => Second /\ CheckDue /\ CheckFails
         /\ reset => UNCHANGED task_keep_alive_array
<1> USE DEF Types
<1>1. CASE Second
  <2>1. UNCHANGED task_keep_alive_array /\ ~reset
    BY <1>1 DEF Second
  <2>2. reset' \in BOOLEAN /\ (reset' # reset => CheckDue /\ CheckFails)
    BY <1>1, Zenon DEF Second
  <2> QED BY <1>1, <2>1, <2>2
<1>2. CASE \E t \in Tasks : Take(t) \/ Stall(t)
  <2>1. UNCHANGED <<task_keep_alive_array, reset>>
    BY <1>2 DEF Take, Stall
  <2> QED BY <2>1
<1>3. CASE \E t \in Tasks : Set(t)
  <2>1. PICK t \in Tasks : Set(t)
    BY <1>3
  <2>2. ~reset /\ UNCHANGED reset
        /\ task_keep_alive_array' = [task_keep_alive_array EXCEPT ![t] = TRUE]
    BY <2>1 DEF Set
  <2>3. Types' /\ \A u \in Tasks : task_keep_alive_array[u] => task_keep_alive_array'[u]
    BY <2>2, Zenon
  <2> QED BY <2>2, <2>3
<1>4. CASE UNCHANGED vars
  BY <1>4 DEF vars
<1> QED
  BY <1>1, <1>2, <1>3, <1>4 DEF Next

LEMMA TypesCorrect == FairSpec => []Types
<1>1. Init => Types
  BY DEF Init, Types
<1>2. Types /\ [Next]_vars => Types'
  BY Step
<1> QED
  BY <1>1, <1>2, PTL DEF FairSpec

(* Once every task has passed the head of its loop one time, monitor_task_check   *)
(* never resets the device again, whichever tasks stall and for how long; and     *)
(* that stays so.                                                                 *)
THEOREM BlindAfterFirstPass ==
  FairSpec => [][AllPassed => AllPassed' /\ reset' = reset]_vars
<1>1. Types /\ [Next]_vars => [AllPassed => AllPassed' /\ reset' = reset]_vars
  <2> SUFFICES ASSUME Types, [Next]_vars, AllPassed
               PROVE  AllPassed' /\ reset' = reset
    OBVIOUS
  <2>1. AllPassed'
    BY Step DEF AllPassed
  <2>2. ~CheckFails
    BY DEF CheckFails, AllPassed
  <2>3. reset' = reset
    BY <2>2, Step
  <2> QED BY <2>1, <2>3
<1> QED
  BY <1>1, TypesCorrect, PTL DEF FairSpec

(* The check never resets in vain: when it does, a task has not run even once      *)
(* since the device started.                                                       *)
THEOREM ResetMeansNeverRan == FairSpec => [](reset => SomeNeverPassed)
<1> DEFINE Inv == reset => SomeNeverPassed
<1>1. Init => Inv
  BY DEF Init
<1>2. Types /\ Inv /\ [Next]_vars => Inv'
  <2> SUFFICES ASSUME Types, Inv, [Next]_vars, reset' PROVE SomeNeverPassed'
    OBVIOUS
  <2>1. CASE Second /\ CheckDue /\ CheckFails
    BY <2>1 DEF Second, CheckFails, SomeNeverPassed
  <2>2. CASE ~(Second /\ CheckDue /\ CheckFails)
    BY <2>2, Step DEF SomeNeverPassed
  <2> QED BY <2>1, <2>2
<1> QED
  BY <1>1, <1>2, TypesCorrect, PTL DEF FairSpec
===============================================================================
