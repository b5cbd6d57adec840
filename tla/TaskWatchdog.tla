----------------------------- MODULE TaskWatchdog -----------------------------
(***************************************************************************)
(* The task supervision: monitor_task_set and monitor_task_check           *)
(* (cloud-wise-sdk/logic/monitor.c), called by every task once per pass    *)
(* and by the RTC interrupt (leach/logic/state_machine.c).                 *)
(***************************************************************************)
EXTENDS Naturals

CONSTANTS
  Tasks,              \* TASK_MONITOR_BIT_BLE, _KEYPAD and _MONITOR
  MONITOR_TEST_TIME   \* seconds between two checks, not 0

VARIABLES
  task_keep_alive_array,
  watchdog_monitor_semaphore, \* the task in monitor_task_set, or "free"
  stalled,                    \* tasks that no longer run
  monitor_timer,              \* seconds; counted on from the last multiple of the test time
  reset

vars == <<task_keep_alive_array, watchdog_monitor_semaphore, stalled, monitor_timer, reset>>

Free == "free"

\* monitor_task_set, at the top of a task's loop: take, set, give.
Take(t) ==
  /\ ~reset /\ t \notin stalled /\ watchdog_monitor_semaphore = Free
  /\ watchdog_monitor_semaphore' = t
  /\ UNCHANGED <<task_keep_alive_array, stalled, monitor_timer, reset>>

Set(t) ==
  /\ ~reset /\ watchdog_monitor_semaphore = t
  /\ task_keep_alive_array' = [task_keep_alive_array EXCEPT ![t] = TRUE]
  /\ watchdog_monitor_semaphore' = Free
  /\ UNCHANGED <<stalled, monitor_timer, reset>>

\* A task hangs somewhere else in its pass: waits for ever, or loops.
Stall(t) ==
  /\ ~reset /\ watchdog_monitor_semaphore # t
  /\ stalled' = stalled \cup {t}
  /\ UNCHANGED <<task_keep_alive_array, watchdog_monitor_semaphore, monitor_timer, reset>>

\* monitor_task_check: without the semaphore nothing is looked at, the watchdog is fed
\* and the next check comes; nothing here writes the array.
CheckFails ==
  /\ watchdog_monitor_semaphore = Free
  /\ \E t \in Tasks : ~task_keep_alive_array[t]

CheckDue == monitor_timer = MONITOR_TEST_TIME

\* rtc_handler, once a second: the timer is tested before it is incremented.
Second ==
  /\ ~reset
  /\ reset' = (CheckDue /\ CheckFails)
  /\ monitor_timer' = IF CheckDue THEN 1 ELSE monitor_timer + 1
  /\ UNCHANGED <<task_keep_alive_array, watchdog_monitor_semaphore, stalled>>

Next == Second \/ \E t \in Tasks : Take(t) \/ Set(t) \/ Stall(t)

Init ==
  /\ task_keep_alive_array = [t \in Tasks |-> FALSE]
  /\ watchdog_monitor_semaphore = Free
  /\ stalled = {} /\ monitor_timer = 0 /\ reset = FALSE

\* The interrupt keeps coming, and a task in monitor_task_set gets through it.
FairSpec ==
  /\ Init /\ [][Next]_vars
  /\ WF_vars(Second) /\ \A t \in Tasks : WF_vars(Set(t))

-----------------------------------------------------------------------------
(* docs/PROJECT_OVERVIEW.md: "if a task stalls, monitor_task_check() detects it and *)
(* can log or reset".  So a task that stays stalled while checks that get the       *)
(* semaphore go on is reset.  But nothing clears the array: once every task has     *)
(* passed its loop head one time, no check can fail.                                *)
StallIsDetected ==
  \A t \in Tasks :
    []<><<Second /\ CheckDue /\ watchdog_monitor_semaphore = Free /\ t \in stalled>>_vars
      => <>reset
=============================================================================
