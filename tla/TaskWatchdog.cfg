SPECIFICATION FairSpec
CONSTANTS
  Tasks = {"ble", "keypad", "monitor"}
  MONITOR_TEST_TIME = 2
PROPERTIES
  StallIsDetected
\* A reset ends the behaviour.
CHECK_DEADLOCK FALSE
