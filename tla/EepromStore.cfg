SPECIFICATION Spec
CONSTANTS
  Tasks = {"monitor", "ble"}
  Monitor = "monitor"
  PAGES = 3
  Values = {0, 1}
  Default = 0
  MAX_CHANGES = 3
  MAX_CRASHES = 2
INVARIANTS
  TypeOK
  QuietStoreIsCurrent
  LoneSaveIsValid
PROPERTIES
  RecoversLastSaved
  ImplementsStore
\* The device is at rest when no task changes anything.
CHECK_DEADLOCK FALSE
