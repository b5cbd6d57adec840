SPECIFICATION Spec
CONSTANTS
  Keys = {1, 3, 4, 5, 6}
  QUEUE_SIZE = 1
  DEFAULT_PASSWORD <- Default5
  WRONG_PASSWORD_TRIES = 1
  LOCKED_STATE_TIME_SEC = 0
  DISARM_WITHOUT_DRIVING_SEC = 0
  DISARM_GARAGE_TIMEOUT_SEC = 0
  RemoteCommands = {"BACK_DEFAULT", "NEW_PASSWORD"}
  RemoteValues = {0}
  RemotePasswords <- PasswordOnes
  Residue = {}
  LinksFail = TRUE
  AppSerials = {"same", "other"}
  TornSaves = FALSE
  MAX_VALUE = 0
  MAX_CRASHES = 1
INVARIANTS
  GarageFlagConsumed
  ArmedIsRecorded
PROPERTIES
  ImplementsModes
CONSTRAINT
  OneNewPassword
