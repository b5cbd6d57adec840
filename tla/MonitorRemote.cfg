SPECIFICATION HistorySpec
CONSTANTS
  Keys = {1, 2, 6}
  QUEUE_SIZE = 1
  DEFAULT_PASSWORD <- Default2
  WRONG_PASSWORD_TRIES = 2
  LOCKED_STATE_TIME_SEC = 1
  DISARM_WITHOUT_DRIVING_SEC = 1
  DISARM_GARAGE_TIMEOUT_SEC = 0
  RemoteCommands = {"DISARM", "ARM", "OTHER"}
  RemoteValues = {0}
  RemotePasswords = {}
  Residue <- AnyMessage
  LinksFail = TRUE
  AppSerials = {}
  TornSaves = TRUE
  MAX_VALUE = 1
  MAX_CRASHES = 1
INVARIANTS
  IInv
  LockInForce
  LockDurable
  DefaultDurationWhenArmed
  DisarmAuthorised
  GuessesBounded
PROPERTIES
  ImplementsModes
  SessionNotCutShort
  LockServed
