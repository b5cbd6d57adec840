SPECIFICATION HistorySpec
CONSTANTS
  Keys = {4, 5, 6}
  QUEUE_SIZE = 1
  DEFAULT_PASSWORD <- Default5
  WRONG_PASSWORD_TRIES = 1
  LOCKED_STATE_TIME_SEC = 0
  DISARM_WITHOUT_DRIVING_SEC = 0
  DISARM_GARAGE_TIMEOUT_SEC = 0
  RemoteCommands = {}
  RemoteValues = {0}
  RemotePasswords = {}
  Residue = {}
  LinksFail = FALSE
  AppSerials = {}
  TornSaves = FALSE
  MAX_VALUE = 0
  MAX_CRASHES = 0
PROPERTIES
  BondingEndsInReset
