\* One known leach that connects is enough.
CONSTANTS
  Leaches = {l1, l2}
  Canbuses = {}
  Modems = {m1}
  LINKS = 2
  MAX_CONNECTIONS = 4
  MAX_SESSIONS = 1
  NoDevice = none
SPECIFICATION Spec
INVARIANT ListExclusive
