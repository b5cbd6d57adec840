\* Two leaches (the phone app advertises as one) and a modem, two links,
\* two connections in a behaviour, a list of four.
CONSTANTS
  Leaches = {l1, l2}
  Canbuses = {}
  Modems = {m1}
  LINKS = 2
  MAX_CONNECTIONS = 4
  MAX_SESSIONS = 2
  NoDevice = none
SPECIFICATION Spec
SYMMETRY Symmetry
CONSTRAINT Bound
INVARIANTS TypeOK SavedDistinct EnrolmentList RosterIsSaved ScanPending
PROPERTY SavedWasEnrolled
