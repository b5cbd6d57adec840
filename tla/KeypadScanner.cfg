SPECIFICATION Spec
CONSTANTS
  Keys = {1, 5, 6}
  LONG_PRESS = 3
  ScanTimes = {1, 2}
  Residue <- ShortReleases
  MAX_TOUCHES = 3
INVARIANTS
  TypeOK
  TouchCountsOnce
  LostOnlyWhenFull
  DigitsWereTouched
