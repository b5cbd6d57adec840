SPECIFICATION Spec
CONSTANTS
  Tasks = {"monitor", "ble"}
  Pitches = {1, 2}
  MAX_NOTES = 2
  MAX_ROUNDS = 3
INVARIANTS
  TypeOK
  QuietBuzzer
  MelodiesExclusive
  OwnPitch
