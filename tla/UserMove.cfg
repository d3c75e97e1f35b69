SPECIFICATION Spec
CONSTANTS
  Keys = {k1, k2, k3}
  VOID_KEY = console
  Ring = 4
  ImpulseBackup = 3
  Pps = TRUE
  MaxRepeatGap = 4
  MaxCommands = 5
  MaxEvents = 4
  MaxPauses = 1
SYMMETRY KeySymmetry
CHECK_DEADLOCK FALSE
INVARIANTS TypeOK CommandsFollowKeys RunOnce TimeKept ImpulsesAreBackedUp
PROPERTIES RepeatMeansLoss
