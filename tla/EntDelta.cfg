SPECIFICATION Spec
CONSTANTS
  UPDATE_BACKUP = 4
  Bytes = 8
  MaxNumber = 10
  MaxLevel = 1
CHECK_DEADLOCK FALSE
INVARIANTS TypeOK ShowsSnapshot
PROPERTY StreamOfSnapshots
