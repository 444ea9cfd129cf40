SPECIFICATION Spec
CONSTANTS
  Threads = {t1}
  NoThread = NoThread
  Faults = {"zeroFails", "lateMove", "drop"}
  MaxLost = 1
INVARIANTS TypeOK CleanHandover
PROPERTIES ReleasedKeysStop LostTargetEndsFollow
CHECK_DEADLOCK FALSE
