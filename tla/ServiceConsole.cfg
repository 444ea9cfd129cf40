SPECIFICATION Spec
CONSTANTS
  Requests = {r1, r2}
  Threads = {t1, t2}
  NoThread = NoThread
  Faults = {"zeroFails", "lateMove", "overrun", "drop"}
  MaxLost = 1
  MotionEnabled = TRUE
INVARIANTS TypeOK EstopSticks CleanHandover CommandLeavesNothing StateTells
PROPERTIES NoNewMoveUnderEstop LegalModes RequestsSettle LostTargetEndsFollow
CHECK_DEADLOCK FALSE
