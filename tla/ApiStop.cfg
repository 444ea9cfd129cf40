SPECIFICATION Spec
CONSTANTS
  Cmds = {c1, c2}
  None = None
  Registered = {"follow", "navigation", "explorer"}
  KindsSent = {"follow.start"}
  Drainers = {"post"}
  MaxQueue = 1
  MaxResets = 0
INVARIANTS ApiStopStops
CHECK_DEADLOCK FALSE
