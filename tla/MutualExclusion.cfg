SPECIFICATION Spec
CONSTANTS
  Cmds = {c1, c2}
  None = None
  Registered = {"follow", "navigation", "explorer"}
  KindsSent = {"scan.start", "follow.start"}
  Drainers = {}
  MaxQueue = 1
  MaxResets = 0
INVARIANTS MutualExclusion
CHECK_DEADLOCK FALSE
