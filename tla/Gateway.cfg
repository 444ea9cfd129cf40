SPECIFICATION Spec
CONSTANTS
  Cmds = {c1, c2}
  None = None
  Registered = {"follow", "navigation", "explorer"}
  KindsSent = {"follow.start", "follow.hold", "scan.start", "mission.stop"}
  Drainers = {"post", "heartbeat"}
  MaxQueue = 1
  MaxResets = 1
SYMMETRY Requests
INVARIANTS TypeOK OneLine NothingNewAfterStop ModesAgree
PROPERTIES OneSlipsThrough
CHECK_DEADLOCK FALSE
