SPECIFICATION Spec
CONSTANTS
  Cmds = {c1, c2}
  None = None
  Registered = {"follow", "navigation", "explorer"}
  KindsSent = {"follow.start", "mission.stop"}
  Drainers = {"post"}
  MaxQueue = 2
  MaxResets = 0
PROPERTIES AcceptedSettles StopSettles GateSpec
CHECK_DEADLOCK FALSE
