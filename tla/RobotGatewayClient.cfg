SPECIFICATION Spec
CONSTANTS
  Calls = {c1}
INVARIANTS TypeOK LossesAreFounded
PROPERTIES ReachableAgrees UnreachableNoticed EventsResume CallsReturn
CHECK_DEADLOCK FALSE
