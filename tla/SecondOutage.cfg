SPECIFICATION Spec
CONSTANTS
  Watchers = {w1}
  Timeout = 1
  MaxAge = 2
  MaxResets = 0
PROPERTIES OutageReported
CHECK_DEADLOCK FALSE
