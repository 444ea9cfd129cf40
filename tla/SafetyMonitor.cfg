SPECIFICATION Spec
CONSTANTS
  Watchers = {w1, w2}
  Timeout = 1
  MaxAge = 3
  MaxResets = 1
INVARIANTS TypeOK HardStopHolds LossReportedAfterEstop LatchMeansEstop
PROPERTIES FirstOutageStops
CHECK_DEADLOCK FALSE
