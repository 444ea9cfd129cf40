SPECIFICATION Spec
CONSTANTS
  c1 = c1
  c2 = c2
  c3 = c3
  Coros = {c1, c2, c3}
  NoCoro = NoCoro
  AllowSwitch = TRUE
INVARIANT TypeOK
PROPERTY MoveNeedsMode CallOutcomes AdapterSteps CoroutinesEnd
CHECK_DEADLOCK TRUE
