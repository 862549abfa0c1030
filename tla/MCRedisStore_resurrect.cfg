CONSTANTS
  Client = {c1, c2}
  Never = Never
  Given = Given
  Gone = Gone
  Grace = 2
  SecondLen = 2
  Faults = FALSE
  MaxTime = 5
  MaxClicks = 1
SPECIFICATION Spec
INVARIANTS
  CountersInLockStep
CHECK_DEADLOCK FALSE
