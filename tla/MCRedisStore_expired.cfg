CONSTANTS
  Client = {c1}
  Never = Never
  Given = Given
  Gone = Gone
  Grace = 2
  SecondLen = 2
  Faults = FALSE
  MaxTime = 3
  MaxClicks = 0
SPECIFICATION Spec
INVARIANTS
  ExpiredNotFound
CHECK_DEADLOCK FALSE
