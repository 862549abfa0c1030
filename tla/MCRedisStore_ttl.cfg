CONSTANTS
  Client = {c1}
  Never = Never
  Given = Given
  Gone = Gone
  Grace = 2
  SecondLen = 2
  Faults = FALSE
  MaxTime = 5
  MaxClicks = 1
SPECIFICATION Spec
INVARIANTS
  SideKeysShareTTL
CHECK_DEADLOCK FALSE
