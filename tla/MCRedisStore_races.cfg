CONSTANTS
  Client = {c1, c2}
  Never = Never
  Given = Given
  Gone = Gone
  Grace = 4
  SecondLen = 2
  Faults = TRUE
  MaxTime = 6
  MaxClicks = 1
SPECIFICATION Spec
SYMMETRY Symmetry
INVARIANTS
  TypeOK
  DeletedIsTemporary
  CountersKept
PROPERTIES
  ImplementsLifecycle
CHECK_DEADLOCK FALSE
