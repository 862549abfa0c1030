CONSTANTS
  Client = {c1, c2, c3}
  Never = Never
  Given = Given
  Gone = Gone
  Grace = 4
  SecondLen = 2
  Patience = 1
  Faults = TRUE
  MaxTime = 8
  MaxClicks = 2
SPECIFICATION Spec
SYMMETRY Symmetry
INVARIANTS
  TypeOK
  ColumnsAgree
PROPERTIES
  ClicksKept
  EventsKept
  ImplementsLifecycle
CHECK_DEADLOCK FALSE
