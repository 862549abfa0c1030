CONSTANTS
  Id = {a}
  Field = {f}
  Val = {v0}
  Never = Never
  Given = Given
  Grace = 3
  SecondLen = 2
  Req = {r1}
  SkipPath = {}
  Expiry = {Never}
  MaxTime = 2
  MaxClicks = 0
SPECIFICATION Spec
PROPERTIES
  DeletedStaysDeleted
CHECK_DEADLOCK FALSE
