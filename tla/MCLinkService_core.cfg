CONSTANTS
  Id = {a, b, s}
  Field = {f}
  Val = {v0, v1}
  Never = Never
  Given = Given
  Grace = 2
  SecondLen = 2
  Req = {r1, r2}
  SkipPath = {s}
  Expiry = {Never, 3}
  MaxTime = 3
  MaxClicks = 1
SPECIFICATION Spec
SYMMETRY Symmetry
INVARIANTS
  TypeOK
  DeletionRecordsAgree
  Reachable
  CountersBounded
PROPERTIES
  NoEarlyPurge
  BackOnlyByStalePatch
  KeepsClicksAndExpiry
  OmittedFieldsKept
  ImplementsLifecycle
  FollowsFlushes
CHECK_DEADLOCK FALSE
