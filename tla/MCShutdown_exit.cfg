CONSTANTS
  e1 = e1
  e2 = e2
  e3 = e3
  l1 = l1
  l2 = l2
  Event <- MCEvent
  Link <- MCLink
  LinkOf <- MCLinkOf
  BufSize = 2
  StoreFaults = FALSE
  Backend = {"memory", "sqlite", "redis"}
  MaxStarts = 2
SPECIFICATION FairRunSpec
INVARIANTS
  RunTypeOK
  StoreLifetime
  LossIsBounded
  ExactAcrossRestarts
  DriftOnlyByKill
PROPERTIES
  SignalEndsProcess
CHECK_DEADLOCK FALSE
