CONSTANTS
  e1 = e1
  e2 = e2
  e3 = e3
  e4 = e4
  l1 = l1
  l2 = l2
  Event <- MCEvent
  Link <- MCLink
  LinkOf <- MCLinkOf
  BufSize = 2
  StoreFaults = FALSE
SPECIFICATION FairSpec
INVARIANTS
  ExactWithoutFaults
PROPERTIES
  EventuallySettled
  StopReturns
CHECK_DEADLOCK FALSE
