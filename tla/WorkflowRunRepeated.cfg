SPECIFICATION FairSpec
CONSTANTS
  d1 = d1  d2 = d2  c1 = c1
  N = 2
  Deliveries <- MCTwoDeliveries
  CancelRequests <- MCOneCancel
INVARIANT OrphanedOnlyIfKilled
PROPERTY RunSettles
CHECK_DEADLOCK FALSE
