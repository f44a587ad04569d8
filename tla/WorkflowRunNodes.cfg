SPECIFICATION Spec
CONSTANTS
  d1 = d1  d2 = d2  c1 = c1
  N = 3
  Deliveries <- MCOneDelivery
  CancelRequests <- MCOneCancel
INVARIANTS RunMatchesNodes InputFailureIsTheUsers
PROPERTY ImplementsDag
CHECK_DEADLOCK FALSE
