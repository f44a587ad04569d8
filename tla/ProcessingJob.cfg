SPECIFICATION FairSpec
CONSTANTS
  d1 = d1  d2 = d2  c1 = c1
  NoDelivery = NoDelivery
  Deliveries <- MCDeliveries
  CancelRequests <- MCCancelRequests
  OpProgress <- MCOpProgress
  PROGRESS_STEP = 5
INVARIANTS CompletedMeansProduced PublishedWhole StuckOnlyIfKilled OutputMatchesJob
PROPERTIES ProgressNeverBack JobSettles
CHECK_DEADLOCK FALSE
