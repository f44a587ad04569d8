SPECIFICATION FairSpec
CONSTANTS
  q1 = q1  q2 = q2  d1 = d1  d2 = d2
  Completes <- MCCompletes
  Deliveries <- MCTwoDeliveries
  MAX_RETRIES = 1
INVARIANTS ServedFilesExist AbortIsFinal StatusIsOwned UntiledForAReason
PROPERTY ConversionEnds
CHECK_DEADLOCK FALSE
