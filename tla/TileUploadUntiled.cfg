SPECIFICATION Spec
CONSTANTS
  q1 = q1  q2 = q2  d1 = d1  d2 = d2
  Completes <- MCCompletes
  Deliveries <- MCOneDelivery
  MAX_RETRIES = 1
INVARIANTS UploadedIsProcessed
CHECK_DEADLOCK FALSE
