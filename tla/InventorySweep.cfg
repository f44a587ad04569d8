SPECIFICATION Spec
CONSTANTS
  r1 = r1  r2 = r2  e1 = e1  k1 = k1  k2 = k2
  NoKey = NoKey
  Requests <- MCOneRequest
  Existing <- MCNoImages
  Keys <- MCOneKey
  Sizes = 1
  MAX_RETRIES = 0
  OFFSET = 2
  Positions <- MCPositions
PROPERTY SweepHidesTheStale
CHECK_DEADLOCK FALSE
