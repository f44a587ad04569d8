SPECIFICATION Spec
CONSTANTS
  r1 = r1  r2 = r2  e1 = e1  k1 = k1  k2 = k2
  NoKey = NoKey
  Requests <- MCRequests
  Existing <- MCImages
  Keys <- MCKeys
  Sizes = 2
  MAX_RETRIES = 1
  OFFSET = 2
  Positions <- MCPositions
SYMMETRY MCSymmetry
INVARIANTS  VariantsReadyWhenWritten OriginalKept
CHECK_DEADLOCK FALSE
