SPECIFICATION FairSpec
CONSTANTS
  t1 = t1  t2 = t2
  Turns <- MCTurns
  MaxChunks = 2
  CHUNK_SAVE_INTERVAL = 2
  GRAPH_TURN_TIMEOUT = 0
  STALE_PENDING_THRESHOLD = 1
INVARIANTS SavedFollowsStream TurnKnowsItsExperts
PROPERTIES SettledStays PendingEnds
CHECK_DEADLOCK FALSE
