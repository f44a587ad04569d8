SPECIFICATION FairSpec
CONSTANTS
  r1 = r1
  Nodes <- MCNodes
  Datasets <- MCDatasets
  Requests <- MCRequests
  Root = Root
INVARIANT ClosureExact
PROPERTIES DestroyIsExact MoveEnds
CHECK_DEADLOCK FALSE
