SPECIFICATION Spec
CONSTANTS
  r1 = r1
  Nodes <- MCNodes
  Datasets <- MCDatasets
  Requests <- MCRequests
  Root = Root
INVARIANT FilesOfTheLiveKept
CHECK_DEADLOCK FALSE
