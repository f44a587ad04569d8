SPECIFICATION MCSpec
CONSTANTS
  a = a  b = b  c = c  NoId = NoId
  Definitions <- MCDefinitionSet
  Uploaded <- MCUploaded
  MaxJobs = 2
INVARIANTS SavedIsSorted  OutputAsPromised DemToolsReadElevation
CHECK_DEADLOCK FALSE
