CONSTANTS
  Messages = {m1, m2}
  DocumentRetries = 1
  ExecutionTimeout = 3
  MaxPolls = 5
  StartLimit = 1
  ClockLimit = 6
  OutputFiles = {f1, f2}
  AgentFiles <- MCAgentFiles
  Owners = {"agent", "user"}
  ItemIds = {1, 2, 3}
  SortKeys <- MCSortKeys
  NullKey = 1000
  Grain = 3
  Limits = {0, 1, 2}
  PageLimit = 4
  EditLimit = 2
  Sellers = {s1, s2}
  Patches = {p1}
  Buyers = {b1, b2}
  Changes = 3
  Lists = {l1, l2}
  Adds = {r1, r2, r3}
  Products = {p1}
  MaxItems = 2
  CompactionThreshold = 4
  MaxContextMessages = 4
  RecentMessages = 2
  MaxIterations = 2
  MaxCalls = 2
  HistoryLimit = 10
  Notices = {n1}
  Leads = {d1, d2}
  InboxLimit = 1
  StreamLimit = 3
  CsvMaxRows = 3
  FileLimit = 4
SPECIFICATION MCSpec
INVARIANTS DocumentWholeOnce AnswerMatchesRun LayerShowsItsData PagesExact NearbyStaleForAReason   ContextKeepsTurn  BulkUploadWhole
CHECK_DEADLOCK FALSE
