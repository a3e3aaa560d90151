CONSTANTS
  h1 = h1  h2 = h2  r1 = r1  r2 = r2  l1 = l1  l2 = l2  s1 = s1  s2 = s2  i1 = i1
  None = None  Nobody = Nobody
  Host = {h1, h2}
  RoutineHost = {h1, h2}  LastExecution = 1  Every = 1  LastMoment = 1  FailureThreshold = 1  NoticeAttempts = 1  MaxTroubles = 0
  Refresher = {h1, h2}  Enricher = {}  RefreshJob = {r1}  JobAttempts = 1  LastEdit = 1  LastRevision = 2  LastPage = 1  MaxKnowledgeCrashes = 0
  Post = {l1, l2}  Scan = {s1, s2}  Today = 3  Lookback = 1  ScanWindow = 1  ScanLimit = 1  MaxLinkTroubles = 1  MaxIngestTroubles = 1
  Import = {i1}  ImportHost = {h1, h2}  LastWindow = 1  WindowsPerPass = 1  ImportAttempts = 1  AnalysisBatches = 1  MaxImportTroubles = 0
  LastRecord = 3  KeptRecords = 2  Legacy <- OldFile  MaxSqliteTroubles = 0
SPECIFICATION Background
SYMMETRY Interchangeable
INVARIANTS RecoveredMessagesRun
CHECK_DEADLOCK FALSE
