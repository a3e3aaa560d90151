CONSTANTS
  h1 = h1  h2 = h2  r1 = r1  r2 = r2  l1 = l1  l2 = l2  s1 = s1  s2 = s2  i1 = i1
  None = None  Nobody = Nobody
  Host = {h1, h2}
  RoutineHost = {h1, h2}  LastExecution = 2  Every = 1  LastMoment = 2  FailureThreshold = 3  NoticeAttempts = 1  MaxTroubles = 1
  Refresher = {h1, h2}  Enricher = {}  RefreshJob = {r1, r2}  JobAttempts = 2  LastEdit = 3  LastRevision = 5  LastPage = 2  MaxKnowledgeCrashes = 0
  Post = {l1, l2}  Scan = {s1, s2}  Today = 3  Lookback = 1  ScanWindow = 1  ScanLimit = 1  MaxLinkTroubles = 1  MaxIngestTroubles = 1
  Import = {i1}  ImportHost = {h1, h2}  LastWindow = 2  WindowsPerPass = 2  ImportAttempts = 2  AnalysisBatches = 1  MaxImportTroubles = 2
  LastRecord = 3  KeptRecords = 2  Legacy <- OldFile  MaxSqliteTroubles = 1
SPECIFICATION Background
SYMMETRY Interchangeable
INVARIANTS BackgroundTypeOK
INVARIANTS CompletedMeansRan ValidatorMatchesText
INVARIANTS  ImportSkipsNothing
PROPERTIES RefreshOverwritesNothing StoreIsAtomic
CHECK_DEADLOCK FALSE
