CONSTANTS
  h1 = h1  h2 = h2  r1 = r1  r2 = r2  l1 = l1  l2 = l2  s1 = s1  s2 = s2  i1 = i1
  None = None  Nobody = Nobody
  Host = {h1, h2}
  RoutineHost = {h1}  LastExecution = 2  Every = 1  LastMoment = 1  FailureThreshold = 1  NoticeAttempts = 1  MaxTroubles = 1
  Refresher = {h1}  Enricher = {h2}  RefreshJob = {r1}  JobAttempts = 2  LastEdit = 1  LastRevision = 2  LastPage = 1  MaxKnowledgeCrashes = 1
  Post = {l1, l2}  Scan = {s1}  Today = 3  Lookback = 3  ScanWindow = 1  ScanLimit = 2  MaxLinkTroubles = 1  MaxIngestTroubles = 0
  Import = {i1}  ImportHost = {h1}  LastWindow = 2  WindowsPerPass = 1  ImportAttempts = 2  AnalysisBatches = 1  MaxImportTroubles = 2
  LastRecord = 3  KeptRecords = 2  Legacy <- OldFile  MaxSqliteTroubles = 0
SPECIFICATION FairBackground
INVARIANTS PassagesFitText
PROPERTIES EveryRoutineSettles EveryJobSettles  EveryImportEnds
CHECK_DEADLOCK FALSE
