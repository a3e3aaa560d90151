CONSTANTS
  h1 = h1  h2 = h2  e1 = e1  e2 = e2  c1 = c1  c2 = c2  a1 = a1  a2 = a2  a3 = a3  t1 = t1  t2 = t2
  f1 = f1  n1 = n1  n2 = n2  j1 = j1  j2 = j2  u1 = u1  d1 = d1  d2 = d2  d3 = d3  q1 = q1  None = None
  Host = {h1, h2}
  Envelope = {e1, e2}  CardUpdate = {e1, e2}  Scope <- OneScope  SendAttempts = 2  MaxOutboxCrashes = 1
  Call = {c1, c2}  Approval = {a1, a2, a3}  ApprovalsKept = 1  MaxApprovalCrashes = 1
  Task = {t1, t2}  TaskAttempts = 2  MaxTaskCrashes = 1
  Flow = {f1}  Node = {n1, n2}  DependsOn <- Chain  NodeRetries = 1  MaxCoordinatorTroubles = 2
  WrapupJob = {j1}  LastEntry = 3  EntriesPerWrapup = 1  WrapupAttempts = 2  MaxWrapupCrashes = 1  MaxAnalysisFailures = 0
  FollowUp = {u1}  LastTurn = 3
  Update = {d1, d2, d3}  MaxStoreCrashes = 1
  Fact <- Facts  Proposal = {q1}  LastVersion = 3  LastHour = 1  KeepLatest = 2
SPECIFICATION Deliveries
SYMMETRY Interchangeable
INVARIANTS DeliveriesTypeOK  WrittenOnceIfGranted SpentOnce CancellationReachesRuns NothingIsSkipped WrittenStays
INVARIANTS AcknowledgedWasTaken InterruptsWhatItCancels
PROPERTIES GrantsAreOneTime ExpiryFollowsItsLine ReviewedEditsTakeWhatTheyRead
CHECK_DEADLOCK FALSE
