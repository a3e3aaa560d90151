CONSTANTS
  h1 = h1  h2 = h2  e1 = e1  e2 = e2  c1 = c1  c2 = c2  a1 = a1  a2 = a2  a3 = a3  t1 = t1  t2 = t2
  f1 = f1  n1 = n1  n2 = n2  j1 = j1  j2 = j2  u1 = u1  d1 = d1  d2 = d2  d3 = d3  q1 = q1  None = None
  Host = {h1, h2}
  Envelope = {e1}  CardUpdate = {e1}  Scope <- OneScope  SendAttempts = 1  MaxOutboxCrashes = 0
  Call = {c1}  Approval = {a1}  ApprovalsKept = 1  MaxApprovalCrashes = 0
  Task = {t1}  TaskAttempts = 1  MaxTaskCrashes = 0
  Flow = {f1}  Node = {n1, n2}  DependsOn <- Chain  NodeRetries = 1  MaxCoordinatorTroubles = 2
  WrapupJob = {j1}  LastEntry = 1  EntriesPerWrapup = 1  WrapupAttempts = 1  MaxWrapupCrashes = 0  MaxAnalysisFailures = 0
  FollowUp = {}  LastTurn = 1
  Update = {d1}  MaxStoreCrashes = 0
  Fact <- Facts  Proposal = {}  LastVersion = 1  LastHour = 1  KeepLatest = 1
SPECIFICATION Deliveries
SYMMETRY Interchangeable
INVARIANTS OnlyCancelledExecutionsStop
CHECK_DEADLOCK FALSE
