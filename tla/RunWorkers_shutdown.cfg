CONSTANTS
  m1 = m1  m2 = m2  m3 = m3
  t1 = t1  t2 = t2  p1 = p1  w1 = w1  w2 = w2
  None = None
  Msg = {m1, m2, m3}
  Thread = {t1, t2}
  Worker = {w1, w2}
  ThreadOf <- TwoThreads
  ProjectOf <- InProject
  KindOf <- AllModel
  SourceOf <- WithSources
  SessionScope = "project"
  MaxCrashes = 1
  MaxShutdowns = 1
  MaxRecoveries = 0
  MaxStops = 1
  ProviderSession = TRUE
  ProgressThrows = FALSE
SPECIFICATION WorkersSpec
SYMMETRY WorkerSymmetry
INVARIANTS WorkersTypeOK RuntimeExclusive OneExecutorPerRun
PROPERTIES SessionKeepsFollowUps KeepsThePromise
CHECK_DEADLOCK FALSE
