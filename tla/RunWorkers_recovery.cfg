CONSTANTS
  m1 = m1  m2 = m2  m3 = m3
  t1 = t1  t2 = t2  p1 = p1  w1 = w1  w2 = w2
  None = None
  Msg = {m1, m2, m3}
  Thread = {t1}
  Worker = {w1, w2}
  ThreadOf <- OneThread
  ProjectOf <- InProject
  KindOf <- WithStatus
  SourceOf <- WithRoutine
  SessionScope = "project"
  MaxCrashes = 1
  MaxShutdowns = 0
  MaxRecoveries = 1
  MaxStops = 0
  ProviderSession = FALSE
  ProgressThrows = TRUE
SPECIFICATION WorkersSpec
SYMMETRY WorkerSymmetry
INVARIANTS DoneWasAnswered
CHECK_DEADLOCK FALSE
