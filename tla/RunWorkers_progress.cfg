CONSTANTS
  m1 = m1  m2 = m2  m3 = m3
  t1 = t1  t2 = t2  p1 = p1  w1 = w1  w2 = w2
  None = None
  Msg = {m1, m2, m3}
  Thread = {t1}
  Worker = {w1, w2}
  ThreadOf <- OneThread
  ProjectOf <- InProject
  KindOf <- AllModel
  SourceOf <- AllMessages
  SessionScope = "project"
  MaxCrashes = 0
  MaxShutdowns = 0
  MaxRecoveries = 0
  MaxStops = 1
  ProviderSession = TRUE
  ProgressThrows = FALSE
SPECIFICATION FairWorkers
INVARIANTS AnsweredOnce
PROPERTIES EveryMessageSettles
CHECK_DEADLOCK FALSE
