CONSTANTS
  m1 = m1  m2 = m2  m3 = m3
  t1 = t1  t2 = t2  p1 = p1  w1 = w1  w2 = w2
  None = None
  Msg = {m1, m2, m3}
  Thread = {t1, t2}
  Worker = {w1, w2}
  ThreadOf <- TwoThreads
  ProjectOf <- InProject
  KindOf <- AllModel
  SourceOf <- WithSources
  SessionScope = "project"
SPECIFICATION SyncSpec
SYMMETRY WorkerSymmetry
INVARIANTS ContinuationAgrees ClaimsFollowTheRun
PROPERTIES OutcomeIsFinal TurnHandsOver
CHECK_DEADLOCK FALSE
