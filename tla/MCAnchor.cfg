SPECIFICATION FairSpec
CONSTANTS
  m1 = m1
  m2 = m2
  m3 = m3
  d1 = d1
  d2 = d2
  Messages = {m1, m2, m3}
  Contents = {d1, d2}
  Digest <- TwoAlike
  Workers = {w1, w2}
  Deployers <- Anyone
  RpcMayFail = TRUE
  MaxRestarts = 1
  Null = Null
INVARIANTS
  TypeOK
  VerdictRight
  RecordedOnce
PROPERTIES
  VerdictStays
  JobsEnd
CHECK_DEADLOCK FALSE
