SPECIFICATION FairSpec
CONSTANTS
  m1 = m1
  m2 = m2
  m3 = m3
  d1 = d1
  d2 = d2
  Messages = {m1, m2}
  Contents = {d1, d2}
  Digest <- Different
  Workers = {w1, w2}
  Deployers <- OnlyServer
  RpcMayFail = FALSE
  MaxRestarts = 0
  Null = Null
PROPERTIES
  EventuallyVerified
CHECK_DEADLOCK FALSE
