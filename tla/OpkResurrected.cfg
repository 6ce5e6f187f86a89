SPECIFICATION Spec
CONSTANTS
  Requests = {r1, r2, r3}
  Tasks = {t1, t2}
  NUM_ONE_TIME_PREKEYS = 2
  OPK_REPLENISH_THRESHOLD = 1
  MaxRestarts = 0
  Null = Null
INVARIANTS
  ConsumedOpkStaysZero
