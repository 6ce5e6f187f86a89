SPECIFICATION Spec
CONSTANTS
  Ann = Ann
  Ben = Ben
  Accounts = {Ann, Ben}
  Null = Null
  Incoming <- OneEach
  Outgoing <- OneFromAnn
  Attempts <- TwiceAnn
  MaxTurns = 3
  MaxRemovals = 1
INVARIANTS
  RevokedBeforeRead
CHECK_DEADLOCK FALSE
