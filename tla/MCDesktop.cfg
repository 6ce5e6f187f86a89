SPECIFICATION FairSpec
CONSTANTS
  Ann = Ann
  Ben = Ben
  Accounts = {Ann, Ben}
  Null = Null
  Incoming <- OneEach
  Outgoing <- OneFromAnn
  Attempts <- TwiceAnn
  MaxTurns = 3
  MaxRemovals = 1
INVARIANTS
  TypeOK
  FilesApart
  
  KeysFit
  ViewMatchesLog
  RevokedStaysGone

  
CHECK_DEADLOCK FALSE
