SPECIFICATION FairSpec
CONSTANTS
  Calls = {c1, c2, c3}
  Buf = 2
  Rec = 5
  Requests <- RequestLengths
  Answers <- AnswerLengths
  MaxFaults = 1
  MaxLeft = 1
  Null = Null
INVARIANTS
  TypeOK
  RequestIsARecord
  AnswerIsARecord
PROPERTIES
  EveryCallEnds
  ImplementsExchange
CHECK_DEADLOCK FALSE
