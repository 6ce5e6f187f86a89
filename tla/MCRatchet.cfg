SPECIFICATION BreakInSpec
CONSTANTS
  Alice = Alice
  Bob = Bob
  Null = Null
  MAX_SKIP = 2
  MaxSend = 4
  MaxReplays = 1
  TheftBy = 2
INVARIANTS
  TypeOK
  NewMessagesOpen
  CacheExact
  OneKeyPerMessage
  AtMostOnce
  ForwardSecrecy
  Healing
PROPERTIES
  ImplementsChannel
CHECK_DEADLOCK FALSE
