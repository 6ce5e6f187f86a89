SPECIFICATION FairSpec
CONSTANTS
  Alice = Alice
  Bob = Bob
  Null = Null
  Writers <- OnlyAlice
  Polls = {p1}
  Opks = 3
  Writes <- ThreeAndTwo
  Faults <- NoFaults
  MaxFaults = 0
  MaxDrops = 1
  MAX_SKIP = 4
INVARIANTS
  TypeOK
  NothingDropped
  ReceivedIsPrefix
PROPERTIES
  SavedBeforeDeleted
  EventuallyReceived
CHECK_DEADLOCK FALSE
