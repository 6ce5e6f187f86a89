SPECIFICATION Spec
CONSTANTS
  Alice = Alice
  Bob = Bob
  Null = Null
  Writers <- OnlyAlice
  Polls = {p1}
  Opks = 2
  Writes <- ThreeFromAlice
  Faults <- FailedDelete
  MaxFaults = 1
  MaxDrops = 1
  MAX_SKIP = 4
INVARIANTS
  NoLossByDeletion
CHECK_DEADLOCK FALSE
