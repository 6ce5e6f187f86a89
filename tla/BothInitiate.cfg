SPECIFICATION Spec
CONSTANTS
  Alice = Alice
  Bob = Bob
  Null = Null
  Writers <- Both
  Polls = {p1}
  Opks = 2
  Writes <- OneEach
  Faults <- NoFaults
  MaxFaults = 1
  MaxDrops = 1
  MAX_SKIP = 4
INVARIANTS
  NothingDropped
CHECK_DEADLOCK FALSE
