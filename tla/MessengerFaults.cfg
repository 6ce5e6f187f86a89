SPECIFICATION Spec
CONSTANTS
  Alice = Alice
  Bob = Bob
  Null = Null
  Writers <- Both
  Polls = {p1, p2}
  Opks = 1
  Writes <- ThreeFromAlice
  Faults <- AllFaults
  MaxFaults = 2
  MaxDrops = 2
  MAX_SKIP = 4
SYMMETRY PollSymmetry
INVARIANTS
  ReceivedOnce
  
PROPERTIES
  GoneOnlyWhenStored
CHECK_DEADLOCK FALSE
