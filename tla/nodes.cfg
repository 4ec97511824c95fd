SPECIFICATION DividedSpec
CONSTANTS
  a = a
  b = b
  Node = {a, b}
  Home = a
  Dest = b
  Nowhere = Nowhere
  BootPages = 1
  MaxRequests = 3
  NodeRequests = 2
  MaxCrashes = 1
INVARIANTS DeletedStaysDown FilesKept
PROPERTY Recovers
CHECK_DEADLOCK FALSE
