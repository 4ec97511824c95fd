SPECIFICATION ConsoleSpec
CONSTANTS
  Newline = "n"
  Blank = "b"
  Char = {"x"}
  Done <- Marker
  Piece = 2
  Compact = 2
  Lines = 2
  Interval = 2
  MaxReceived = 6
INVARIANTS LinesFaithful StartupNoticed BufferBounded BurstBound
CHECK_DEADLOCK FALSE
