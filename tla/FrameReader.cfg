CONSTANTS
  Lengths = {0, 1, 2, 5}
  MaxPacketSize = 3
  HeadersWhole = TRUE
  MaxFrames = 3
  WordSize = 64
SPECIFICATION FairSpec
INVARIANTS
  TypeOK
  WritesInBounds
  CursorTracksRemaining
PROPERTIES
  DeliversFrames
  AllFramesDelivered
CHECK_DEADLOCK FALSE
