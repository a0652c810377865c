CONSTANTS
  Lengths = {0, 1, 2, 5}
  MaxPacketSize = 3
  HeadersWhole = FALSE
  MaxFrames = 2
  WordSize = 64
SPECIFICATION Spec
PROPERTIES
  DeliversFrames
CHECK_DEADLOCK FALSE
