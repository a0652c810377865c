CONSTANTS
  Interfaces <- OneInterface
  Readers <- OneInterface
  Writers = {}
  Ports <- ShippedPort
  MaxFd = 3
  Socks <- ThreeSocks
  MaxQueue = 1
  AutoReconnect = TRUE
  AutoRestart = TRUE
  SetupMayFail = FALSE
SPECIFICATION FairSpec
PROPERTIES
  Reconnects
