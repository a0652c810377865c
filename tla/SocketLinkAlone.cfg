CONSTANTS
  Interfaces <- TwoInterfaces
  Readers = {}
  Writers = {}
  Ports <- BothSigns
  MaxFd = 4
  Socks <- FourSocks
  MaxQueue = 1
  AutoReconnect = TRUE
  AutoRestart = TRUE
  SetupMayFail = FALSE
SPECIFICATION FairSpec
INVARIANTS
  SocketsOwned
  UpMeansConnected
PROPERTIES
  Reconnects
