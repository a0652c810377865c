CONSTANTS
  Interfaces <- OneInterface
  Readers <- OneInterface
  Writers <- OneInterface
  Ports <- ShippedPort
  MaxFd = 2
  Socks <- ThreeSocks
  MaxQueue = 1
  AutoReconnect = TRUE
  AutoRestart = TRUE
  SetupMayFail = TRUE
SPECIFICATION FairSpec
INVARIANTS
  TypeOK
  StdinNeverClosed
  NoBuildSpin
PROPERTIES
  DownNoticed
  BrokenOnlyByPing
  DeadPeerNoticed
