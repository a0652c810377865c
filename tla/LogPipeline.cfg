CONSTANTS
  Loggers <- OneLogger
  NetworkFlags <- ShippedNetwork
  MaxLogs = 2
  MaxCuts = 1
  MaxFailures = 1
SPECIFICATION FairSpec
INVARIANTS
  NoAmplification
PROPERTIES
  Quiesces
  RunsDown
