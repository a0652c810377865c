CONSTANTS
  N = 4
  AutoRestart <- MCAutoRestart
  ForeignThrowers <- MCForeignThrowers
SPECIFICATION FairSpec
INVARIANTS
  TypeOK
  AssignsUnjoinedNever
  NoLostFailure
  RunningLooksAlive
PROPERTIES
  SupervisorSpec
  FailureHandled
CHECK_DEADLOCK FALSE
