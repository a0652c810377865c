CONSTANTS
  MaxInterfaces = 2
  MaxThreads = 2
  MaxTokens = 3
SPECIFICATION Spec
INVARIANTS
  TypeOK
  AttachedOnce
  StartsUnlessOversubscribed
  SomeoneConnects
CHECK_DEADLOCK FALSE
