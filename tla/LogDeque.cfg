CONSTANTS
  NodeSize = 2
  MapSize = 3
  MaxPush = 18
SPECIFICATION DequeFairSpec
INVARIANTS
  MemorySafe
  NodesOwned
PROPERTIES
  Drains
  ImplementsChannel
