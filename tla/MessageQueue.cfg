CONSTANTS
  Producers <- MCProducers
  Consumer = "writer"
  MaxPushes = 3
SPECIFICATION FairSpec
INVARIANTS
  TypeOK
  PopsNonEmpty
PROPERTIES
  AllDelivered
  ChannelSpec
