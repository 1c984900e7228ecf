SPECIFICATION FairSpec
CONSTANTS
  p1 = p1
  p2 = p2
  c1 = c1
  c2 = c2
  Producers <- TwoProducers
  Consumers <- TwoConsumers
  Interruptible <- OneEach
  Cap = 2
  MaxPuts = 3
INVARIANTS
  TypeOK
  MutualExclusion
  TokensAccounted
  BufferAsCounted
PROPERTIES
  ImplementsLagBuffer
  EveryPutIsFollowedByItsGet
CHECK_DEADLOCK TRUE
