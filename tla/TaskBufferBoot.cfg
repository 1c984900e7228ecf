SPECIFICATION StartSpec
CONSTANTS
  p1 = p1
  p2 = p2
  c1 = c1
  Producers <- TwoProducers
  Consumers <- OneConsumer
  Interruptible <- Everyone
  Cap = 2
  MaxPuts = 2
  Users <- TwoUsers
  u1 = u1
  u2 = u2
INVARIANTS
  StartSound
  MutualExclusion
  SameMutexSameBuffer
  
PROPERTIES
  BootsIntoTaskBuffer
  UsersEnd
CHECK_DEADLOCK FALSE
