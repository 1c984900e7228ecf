SPECIFICATION Spec
CONSTANTS
  p1 = p1
  p2 = p2
  c1 = c1
  c2 = c2
  Producers <- TwoProducers
  Consumers <- TwoConsumers
  Interruptible <- Nobody
  Cap = 2
  MaxPuts = 3
INVARIANT CheckedNumbersWereAdded
CHECK_DEADLOCK FALSE
