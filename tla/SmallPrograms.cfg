SPECIFICATION AllSpec
CONSTANTS
  l1 = l1
  l2 = l2
  Keys = {1, 2, 3}
  MaxRecords = 3
  Shells = {u1, u2}
  LastByte = 1
  MaxN = 3
  Variants = {"plain", "confirmed", "realtime"}
  MaxSignals = 3
  RtLimit = 2
  Writers = {w1, w2}
  PipeBuf = 2
  Capacity = 4
  MaxLines = 2
  MaxEntries = 3
  PipeLen = 1
  NumThreads = 3
  NumRecords = 2
  Records = 4
INVARIANTS
  ListSound
  SortSound
  
  ProcessesSound
  LocksSound
  
  PipesSound
PROPERTIES
  ProgramsEnd
CHECK_DEADLOCK FALSE
