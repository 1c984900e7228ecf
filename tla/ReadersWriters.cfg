SPECIFICATION FairSpec
CONSTANTS
  r1 = r1
  r2 = r2
  r3 = r3
  w1 = w1
  w2 = w2
  Readers <- ThreeReaders
  Writers <- TwoWriters
  LibrarySize = 2
  MaxNum = 1
  MaxModify = 2
INVARIANTS
  WritesAlone
  PermitsAccounted
  ReportIsCurrent
PROPERTIES
  SomeoneAlwaysWorks
CHECK_DEADLOCK TRUE
