SPECIFICATION FairSpec
CONSTANTS
  N = 4
  Courses = 2
  MaxSpurious = 1
INVARIANTS
  ForkExclusion
  NoSleepBesideFreeFork
PROPERTIES
  MainExits
CHECK_DEADLOCK TRUE
