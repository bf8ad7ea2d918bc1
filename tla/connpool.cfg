SPECIFICATION FairSpec
CONSTANTS
  Entries = 2
  Local = {1, 2}
  LocalCpe = 2
  Requests = {r1}
  DeadAge = 1
  AliveAge = 2
CHECK_DEADLOCK FALSE
INVARIANTS AliveNotUnderstated FailOver
PROPERTIES Tracked ShutdownEnds
