SPECIFICATION FairSpec
CONSTANTS
  None = None
  Threads = {t1, t2, t3}
  Items = {i1}
CHECK_DEADLOCK FALSE
INVARIANT WalkSound
PROPERTY QuitEnds
