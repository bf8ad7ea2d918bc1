SPECIFICATION FairSpec
CONSTANTS
  Clients = 5
  max_queue = 2
  Timers = {TRUE, FALSE}
  CanStop = TRUE
  CanFail = TRUE
  CanOOM = TRUE
CHECK_DEADLOCK FALSE
INVARIANTS TableBounded NoLostWakeup
PROPERTIES Served ExitCompletes
