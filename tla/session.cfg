SPECIFICATION Spec
CONSTANTS
  Conns = {c1, c2}
  Fds = {0, 1}
  Settings <- AllSettings
  MaxCommands = 3
  None = None
SYMMETRY ConnSymmetry
CHECK_DEADLOCK FALSE
INVARIANTS SocketOwned  GroupCounts
