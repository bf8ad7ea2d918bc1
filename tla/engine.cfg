SPECIFICATION FairSpec
CONSTANTS
  None = None
  Engines = {e1, e2, e3}
  Commands = {c1}
  Files = {f1}
  MaxVersion = 2
  MaxRefs = 2
  SelfCheck = TRUE
  CanFail = TRUE
CHECK_DEADLOCK FALSE
INVARIANTS InUseAlive StatNotNewer
PROPERTIES RefsBalanced ReloadHonoured
