SPECIFICATION Spec
CONSTANTS
  Mirrors = {1, 2}
  Builds = {TRUE, FALSE}
  IgnoreShort = 0
  IgnoreLong = 1
  Throttle = 1
  CanWhitelist = TRUE
  MaxAttempts = 2
  MaxTransfers = 1
  MaxSucc = 1
  MaxFail = 3
INVARIANTS TableSound TriesWhatItMay AllIgnoredExact
