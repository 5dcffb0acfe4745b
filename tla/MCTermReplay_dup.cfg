CONSTANTS
  Flushers = {f1}
  MaxUnits = 2
  MaxIn = 0
  MaxGrid = 1
  MaxGens = 1
  MaxCrashes = 0
  MaxChunk = 1
  PageSize = 1
  None = None
SPECIFICATION ReplaySpec
CHECK_DEADLOCK FALSE
INVARIANT NothingDuplicated
