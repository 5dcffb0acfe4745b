CONSTANTS
  Flushers = {f1}
  MaxUnits = 2
  MaxIn = 0
  MaxGrid = 2
  MaxGens = 3
  MaxCrashes = 0
  MaxChunk = 1
  PageSize = 1
  None = None
SPECIFICATION ReplayFairSpec
CHECK_DEADLOCK FALSE
PROPERTIES SubscribeCompletes OutputPersisted
