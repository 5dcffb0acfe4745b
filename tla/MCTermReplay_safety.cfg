CONSTANTS
  Flushers = {f1}
  MaxUnits = 2
  MaxIn = 1
  MaxGrid = 2
  MaxGens = 2
  MaxCrashes = 1
  MaxChunk = 1
  PageSize = 1
  None = None
SPECIFICATION ReplaySpec
CHECK_DEADLOCK FALSE
INVARIANTS  StreamInOrder LogInOrder OutputAccountedFor 
