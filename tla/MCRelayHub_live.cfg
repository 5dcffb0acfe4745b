CONSTANTS
  Clients = {c1}
  DaemonSess = {d1, d2}
  DevIDs = {dev1}
  dev1 = dev1
  DevOf <- MCDevOf
  Codes = {}
  Malformed = {}
  Breakable = {}
  MaxStreamsPerClient = 1
  MaxStreamsPerDaemon = 1
  MaxID = 1
  None = None
CHECK_DEADLOCK FALSE
SPECIFICATION FairSpec
INVARIANTS NoStreamOnDeadSession
PROPERTIES  DeadSessionsReleaseStreams
