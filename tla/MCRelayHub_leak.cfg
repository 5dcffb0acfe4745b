CONSTANTS
  Clients = {c1}
  DaemonSess = {d1}
  DevIDs = {dev1}
  dev1 = dev1
  DevOf <- MCDevOf
  Codes = {}
  Malformed = {}
  Breakable = {}
  MaxStreamsPerClient = 1
  MaxStreamsPerDaemon = 1
  MaxID = 1
  None = None
SPECIFICATION Spec
CHECK_DEADLOCK FALSE
INVARIANT ListsHoldLiveStreams
