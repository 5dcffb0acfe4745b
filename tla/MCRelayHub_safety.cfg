CONSTANTS
  Clients = {c1}
  DaemonSess = {d1}
  DevIDs = {dev1}
  dev1 = dev1
  DevOf <- MCDevOf
  Codes = {k1}
  Malformed = {c1, d1}
  Breakable = {c1, d1}
  MaxStreamsPerClient = 2
  MaxStreamsPerDaemon = 1
  MaxID = 2
  None = None
CHECK_DEADLOCK FALSE
SPECIFICATION Spec
INVARIANTS TypeOK ClosedStreamsAnnounced StreamsListed
PROPERTIES ClaimBindsOnce ImplementsTunnels
