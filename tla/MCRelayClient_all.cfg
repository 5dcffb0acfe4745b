SPECIFICATION ClientFairSpec
CONSTANTS
  Clients <- MCClients
  Conns <- MCConns
  Ids <- MCIds
  Handlers = {h1, h2}
  Boot = h1
  MaxOps = 2
  MaxFaults = 1
INVARIANTS OneLiveClient HandshakeFirst OpenTcpIsReachable
PROPERTIES NoAcceptAfterClose  
CHECK_DEADLOCK FALSE
