SPECIFICATION ClientSpec
CONSTANTS
  Clients <- MCClients
  Conns <- MCConns
  Ids <- MCIds
  Handlers = {h1, h2}
  Boot = h1
  MaxOps = 2
  MaxFaults = 1
INVARIANTS OnlineReportsLive
CHECK_DEADLOCK FALSE
