SPECIFICATION WsSpec
CONSTANTS
  Conns = {c1, c2}
  Http = http
  Loops <- MCLoops
  Sizes <- MCSizes
  QueueCap = 2
  MaxOps = 3
  MaxSubs = 2
INVARIANTS SendsAreHarmless
CHECK_DEADLOCK FALSE
