SPECIFICATION WsFairSpec
CONSTANTS
  Conns = {c1, c2}
  Http = http
  Loops <- MCLoops
  Sizes <- MCSizes
  QueueCap = 2
  MaxOps = 3
  MaxSubs = 2
INVARIANTS NothingOutlivesTheConnection MirrorShowsTheScreen 
 
CHECK_DEADLOCK FALSE
