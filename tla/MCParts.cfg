CONSTANTS
  Codes = {c1, c2}
  Requests = {r1, r2}
  PairTTL = 1
  LockDuration = 2
  MaxVerifyFails = 2
  MaxTime = 3
  MaxIssued = 1
  MaxAttempts = 3
  Claimers = {a1, a2}
  Window = 4
  Budget = 2
  BlackFor = 5
  MaxLag = 1
  MaxWall = 10
  MaxGrants = 5
  Procs = {p1, p2}
  Pids = {1, 2}
  Migrations = 1
  MaxStarts = 3
  MaxBootErrs = 1
  Tasks = {k1}
  Todos = {d1}
  Workers <- MCWorkers
  BusCap = 1
  SendCap = 1
  MaxWork = 3
SPECIFICATION PartsSpec
SYMMETRY Symmetry
CHECK_DEADLOCK FALSE
INVARIANTS OneTime BruteForceBrake BudgetPerWindow OneDaemon LockFindsDaemon 
PROPERTIES LockoutHolds BansLast  TransitionsAllowed
