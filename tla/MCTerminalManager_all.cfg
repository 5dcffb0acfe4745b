SPECIFICATION TermFairSpec
CONSTANTS
  Terms <- MCTerms
  Sess <- MCSess
  Requests <- MCRequests
  MaxOps = 3
  MaxFaults = 1
INVARIANTS  MapHoldsUnfinished ShellsAreTracked
PROPERTIES RequestsFinish StatusReachesSubscriber
CHECK_DEADLOCK FALSE
