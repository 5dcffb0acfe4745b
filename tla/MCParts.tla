------------------------------ MODULE MCParts ------------------------------
(***************************************************************************)
(* Four components that share no state, checked side by side: a behaviour  *)
(* is one of the pairing service, of the relay's claim limiter, of daemons *)
(* starting on a data directory, or of the task board and a client of it.  *)
(***************************************************************************)
EXTENDS PairService, ClaimLimiter, DaemonBoot, Board, TLC

VARIABLE part   \* the one that moves

PartsInit ==
  /\ Init /\ LimiterInit /\ BootInit /\ BoardInit
  /\ part \in {"pair", "limiter", "boot", "board"}

PartsNext ==
  /\ UNCHANGED part
  /\ \/ part = "pair" /\ Next /\ UNCHANGED <<limiterVars, bootVars, boardVars>>
     \/ part = "limiter" /\ LimiterNext /\ UNCHANGED <<vars, bootVars, boardVars>>
     \/ part = "boot" /\ BootNext /\ UNCHANGED <<vars, limiterVars, boardVars>>
     \/ part = "board" /\ BoardNext /\ UNCHANGED <<vars, limiterVars, bootVars>>

PartsSpec == PartsInit /\ [][PartsNext]_<<vars, limiterVars, bootVars, boardVars, part>>

MCWorkers == 1 .. 2
Symmetry == Permutations(Codes) \cup Permutations(Requests) \cup Permutations(Procs)
=============================================================================
