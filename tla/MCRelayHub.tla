----------------------------- MODULE MCRelayHub -----------------------------
(***************************************************************************)
(* Instances of RelayHub for TLC: all daemon sessions belong to one        *)
(* device, so that reconnecting races with the end of older sessions.      *)
(***************************************************************************)
EXTENDS RelayHub, TLC

CONSTANT dev1

MCDevOf == [s \in DaemonSess |-> dev1]

Symmetry == Permutations(Clients) \cup Permutations(DaemonSess)
=============================================================================
