--------------------------- MODULE MCRelayClient ---------------------------
(* Values of the constants of RelayClient for TLC. *)
EXTENDS RelayClient

MCClients == 1 .. 2
MCConns == 1 .. 3
MCIds == {1}
=============================================================================
