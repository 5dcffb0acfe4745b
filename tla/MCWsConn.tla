------------------------------ MODULE MCWsConn ------------------------------
(* Values of the constants of WsConn for TLC. *)
EXTENDS WsConn

MCLoops == 1 .. 2
MCSizes == 1 .. 2
=============================================================================
