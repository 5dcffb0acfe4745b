-------------------------- MODULE MCTerminalManager --------------------------
(* Values of the constants of TerminalManager for TLC. *)
EXTENDS TerminalManager

MCTerms == {"t1"}
MCSess == 1 .. 3
MCRequests == 1 .. 2
=============================================================================
