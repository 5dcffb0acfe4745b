---------------------------- MODULE MCTermReplay ----------------------------
(***************************************************************************)
(* Instances of TermReplay for TLC.                                        *)
(***************************************************************************)
EXTENDS TermReplay
=============================================================================
