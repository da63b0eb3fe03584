------------------------------ MODULE MCTunnel ------------------------------
(***************************************************************************)
(* Tunnel for TLC.  Its constants are numbers, which the cfg gives.        *)
(***************************************************************************)
EXTENDS Tunnel, TLC
=============================================================================
