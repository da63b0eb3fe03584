------------------------------ MODULE MCOutbox ------------------------------
(***************************************************************************)
(* Outbox for TLC: two agents of one workspace.                            *)
(***************************************************************************)
EXTENDS Outbox

CONSTANTS p1, p2
=============================================================================
