---------------------------- MODULE MCDeliveries ----------------------------
(***************************************************************************)
(* Instances of Deliveries for TLC: a lead, what its children hand back and *)
(* two drains that may run at once.                                        *)
(***************************************************************************)
EXTENDS Deliveries, TLC

CONSTANTS r1, r2, t1, t2

OneReport  == {r1}
TwoReports == {r1, r2}
TwoTasks   == {t1, t2}

Symmetry == Permutations({r1, r2}) \union Permutations({t1, t2})
=============================================================================
