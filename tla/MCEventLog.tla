----------------------------- MODULE MCEventLog -----------------------------
(***************************************************************************)
(* An instance of EventLog small enough for TLC: one host, one session in  *)
(* one workspace, two tasks that emit.                                     *)
(***************************************************************************)
EXTENDS EventLog

CONSTANTS s1, w1, t1, t2

OneSession   == {s1}
OneWorkspace == {w1}
SharedPlace1 == [s \in {s1} |-> w1]
TwoTasks     == {t1, t2}
WorkRestOrEnd == {"Working", "HandedBack", "Ended"}
=============================================================================
