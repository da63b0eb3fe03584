----------------------------- MODULE MCEventFeed ----------------------------
(***************************************************************************)
(* Instances of EventFeed for TLC: one client, and the tasks that write.   *)
(***************************************************************************)
EXTENDS EventFeed

CONSTANTS a, b

TwoWriters == {a, b}
=============================================================================
