----------------------------- MODULE MCTeardown -----------------------------
(***************************************************************************)
(* Teardown for TLC: a workspace with two agents.                          *)
(***************************************************************************)
EXTENDS Teardown

CONSTANTS s1, s2

(* Two agents ended in any order, with everything that can go wrong. *)
Troubled ==
    [running |-> {s1, s2}, startable |-> {}, drops |-> 1, crashes |-> 1, patient |-> FALSE]
(* One running agent, and another started while it is torn down. *)
Joined ==
    [running |-> {s1}, startable |-> {s2}, drops |-> 0, crashes |-> 0, patient |-> TRUE]

BothSettings == {Troubled, Joined}

(* One agent running and one that may join it. *)
OneMore ==
    {[running |-> {s1}, startable |-> {s2}, drops |-> 1, crashes |-> 0, patient |-> TRUE]}
=============================================================================
