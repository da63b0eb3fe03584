----------------------------- MODULE Transcript -----------------------------
(***************************************************************************)
(* What a conversation on screen promises: of everything the agent has     *)
(* written, a reader is shown one unbroken stretch.  It grows at its end   *)
(* as the agent goes on and at its beginning as somebody reads back;       *)
(* nothing in it is ever missing, repeated or taken away, except by        *)
(* forgetting the conversation altogether.                                 *)
(*                                                                         *)
(* `spoiled` is set by the faults the detailed specification names, each   *)
(* at the step it happens.  Until one has, the promise is exact; after     *)
(* one, nothing is promised of that screen.                                *)
(***************************************************************************)
EXTENDS Naturals, Sequences

VARIABLES
    written,   \* the lines of the log that draw something, in order
    shown,     \* the lines on the screen, in order
    spoiled    \* whether a named fault has happened

vars == <<written, shown, spoiled>>

Init ==
    /\ written = <<>>
    /\ shown = <<>>
    /\ ~spoiled

(* The agent says one more thing. *)
Write ==
    /\ Len(written') = Len(written) + 1
    /\ SubSeq(written', 1, Len(written)) = written
    /\ UNCHANGED <<shown, spoiled>>

(* `part` is somewhere within `whole`, unbroken. *)
Within(part, whole) ==
    \E from \in 0..(Len(whole) - Len(part)) :
        part = SubSeq(whole, from + 1, from + Len(part))

(* More of it is shown, on either side of what already was. *)
Read ==
    /\ Within(shown', written)
    /\ Within(shown, shown')
    /\ UNCHANGED <<written, spoiled>>

Forget ==
    /\ shown' = <<>>
    /\ UNCHANGED <<written, spoiled>>

(* A fault, and everything that is shown after one. *)
Spoil ==
    /\ spoiled'
    /\ Len(written) <= Len(written')
    /\ SubSeq(written', 1, Len(written)) = written

Next == Write \/ Read \/ Forget \/ Spoil

Spec == Init /\ [][Next]_vars
=============================================================================
