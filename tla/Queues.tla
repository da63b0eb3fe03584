-------------------------------- MODULE Queues --------------------------------
(***************************************************************************)
(* What the models ask of their queues, as recursive functions and sets    *)
(* that can be reasoned about: QueueProofs says what each of them returns. *)
(***************************************************************************)
EXTENDS Integers, Sequences, FiniteSets

(* What a queue of amounts comes to. *)
Total(s) ==
    LET upTo[n \in 0..Len(s)] == IF n = 0 THEN 0 ELSE upTo[n - 1] + s[n]
    IN  upTo[Len(s)]

(* A queue that has lost some of its messages, the rest in their order. *)
Without(s, gone) ==
    LET kept[n \in 0..Len(s)] ==
            IF n = 0 THEN <<>>
                     ELSE kept[n - 1] \o (IF s[n] \in gone THEN <<>> ELSE <<s[n]>>)
    IN  kept[Len(s)]

(* A set of numbers in order, the smallest first. *)
Rank(S, n) == Cardinality({m \in S : m <= n})

Ascending(S) == [i \in 1..Cardinality(S) |-> CHOOSE n \in S : Rank(S, n) = i]
=============================================================================
