---------------------------- MODULE OutboxProofs ----------------------------
(***************************************************************************)
(* Proofs about Outbox: its type invariant, that the words of a first      *)
(* message are kept, that they are not said twice, and that one file at    *)
(* most goes to another server for each time the window moves.             *)
(***************************************************************************)
EXTENDS Outbox, TLAPS

\* A trouble is filed under its own run, and again under the workspace.
HeldTwice ==
    /\ \A p \in Parcels : held[p] # NoTrouble => held[p].of = p
    /\ held[Place] # NoTrouble => /\ held[Place].of \in Parcels
                                  /\ held[held[Place].of] = held[Place]

\* Where the words of each message are, by how far its attempt has got.
Kept ==
    \A p \in Parcels :
        /\ task[p].at \in {"page", "creating"} <=> bringup[p] = "none"
        /\ InFlight(p) => p \in draft
        /\ task[p] = Over => \/ given[p] > 0 \/ offered[p] > 0
                             \/ p \in draft
                             \/ held[p] = Trouble(p, TRUE)
                             \/ p \in dropped

\* Words that are still somewhere have not been said.
Once ==
    \A p \in Parcels : p \notin unsure =>
        /\ given[p] + offered[p] <= 1
        /\ bringup[p] = "none" \/ p \in draft \/ held[p].words
              => given[p] = 0 /\ offered[p] = 0
        /\ p \in draft => held[p] = NoTrouble

\* A file that is about to go astray is the one this move has coming.
MovesPay ==
    /\ left.moves <= MaxMoves
    /\ \A p \in Parcels :
          /\ strayed[p] <= MaxMoves - left.moves
          /\ task[p].at = "reading" /\ current # "home"
                => strayed[p] + 1 <= MaxMoves - left.moves

IInv == TypeOK /\ HeldTwice /\ Kept /\ Once /\ MovesPay

-----------------------------------------------------------------------------
(* Steps of an attempt *)

Moving == {"asking", "listing", "napping", "reading", "uploading", "sending"}

LEMMA StepFacts ==
    ASSUME NEW step \in Steps
    PROVE  /\ step.at \in Moving \cup {"page", "creating", "over"}
           /\ step.at = "over" <=> step = Over
           /\ step.at = "page" <=> step = Unstarted
           /\ step.at \in {"asking", "napping", "listing"} => step.polls \in 0..(MaxPolls - 1)
           /\ step.at = "listing" => step.of \in Servers
           /\ step.at \in {"reading", "uploading"} => step.files \in 1..Files /\ step.missing \in Nat
           /\ step.at = "uploading" => step.to \in Servers
           /\ step.at = "sending" => step.missing \in Nat
  BY DEF Steps, Over, Unstarted, Moving

LEMMA Made ==
    /\ Over \in Steps /\ Unstarted \in Steps /\ [at |-> "creating"] \in Steps
    /\ \A n \in 0..(MaxPolls - 1) :
          /\ [at |-> "asking", polls |-> n] \in Steps
          /\ [at |-> "napping", polls |-> n] \in Steps
          /\ \A s \in Servers : [at |-> "listing", polls |-> n, of |-> s] \in Steps
    /\ \A f \in 1..Files, m \in Nat :
          /\ [at |-> "reading", files |-> f, missing |-> m] \in Steps
          /\ \A s \in Servers :
                [at |-> "uploading", files |-> f, missing |-> m, to |-> s] \in Steps
    /\ \A m \in Nat : [at |-> "sending", missing |-> m] \in Steps
    /\ NoTrouble \in Troubles
    /\ \A p \in Parcels, w \in BOOLEAN : Trouble(p, w) \in Troubles
  BY DEF Steps, Over, Unstarted, Troubles, NoTrouble, Trouble

\* The attempt goes on, to a step that is not a file's unless the window is home.
GoesOn(p) ==
    \E step \in Steps :
        /\ step.at \in Moving
        /\ step.at = "reading" => current = "home"
        /\ Onward(p, step)

GivesUp(p) == End(p, {Trouble(p, TRUE)})

LEMMA AskGoesOn ==
    ASSUME NEW p \in Parcels, NEW n \in 0..(MaxPolls - 1), Ask(p, n)
    PROVE  GoesOn(p) \/ GivesUp(p)
  <1>1. CASE current = "home"
    <2>1. Onward(p, [at |-> "asking", polls |-> n])
      BY <1>1 DEF Ask
    <2> QED
      BY <2>1, Made DEF GoesOn, Moving
  <1>2. CASE current # "home"
    BY <1>2 DEF Ask, GivesUp
  <1> QED
    BY <1>1, <1>2

LEMMA NotYetGoesOn ==
    ASSUME TypeOK, NEW p \in Parcels, task[p].at \in {"asking", "listing"}, NotYet(p)
    PROVE  GoesOn(p) \/ GivesUp(p)
  <1> DEFINE polls == task[p].polls + 1
  <1>1. task[p].polls \in 0..(MaxPolls - 1)
    BY StepFacts DEF TypeOK
  <1>2. CASE polls = MaxPolls
    BY <1>2 DEF NotYet, GivesUp
  <1>3. CASE polls # MaxPolls
    <2>1. polls \in 0..(MaxPolls - 1)
      BY <1>1, <1>3, BoundsAssumption
    <2>2. Onward(p, [at |-> "napping", polls |-> polls])
      BY <1>3 DEF NotYet
    <2> HIDE DEF polls
    <2> QED
      BY <2>1, <2>2, Made DEF GoesOn, Moving
  <1> QED
    BY <1>2, <1>3

LEMMA ProceedGoesOn ==
    ASSUME NEW p \in Parcels, NEW files \in 0..Files, NEW missing \in Nat,
           Proceed(p, files, missing)
    PROVE  GoesOn(p) \/ GivesUp(p)
  <1>1. CASE current = "home" /\ files > 0
    <2>1. Onward(p, [at |-> "reading", files |-> files, missing |-> missing])
      BY <1>1 DEF Proceed
    <2>2. files \in 1..Files
      BY <1>1, BoundsAssumption
    <2> QED
      BY <1>1, <2>1, <2>2, Made DEF GoesOn, Moving
  <1>2. CASE current = "home" /\ files = 0
    <2>1. Onward(p, [at |-> "sending", missing |-> missing])
      BY <1>2 DEF Proceed
    <2> QED
      BY <2>1, Made DEF GoesOn, Moving
  <1>3. CASE current # "home"
    BY <1>3 DEF Proceed, GivesUp
  <1> QED
    BY <1>1, <1>2, <1>3, BoundsAssumption

-----------------------------------------------------------------------------
(* What such a step does to the invariant *)

\* What an attempt leaves alone when it neither says anything nor sends a file.
Quiet == UNCHANGED <<current, bringup, given, drawn, offered, unsure, dropped>>

\* The window's moves are counted, and nothing else is paid with them.
MovesKept ==
    /\ left' \in [{"moves", "reloads", "troubles"} -> Nat]
    /\ left'.moves = left.moves

LEMMA SpendTyped ==
    ASSUME TypeOK, NEW what \in {"moves", "reloads", "troubles"}, Spend(what)
    PROVE  /\ left' \in [{"moves", "reloads", "troubles"} -> Nat]
           /\ what # "moves" => left'.moves = left.moves
           /\ what = "moves" => left'.moves = left.moves - 1
  BY DEF TypeOK, Spend

LEMMA HeldIsOfSomebody ==
    ASSUME IInv, NEW k \in Keys, held[k] # NoTrouble
    PROVE  held[k].of \in Parcels /\ task[held[k].of] = Over
  BY DEF IInv, TypeOK, HeldTwice, Keys

\* The file whose bytes were being read as the window moved.
Strays(p) ==
    /\ task[p].at = "reading" /\ current # "home"
    /\ strayed' = [strayed EXCEPT ![p] = @ + 1]

LEMMA GoesOnKeeps ==
    ASSUME IInv, NEW p \in Parcels, InFlight(p), GoesOn(p), Quiet, MovesKept,
           strayed' = strayed \/ Strays(p)
    PROVE  IInv'
  <1> PICK step \in Steps : /\ step.at \in Moving
                            /\ step.at = "reading" => current = "home"
                            /\ Onward(p, step)
    BY DEF GoesOn
  <1> USE DEF Quiet
  <1>1. /\ task' = [task EXCEPT ![p] = step] /\ task \in [Parcels -> Steps]
        /\ UNCHANGED <<draft, held>>
    BY DEF Onward, IInv, TypeOK
  <1>2. step # Over /\ task[p] # Over
    BY StepFacts DEF Moving, Over, InFlight
  <1>3. \A q \in Parcels : InFlight(q)' = InFlight(q)
    BY <1>1 DEF InFlight, Moving
  <1>4. TypeOK'
    <2>1. \A k \in Keys : held[k] = NoTrouble \/ task'[held[k].of] = Over
      BY <1>1, <1>2, HeldIsOfSomebody
    <2>2. draft' \subseteq {q \in Parcels : task'[q] = Over \/ InFlight(q)'}
      BY <1>1, <1>2, <1>3 DEF IInv, TypeOK
    <2>3. strayed' \in [Parcels -> Nat]
      BY DEF IInv, TypeOK, Strays
    <2> QED
      BY <1>1, <2>1, <2>2, <2>3 DEF IInv, TypeOK, MovesKept
  <1>5. HeldTwice'
    BY <1>1 DEF IInv, HeldTwice
  <1>6. Kept'
    BY <1>1, <1>2, <1>3 DEF IInv, Kept, InFlight, Moving
  <1>7. Once'
    BY <1>1 DEF IInv, Once
  <1>8. MovesPay'
    <2>1. CASE strayed' = strayed
      BY <1>1, <2>1 DEF IInv, MovesPay, MovesKept
    <2>2. CASE Strays(p)
      BY <1>1, <2>2 DEF IInv, TypeOK, MovesPay, MovesKept, Strays
    <2> QED
      BY <2>1, <2>2
  <1> QED
    BY <1>4, <1>5, <1>6, <1>7, <1>8 DEF IInv

\* How an attempt ends: with nothing to say, or with one trouble.
Ended(p, trouble) ==
    /\ task' = [task EXCEPT ![p] = Over]
    /\ draft' = draft \ {p}
    /\ held' = IF trouble = NoTrouble THEN held
               ELSE [held EXCEPT ![p] = trouble, ![Place] = trouble]

LEMMA EndEnds ==
    ASSUME NEW p \in Parcels
    PROVE  /\ End(p, {}) => Ended(p, NoTrouble)
           /\ \A w \in BOOLEAN : End(p, {Trouble(p, w)}) => Ended(p, Trouble(p, w))
  <1>1. End(p, {}) => Ended(p, NoTrouble)
    BY DEF End, Ended
  <1>2. ASSUME NEW w \in BOOLEAN, End(p, {Trouble(p, w)})
        PROVE  Ended(p, Trouble(p, w))
    <2>1. /\ task' = [task EXCEPT ![p] = Over]
          /\ draft' = draft \ {p}
          /\ Hold(Trouble(p, w))
      BY <1>2 DEF End
    <2>2. Trouble(p, w).of = p /\ Trouble(p, w) # NoTrouble
      BY NamesAssumption DEF Trouble, NoTrouble
    <2> QED
      BY <2>1, <2>2 DEF Hold, Ended
  <1> QED
    BY <1>1, <1>2

LEMMA EndedKeeps ==
    ASSUME IInv, NEW p \in Parcels, InFlight(p) \/ task[p].at = "creating",
           NEW trouble \in Troubles, trouble = NoTrouble \/ trouble.of = p,
           Ended(p, trouble),
           NEW up \in {"coming", "up", "failed"}, bringup' = [bringup EXCEPT ![p] = up],
           NEW told \in Nat, given' = [given EXCEPT ![p] = told],
           trouble.words \/ told > 0,
           unsure \subseteq unsure',
           p \in unsure' \/ told = given[p]
             \/ (told = given[p] + 1 /\ ~trouble.words),
           UNCHANGED <<current, drawn, offered, dropped>>,
           MovesKept, strayed' = strayed
    PROVE  IInv'
  <1>1. /\ task' = [task EXCEPT ![p] = Over] /\ task \in [Parcels -> Steps]
        /\ draft' = draft \ {p}
        /\ held \in [Keys -> Troubles] /\ p \in Keys /\ Place \in Keys /\ p # Place
        /\ \A q \in Parcels : q \in Keys
    BY NamesAssumption DEF Ended, IInv, TypeOK, Keys
  <1>2. /\ trouble # NoTrouble => trouble.of = p
        /\ NoTrouble.of = Nobody
    BY DEF NoTrouble
  <1>3. /\ held' \in [Keys -> Troubles]
        /\ \A q \in Parcels \ {p} : held'[q] = held[q]
        /\ trouble = NoTrouble => held' = held
        /\ trouble # NoTrouble => held'[p] = trouble /\ held'[Place] = trouble
    <2>1. CASE trouble = NoTrouble
      BY <2>1, <1>1 DEF Ended
    <2>2. CASE trouble # NoTrouble
      <3>1. held' = [held EXCEPT ![p] = trouble, ![Place] = trouble]
        BY <2>2 DEF Ended
      <3>2. \A q \in Parcels : q # Place
        BY NamesAssumption
      <3> QED
        BY <2>2, <3>1, <3>2, <1>1
    <2> QED
      BY <2>1, <2>2
  <1>4. /\ task'[p] = Over /\ ~InFlight(p)'
        /\ \A q \in Parcels \ {p} : task'[q] = task[q] /\ InFlight(q)' = InFlight(q)
    BY <1>1 DEF Over, InFlight
  <1>5. task[p] # Over
    BY DEF InFlight, Over
  <1>6. held[p] = NoTrouble
    BY <1>1, <1>5, HeldIsOfSomebody DEF IInv, HeldTwice
  <1>7. held[Place].of # p
    BY <1>1, <1>2, <1>5, NamesAssumption, HeldIsOfSomebody
  <1>8. HeldTwice'
    <2>1. \A q \in Parcels : held'[q] # NoTrouble => held'[q].of = q
      BY <1>2, <1>3, <1>6 DEF IInv, HeldTwice
    <2>2. CASE trouble = NoTrouble
      BY <2>1, <2>2, <1>3 DEF IInv, HeldTwice
    <2>3. CASE trouble # NoTrouble
      BY <2>1, <2>3, <1>2, <1>3 DEF HeldTwice
    <2> QED
      BY <2>2, <2>3
  <1>9. TypeOK'
    <2>1. \A k \in Keys : held'[k] = NoTrouble \/ task'[held'[k].of] = Over
      <3> TAKE k \in Keys
      <3>1. CASE held'[k] = held[k]
        BY <3>1, <1>4, HeldIsOfSomebody
      <3>2. CASE held'[k] = trouble
        BY <3>2, <1>2, <1>4
      <3> QED
        BY <3>1, <3>2, <1>1 DEF Ended
    <2>2. draft' \subseteq {q \in Parcels : task'[q] = Over \/ InFlight(q)'}
      BY <1>1, <1>4 DEF IInv, TypeOK
    <2>3. task' \in [Parcels -> Steps]
      BY <1>1, Made
    <2>4. /\ bringup' \in [Parcels -> {"none", "coming", "up", "failed"}]
          /\ given' \in [Parcels -> Nat]
      BY DEF IInv, TypeOK
    <2> QED
      BY <1>3, <2>1, <2>2, <2>3, <2>4 DEF IInv, TypeOK, MovesKept
  <1>10. Kept'
    <2> SUFFICES ASSUME NEW q \in Parcels
                 PROVE  /\ task'[q].at \in {"page", "creating"} <=> bringup'[q] = "none"
                        /\ InFlight(q)' => q \in draft'
                        /\ task'[q] = Over => \/ given'[q] > 0 \/ offered'[q] > 0
                                              \/ q \in draft'
                                              \/ held'[q] = Trouble(q, TRUE)
                                              \/ q \in dropped'
      BY DEF Kept
    <2>1. CASE q = p
      <3>1. given'[p] = told /\ bringup'[p] = up
        BY DEF IInv, TypeOK
      <3>2. task'[p].at = "over"
        BY <1>4 DEF Over
      <3>3. trouble.words => held'[p] = Trouble(p, TRUE)
        <4>1. trouble.words => trouble # NoTrouble
          BY DEF NoTrouble
        <4>2. trouble.words /\ trouble.of = p => trouble = Trouble(p, TRUE)
          BY DEF Troubles, Trouble
        <4> QED
          BY <4>1, <4>2, <1>2, <1>3
      <3> QED
        BY <2>1, <3>1, <3>2, <3>3, <1>4
    <2>2. CASE q # p
      BY <2>2, <1>1, <1>3, <1>4 DEF IInv, Kept, TypeOK
    <2> QED
      BY <2>1, <2>2
  <1>11. Once'
    <2> SUFFICES ASSUME NEW q \in Parcels, q \notin unsure'
                 PROVE  /\ given'[q] + offered'[q] <= 1
                        /\ bringup'[q] = "none" \/ q \in draft' \/ held'[q].words
                              => given'[q] = 0 /\ offered'[q] = 0
                        /\ q \in draft' => held'[q] = NoTrouble
      BY DEF Once
    <2>1. CASE q = p
      <3>1. given[p] = 0 /\ offered[p] = 0
        BY <2>1 DEF IInv, Once, Kept
      <3>2. given'[p] = told /\ offered'[p] = 0 /\ bringup'[p] # "none" /\ p \notin draft'
        BY <3>1, <1>1 DEF IInv, TypeOK
      <3>3. held'[p].words => trouble.words
        BY <1>3, <1>6
      <3>4. told <= 1 /\ (trouble.words => told = 0)
        BY <2>1, <3>1
      <3> QED
        BY <2>1, <3>2, <3>3, <3>4
    <2>2. CASE q # p
      BY <2>2, <1>1, <1>3 DEF IInv, Once, TypeOK
    <2> QED
      BY <2>1, <2>2
  <1>12. MovesPay'
    BY <1>1, <1>4 DEF IInv, MovesPay, MovesKept, Over
  <1> QED
    BY <1>8, <1>9, <1>10, <1>11, <1>12 DEF IInv

-----------------------------------------------------------------------------
(* One step at a time *)

LEMMA AttemptKeeps ==
    ASSUME IInv, NEW p \in Parcels, InFlight(p), GoesOn(p) \/ GivesUp(p), Quiet, MovesKept,
           strayed' = strayed
    PROVE  IInv'
  <1>1. CASE GoesOn(p)
    BY <1>1, GoesOnKeeps
  <1>2. CASE GivesUp(p)
    <2> DEFINE trouble == Trouble(p, TRUE)
    <2>1. Ended(p, trouble)
      BY <1>2, EndEnds DEF GivesUp
    <2>2. trouble \in Troubles /\ trouble.of = p /\ trouble.words
      BY DEF Trouble, Troubles
    <2>3. /\ bringup[p] \in {"coming", "up", "failed"}
          /\ bringup' = [bringup EXCEPT ![p] = bringup[p]]
          /\ given[p] \in Nat /\ given' = [given EXCEPT ![p] = given[p]]
      BY DEF IInv, TypeOK, Kept, InFlight, Quiet
    <2> HIDE DEF trouble
    <2> QED
      BY <2>1, <2>2, <2>3, EndedKeeps DEF Quiet
  <1> QED
    BY <1>1, <1>2

\* A request that fails, here or elsewhere, is paid with a trouble or nothing.
LEMMA FailingKeepsMoves ==
    ASSUME IInv, Spend("troubles") \/ (\E server : Fails(server)) \/ UNCHANGED left
    PROVE  MovesKept
  BY SpendTyped DEF IInv, TypeOK, MovesKept, Fails

LEMMA AttemptStep ==
    ASSUME IInv, NEW p \in Parcels, Attempt(p)
    PROVE  IInv'
  <1> TypeOK /\ task[p] \in Steps
    BY DEF IInv, TypeOK
  <1>1. CASE SessionRead(p)
    <2> DEFINE step == [at |-> "listing", polls |-> task[p].polls, of |-> current]
    <2>1. step \in Steps
      BY <1>1, StepFacts, Made DEF SessionRead, TypeOK
    <2>2. Onward(p, step) /\ step.at = "listing"
      BY <1>1 DEF SessionRead
    <2> HIDE DEF step
    <2>3. GoesOn(p)
      BY <2>1, <2>2 DEF GoesOn, Moving
    <2> QED
      BY <1>1, <2>3, AttemptKeeps, FailingKeepsMoves DEF SessionRead, InFlight, Quiet
  <1>2. CASE EventsRead(p)
    <2>1. GoesOn(p) \/ GivesUp(p)
      <3>1. CASE Proceed(p, Files, 0)
        BY <3>1, ProceedGoesOn, BoundsAssumption
      <3>2. CASE NotYet(p)
        BY <1>2, <3>2, NotYetGoesOn DEF EventsRead
      <3>3. CASE End(p, {Trouble(p, TRUE)})
        BY <3>3 DEF GivesUp
      <3>4. bringup[p] \in {"coming", "up", "failed"}
        BY <1>2 DEF EventsRead, IInv, Kept, TypeOK
      <3>5. PICK heard \in {"coming", "up", "failed"} :
               CASE heard = "up" -> Proceed(p, Files, 0)
                 [] heard = "failed" -> End(p, {Trouble(p, TRUE)})
                 [] heard = "coming" -> NotYet(p)
        BY <1>2, <3>4 DEF EventsRead
      <3> QED
        BY <3>1, <3>2, <3>3, <3>5
    <2> QED
      BY <1>2, <2>1, AttemptKeeps, FailingKeepsMoves DEF EventsRead, InFlight, Quiet
  <1>3. CASE Unread(p)
    <2>1. GoesOn(p) \/ GivesUp(p)
      BY <1>3, NotYetGoesOn DEF Unread
    <2>2. MovesKept
      BY <1>3, FailingKeepsMoves DEF Unread
    <2> QED
      BY <1>3, <2>1, <2>2, AttemptKeeps DEF Unread, InFlight, Quiet
  <1>4. CASE NapOver(p)
    <2>1. GoesOn(p) \/ GivesUp(p)
      BY <1>4, StepFacts, AskGoesOn DEF NapOver
    <2> QED
      BY <1>4, <2>1, AttemptKeeps, FailingKeepsMoves DEF NapOver, InFlight, Quiet
  <1>5. CASE BytesRead(p)
    <2> DEFINE step == [at |-> "uploading", files |-> task[p].files,
                        missing |-> task[p].missing, to |-> current]
    <2>1. step \in Steps
      BY <1>5, StepFacts, Made DEF BytesRead, TypeOK
    <2>2. Onward(p, step) /\ step.at = "uploading"
      BY <1>5 DEF BytesRead
    <2> HIDE DEF step
    <2>3. GoesOn(p)
      BY <2>1, <2>2 DEF GoesOn, Moving
    <2>4. strayed' = strayed \/ Strays(p)
      BY <1>5 DEF BytesRead, Strays
    <2> QED
      BY <1>5, <2>3, <2>4, GoesOnKeeps, FailingKeepsMoves DEF BytesRead, InFlight, Quiet
  <1>6. CASE Placed(p)
    <2>1. task[p].files - 1 \in 0..Files /\ task[p].missing \in Nat
      BY <1>6, StepFacts, BoundsAssumption DEF Placed
    <2>2. GoesOn(p) \/ GivesUp(p)
      BY <1>6, <2>1, ProceedGoesOn DEF Placed
    <2> QED
      BY <1>6, <2>2, AttemptKeeps, FailingKeepsMoves DEF Placed, InFlight, Quiet
  <1>7. CASE NotPlaced(p)
    <2>1. task[p].files - 1 \in 0..Files /\ task[p].missing + 1 \in Nat
      BY <1>7, StepFacts, BoundsAssumption DEF NotPlaced
    <2>2. GoesOn(p) \/ GivesUp(p)
      BY <1>7, <2>1, ProceedGoesOn DEF NotPlaced
    <2>3. MovesKept
      BY <1>7, FailingKeepsMoves DEF NotPlaced
    <2> QED
      BY <1>7, <2>2, <2>3, AttemptKeeps DEF NotPlaced, InFlight, Quiet
  <1>8. CASE Sent(p)
    <2>1. /\ InFlight(p) /\ bringup' = [bringup EXCEPT ![p] = "up"]
          /\ given' = [given EXCEPT ![p] = given[p] + 1] /\ given[p] + 1 \in Nat
          /\ given[p] + 1 > 0
          /\ UNCHANGED <<current, drawn, offered, dropped, unsure, strayed, left>>
      BY <1>8 DEF Sent, InFlight, TypeOK
    <2>2. PICK trouble \in {NoTrouble, Trouble(p, FALSE)} : Ended(p, trouble)
      BY <1>8, EndEnds DEF Sent
    <2>3. /\ trouble \in Troubles /\ ~trouble.words
          /\ trouble = NoTrouble \/ trouble.of = p
      <3>1. CASE trouble = NoTrouble
        BY <3>1, Made DEF NoTrouble
      <3>2. CASE trouble = Trouble(p, FALSE)
        BY <3>2 DEF Trouble, Troubles
      <3> QED
        BY <3>1, <3>2
    <2> QED
      BY <2>1, <2>2, <2>3, EndedKeeps, FailingKeepsMoves
  <1>9. CASE NotSent(p)
    <2> DEFINE trouble == Trouble(p, TRUE)
    <2>1. PICK told \in Nat :
             /\ given' = [given EXCEPT ![p] = told]
             /\ p \in unsure' \/ told = given[p]
             /\ unsure \subseteq unsure'
      <3>1. given[p] \in Nat /\ given[p] + 1 \in Nat
            /\ given = [given EXCEPT ![p] = given[p]]
        BY DEF TypeOK
      <3> QED
        BY <1>9, <3>1 DEF NotSent
    <2>2. Ended(p, trouble)
      BY <1>9, EndEnds DEF NotSent
    <2>3. trouble \in Troubles /\ trouble.of = p /\ trouble.words
      BY DEF Trouble, Troubles
    <2>4. /\ InFlight(p) /\ bringup[p] \in {"coming", "up", "failed"}
          /\ bringup' = [bringup EXCEPT ![p] = bringup[p]]
          /\ UNCHANGED <<current, drawn, offered, dropped, strayed>>
      BY <1>9 DEF NotSent, InFlight, IInv, TypeOK, Kept
    <2>5. MovesKept
      BY <1>9, FailingKeepsMoves DEF NotSent
    <2> HIDE DEF trouble
    <2> QED
      BY <2>1, <2>2, <2>3, <2>4, <2>5, EndedKeeps
  <1> QED
    BY <1>1, <1>2, <1>3, <1>4, <1>5, <1>6, <1>7, <1>8, <1>9 DEF Attempt

LEMMA InitKeeps == Init => IInv
  <1> SUFFICES ASSUME Init PROVE IInv
    OBVIOUS
  <1>1. /\ \A p \in Parcels : task[p] = Unstarted /\ task[p].at = "page" /\ ~InFlight(p)
        /\ task \in [Parcels -> Steps]
    BY Made DEF Init, Unstarted, InFlight
  <1>2. held \in [Keys -> Troubles] /\ \A k \in Keys : held[k] = NoTrouble
    BY Made DEF Init
  <1>3. left \in [{"moves", "reloads", "troubles"} -> Nat] /\ left.moves = MaxMoves
    BY BoundsAssumption DEF Init
  <1>4. TypeOK
    BY <1>1, <1>2, <1>3 DEF Init, TypeOK, Servers
  <1>5. HeldTwice
    BY <1>2 DEF HeldTwice, Keys
  <1>6. Kept
    <2>1. \A p \in Parcels : task[p] # Over /\ bringup[p] = "none"
      BY <1>1 DEF Init, Over
    <2> QED
      BY <1>1, <2>1 DEF Kept
  <1>7. ~NoTrouble.words
    BY DEF NoTrouble
  <1>8. Once
    BY <1>2, <1>7 DEF Init, Once, Keys
  <1>9. MovesPay
    BY <1>1, <1>3, BoundsAssumption DEF Init, MovesPay
  <1> QED
    BY <1>4, <1>5, <1>6, <1>8, <1>9 DEF IInv

\* The New page: nothing has been said, and a run begins with its draft.
LEMMA StartStep ==
    ASSUME IInv, NEW p \in Parcels, Start(p) \/ CreateFails(p)
    PROVE  IInv'
  <1> PICK step \in {Unstarted, [at |-> "creating"]} :
         /\ task' = [task EXCEPT ![p] = step]
         /\ UNCHANGED <<current, bringup, given, draft, held, drawn, offered,
                        strayed, unsure, dropped>>
    BY DEF Start, CreateFails, history
  <1>1. task[p].at \in {"page", "creating"}
    BY DEF Start, CreateFails, Unstarted
  <1>2. step \in Steps /\ step.at \in {"page", "creating"} /\ step # Over
    BY Made DEF Unstarted, Over
  <1>3. MovesKept
    BY FailingKeepsMoves DEF Start, CreateFails
  <1>4. /\ task[p] # Over /\ ~InFlight(p) /\ ~InFlight(p)'
        /\ task'[p] = step
        /\ \A q \in Parcels \ {p} : task'[q] = task[q] /\ InFlight(q)' = InFlight(q)
    BY <1>1, <1>2 DEF Over, InFlight, IInv, TypeOK
  <1>5. TypeOK'
    <2>1. \A k \in Keys : held[k] = NoTrouble \/ task'[held[k].of] = Over
      BY <1>4, HeldIsOfSomebody
    <2>2. draft' \subseteq {q \in Parcels : task'[q] = Over \/ InFlight(q)'}
      BY <1>4 DEF IInv, TypeOK
    <2> QED
      BY <1>2, <1>3, <2>1, <2>2 DEF IInv, TypeOK, MovesKept
  <1>6. HeldTwice'
    BY DEF IInv, HeldTwice
  <1>7. Kept'
    BY <1>1, <1>2, <1>4 DEF IInv, Kept
  <1>8. Once'
    BY DEF IInv, Once
  <1>9. MovesPay'
    BY <1>2, <1>3, <1>4 DEF IInv, MovesPay, MovesKept
  <1> QED
    BY <1>5, <1>6, <1>7, <1>8, <1>9 DEF IInv

LEMMA CreatedStep ==
    ASSUME IInv, NEW p \in Parcels, Created(p)
    PROVE  IInv'
  <1>1. /\ task[p].at = "creating" /\ task[p] # Over /\ ~InFlight(p)
        /\ bringup' = [bringup EXCEPT ![p] = "coming"]
        /\ UNCHANGED <<current, given, drawn, offered, left, strayed, unsure, dropped>>
    BY DEF Created, Over, InFlight
  <1>2. MovesKept
    BY <1>1, FailingKeepsMoves
  <1>3. CASE current # "home"
    <2> DEFINE trouble == Trouble(p, TRUE)
    <2>1. Ended(p, trouble)
      BY <1>3, EndEnds DEF Created
    <2>2. trouble \in Troubles /\ trouble.of = p /\ trouble.words
      BY DEF Trouble, Troubles
    <2>3. given[p] \in Nat /\ given' = [given EXCEPT ![p] = given[p]]
      BY <1>1 DEF IInv, TypeOK
    <2> HIDE DEF trouble
    <2> QED
      BY <1>1, <1>2, <2>1, <2>2, <2>3, EndedKeeps
  <1>4. CASE current = "home"
    <2> DEFINE step == [at |-> "asking", polls |-> 0]
    <2>1. step \in Steps /\ step.at = "asking" /\ step # Over
      <3>1. 0 \in 0..(MaxPolls - 1)
        BY BoundsAssumption
      <3> QED
        BY <3>1, Made DEF Over
    <2>2. task' = [task EXCEPT ![p] = step] /\ draft' = draft \cup {p} /\ UNCHANGED held
      BY <1>4 DEF Created
    <2> HIDE DEF step
    <2>3. /\ task'[p] = step /\ InFlight(p)'
          /\ \A q \in Parcels \ {p} : task'[q] = task[q] /\ InFlight(q)' = InFlight(q)
      BY <2>1, <2>2 DEF InFlight, IInv, TypeOK
    <2>4. held[p] = NoTrouble
      BY <1>1, HeldIsOfSomebody DEF IInv, HeldTwice, Keys
    <2>5. TypeOK'
      <3>1. \A k \in Keys : held[k] = NoTrouble \/ task'[held[k].of] = Over
        BY <1>1, <2>3, HeldIsOfSomebody
      <3>2. draft' \subseteq {q \in Parcels : task'[q] = Over \/ InFlight(q)'}
        BY <2>2, <2>3 DEF IInv, TypeOK
      <3>3. /\ task' \in [Parcels -> Steps]
            /\ bringup' \in [Parcels -> {"none", "coming", "up", "failed"}]
        BY <1>1, <2>1, <2>2 DEF IInv, TypeOK
      <3> QED
        BY <1>1, <2>2, <3>1, <3>2, <3>3 DEF IInv, TypeOK
    <2>6. HeldTwice'
      BY <2>2 DEF IInv, HeldTwice
    <2>7. Kept'
      BY <1>1, <2>1, <2>2, <2>3 DEF IInv, TypeOK, Kept
    <2>8. Once'
      BY <1>1, <2>2, <2>4 DEF IInv, TypeOK, Once, Kept
    <2>9. MovesPay'
      BY <1>1, <2>1, <2>3 DEF IInv, MovesPay
    <2> QED
      BY <2>5, <2>6, <2>7, <2>8, <2>9 DEF IInv
  <1> QED
    BY <1>3, <1>4

LEMMA BringUpStep ==
    ASSUME IInv, NEW p \in Parcels, BringUp(p)
    PROVE  IInv'
  <1>1. /\ bringup[p] = "coming"
        /\ \E how \in {"up", "failed"} : bringup' = [bringup EXCEPT ![p] = how]
        /\ UNCHANGED <<current, task, given, draft, held, drawn, offered, left,
                       strayed, unsure, dropped>>
    BY DEF BringUp, history
  <1>2. /\ bringup' \in [Parcels -> {"none", "coming", "up", "failed"}]
        /\ \A q \in Parcels : bringup'[q] = "none" <=> bringup[q] = "none"
    BY <1>1 DEF IInv, TypeOK
  <1>3. \A q \in Parcels : InFlight(q)' = InFlight(q)
    BY <1>1 DEF InFlight
  <1>4. TypeOK'
    BY <1>1, <1>2, <1>3 DEF IInv, TypeOK
  <1>5. Kept' /\ Once'
    BY <1>1, <1>2, <1>3 DEF IInv, Kept, Once
  <1> QED
    BY <1>1, <1>4, <1>5 DEF IInv, HeldTwice, MovesPay

\* Words put in front of somebody, once, wherever they were until then.
LEMMA MountStep ==
    ASSUME IInv, NEW p \in Parcels, Mount(p)
    PROVE  IInv'
  <1> DEFINE taken == IF Delivering(p) THEN {} ELSE draft \cap {p}
  <1>1. /\ current = "home" /\ drawn' = p /\ draft' = draft \ taken
        /\ offered' = [q \in Parcels |-> IF q \in taken THEN offered[q] + 1 ELSE offered[q]]
        /\ UNCHANGED <<current, task, bringup, given, held, left, strayed, unsure, dropped>>
    BY DEF Mount, Offer, history
  <1>2. \A q \in Parcels : InFlight(q)' = InFlight(q) /\ (InFlight(q) => q \notin taken)
    BY <1>1 DEF InFlight, Delivering
  <1>3. taken \subseteq draft \cap Parcels
    BY DEF IInv, TypeOK
  <1> HIDE DEF taken
  <1>4. /\ offered' \in [Parcels -> Nat]
        /\ \A q \in Parcels : /\ q \in taken => offered'[q] = offered[q] + 1
                              /\ q \notin taken => offered'[q] = offered[q]
    BY <1>1 DEF IInv, TypeOK
  <1>5. TypeOK'
    BY <1>1, <1>2, <1>3, <1>4 DEF IInv, TypeOK
  <1>6. Kept'
    <2>1. \A q \in taken : offered'[q] > 0
      BY <1>3, <1>4 DEF IInv, TypeOK
    <2> QED
      BY <1>1, <1>2, <1>4, <2>1 DEF IInv, Kept
  <1>7. Once'
    <2>1. ASSUME NEW q \in Parcels, q \notin unsure, q \in taken
          PROVE  /\ given'[q] = 0 /\ offered'[q] = 1 /\ bringup'[q] # "none"
                 /\ q \notin draft' /\ held'[q] = NoTrouble
      <3>1. q \in draft /\ task[q] = Over
        BY <1>2, <1>3, <2>1 DEF IInv, TypeOK
      <3>2. bringup[q] # "none"
        <4>1. task[q].at = "over"
          BY <3>1 DEF Over
        <4> QED
          BY <4>1 DEF IInv, Kept
      <3>3. given[q] = 0 /\ offered[q] = 0 /\ held[q] = NoTrouble
        BY <2>1, <3>1 DEF IInv, Once
      <3> QED
        BY <1>1, <1>4, <2>1, <3>2, <3>3
    <2>2. ~NoTrouble.words
      BY DEF NoTrouble
    <2> QED
      BY <1>1, <1>4, <2>1, <2>2 DEF IInv, Once
  <1> QED
    BY <1>1, <1>5, <1>6, <1>7 DEF IInv, HeldTwice, MovesPay

LEMMA HearStep ==
    ASSUME IInv, Hear
    PROVE  IInv'
  <1> DEFINE told == Undelivered
             mine(q) == told.words /\ q = told.of
  <1>1. /\ drawn \in Parcels /\ drawn \in Keys /\ Place \in Keys
        /\ held \in [Keys -> Troubles] /\ \A q \in Parcels : q \in Keys
    BY DEF Hear, IInv, TypeOK, Keys
  <1>2. /\ told \in Troubles /\ told # NoTrouble
        /\ told.of \in Parcels /\ held[told.of] = told /\ task[told.of] = Over
    BY <1>1, HeldIsOfSomebody DEF Hear, Undelivered, IInv, HeldTwice
  <1>3. /\ held' = [k \in Keys |-> IF held[k] = told THEN NoTrouble ELSE held[k]]
        /\ offered' = [q \in Parcels |-> IF mine(q) THEN offered[q] + 1 ELSE offered[q]]
        /\ UNCHANGED <<current, task, bringup, given, draft, drawn, left,
                       strayed, unsure, dropped>>
    BY DEF Hear, Offer, history
  <1>4. /\ held' \in [Keys -> Troubles]
        /\ held'[told.of] = NoTrouble
        /\ \A q \in Parcels \ {told.of} : held'[q] = held[q]
        /\ held'[Place] = NoTrouble \/ (held'[Place] = held[Place] /\ held[Place] # told)
    BY <1>1, <1>2, <1>3, Made DEF IInv, HeldTwice
  <1>5. \A q \in Parcels : InFlight(q)' = InFlight(q)
    BY <1>3 DEF InFlight
  <1>6. /\ offered' \in [Parcels -> Nat]
        /\ \A q \in Parcels : q # told.of => offered'[q] = offered[q]
        /\ told.words => offered'[told.of] = offered[told.of] + 1
        /\ ~told.words => offered' = offered
    BY <1>2, <1>3 DEF IInv, TypeOK
  <1> HIDE DEF told
  <1>7. HeldTwice'
    BY <1>1, <1>2, <1>4 DEF IInv, HeldTwice
  <1>8. TypeOK'
    <2>1. \A k \in Keys : held'[k] = NoTrouble \/ task'[held'[k].of] = Over
      BY <1>1, <1>3, HeldIsOfSomebody
    <2> QED
      BY <1>3, <1>4, <1>5, <1>6, <2>1 DEF IInv, TypeOK
  <1>9. Kept'
    <2>1. \A q \in Parcels \ {told.of} : offered'[q] = offered[q] /\ held'[q] = held[q]
      BY <1>4, <1>6
    <2>2. held[told.of] = Trouble(told.of, TRUE) => told.words
      BY <1>2 DEF Trouble
    <2>3. offered[told.of] > 0 => offered'[told.of] > 0
      BY <1>2, <1>6 DEF IInv, TypeOK
    <2>4. told.words => offered'[told.of] > 0
      BY <1>2, <1>6 DEF IInv, TypeOK
    <2> QED
      BY <1>2, <1>3, <1>5, <2>1, <2>2, <2>3, <2>4 DEF IInv, Kept
  <1>10. Once'
    <2>1. ASSUME NEW q \in Parcels, q \notin unsure
          PROVE  /\ given[q] + offered'[q] <= 1
                 /\ bringup[q] = "none" \/ q \in draft \/ held'[q].words
                       => given[q] = 0 /\ offered'[q] = 0
                 /\ q \in draft => held'[q] = NoTrouble
      <3>1. CASE q # told.of
        BY <2>1, <3>1, <1>4, <1>6 DEF IInv, Once
      <3>2. CASE q = told.of
        <4>1. q \notin draft /\ bringup[q] # "none" /\ ~held'[q].words
          <5>1. held[q] # NoTrouble /\ task[q].at = "over"
            BY <1>2, <3>2 DEF Over
          <5>2. ~NoTrouble.words
            BY DEF NoTrouble
          <5>3. ~held'[q].words
            BY <1>4, <3>2, <5>2
          <5>4. bringup[q] # "none"
            BY <5>1 DEF IInv, Kept
          <5> QED
            BY <2>1, <5>1, <5>3, <5>4 DEF IInv, Once
        <4>2. told.words => given[q] = 0 /\ offered[q] = 0
          BY <1>2, <2>1, <3>2 DEF IInv, Once
        <4>3. given[q] + offered'[q] <= 1
          BY <1>6, <2>1, <3>2, <4>2 DEF IInv, Once
        <4> QED
          BY <4>1, <4>3
      <3> QED
        BY <3>1, <3>2
    <2> QED
      BY <1>3, <2>1 DEF Once
  <1> QED
    BY <1>3, <1>7, <1>8, <1>9, <1>10 DEF IInv, MovesPay

\* Another server: every attempt that reads a file's bytes may lose that one.
LEMMA MoveStep ==
    ASSUME IInv, Move
    PROVE  IInv'
  <1>1. /\ Spend("moves") /\ current' \in Servers /\ drawn' = Nobody
        /\ UNCHANGED <<task, bringup, given, draft, held, offered, strayed, unsure, dropped>>
    BY DEF Move, history
  <1>2. /\ left' \in [{"moves", "reloads", "troubles"} -> Nat]
        /\ left'.moves = left.moves - 1
    BY <1>1, SpendTyped DEF IInv
  <1>3. \A q \in Parcels : InFlight(q)' = InFlight(q)
    BY <1>1 DEF InFlight
  <1>4. TypeOK'
    BY <1>1, <1>2, <1>3 DEF IInv, TypeOK
  <1>5. MovesPay'
    BY <1>1, <1>2, BoundsAssumption DEF IInv, TypeOK, MovesPay
  <1> QED
    BY <1>1, <1>3, <1>4, <1>5 DEF IInv, HeldTwice, Kept, Once

LEMMA ReloadStep ==
    ASSUME IInv, Reload
    PROVE  IInv'
  <1> DEFINE sending == {p \in Parcels : task[p].at = "sending" /\ bringup[p] = "up"}
  <1>1. /\ Spend("reloads")
        /\ task' = [p \in Parcels |-> Reloaded(p)]
        /\ unsure' = unsure \cup sending
        /\ dropped' = dropped \cup ({held[k].of : k \in Keys} \ {Nobody})
        /\ held' = [k \in Keys |-> NoTrouble]
        /\ drawn' = Nobody
        /\ UNCHANGED <<current, bringup, draft, offered, strayed>>
    BY DEF Reload
  <1>2. PICK taken \in SUBSET sending :
           given' = [p \in Parcels |-> IF p \in taken THEN given[p] + 1 ELSE given[p]]
    BY DEF Reload
  <1>3. MovesKept
    BY <1>1, SpendTyped DEF IInv, MovesKept
  <1>4. \A p \in Parcels :
           /\ task'[p] \in Steps /\ ~InFlight(p)' /\ task'[p].at # "reading"
           /\ task[p].at \in {"page", "creating"} <=> task'[p].at \in {"page", "creating"}
           /\ task[p] = Over => task'[p] = Over
           /\ InFlight(p) => task'[p] = Over
           /\ task'[p] = Over => InFlight(p) \/ task[p] = Over
    <2> TAKE p \in Parcels
    <2>1. task'[p] = Reloaded(p) /\ task[p] \in Steps
      BY <1>1 DEF IInv, TypeOK
    <2>2. CASE task[p].at = "creating"
      BY <2>1, <2>2, Made DEF Reloaded, Unstarted, Over, InFlight
    <2>3. CASE InFlight(p)
      BY <2>1, <2>3, Made DEF Reloaded, Over, InFlight
    <2>4. CASE ~InFlight(p) /\ task[p].at # "creating"
      <3>1. task'[p] = task[p]
        BY <2>1, <2>4 DEF Reloaded
      <3>2. task[p].at \in {"page", "over"}
        BY <2>1, <2>4, StepFacts DEF InFlight, Moving
      <3> QED
        BY <2>1, <2>4, <3>1, <3>2 DEF InFlight
    <2> QED
      BY <2>2, <2>3, <2>4
  <1>5. /\ given' \in [Parcels -> Nat]
        /\ \A p \in Parcels : given[p] > 0 => given'[p] > 0
        /\ \A p \in Parcels : p \notin unsure' => given'[p] = given[p] /\ p \notin unsure
    BY <1>1, <1>2 DEF IInv, TypeOK
  <1>6. /\ held' \in [Keys -> Troubles] /\ \A k \in Keys : held'[k] = NoTrouble
        /\ Place \in Keys /\ \A p \in Parcels : p \in Keys
    BY <1>1, Made DEF Keys
  <1> HIDE DEF sending
  <1>7. TypeOK'
    <2>1. draft' \subseteq {p \in Parcels : task'[p] = Over \/ InFlight(p)'}
      BY <1>1, <1>4 DEF IInv, TypeOK
    <2>2. task' \in [Parcels -> Steps]
      BY <1>1, <1>4
    <2> QED
      BY <1>1, <1>3, <1>5, <1>6, <2>1, <2>2 DEF IInv, TypeOK, MovesKept
  <1>8. HeldTwice'
    BY <1>6 DEF HeldTwice
  <1>9. Kept'
    <2>1. ASSUME NEW p \in Parcels, held[p] = Trouble(p, TRUE)
          PROVE  p \in dropped'
      BY <1>1, <1>6, <2>1, NamesAssumption DEF Trouble
    <2> QED
      BY <1>1, <1>4, <1>5, <2>1 DEF IInv, Kept
  <1>10. Once'
    <2>1. ~NoTrouble.words
      BY DEF NoTrouble
    <2> QED
      BY <1>1, <1>5, <1>6, <2>1 DEF IInv, Once
  <1>11. MovesPay'
    BY <1>1, <1>3, <1>4 DEF IInv, MovesPay, MovesKept
  <1> QED
    BY <1>7, <1>8, <1>9, <1>10, <1>11 DEF IInv

LEMMA NextKeeps ==
    ASSUME IInv, [Next]_vars
    PROVE  IInv'
  <1>1. CASE UNCHANGED vars
    <2>1. \A p \in Parcels : InFlight(p)' = InFlight(p)
      BY <1>1 DEF vars, InFlight
    <2>2. TypeOK'
      BY <1>1, <2>1 DEF vars, history, IInv, TypeOK
    <2>3. Kept'
      BY <1>1, <2>1 DEF vars, history, IInv, Kept
    <2> QED
      BY <1>1, <2>2, <2>3 DEF vars, history, IInv, HeldTwice, Once, MovesPay
  <1>2. CASE \E p \in Parcels : Switch(p)
    <2>1. \A p \in Parcels : InFlight(p)' = InFlight(p)
      BY <1>2 DEF Switch, InFlight
    <2>2. TypeOK'
      BY <1>2, <2>1 DEF Switch, history, IInv, TypeOK
    <2>3. Kept'
      BY <1>2, <2>1 DEF Switch, history, IInv, Kept
    <2> QED
      BY <1>2, <2>2, <2>3 DEF Switch, history, IInv, HeldTwice, Once, MovesPay
  <1>3. CASE Unmount
    <2>1. \A p \in Parcels : InFlight(p)' = InFlight(p)
      BY <1>3 DEF Unmount, InFlight
    <2>2. TypeOK'
      BY <1>3, <2>1 DEF Unmount, history, IInv, TypeOK
    <2>3. Kept'
      BY <1>3, <2>1 DEF Unmount, history, IInv, Kept
    <2> QED
      BY <1>3, <2>2, <2>3 DEF Unmount, history, IInv, HeldTwice, Once, MovesPay
  <1> QED
    BY <1>1, <1>2, <1>3, StartStep, CreatedStep, BringUpStep, AttemptStep, MountStep,
       HearStep, MoveStep, ReloadStep DEF Next

LEMMA Inductive == Spec => []IInv
  <1>1. Init => IInv
    BY InitKeeps
  <1>2. IInv /\ [Next]_vars => IInv'
    BY NextKeeps
  <1> QED
    BY <1>1, <1>2, PTL DEF Spec

-----------------------------------------------------------------------------

\* Every variable stays of its type: in particular an attempt that keeps words
\* is over or on its way, and what is held is of an attempt that is over.
THEOREM TypeCorrect == Spec => []TypeOK
  <1>1. IInv => TypeOK
    BY DEF IInv
  <1> QED
    BY <1>1, Inductive, PTL

\* The words of a first message are the agent's, or kept, or were put in front
\* of somebody, for any number of messages, files, moves, reloads and failures
\* (outbox.ts `run`, `leaveDraft`, `hold`).
THEOREM WordsKept == Spec => []WordsAreKept
  <1>1. IInv => WordsAreKept
    <2> SUFFICES ASSUME IInv, NEW p \in Parcels, bringup[p] # "none"
                 PROVE  \/ given[p] > 0 \/ offered[p] > 0
                        \/ InFlight(p) \/ p \in draft
                        \/ \E k \in Keys : held[k] = Trouble(p, TRUE)
                        \/ p \in dropped
      BY DEF WordsAreKept
    <2>1. InFlight(p) \/ task[p] = Over
      BY StepFacts DEF IInv, TypeOK, Kept, InFlight, Moving
    <2>2. p \in Keys
      BY DEF Keys
    <2> QED
      BY <2>1, <2>2 DEF IInv, Kept
  <1> QED
    BY <1>1, Inductive, PTL

\* Words the agent was given are not offered again, and none are offered twice,
\* unless the answer to their send was never heard (outbox.ts `run`, Composer).
THEOREM SaidOnce == Spec => []NothingIsSaidTwice
  <1>1. IInv => NothingIsSaidTwice
    BY DEF IInv, Once, NothingIsSaidTwice
  <1> QED
    BY <1>1, Inductive, PTL

\* A window that moves costs at most the file whose bytes were being read
\* (outbox.ts `run`: the server is looked at again before each file).
THEOREM FewStray == Spec => []AtMostOneFileStrays
  <1>1. IInv => AtMostOneFileStrays
    BY DEF IInv, MovesPay, AtMostOneFileStrays
  <1> QED
    BY <1>1, Inductive, PTL

=============================================================================
