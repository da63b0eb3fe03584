-------------------------------- MODULE Outbox --------------------------------
(***************************************************************************)
(* The first message of a workspace that is still coming up                *)
(* (desktop/src/workspace/outbox.ts), the copy of its words kept beside it *)
(* (draft.ts), and the composer that shows whatever came back              *)
(* (ui/Composer.tsx), in a window that can be pointed at another           *)
(* Firetower, or reloaded, at any moment of it.                            *)
(*                                                                         *)
(* Every parcel is the first message of a run of its own, and the runs are *)
(* of one workspace: somebody adds an agent while the first is coming up.  *)
(* A parcel and its run go by one name.  Its words are never empty.        *)
(***************************************************************************)
EXTENDS Naturals, FiniteSets

CONSTANTS
    Parcels,        \* first messages, and the runs they are for
    Files,          \* how many files are attached to each
    MaxPolls,       \* bound: times the bring-up is asked about
    MaxMoves,       \* bound: times the window is pointed elsewhere or back
    MaxReloads,     \* bound: times the document is reloaded
    MaxTroubles     \* bound: requests that fail at the server asked

ASSUME BoundsAssumption ==
    /\ Files \in Nat /\ MaxPolls \in Nat \ {0}
    /\ MaxMoves \in Nat /\ MaxReloads \in Nat /\ MaxTroubles \in Nat

Place == "place"       \* the workspace, as a key of `held`
Nobody == "nobody"
Keys == Parcels \cup {Place}
Servers == {"home", "elsewhere"}

ASSUME NamesAssumption == Place \notin Parcels /\ Nobody \notin Parcels

VARIABLES
    current,    \* the server the generated client asks
    task,       \* each parcel's attempt: where it has got to
    bringup,    \* each run's bring-up, at home
    given,      \* how many times each run's agent was given the words
    draft,      \* session storage: the runs with words waiting
    held,       \* `held`: the trouble filed under each key, if any
    drawn,      \* the run the mounted composer is drawing
    offered,    \* how often each parcel's words were put in front of somebody
    left,       \* what remains of each bound
    strayed,    \* history: how many of each parcel's files went elsewhere
    unsure,     \* history: sends whose answer nobody will hear
    covered,    \* history: troubles filed over under the workspace
    dropped     \* history: troubles unsaid when the document was reloaded

history == <<strayed, unsure, covered, dropped>>
vars == <<current, task, bringup, given, draft, held, drawn, offered, left, history>>

-----------------------------------------------------------------------------
(* An attempt *)

Unstarted == [at |-> "page"]
Over == [at |-> "over"]

InFlight(p) == task[p].at \in {"asking", "listing", "napping", "reading", "uploading", "sending"}

Steps ==
    [at: {"page", "creating", "over"}]
    \cup [at: {"asking", "napping"}, polls: 0..(MaxPolls - 1)]
    \cup [at: {"listing"}, polls: 0..(MaxPolls - 1), of: Servers]
    \cup [at: {"reading"}, files: 1..Files, missing: Nat]
    \cup [at: {"uploading"}, files: 1..Files, missing: Nat, to: Servers]
    \cup [at: {"sending"}, missing: Nat]

(* `delivering`, as the composer asks it. *)
Delivering(p) == current = "home" /\ InFlight(p)

Troubles == [of: Parcels \cup {Nobody}, words: BOOLEAN]
NoTrouble == [of |-> Nobody, words |-> FALSE]
Trouble(p, words) == [of |-> p, words |-> words]

Spend(what) == left[what] > 0 /\ left' = [left EXCEPT ![what] = @ - 1]

(* A request to another server may fail for being about nothing there. *)
Fails(server) == IF server = "home" THEN Spend("troubles") ELSE UNCHANGED left

(* Mutant of Hold: under the run it was for, and nothing else. *)
XHold(trouble) ==
    /\ held' = [held EXCEPT ![trouble.of] = trouble]
    /\ UNCHANGED covered

(* `hold`: under the run and under the workspace, over whatever was there. *)
Hold(trouble) ==
    /\ held' = [held EXCEPT ![trouble.of] = trouble, ![Place] = trouble]
    /\ covered' = covered \cup ({held[Place].of} \ {Nobody, trouble.of})

(* Mutant of End: the draft comes out only when there is a trouble. *)
XEnd(p, troubles) ==
    /\ task' = [task EXCEPT ![p] = Over]
    /\ IF troubles = {}
       THEN UNCHANGED <<draft, held, covered>>
       ELSE draft' = draft \ {p} /\ \E trouble \in troubles : Hold(trouble)

(* The end of an attempt: the draft comes out, and the trouble goes in. *)
End(p, troubles) ==
    /\ task' = [task EXCEPT ![p] = Over]
    /\ draft' = draft \ {p}
    /\ IF troubles = {}
       THEN UNCHANGED <<held, covered>>
       ELSE \E trouble \in troubles : Hold(trouble)

Onward(p, step) ==
    /\ task' = [task EXCEPT ![p] = step]
    /\ UNCHANGED <<draft, held, covered>>

(* The head of `untilReady`'s loop. *)
Ask(p, polls) ==
    IF current = "home"
    THEN Onward(p, [at |-> "asking", polls |-> polls])
    ELSE End(p, {Trouble(p, TRUE)})

(* Not up yet, or no answer: ask again later, until it is too late. *)
NotYet(p) ==
    LET polls == task[p].polls + 1
    IN  IF polls = MaxPolls
        THEN End(p, {Trouble(p, TRUE)})
        ELSE Onward(p, [at |-> "napping", polls |-> polls])

(* Mutant of Proceed: the window is looked at before the first file only. *)
XProceed(p, files, missing) ==
    IF files > 0
    THEN Onward(p, [at |-> "reading", files |-> files, missing |-> missing])
    ELSE Onward(p, [at |-> "sending", missing |-> missing])

(* From one attached file to the next, and then to the message; the window *)
(* is looked at before each.                                               *)
Proceed(p, files, missing) ==
    CASE current = "home" /\ files > 0 ->
           Onward(p, [at |-> "reading", files |-> files, missing |-> missing])
      [] current = "home" /\ files = 0 ->
           Onward(p, [at |-> "sending", missing |-> missing])
      [] OTHER -> End(p, {Trouble(p, TRUE)})

-----------------------------------------------------------------------------
(* The New page *)

Start(p) ==
    /\ task[p] = Unstarted /\ current = "home"
    /\ task' = [task EXCEPT ![p] = [at |-> "creating"]]
    /\ UNCHANGED <<current, bringup, given, draft, held, drawn, offered, left, history>>

CreateFails(p) ==
    /\ task[p].at = "creating"
    /\ Spend("troubles")
    /\ task' = [task EXCEPT ![p] = Unstarted]
    /\ UNCHANGED <<current, bringup, given, draft, held, drawn, offered, history>>

(* `leaveDraft`, then `post`, which asks at once. *)
Created(p) ==
    /\ task[p].at = "creating"
    /\ bringup' = [bringup EXCEPT ![p] = "coming"]
    /\ IF current = "home"
       THEN /\ task' = [task EXCEPT ![p] = [at |-> "asking", polls |-> 0]]
            /\ draft' = draft \cup {p}
            /\ UNCHANGED <<held, covered>>
       ELSE End(p, {Trouble(p, TRUE)})
    /\ UNCHANGED <<current, given, drawn, offered, left, strayed, unsure, dropped>>

BringUp(p) ==
    /\ bringup[p] = "coming"
    /\ \E how \in {"up", "failed"} : bringup' = [bringup EXCEPT ![p] = how]
    /\ UNCHANGED <<current, task, given, draft, held, drawn, offered, left, history>>

-----------------------------------------------------------------------------
(* `untilReady` *)

(* The session is read; its events are asked of whoever is current by now. *)
SessionRead(p) ==
    /\ task[p].at = "asking"
    /\ Onward(p, [at |-> "listing", polls |-> task[p].polls, of |-> current])
    /\ UNCHANGED <<current, bringup, given, drawn, offered, left, strayed, unsure, dropped>>

EventsRead(p) ==
    /\ task[p].at = "listing"
    /\ \E heard \in IF task[p].of = "home" THEN {bringup[p]} ELSE {"coming", "up", "failed"} :
          CASE heard = "up" -> Proceed(p, Files, 0)
            [] heard = "failed" -> End(p, {Trouble(p, TRUE)})
            [] heard = "coming" -> NotYet(p)
    /\ UNCHANGED <<current, bringup, given, drawn, offered, left, strayed, unsure, dropped>>

Unread(p) ==
    /\ \/ task[p].at = "asking" /\ Spend("troubles")
       \/ task[p].at = "listing" /\ Fails(task[p].of)
    /\ NotYet(p)
    /\ UNCHANGED <<current, bringup, given, drawn, offered, strayed, unsure, dropped>>

NapOver(p) ==
    /\ task[p].at = "napping"
    /\ Ask(p, task[p].polls)
    /\ UNCHANGED <<current, bringup, given, drawn, offered, left, strayed, unsure, dropped>>

-----------------------------------------------------------------------------
(* `run`: the files, one at a time, and then the message *)

(* The bytes are read, and go to whoever is current by now. *)
BytesRead(p) ==
    /\ task[p].at = "reading"
    /\ Onward(p, [at |-> "uploading", files |-> task[p].files,
                  missing |-> task[p].missing, to |-> current])
    /\ strayed' = IF current = "home" THEN strayed ELSE [strayed EXCEPT ![p] = @ + 1]
    /\ UNCHANGED <<current, bringup, given, drawn, offered, left, unsure, dropped>>

Placed(p) ==
    /\ task[p].at = "uploading"
    /\ Proceed(p, task[p].files - 1, task[p].missing)
    /\ UNCHANGED <<current, bringup, given, drawn, offered, left, strayed, unsure, dropped>>

(* It cannot be read, or will not be taken: named as missing. *)
NotPlaced(p) ==
    /\ \/ task[p].at = "reading" /\ Spend("troubles")
       \/ task[p].at = "uploading" /\ Fails(task[p].to)
       \/ task[p].at = "uploading" /\ bringup[p] # "up" /\ UNCHANGED left
    /\ Proceed(p, task[p].files - 1, task[p].missing + 1)
    /\ UNCHANGED <<current, bringup, given, drawn, offered, strayed, unsure, dropped>>

Sent(p) ==
    /\ task[p].at = "sending"
    /\ bringup[p] = "up"
    /\ given' = [given EXCEPT ![p] = @ + 1]
    /\ End(p, IF task[p].missing > 0 THEN {Trouble(p, FALSE)} ELSE {})
    /\ UNCHANGED <<current, bringup, drawn, offered, left, strayed, unsure, dropped>>

(* Refused, or taken and the answer lost: the same to whoever asked. *)
NotSent(p) ==
    /\ task[p].at = "sending"
    /\ \/ bringup[p] # "up" /\ UNCHANGED <<given, left, unsure>>
       \/ Spend("troubles") /\ UNCHANGED <<given, unsure>>
       \/ /\ Spend("troubles")
          /\ given' = [given EXCEPT ![p] = @ + 1]
          /\ unsure' = unsure \cup {p}
    /\ End(p, {Trouble(p, TRUE)})
    /\ UNCHANGED <<current, bringup, drawn, offered, strayed, dropped>>

-----------------------------------------------------------------------------
(* The composer *)

(* `undelivered`: what is filed under the run, or else under the workspace. *)
Undelivered == IF held[drawn] # NoTrouble THEN held[drawn] ELSE held[Place]

Offer(runs) == offered' = [p \in Parcels |-> IF p \in runs THEN offered[p] + 1 ELSE offered[p]]

(* It takes the draft of the run it is first drawn for, unless that is on *)
(* its way.                                                               *)
Mount(p) ==
    /\ drawn = Nobody /\ current = "home" /\ bringup[p] # "none"
    /\ drawn' = p
    /\ LET taken == IF Delivering(p) THEN {} ELSE draft \cap {p}
       IN  draft' = draft \ taken /\ Offer(taken)
    /\ UNCHANGED <<current, task, bringup, given, held, left, history>>

(* Another run of the workspace is read, in the same composer. *)
Switch(p) ==
    /\ drawn \notin {Nobody, p} /\ bringup[p] # "none"
    /\ drawn' = p
    /\ UNCHANGED <<current, task, bringup, given, draft, held, offered, left, history>>

Unmount ==
    /\ drawn # Nobody
    /\ drawn' = Nobody
    /\ UNCHANGED <<current, task, bringup, given, draft, held, offered, left, history>>

(* Said once: taken from under every key it was filed under. *)
Hear ==
    /\ drawn # Nobody
    /\ Undelivered # NoTrouble
    /\ Offer(IF Undelivered.words THEN {Undelivered.of} ELSE {})
    /\ held' = [k \in Keys |-> IF held[k] = Undelivered THEN NoTrouble ELSE held[k]]
    /\ UNCHANGED <<current, task, bringup, given, draft, drawn, left, history>>

-----------------------------------------------------------------------------
(* The window *)

(* Mutant of Move: the provider is not keyed on the server. *)
XMove ==
    /\ Spend("moves")
    /\ current' \in Servers \ {current}
    /\ UNCHANGED <<task, bringup, given, draft, held, drawn, offered, history>>

(* What is mounted is keyed on the server, and goes with it. *)
Move ==
    /\ Spend("moves")
    /\ current' \in Servers \ {current}
    /\ drawn' = Nobody
    /\ UNCHANGED <<task, bringup, given, draft, held, offered, history>>

Reloaded(p) ==
    CASE task[p].at = "creating" -> Unstarted
      [] InFlight(p) -> Over
      [] OTHER -> task[p]

(* Mutant of Reload: as if the draft had never been left. *)
XReload ==
    /\ Spend("reloads")
    /\ task' = [p \in Parcels |-> Reloaded(p)]
    /\ unsure' = unsure \cup {p \in Parcels : task[p].at = "sending"}
    /\ dropped' = dropped \cup ({held[k].of : k \in Keys} \ {Nobody})
    /\ held' = [k \in Keys |-> NoTrouble]
    /\ drawn' = Nobody /\ draft' = {}
    /\ UNCHANGED <<current, bringup, given, offered, strayed, covered>>

(* Only session storage survives.  A send on its way may still be taken; a *)
(* creation on its way is of a run nothing was typed for.                  *)
Reload ==
    LET sending == {p \in Parcels : task[p].at = "sending" /\ bringup[p] = "up"}
    IN  /\ Spend("reloads")
        /\ task' = [p \in Parcels |-> Reloaded(p)]
        /\ \E taken \in SUBSET sending :
              given' = [p \in Parcels |-> IF p \in taken THEN given[p] + 1 ELSE given[p]]
        /\ unsure' = unsure \cup sending
        /\ dropped' = dropped \cup ({held[k].of : k \in Keys} \ {Nobody})
        /\ held' = [k \in Keys |-> NoTrouble]
        /\ drawn' = Nobody
        /\ UNCHANGED <<current, bringup, draft, offered, strayed, covered>>

-----------------------------------------------------------------------------
Init ==
    /\ current = "home"
    /\ task = [p \in Parcels |-> Unstarted]
    /\ bringup = [p \in Parcels |-> "none"]
    /\ given = [p \in Parcels |-> 0] /\ offered = [p \in Parcels |-> 0]
    /\ draft = {} /\ held = [k \in Keys |-> NoTrouble] /\ drawn = Nobody
    /\ left = [moves |-> MaxMoves, reloads |-> MaxReloads, troubles |-> MaxTroubles]
    /\ strayed = [p \in Parcels |-> 0] /\ unsure = {} /\ covered = {} /\ dropped = {}

Attempt(p) ==
    \/ SessionRead(p) \/ EventsRead(p) \/ Unread(p) \/ NapOver(p)
    \/ BytesRead(p) \/ Placed(p) \/ NotPlaced(p) \/ Sent(p) \/ NotSent(p)

Next ==
    \/ \E p \in Parcels :
          \/ Start(p) \/ CreateFails(p) \/ Created(p) \/ BringUp(p)
          \/ Attempt(p)
          \/ Mount(p) \/ Switch(p)
    \/ Unmount \/ Hear
    \/ Move \/ Reload

Spec == Init /\ [][Next]_vars

(* Timers fire, requests are answered or fail, effects run. *)
Fairness ==
    /\ \A p \in Parcels : WF_vars(Attempt(p))
    /\ WF_vars(Hear)

FairSpec == Spec /\ Fairness

-----------------------------------------------------------------------------
(* Properties *)

TypeOK ==
    /\ current \in Servers /\ drawn \in Parcels \cup {Nobody}
    /\ task \in [Parcels -> Steps]
    /\ bringup \in [Parcels -> {"none", "coming", "up", "failed"}]
    /\ given \in [Parcels -> Nat] /\ offered \in [Parcels -> Nat] /\ strayed \in [Parcels -> Nat]
    /\ held \in [Keys -> Troubles]
    /\ left \in [{"moves", "reloads", "troubles"} -> Nat]
    /\ draft \subseteq {p \in Parcels : task[p] = Over \/ InFlight(p)}
    /\ \A k \in Keys : held[k] = NoTrouble \/ task[held[k].of] = Over
    /\ drawn # Nobody => current = "home"

(* From the moment there is a workspace, the words of its first message are *)
(* the agent's, or kept, or have been put in front of somebody -- through   *)
(* moves, failures and a reload; only a handback nobody had yet seen can be *)
(* lost, by a reload, its draft being gone by then.                         *)
WordsAreKept ==
    \A p \in Parcels : bringup[p] # "none" =>
        \/ given[p] > 0 \/ offered[p] > 0
        \/ InFlight(p) \/ p \in draft
        \/ \E k \in Keys : held[k] = Trouble(p, TRUE)
        \/ p \in dropped

(* And they are one of these once: words the agent has been given are not   *)
(* offered to be sent again, and no words are offered twice, by the draft,  *)
(* by a trouble filed twice, or both -- unless the answer to the send was   *)
(* never heard.                                                             *)
NothingIsSaidTwice ==
    \A p \in Parcels : p \notin unsure => given[p] + offered[p] <= 1

(* The window moving costs another server's being handed at most the file   *)
(* whose bytes were being read: never the next, and never the message.      *)
AtMostOneFileStrays == \A p \in Parcels : strayed[p] <= MaxMoves - left.moves

(* What could not be delivered is said to whoever stays in the workspace,   *)
(* whichever of its runs they are reading; a trouble that another run's was *)
(* filed over is said only to somebody reading the run it is for.           *)
TroubleIsSaid ==
    \A p \in Parcels :
        (\E k \in Keys : held[k].of = p)
            ~> ((\A k \in Keys : held[k].of # p) \/ drawn = Nobody \/ p \in covered)
=============================================================================
