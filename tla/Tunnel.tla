-------------------------------- MODULE Tunnel --------------------------------
(***************************************************************************)
(* One tunnel to a port in a workspace, over one connection to its host:   *)
(* the request that opens it and reads from it (fleet.rs, forward.rs,      *)
(* preview.rs), the connection's read loop that routes its frames to it    *)
(* (Fleet::connect), and the worker's half (tunnel.rs), which may send a   *)
(* window of bytes before it hears that any were read.                     *)
(*                                                                         *)
(* The direction modelled is the answer's, from the port to the request.   *)
(* Bytes are counted in units, of which a chunk has a few.  The pipe holds *)
(* nothing: what the worker's writer takes from its two lanes is read.     *)
(***************************************************************************)
EXTENDS Integers, Sequences, Queues

CONSTANTS
    Chunk,      \* units that go in one frame at most
    Chunks,     \* chunks in a window
    Answer,     \* bound: units the application writes before it closes
    Destroys    \* bound: times the session is torn down

ASSUME SizesAssumption ==
    /\ Chunk \in Nat \ {0} /\ Chunks \in Nat \ {0}
    /\ Answer \in Nat /\ Destroys \in {0, 1}

Window == Chunks * Chunk

\* How many pieces wait between the read loop and the request.
Pieces == 2 * Chunks

VARIABLES
    asker,      \* the request: where it has got to
    told,       \* what it has been told of the opening, and has not yet heard
    entry,      \* its place among the fleet's requests
    routing,    \* what the connection's read loop has in hand for it
    pieces,     \* what the read loop has handed over and it has not read
    toWorker,   \* frames on their way to the worker
    control,    \* frames on their way back, in the lane that goes first
    bulk,       \* and in the other: how much is in each
    opening,    \* the worker's serve loop, over this tunnel
    table,      \* whether the worker has the tunnel among those it holds open
    reader,     \* the task reading the socket, and how much it has claimed
    left,       \* what it may still send
    read,       \* how much it has read, and sent on
    handed,     \* how much the request has been given
    destroys,   \* times the session was torn down
    slips       \* history: the gaps somebody has fallen into

ask == <<asker, told, entry, pieces>>
wire == <<toWorker, control, bulk, routing>>
worker == <<opening, table, reader, left>>
counts == <<read, handed, destroys>>
vars == <<ask, wire, worker, counts, slips>>

Smaller(a, b) == IF a < b THEN a ELSE b

OpenIt == [is |-> "open", units |-> 0]
CloseIt == [is |-> "close", units |-> 0]
Credit(units) == [is |-> "credit", units |-> units]

Credits == [i \in DOMAIN toWorker |-> toWorker[i].units]

Off == [at |-> "off", budget |-> 0]
At(where) == [at |-> where, budget |-> 0]

-----------------------------------------------------------------------------
(* The request *)

(* Nobody has the far half of `pieces` any more. *)
Unread == asker \in {"leaving", "gone"}

Open ==
    /\ asker = "none"
    /\ asker' = "asking" /\ entry' = "waiting"
    /\ toWorker' = Append(toWorker, OpenIt)
    /\ UNCHANGED <<told, pieces, control, bulk, routing, worker, counts, slips>>

Hears ==
    /\ asker = "asking" /\ told # "nothing"
    /\ IF told = "ok" THEN asker' = "reading" /\ UNCHANGED entry
                      ELSE asker' = "gone" /\ entry' = "none"
    /\ told' = "nothing"
    /\ UNCHANGED <<pieces, wire, worker, counts, slips>>

(* Twenty seconds, and the worker is told: it may be connecting still. *)
TimesOut ==
    /\ asker = "asking" /\ told = "nothing"
    /\ asker' = "gone" /\ entry' = "none"
    /\ toWorker' = Append(toWorker, CloseIt)
    /\ UNCHANGED <<told, pieces, control, bulk, routing, worker, counts, slips>>

(* The browser goes elsewhere, and the request is dropped where it waits.  An *)
(* answer it was given and had not taken up goes with it.                     *)
Dropped ==
    /\ asker = "asking"
    /\ asker' = "gone" /\ told' = "nothing"
    /\ slips' = IF told = "ok" THEN slips \cup {"orphaned"} ELSE slips
    /\ UNCHANGED <<entry, pieces, wire, worker, counts>>

(* Mutant of Recv: a chunk is granted, whatever was in it. *)
XRecv ==
    /\ asker = "reading" /\ pieces # <<>>
    /\ pieces' = Tail(pieces)
    /\ handed' = handed + Head(pieces)
    /\ toWorker' = Append(toWorker, Credit(Chunk))
    /\ UNCHANGED <<asker, told, entry, control, bulk, routing, worker, read, destroys, slips>>

(* A piece is read, and its credit granted. *)
Recv ==
    /\ asker = "reading" /\ pieces # <<>>
    /\ pieces' = Tail(pieces)
    /\ handed' = handed + Head(pieces)
    /\ toWorker' = Append(toWorker, Credit(Head(pieces)))
    /\ UNCHANGED <<asker, told, entry, control, bulk, routing, worker, read, destroys, slips>>

(* The sender is gone and the channel empty: the bytes are over. *)
RecvNone ==
    /\ asker = "reading" /\ pieces = <<>> /\ entry = "none" /\ routing = 0
    /\ asker' = "finished"
    /\ UNCHANGED <<told, entry, pieces, wire, worker, counts, slips>>

(* Both halves are dropped in mid-answer; a task of its own says so. *)
HangUp ==
    /\ asker = "reading"
    /\ asker' = "leaving" /\ pieces' = <<>>
    /\ UNCHANGED <<told, entry, wire, worker, counts, slips>>

SayClose ==
    /\ asker = "leaving"
    /\ asker' = "gone" /\ entry' = "none"
    /\ toWorker' = Append(toWorker, CloseIt)
    /\ UNCHANGED <<told, pieces, control, bulk, routing, worker, counts, slips>>

-----------------------------------------------------------------------------
(* The connection's read loop, which carries everything else of the host *)

(* Mutant of HearOpened: an answer nobody waits for is only forgotten. *)
XHearOpened ==
    /\ routing = 0 /\ control # <<>> /\ Head(control) \in {"ok", "refused"}
    /\ control' = Tail(control)
    /\ IF entry = "waiting" /\ asker = "asking"
       THEN told' = Head(control) /\ entry' = "answered"
       ELSE entry' = "none" /\ UNCHANGED told
    /\ UNCHANGED <<asker, pieces, toWorker, bulk, routing, worker, counts, slips>>

(* An answer nobody waits for any more closes the socket it speaks of. *)
HearOpened ==
    /\ routing = 0 /\ control # <<>> /\ Head(control) \in {"ok", "refused"}
    /\ control' = Tail(control)
    /\ IF entry = "waiting" /\ asker = "asking"
       THEN /\ told' = Head(control) /\ entry' = "answered"
            /\ UNCHANGED toWorker
       ELSE /\ entry' = "none"
            /\ toWorker' = IF Head(control) = "ok" THEN Append(toWorker, CloseIt) ELSE toWorker
            /\ UNCHANGED told
    /\ UNCHANGED <<asker, pieces, bulk, routing, worker, counts, slips>>

HearClosed ==
    /\ routing = 0 /\ control # <<>> /\ Head(control) = "closed"
    /\ control' = Tail(control)
    /\ entry' = "none"
    /\ UNCHANGED <<asker, told, pieces, toWorker, bulk, routing, worker, counts, slips>>

(* The lane of bytes is read when the other is empty; bytes of a tunnel *)
(* nobody has are dropped.                                              *)
HearData ==
    /\ routing = 0 /\ control = <<>> /\ bulk # <<>>
    /\ bulk' = Tail(bulk)
    /\ routing' = IF entry = "none" THEN 0 ELSE Head(bulk)
    /\ UNCHANGED <<ask, toWorker, control, worker, counts, slips>>

HasRoom == Len(pieces) < Pieces

(* Handed over where there is room: the loop reads nothing until there is. *)
HandOver ==
    /\ routing > 0
    /\ IF Unread
       THEN entry' = "none" /\ UNCHANGED pieces
       ELSE HasRoom /\ pieces' = Append(pieces, routing) /\ UNCHANGED entry
    /\ routing' = 0
    /\ UNCHANGED <<asker, told, toWorker, control, bulk, worker, counts, slips>>

-----------------------------------------------------------------------------
(* The worker's serve loop *)

(* It opens a tunnel where it stands, and reads nothing until that is done. *)
Serving(frame) ==
    /\ opening \in {"none", "over"}
    /\ toWorker # <<>> /\ Head(toWorker) = frame
    /\ toWorker' = Tail(toWorker)

HearOpen ==
    /\ Serving(OpenIt)
    /\ opening' = "connecting"
    /\ UNCHANGED <<ask, control, bulk, routing, table, reader, left, counts, slips>>

(* Nothing is listening, or there is no such session. *)
Refuses ==
    /\ opening = "connecting"
    /\ opening' = "over"
    /\ control' = Append(control, "refused")
    /\ UNCHANGED <<ask, toWorker, bulk, routing, table, reader, left, counts, slips>>

Connects ==
    /\ opening = "connecting"
    /\ opening' = "connected"
    /\ control' = Append(control, "ok")
    /\ UNCHANGED <<ask, toWorker, bulk, routing, table, reader, left, counts, slips>>

Spawns ==
    /\ opening = "connected"
    /\ opening' = "spawned"
    /\ reader' = At("claim")
    /\ UNCHANGED <<ask, wire, table, left, counts, slips>>

(* Only now is it in the table -- which its reader may have left already. *)
Inserts ==
    /\ opening = "spawned"
    /\ opening' = "over" /\ table' = TRUE
    /\ slips' = IF reader.at \in {"forgotten", "over"} THEN slips \cup {"outrun"} ELSE slips
    /\ UNCHANGED <<ask, wire, reader, left, counts>>

(* Mutant of GiveBack: whoever waits is left to look for himself. *)
XGiveBack(units) ==
    /\ left' = left + units
    /\ UNCHANGED <<reader, slips>>

(* `give_back` wakes whoever is registered, and keeps no permit for one who *)
(* has looked and is not.                                                   *)
GiveBack(units) ==
    /\ left' = left + units
    /\ reader' = IF reader.at = "parked" THEN At("claim") ELSE reader
    /\ slips' = IF reader.at = "looked" THEN slips \cup {"missed"} ELSE slips

HearCredit(units) ==
    /\ Serving(Credit(units))
    /\ IF table THEN GiveBack(units) ELSE UNCHANGED <<left, reader, slips>>
    /\ UNCHANGED <<ask, control, bulk, routing, opening, table, counts>>

(* Both tasks are stopped; one that has left the table goes on to its end. *)
Close ==
    /\ table' = FALSE
    /\ reader' = IF table THEN At("over") ELSE reader

HearClose ==
    /\ Serving(CloseIt)
    /\ Close
    /\ UNCHANGED <<ask, control, bulk, routing, opening, left, counts, slips>>

(* `close_session`, in a task of its own: whatever is in the table by now. *)
Destroy ==
    /\ destroys < Destroys
    /\ destroys' = destroys + 1
    /\ Close
    /\ slips' = IF table /\ reader.at # "over" THEN slips \cup {"destroyed"} ELSE slips
    /\ UNCHANGED <<ask, wire, opening, left, read, handed>>

-----------------------------------------------------------------------------
(* The worker's reader *)

(* `claim` looks under the lock ... *)
Claim ==
    /\ reader.at = "claim"
    /\ IF left > 0
       THEN LET budget == Smaller(left, Chunk)
            IN  reader' = [at |-> "reading", budget |-> budget] /\ left' = left - budget
       ELSE reader' = At("looked") /\ UNCHANGED left
    /\ UNCHANGED <<ask, wire, opening, table, counts, slips>>

(* ... and is registered to be woken only once it has let go of it. *)
Parks ==
    /\ reader.at = "looked"
    /\ reader' = At("parked")
    /\ UNCHANGED <<ask, wire, opening, table, left, counts, slips>>

(* Mutant of Reads: what was claimed is spent. *)
XReads ==
    /\ reader.at = "reading"
    /\ \E n \in 1..reader.budget :
          /\ read + n <= Answer
          /\ read' = read + n /\ bulk' = Append(bulk, n)
    /\ reader' = At("claim")
    /\ UNCHANGED <<ask, toWorker, control, routing, opening, table, left, handed, destroys, slips>>

(* Some bytes are read and sent; what was claimed beyond them is given back. *)
Reads ==
    /\ reader.at = "reading"
    /\ \E n \in 1..reader.budget :
          /\ read + n <= Answer
          /\ read' = read + n /\ bulk' = Append(bulk, n)
          /\ left' = left + (reader.budget - n)
    /\ reader' = At("claim")
    /\ UNCHANGED <<ask, toWorker, control, routing, opening, table, handed, destroys, slips>>

(* The application closes its end, or breaks it. *)
ReadsNone ==
    /\ reader.at = "reading"
    /\ left' = left + reader.budget
    /\ reader' = At("ending")
    /\ UNCHANGED <<ask, wire, opening, table, counts, slips>>

Forgets ==
    /\ reader.at = "ending"
    /\ reader' = At("forgotten") /\ table' = FALSE
    /\ UNCHANGED <<ask, wire, opening, left, counts, slips>>

SaysClosed ==
    /\ reader.at = "forgotten"
    /\ reader' = At("over")
    /\ control' = Append(control, "closed")
    /\ UNCHANGED <<ask, toWorker, bulk, routing, opening, table, left, counts, slips>>

-----------------------------------------------------------------------------
Init ==
    /\ asker = "none" /\ told = "nothing" /\ entry = "none" /\ pieces = <<>>
    /\ toWorker = <<>> /\ control = <<>> /\ bulk = <<>> /\ routing = 0
    /\ opening = "none" /\ table = FALSE /\ reader = Off /\ left = Window
    /\ read = 0 /\ handed = 0 /\ destroys = 0 /\ slips = {}

Read == Hears \/ Recv \/ RecvNone \/ SayClose
Route == HearOpened \/ HearClosed \/ HearData \/ HandOver
Serve ==
    \/ HearOpen \/ Refuses \/ Connects \/ Spawns \/ Inserts
    \/ \E units \in 1..Chunk : HearCredit(units)
    \/ HearClose
Carry == Claim \/ Parks \/ Reads \/ ReadsNone \/ Forgets \/ SaysClosed

Next ==
    \/ Open \/ TimesOut \/ Dropped \/ HangUp
    \/ Read \/ Route \/ Serve \/ Carry
    \/ Destroy

Spec == Init /\ [][Next]_vars

(* Every task runs, frames travel, and an application that is read ends its *)
(* answer.  Nobody has to hang up, or to tear anything down.                *)
Fairness == WF_vars(Read) /\ WF_vars(Route) /\ WF_vars(Serve) /\ WF_vars(Carry)

FairSpec == Spec /\ Fairness

-----------------------------------------------------------------------------
(* Properties *)

TypeOK ==
    /\ asker \in {"none", "asking", "reading", "leaving", "gone", "finished"}
    /\ told \in {"nothing", "ok", "refused"} /\ (told # "nothing" => asker = "asking")
    /\ entry \in {"none", "waiting", "answered"} /\ (asker = "reading" => entry # "waiting")
    /\ routing \in 0..Chunk /\ pieces \in Seq(1..Chunk) /\ bulk \in Seq(1..Chunk) /\ Len(pieces) <= Pieces
    /\ toWorker \in Seq({OpenIt, CloseIt} \cup {Credit(n) : n \in 1..Chunk})
    /\ control \in Seq({"ok", "refused", "closed"})
    /\ opening \in {"none", "connecting", "connected", "spawned", "over"}
    /\ table \in BOOLEAN /\ left \in 0..Window
    /\ reader.at \in {"off", "claim", "looked", "parked", "reading", "ending", "forgotten", "over"}
    /\ reader.budget \in 0..Chunk

(* While a tunnel is carried, its window is all there: what may be sent, what *)
(* is claimed, what is on its way, what waits to be read and what has been    *)
(* granted and not yet heard make one window, no more and no less.            *)
WindowIsWhole ==
    (asker = "reading" /\ entry = "answered" /\ table) =>
        left + reader.budget + Total(bulk) + routing + Total(pieces) + Total(Credits) = Window

(* A request that is given up -- timed out, dropped, refused, hung up on --   *)
(* leaves no socket open on the worker and nothing in its table, whenever     *)
(* that comes: before the worker connects, as its answer crosses the close,   *)
(* or in mid-answer.  Two windows are left open, and `slips` names them: a    *)
(* request dropped with its answer given and not taken up, and a reader that  *)
(* ends before its tunnel is in the table.                                    *)
NothingIsLeftOpen ==
    asker \in {"gone", "finished"}
        ~> \/ opening \in {"none", "over"} /\ reader.at \in {"off", "over"} /\ ~table
           \/ slips \cap {"orphaned", "outrun"} # {}

(* A request that goes on reading is told when the answer is over, however    *)
(* many windows long it was -- unless the last of its credit came as the      *)
(* reader was about to wait for it, or its session was torn down, which stops *)
(* the reader before it says so.                                              *)
AnswersEnd ==
    asker = "reading" ~> asker # "reading" \/ slips \cap {"missed", "destroyed"} # {}

(* "Never blocks in practice": there is room for what the read loop of the   *)
(* whole host has to hand over.                                              *)
LoopNeverWaits == routing > 0 => HasRoom \/ Unread

(* "The far end is done, or gone.  No more bytes under this id": a request    *)
(* that is told its answer is over has been given what the worker sent of it. *)
NothingIsCutShort == asker = "finished" => handed = read
=============================================================================
