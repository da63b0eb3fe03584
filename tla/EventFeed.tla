------------------------------ MODULE EventFeed -----------------------------
(***************************************************************************)
(* How a row of the control plane's event log reaches a client's screen.   *)
(*                                                                         *)
(* Any number of tasks write rows, each in a transaction of its own that   *)
(* takes the row's id when it inserts and shows the row when it commits;   *)
(* only then does the task put the event on the broadcast bus.  A client   *)
(* subscribes over its socket with the newest id it has seen; the pump     *)
(* that serves the subscription first sends what the log holds past that   *)
(* id and then follows the bus.  A client that falls a whole bus behind is *)
(* told to reset, and subscribes again from where it got to.               *)
(***************************************************************************)
EXTENDS Integers, Sequences, SequencesExt, Queues

CONSTANTS
    Writers,    \* tasks that record events: one per host, and the local ones
    BusDepth,   \* events a receiver of the bus may be behind
    OutDepth,   \* frames between the pump and the client
    MaxRows,    \* bound: rows ever inserted
    MaxDrops    \* bound: sockets that close and reads of the log that fail

ASSUME DepthAssumption ==
    /\ {BusDepth, OutDepth} \subseteq Nat \ {0}
    /\ {MaxRows, MaxDrops} \subseteq Nat

VARIABLES
    writing,    \* [Writers -> [phase, id]]: the transaction each has in hand
    nextId,     \* the bigserial's next value
    rows,       \* the ids a query of the events table returns
    open,       \* whether the client's socket is open
    pump,       \* [phase, from]: the server's side of the subscription
    backlog,    \* rows read from the log and yet to be sent
    bus,        \* events this receiver has yet to take from the bus
    lagged,     \* whether the bus has overwritten one of them
    frames,     \* sent to the client, not yet handled
    seen,       \* the client's cursor; Never before its first event
    applied,    \* the ids the client has folded into its cache
    owed,       \* what this subscription has taken on to deliver
    slipped,    \* rows no subscription of the client could see announced, or read
    drops       \* how often something went wrong

server == <<writing, nextId, rows>>
client == <<seen, applied>>
vars   == <<server, client, open, pump, backlog, bus, lagged, frames, owed, slipped, drops>>

Never == -1
Ids   == 1 .. MaxRows
Reset == 0        \* the frame that stands in for an event when a pump gives up

NoPump    == [phase |-> "none", from |-> 0]
Subscribed == [phase |-> "live", from |-> 0]
Larger(m, n) == IF m > n THEN m ELSE n

Init ==
    /\ writing = [w \in Writers |-> [phase |-> "idle", id |-> 0]]
    /\ nextId = 1
    /\ rows = {}
    /\ open = FALSE
    /\ pump = NoPump
    /\ backlog = <<>> /\ bus = <<>> /\ frames = <<>>
    /\ lagged = FALSE
    /\ seen = Never
    /\ applied = {}
    /\ owed = {}
    /\ slipped = {}
    /\ drops = 0

(***************************************************************************)
(* Writing a row: write_event, then the announcement of what it wrote.     *)
(***************************************************************************)

Insert(w) ==
    /\ writing[w].phase = "idle"
    /\ nextId \in Ids
    /\ writing' = [writing EXCEPT ![w] = [phase |-> "inserted", id |-> nextId]]
    /\ nextId' = nextId + 1
    /\ UNCHANGED <<rows, client, open, pump, backlog, bus, lagged, frames, owed, slipped, drops>>

Commit(w) ==
    /\ writing[w].phase = "inserted"
    /\ rows' = rows \union {writing[w].id}
    /\ writing' = [writing EXCEPT ![w].phase = "committed"]
    /\ UNCHANGED <<nextId, client, open, pump, backlog, bus, lagged, frames, owed, slipped, drops>>

\* A row may be past where anyone will look for it if it is announced before the
\* client has a cursor, once a newer row can be read, or between a pump's reading
\* of the log and its taking a receiver.
Slips(q) ==
    slipped' = IF \/ seen = Never
                  \/ \E n \in rows : n > q
                  \/ pump.phase = "replaying" /\ q \notin owed
               THEN slipped \union {q} ELSE slipped

\* Mutant of Announce: the bus holds any number of events for a receiver.
AnnounceUnbounded(w) ==
    /\ writing[w].phase = "committed"
    /\ writing' = [writing EXCEPT ![w] = [phase |-> "idle", id |-> 0]]
    /\ bus' = IF pump.phase = "live" THEN Append(bus, writing[w].id) ELSE bus
    /\ Slips(writing[w].id)
    /\ UNCHANGED <<nextId, rows, client, open, pump, backlog, lagged, owed, frames, drops>>

\* events.send reaches the receivers there are; a full one loses its oldest.
Announce(w) ==
    /\ writing[w].phase = "committed"
    /\ writing' = [writing EXCEPT ![w] = [phase |-> "idle", id |-> 0]]
    /\ IF pump.phase # "live" THEN UNCHANGED <<bus, lagged, owed>>
       ELSE IF Len(bus) < BusDepth
            THEN /\ bus' = Append(bus, writing[w].id)
                 /\ owed' = owed \union {writing[w].id}
                 /\ UNCHANGED lagged
            ELSE /\ bus' = Append(Tail(bus), writing[w].id)
                 /\ lagged' = TRUE
                 /\ UNCHANGED owed
    /\ Slips(writing[w].id)
    /\ UNCHANGED <<nextId, rows, client, open, pump, backlog, frames, drops>>

(***************************************************************************)
(* The pump: follow_sessions.                                              *)
(***************************************************************************)

Send(frame) ==
    /\ Len(frames) < OutDepth
    /\ frames' = Append(frames, frame)

\* Mutant of PumpRead: the cursor is taken for the first row that is missing.
PumpReadShort ==
    /\ pump.phase = "asked"
    /\ LET missed == {q \in rows : q > pump.from + 1}
       IN  /\ backlog' = Ascending(missed)
           /\ owed' = missed
    /\ pump' = [pump EXCEPT !.phase = "replaying"]
    /\ UNCHANGED <<server, client, open, bus, lagged, frames, slipped, drops>>

PumpRead ==
    /\ pump.phase = "asked"
    /\ LET missed == {q \in rows : q > pump.from}
       IN  /\ backlog' = Ascending(missed)
           /\ owed' = missed
    /\ pump' = [pump EXCEPT !.phase = "replaying"]
    /\ UNCHANGED <<server, client, open, bus, lagged, frames, slipped, drops>>

\* The query of the log fails, and is taken for an empty log.
PumpReadFails ==
    /\ pump.phase = "asked"
    /\ drops < MaxDrops
    /\ drops' = drops + 1
    /\ slipped' = slipped \union {q \in rows : q > pump.from /\ \A w \in Writers : writing[w].id # q}
    /\ pump' = [pump EXCEPT !.phase = "replaying"]
    /\ UNCHANGED <<server, client, open, backlog, bus, lagged, frames, owed>>

PumpReplay ==
    /\ pump.phase = "replaying"
    /\ backlog # <<>>
    /\ Send(Head(backlog))
    /\ backlog' = Tail(backlog)
    /\ UNCHANGED <<server, client, open, pump, bus, lagged, owed, slipped, drops>>

\* Mutant of PumpSubscribe: the live feed starts beside the replay.
PumpSubscribeEarly ==
    /\ pump.phase = "replaying"
    /\ pump' = Subscribed
    /\ backlog' = <<>>
    /\ UNCHANGED <<server, client, open, bus, lagged, frames, owed, slipped, drops>>

\* Only when the backlog is sent does the pump take a receiver of the bus.
PumpSubscribe ==
    /\ pump.phase = "replaying"
    /\ backlog = <<>>
    /\ pump' = Subscribed
    /\ UNCHANGED <<server, client, open, backlog, bus, lagged, frames, owed, slipped, drops>>

\* Mutant of PumpLive: a receiver that fell behind carries on with what is left.
PumpLiveOn ==
    /\ pump.phase = "live"
    /\ bus # <<>>
    /\ Send(Head(bus))
    /\ bus' = Tail(bus)
    /\ lagged' = FALSE
    /\ UNCHANGED <<server, client, open, pump, backlog, owed, slipped, drops>>

PumpLive ==
    /\ pump.phase = "live"
    /\ ~lagged
    /\ bus # <<>>
    /\ Send(Head(bus))
    /\ bus' = Tail(bus)
    /\ UNCHANGED <<server, client, open, pump, backlog, lagged, owed, slipped, drops>>

\* A receiver that fell behind says so and ends.
PumpReset ==
    /\ pump.phase = "live"
    /\ lagged
    /\ Send(Reset)
    /\ pump' = NoPump
    /\ bus' = <<>>
    /\ lagged' = FALSE
    /\ owed' = {}
    /\ UNCHANGED <<server, client, open, backlog, slipped, drops>>

(***************************************************************************)
(* The client: the socket provider and the listener on the sessions topic. *)
(***************************************************************************)

\* A subscription carries the cursor when there is one; without it there is
\* nothing to replay.
Subscription ==
    IF seen = Never THEN [phase |-> "replaying", from |-> 0]
                    ELSE [phase |-> "asked", from |-> seen]

Connect ==
    /\ ~open
    /\ open' = TRUE
    /\ pump' = Subscription
    /\ UNCHANGED <<server, client, backlog, bus, lagged, frames, owed, slipped, drops>>

Disconnect ==
    /\ open
    /\ drops < MaxDrops
    /\ open' = FALSE
    /\ pump' = NoPump
    /\ backlog' = <<>> /\ bus' = <<>> /\ frames' = <<>>
    /\ lagged' = FALSE
    /\ owed' = {}
    /\ drops' = drops + 1
    /\ UNCHANGED <<server, client, slipped>>

\* Mutant of OnEvent: the cursor takes the id of the newest frame.
OnEventLatest(q) ==
    /\ seen' = q
    /\ applied' = applied \union {q}

OnEvent(q) ==
    /\ seen' = Larger(seen, q)
    /\ applied' = applied \union {q}

HandleEvent ==
    /\ frames # <<>> /\ Head(frames) # Reset
    /\ OnEvent(Head(frames))
    /\ frames' = Tail(frames)
    /\ UNCHANGED <<server, open, pump, backlog, bus, lagged, owed, slipped, drops>>

HandleReset ==
    /\ frames # <<>> /\ Head(frames) = Reset
    /\ frames' = Tail(frames)
    /\ pump' = Subscription
    /\ UNCHANGED <<server, client, open, backlog, bus, lagged, owed, slipped, drops>>

-----------------------------------------------------------------------------

Pump == PumpRead \/ PumpReplay \/ PumpSubscribe \/ PumpLive \/ PumpReset

Next ==
    \/ \E w \in Writers : Insert(w) \/ Commit(w) \/ Announce(w)
    \/ Pump \/ PumpReadFails
    \/ Connect \/ Disconnect \/ HandleEvent \/ HandleReset

\* A task that began a row finishes it, the pump and the client are polled, and
\* the client's reconnect timer fires.
Fairness ==
    /\ \A w \in Writers : WF_vars(Commit(w)) /\ WF_vars(Announce(w))
    /\ WF_vars(Pump)
    /\ WF_vars(Connect) /\ WF_vars(HandleEvent) /\ WF_vars(HandleReset)

Spec     == Init /\ [][Next]_vars
FairSpec == Spec /\ Fairness

-----------------------------------------------------------------------------

TypeOK ==
    /\ writing \in [Writers -> [phase : {"idle", "inserted", "committed"}, id : {0} \union Ids]]
    /\ nextId \in 1 .. MaxRows + 1
    /\ rows \subseteq Ids /\ slipped \subseteq rows /\ applied \subseteq rows /\ owed \subseteq rows
    /\ open \in BOOLEAN /\ lagged \in BOOLEAN
    /\ pump \in [phase : {"none", "asked", "replaying", "live"}, from : {0} \union Ids]
    /\ backlog \in Seq(Ids) /\ bus \in Seq(Ids) /\ frames \in Seq(Ids \union {Reset})
    /\ seen \in {Never} \union Ids
    /\ Len(bus) <= BusDepth

Holds(s, q) == q \in ToSet(s)

\* A subscription that has not fallen a bus behind loses nothing it took on: the
\* rows it read from the log and every event announced since it took its
\* receiver are applied or still in hand.
SubscriptionDelivers ==
    ~lagged => \A q \in owed : q \in applied \/ Holds(frames, q) \/ Holds(backlog, q) \/ Holds(bus, q)

\* The socket provider: each subscription comes back with its own cursor, and
\* "that is what makes a reconnect leave no gap and replay nothing".  The second
\* half: a backlog never holds an event the client has applied, whatever order
\* rows committed, were announced and arrived in before the reconnect.
ReconnectReplaysNothing == ToSet(backlog) \intersect applied = {}

\* A socket that stays open delivers what its subscription took on.
OpenSocketCatchesUp == <>[]open => <>[](owed \subseteq applied)

\* The first half, with what it leaves out named: of the rows below the client's
\* cursor, announced and no longer on their way, the client has applied every one
\* but those that slipped.  Drops, resets, and rows that commit while the client
\* is away lose nothing else, and a failed read no more than it was to read.
ReconnectLeavesNoGap ==
    \A q \in rows \ slipped :
        (q < seen /\ frames = <<>> /\ backlog = <<>> /\ bus = <<>>
         /\ \A w \in Writers : writing[w].id # q)
        => q \in applied
=============================================================================
