------------------------------ MODULE EventLog ------------------------------
(***************************************************************************)
(* How one host's event log reaches the control plane.                     *)
(*                                                                         *)
(* A worker appends every event to its own SQLite log before it says it,   *)
(* and the control plane keeps a cursor, hosts.last_seq, of how far it has *)
(* consumed that log.  A worker process lives as long as one connection.   *)
(* Three writers share that connection: the tasks that emit events, the    *)
(* once-a-second tail that forwards what the log gained since the in-      *)
(* memory cursor, and the replay that answers the control plane's Resume.  *)
(* The replay runs on a task of its own, beside the other two.             *)
(***************************************************************************)
EXTENDS Integers, Sequences, FiniteSets

CONSTANTS
    Sessions,     \* the sessions of this host
    Workspaces,   \* the workspaces they live in
    WorkspaceOf,  \* [Sessions -> Workspaces]
    Tasks,        \* worker tasks that emit: creations, launches, teardowns
    Statuses,     \* the statuses a StatusChanged event may carry
    Capacity,     \* frames held between a worker's send and the reader
    MaxLog,       \* bound: events the worker ever records
    MaxDrops,     \* bound: connections that ever end
    MaxRefused,   \* bound: events the database ever refuses
    MaxLocal      \* bound: statuses the control plane ever raises itself

SessionStatus == {"Starting", "Working", "Ready", "NeedsYou",
                  "HandedBack", "Failed", "Ended"}

ASSUME WorkspaceAssumption == WorkspaceOf \in [Sessions -> Workspaces]
ASSUME StatusAssumption    == Statuses \subseteq SessionStatus
ASSUME BoundAssumption     == /\ Capacity \in Nat \ {0}
                              /\ {MaxLog, MaxDrops, MaxRefused, MaxLocal} \subseteq Nat

\* Every event but a StatusChanged is a detail of the session it belongs to.
Detail == "Detail"
Kinds  == Statuses \union {Detail}
Events == [session : Sessions, kind : Kinds]

VARIABLES
    \* --- the worker's disk
    log,        \* the events table: event q is log[q]
    \* --- the worker process serving the current connection
    up,         \* whether there is one
    emitting,   \* [Tasks -> Nat]: the event a task appended and has yet to send
    forwarded,  \* the cursor held by `forwarded`
    tail,       \* last event of the stretch the tail is sending; 0 when idle
    replay,     \* the Resume in hand: its phase, next event and last event
    \* --- the connection
    wire,       \* event frames sent and not yet read, oldest first
    \* --- the control plane's database
    recorded,   \* the worker's events that have a row
    lastSeq,    \* hosts.last_seq
    status,     \* sessions.status
    forgotten,  \* workspaces with forgotten_at set
    \* --- what the run has been through
    since,      \* the cursor this connection resumed from
    stray,      \* events appended by a process whose connection had ended
    refused,    \* events the database refused
    drops, local

workerVars  == <<up, emitting, forwarded, tail, replay>>
serverVars  == <<recorded, lastSeq, status, forgotten, refused, local>>
vars == <<log, workerVars, wire, serverVars, since, stray, drops>>

Larger(m, n) == IF m > n THEN m ELSE n
Idle == [phase |-> "idle", next |-> 0, last |-> 0]
NothingToEmit == [t \in Tasks |-> 0]

Init ==
    /\ log = <<>>
    /\ up = FALSE
    /\ emitting = NothingToEmit
    /\ forwarded = 0
    /\ tail = 0
    /\ replay = Idle
    /\ wire = <<>>
    /\ recorded = {}
    /\ lastSeq = 0
    /\ status = [s \in Sessions |-> "Starting"]
    /\ forgotten = {}
    /\ since = 0
    /\ stray = {}
    /\ refused = {}
    /\ drops = 0
    /\ local = 0

(***************************************************************************)
(* The connection.                                                         *)
(***************************************************************************)

\* Worker::open starts its cursor at the head of the log, and the first frame
\* after the handshake asks for what came after last_seq.
Connect ==
    /\ ~up
    /\ up' = TRUE
    /\ forwarded' = Len(log)
    /\ replay' = [phase |-> "asked", next |-> lastSeq + 1, last |-> 0]
    /\ since' = lastSeq
    /\ UNCHANGED <<log, emitting, tail, wire, serverVars, stray, drops>>

\* The connection ends, the worker dies or the control plane restarts: what the
\* process held and what was on the wire goes, the two databases stay.
Disconnect ==
    /\ up
    /\ drops < MaxDrops
    /\ up' = FALSE
    /\ emitting' = NothingToEmit
    /\ tail' = 0
    /\ replay' = Idle
    /\ wire' = <<>>
    /\ drops' = drops + 1
    /\ UNCHANGED <<log, forwarded, serverVars, since, stray>>

(***************************************************************************)
(* The worker.                                                             *)
(***************************************************************************)

Append2Log(s, k) ==
    /\ Len(log) < MaxLog
    /\ log' = Append(log, [session |-> s, kind |-> k])

\* A frame enters the outbound channel, which blocks its sender when full.
Send(q) ==
    /\ Len(wire) < Capacity
    /\ wire' = Append(wire, q)

\* emit, up to the wait for the cursor's lock: the event is durable.
EmitAppend(t, s, k) ==
    /\ up
    /\ emitting[t] = 0
    /\ Append2Log(s, k)
    /\ emitting' = [emitting EXCEPT ![t] = Len(log')]
    /\ UNCHANGED <<up, forwarded, tail, replay, wire, serverVars, since, stray, drops>>

\* Mutant of EmitSend: the frame is dropped when the channel is full.
EmitSendLossy(t) ==
    /\ emitting[t] # 0
    /\ tail = 0
    /\ wire' = IF Len(wire) < Capacity THEN Append(wire, emitting[t]) ELSE wire
    /\ forwarded' = Larger(forwarded, emitting[t])
    /\ emitting' = [emitting EXCEPT ![t] = 0]
    /\ UNCHANGED <<log, up, tail, replay, serverVars, since, stray, drops>>

\* emit, under the lock: send, then move the cursor.
EmitSend(t) ==
    /\ emitting[t] # 0
    /\ tail = 0
    /\ Send(emitting[t])
    /\ forwarded' = Larger(forwarded, emitting[t])
    /\ emitting' = [emitting EXCEPT ![t] = 0]
    /\ UNCHANGED <<log, up, tail, replay, serverVars, since, stray, drops>>

\* A disconnect lets running tasks finish: they append with nobody listening.
StrayAppend(s, k) ==
    /\ drops > 0
    /\ Append2Log(s, k)
    /\ stray' = stray \union {Len(log')}
    /\ UNCHANGED <<workerVars, wire, serverVars, since, drops>>

\* forward_new_events takes the lock and reads the log past the cursor ...
TailLook ==
    /\ up
    /\ tail = 0
    /\ forwarded < Len(log)
    /\ tail' = Len(log)
    /\ UNCHANGED <<log, up, emitting, forwarded, replay, wire, serverVars, since, stray, drops>>

\* Mutant of TailSend: the end of the stretch is noticed one event late.
TailSendPast ==
    /\ tail # 0
    /\ Send(forwarded + 1)
    /\ forwarded' = forwarded + 1
    /\ tail' = IF forwarded = tail THEN 0 ELSE tail
    /\ UNCHANGED <<log, up, emitting, replay, serverVars, since, stray, drops>>

\* ... and sends that stretch one event at a time, still holding the lock.
TailSend ==
    /\ tail # 0
    /\ Send(forwarded + 1)
    /\ forwarded' = forwarded + 1
    /\ tail' = IF forwarded' = tail THEN 0 ELSE tail
    /\ UNCHANGED <<log, up, emitting, replay, serverVars, since, stray, drops>>

\* The task that handles Resume reads the log past the control plane's cursor
\* whenever it comes to run ...
ReplayLook ==
    /\ replay.phase = "asked"
    /\ replay' = IF replay.next <= Len(log)
                 THEN [replay EXCEPT !.phase = "sending", !.last = Len(log)]
                 ELSE Idle
    /\ UNCHANGED <<log, up, emitting, forwarded, tail, wire, serverVars, since, stray, drops>>

\* Mutant of ReplaySend: the frame is dropped when the channel is full.
ReplaySendLossy ==
    /\ replay.phase = "sending"
    /\ wire' = IF Len(wire) < Capacity THEN Append(wire, replay.next) ELSE wire
    /\ replay' = IF replay.next = replay.last THEN Idle
                 ELSE [replay EXCEPT !.next = replay.next + 1]
    /\ UNCHANGED <<log, up, emitting, forwarded, tail, serverVars, since, stray, drops>>

\* ... and sends it without taking the cursor's lock or moving the cursor.
ReplaySend ==
    /\ replay.phase = "sending"
    /\ Send(replay.next)
    /\ replay' = IF replay.next = replay.last THEN Idle
                 ELSE [replay EXCEPT !.next = replay.next + 1]
    /\ UNCHANGED <<log, up, emitting, forwarded, tail, serverVars, since, stray, drops>>

(***************************************************************************)
(* The control plane.                                                      *)
(***************************************************************************)

\* Mutant of MayMove: the terminal state is not held here.
MayMoveEnded(s) == WorkspaceOf[s] \notin forgotten

\* The WHERE clause of the status update in write_event.
MayMove(s) ==
    /\ status[s] # "Ended"
    /\ WorkspaceOf[s] \notin forgotten

Moves(e) == e.kind \in Statuses /\ MayMove(e.session)

\* write_event's update of the session an event moves, if it moves one.
MoveSession(e) ==
    status' = IF Moves(e) THEN [status EXCEPT ![e.session] = e.kind] ELSE status

\* Mutant of RecordNew: the cursor follows the event just recorded.
RecordNewCursor(q) ==
    /\ q \notin recorded
    /\ recorded' = recorded \union {q}
    /\ MoveSession(log[q])
    /\ lastSeq' = q

\* A row for an event that has none, with its effects and the cursor, in one
\* transaction.
RecordNew(q) ==
    /\ q \notin recorded
    /\ recorded' = recorded \union {q}
    /\ MoveSession(log[q])
    /\ lastSeq' = Larger(lastSeq, q)

\* Mutant of RecordKnown: the side effects run whether a row was written or not.
RecordKnownAgain(q) ==
    /\ q \in recorded
    /\ lastSeq' = Larger(lastSeq, q)
    /\ MoveSession(log[q])
    /\ UNCHANGED recorded

\* ON CONFLICT DO NOTHING: only the cursor moves.
RecordKnown(q) ==
    /\ q \in recorded
    /\ lastSeq' = Larger(lastSeq, q)
    /\ UNCHANGED <<recorded, status>>

\* The Event arm of the connection loop.
Receive ==
    /\ wire # <<>>
    /\ RecordNew(Head(wire)) \/ RecordKnown(Head(wire))
    /\ wire' = Tail(wire)
    /\ UNCHANGED <<log, workerVars, forgotten, refused, local, since, stray, drops>>

\* The same arm when the transaction fails: it is logged and the loop goes on.
ReceiveRefused ==
    /\ wire # <<>>
    /\ Cardinality(refused) < MaxRefused
    /\ refused' = refused \union {Head(wire)}
    /\ wire' = Tail(wire)
    /\ UNCHANGED <<log, workerVars, recorded, lastSeq, status, forgotten,
                   local, since, stray, drops>>

\* announce_status: a status the control plane decides goes down the same path
\* with no host and no cursor behind it.
AnnounceStatus(s, st) ==
    /\ local < MaxLocal
    /\ local' = local + 1
    /\ MoveSession([session |-> s, kind |-> st])
    /\ UNCHANGED <<log, workerVars, wire, recorded, lastSeq, forgotten, refused,
                   since, stray, drops>>

\* A session removed while its host is away.  Removing the whole place calls
\* this once for each of its sessions.
ForgetSession(s) ==
    /\ ~up
    /\ status[s] # "Ended"
    /\ status' = [status EXCEPT ![s] = "Ended"]
    /\ forgotten' = forgotten \union {WorkspaceOf[s]}
    /\ UNCHANGED <<log, workerVars, wire, recorded, lastSeq, refused, local,
                   since, stray, drops>>

-----------------------------------------------------------------------------

Worker ==
    \/ \E t \in Tasks, s \in Sessions, k \in Kinds : EmitAppend(t, s, k)
    \/ \E s \in Sessions, k \in Kinds : StrayAppend(s, k)
    \/ \E t \in Tasks : EmitSend(t)
    \/ TailLook \/ TailSend
    \/ ReplayLook \/ ReplaySend

Server ==
    \/ Receive
    \/ ReceiveRefused
    \/ \E s \in Sessions, st \in Statuses : AnnounceStatus(s, st)
    \/ \E s \in Sessions : ForgetSession(s)

Next == Connect \/ Disconnect \/ Worker \/ Server

\* The supervisor keeps reconnecting, and a task that can take its next step is
\* eventually polled.  Nothing makes a session act or a connection last.
Fairness ==
    /\ WF_vars(Connect)
    /\ WF_vars(TailLook) /\ WF_vars(TailSend)
    /\ WF_vars(ReplayLook) /\ WF_vars(ReplaySend)
    /\ \A t \in Tasks : WF_vars(EmitSend(t))
    /\ WF_vars(Receive)

Spec     == Init /\ [][Next]_vars
FairSpec == Spec /\ Fairness

-----------------------------------------------------------------------------
(***************************************************************************)
(* Properties.                                                             *)
(***************************************************************************)

Seqs == 1 .. Len(log)

Replaying == [phase : {"idle", "asked", "sending"}, next : Nat, last : Nat]

\* Every variable has its type, and nothing refers to an event past the log's
\* head: a frame, a cursor or a row only ever stands for a durable event.
TypeOK ==
    /\ log \in Seq(Events)
    /\ up \in BOOLEAN
    /\ emitting \in [Tasks -> {0} \union Seqs]
    /\ forwarded \in {0} \union Seqs
    /\ tail \in {0} \union Seqs
    /\ replay \in Replaying
    /\ wire \in Seq(Seqs)
    /\ recorded \subseteq Seqs
    /\ lastSeq \in {0} \union Seqs
    /\ status \in [Sessions -> SessionStatus]
    /\ forgotten \subseteq Workspaces
    /\ since \in {0} \union Seqs
    /\ stray \subseteq Seqs
    /\ refused \subseteq Seqs
    /\ drops \in Nat
    /\ local \in Nat

OnWire(q) == \E i \in DOMAIN wire : wire[i] = q

\* A task of this connection is still going to send event q.
StillToSend(q) ==
    \/ \E t \in Tasks : emitting[t] = q
    \/ replay.phase = "asked" /\ q >= replay.next
    \/ replay.phase = "sending" /\ q \in replay.next .. replay.last

\* While a connection lasts, no event of the log past the point it resumed from
\* falls between the emitters, the replay and the wire: it has a row or a task
\* is still going to send it, the tail aside.  An event appended by a process
\* whose connection has ended is the exception -- the cursor may step over it -- as
\* is one the database refused.
NothingFallsBetween ==
    up => \A q \in Seqs : (q > since /\ q \notin stray \union refused)
                          => q \in recorded \/ OnWire(q) \/ StillToSend(q)

\* The resume cursor is exactly the newest event that has a row: never ahead of
\* what is held, which would lose events, nor behind it, which would have the
\* worker replay the same stretch on every reconnect.
CursorIsNewestRow ==
    /\ lastSeq \in recorded \union {0}
    /\ \A q \in recorded : q <= lastSeq

\* An event that already has a row changes nothing when it arrives again: a
\* replayed StatusChanged would put an old status back over a newer one.
ReplayChangesNothing ==
    [][ wire # <<>> /\ wire' = Tail(wire) /\ Head(wire) \in recorded
        => UNCHANGED <<recorded, status, lastSeq>> ]_vars

\* Nothing escapes Ended, and no event, the worker's or ours, moves a session
\* of a workspace that was removed while its host was away: only removing the
\* session itself still ends it.
RemovedStaysRemoved ==
    [][ \A s \in Sessions :
          (status[s] = "Ended" \/ WorkspaceOf[s] \in forgotten)
          => \/ status'[s] = status[s]
             \/ status'[s] = "Ended" /\ ~up ]_vars

\* A connection that stays up delivers everything after the point it resumed
\* from that its own process appended.
StableConnectionCatchesUp ==
    <>[]up => <>[](\A q \in Seqs : (q > since /\ q \notin stray \union refused)
                                   => q \in recorded)
=============================================================================
