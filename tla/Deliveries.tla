----------------------------- MODULE Deliveries -----------------------------
(***************************************************************************)
(* How what a child hands back reaches the agent that started it: one lead *)
(* and its host.                                                           *)
(*                                                                         *)
(* A report is a row of the deliveries table until a drain claims it, then *)
(* a message on its way to the lead's agent with a copy held in memory     *)
(* against the message not arriving.  The lead's next line retires the     *)
(* copy; a worker that could not hand the message over, the agent exiting, *)
(* the host dropping and a second drain displacing it put it back.  Drains *)
(* run concurrently: one for every child that stops and one for every      *)
(* status the lead moves to.  The same lines are read for where the lead's *)
(* turn stands, by a reader that is rebuilt from the recorded lines when   *)
(* there is none.                                                          *)
(***************************************************************************)
EXTENDS Integers, Sequences, FiniteSets, Queues

CONSTANTS
    Reports,      \* what the lead's children hand back, one each
    Tasks,        \* calls of drain_deliveries that may be under way at once
    MaxPrompts,   \* bound: messages the person sends the lead
    MaxFails,     \* bound: messages a running agent does not take
    MaxDrops,     \* bound: connections to the host that end
    MaxExits,     \* bound: times the lead's agent exits
    MaxRestarts   \* bound: times the control plane restarts

VARIABLES
    waiting,      \* reports in undelivered rows
    logOpen,      \* whether the recorded lines end inside a turn
    status,       \* what the lead's row says: "working" or "stopped"
    delivering,   \* the body held for the lead, or Nothing
    reader,       \* where the lead's reader is: "none", "open", "rest"
    task,         \* [Tasks -> [at, body]]: the drains under way
    restoring,    \* bodies taken out of memory and not yet rows again
    line,         \* the line recorded and not yet read, or NoLine
    up,           \* whether the host is connected
    conn,         \* which connection this is
    outbox,       \* bodies queued to the host; an empty one is the person's
    inbox,        \* [body, conn]: what the worker has for the lead's agent
    said,         \* lines and reports on their way from the worker
    alive, busy,  \* the agent: whether it runs, whether it is in a turn
    handed,       \* reports the children handed back
    told,         \* reports the agent has read
    retired,      \* reports whose held copy a line of the lead retired
    prompts, fails, exits, restarts

db      == <<waiting, logOpen, status>>
memory  == <<delivering, reader, task, restoring, line>>
link    == <<up, conn, outbox>>
worker  == <<inbox, said>>
agent   == <<alive, busy>>
history == <<handed, told, retired>>
counts  == <<prompts, fails, exits, restarts>>
vars    == <<db, memory, link, worker, agent, history, counts>>

Nothing == {}       \* what is held when nothing is; a held body is never empty
NoLine  == "none"
Idle == [at |-> "idle", body |-> {}]
Looking == [at |-> "held", body |-> {}]

Lines  == {"speaks", "ends"}
Errors == {"undelivered", "unavailable"}

Init ==
    /\ waiting = {} /\ logOpen = FALSE /\ status = "stopped"
    /\ delivering = Nothing /\ reader = "rest" /\ line = NoLine
    /\ task = [t \in Tasks |-> Idle]
    /\ restoring = {}
    /\ up = TRUE /\ conn = 0 /\ outbox = <<>>
    /\ inbox = <<>> /\ said = <<>>
    /\ alive = TRUE /\ busy = FALSE
    /\ handed = {} /\ told = {} /\ retired = {}
    /\ prompts = 0 /\ fails = 0 /\ exits = 0 /\ restarts = 0

(***************************************************************************)
(* Draining: drain_deliveries, one action per look, claim, send and hold.  *)
(***************************************************************************)

\* A child stops: its result is queued, and the same call drains.
HandBack(r, t) ==
    /\ r \notin handed
    /\ task[t] = Idle
    /\ handed' = handed \union {r}
    /\ waiting' = waiting \union {r}
    /\ task' = [task EXCEPT ![t] = Looking]
    /\ UNCHANGED <<logOpen, status, delivering, reader, restoring, line,
                   link, worker, agent, told, retired, counts>>

DrainHeld(t) ==
    /\ task[t].at = "held"
    /\ task' = [task EXCEPT ![t] = IF delivering # Nothing THEN Idle ELSE [@ EXCEPT !.at = "turn"]]
    /\ UNCHANGED <<db, delivering, reader, restoring, line, link, worker, agent, history, counts>>

DrainTurn(t) ==
    /\ task[t].at = "turn"
    /\ task' = [task EXCEPT ![t] = IF reader = "open" THEN Idle ELSE [@ EXCEPT !.at = "take"]]
    /\ UNCHANGED <<db, delivering, reader, restoring, line, link, worker, agent, history, counts>>

\* Everything waiting is claimed by the statement that reads it.
DrainTake(t) ==
    /\ task[t].at = "take"
    /\ task' = [task EXCEPT ![t] = IF waiting = {} THEN Idle ELSE [at |-> "send", body |-> waiting]]
    /\ waiting' = {}
    /\ UNCHANGED <<logOpen, status, delivering, reader, restoring, line,
                   link, worker, agent, history, counts>>

\* A reader built from the recorded lines, where there is none.
EnsureReader(r, open) == IF r # "none" THEN r ELSE IF open THEN "open" ELSE "rest"

\* send_turn answers for a frame queued to a host, and fails without one.
DrainSend(t) ==
    /\ task[t].at = "send"
    /\ reader' = EnsureReader(reader, logOpen)
    /\ IF up THEN /\ outbox' = Append(outbox, task[t].body)
                  /\ task' = [task EXCEPT ![t].at = "hold"]
                  /\ UNCHANGED restoring
             ELSE /\ restoring' = restoring \union {task[t].body}
                  /\ task' = [task EXCEPT ![t] = Idle]
                  /\ UNCHANGED outbox
    /\ UNCHANGED <<db, delivering, line, up, conn, worker, agent, history, counts>>

\* Mutant of DrainHold: what the hold displaces is forgotten.
DrainHoldDisplaces(t) ==
    /\ task[t].at = "hold"
    /\ delivering' = task[t].body
    /\ task' = [task EXCEPT ![t] = Idle]
    /\ UNCHANGED <<db, reader, restoring, line, link, worker, agent, history, counts>>

DrainHold(t) ==
    /\ task[t].at = "hold"
    /\ delivering' = task[t].body
    /\ restoring' = restoring \union ({delivering} \ {Nothing})
    /\ task' = [task EXCEPT ![t] = Idle]
    /\ UNCHANGED <<db, reader, line, link, worker, agent, history, counts>>

(***************************************************************************)
(* Putting back: the hold leaves memory, then its body becomes a row.      *)
(***************************************************************************)

LetGo ==
    /\ delivering' = Nothing
    /\ restoring' = restoring \union ({delivering} \ {Nothing})

Requeue(body) ==
    /\ body \in restoring
    /\ restoring' = restoring \ {body}
    /\ waiting' = waiting \union body
    /\ UNCHANGED <<logOpen, status, delivering, reader, task, line,
                   link, worker, agent, history, counts>>

(***************************************************************************)
(* The road to the agent.                                                  *)
(***************************************************************************)

\* The person writes to the lead.
Prompt ==
    /\ up /\ prompts < MaxPrompts
    /\ prompts' = prompts + 1
    /\ reader' = EnsureReader(reader, logOpen)
    /\ outbox' = Append(outbox, {})
    /\ UNCHANGED <<db, delivering, task, restoring, line, up, conn, worker,
                   agent, history, fails, exits, restarts>>

Carry ==
    /\ up /\ outbox # <<>>
    /\ inbox' = Append(inbox, [body |-> Head(outbox), conn |-> conn])
    /\ outbox' = Tail(outbox)
    /\ UNCHANGED <<db, memory, up, conn, said, agent, history, counts>>

\* A host's answer to a frame takes longer than a drain takes from its send to
\* its hold, which only waits for a lock.
Answerable == inbox # <<>> /\ \A t \in Tasks : task[t].at # "hold"

AgentReads ==
    /\ Answerable /\ alive
    /\ told' = told \union Head(inbox).body
    /\ inbox' = Tail(inbox)
    /\ said' = Append(said, "speaks")
    /\ busy' = TRUE
    /\ UNCHANGED <<db, memory, link, alive, handed, retired, counts>>

AgentEndsTurn ==
    /\ busy
    /\ busy' = FALSE
    /\ said' = Append(said, "ends")
    /\ UNCHANGED <<db, memory, link, inbox, alive, history, counts>>

\* Nothing listened for the whole retry window.  The report goes to the
\* connection the message came by, if that is still the connection.
Undeliverable ==
    /\ Answerable
    /\ ~alive \/ fails < MaxFails
    /\ fails' = IF alive THEN fails + 1 ELSE fails
    /\ inbox' = Tail(inbox)
    /\ said' = IF up /\ Head(inbox).conn = conn
               THEN Append(said, IF alive THEN "undelivered" ELSE "unavailable")
               ELSE said
    /\ UNCHANGED <<db, memory, link, agent, history, prompts, exits, restarts>>

\* Mutant of AgentExits: the turn outlives the agent.
AgentExitsInTurn ==
    /\ alive /\ exits < MaxExits
    /\ exits' = exits + 1
    /\ alive' = FALSE
    /\ said' = Append(said, "closed")
    /\ UNCHANGED <<db, memory, link, inbox, busy, history, prompts, fails, restarts>>

AgentExits ==
    /\ alive /\ exits < MaxExits
    /\ exits' = exits + 1
    /\ alive' = FALSE /\ busy' = FALSE
    /\ said' = Append(said, "closed")
    /\ UNCHANGED <<db, memory, link, inbox, history, prompts, fails, restarts>>

\* A relaunch resumes the conversation, whose handshake ends in a result line.
Relaunch ==
    /\ ~alive
    /\ alive' = TRUE
    /\ said' = Append(said, "ends")
    /\ UNCHANGED <<db, memory, link, inbox, busy, history, counts>>

(***************************************************************************)
(* What the host says: the connection's read loop, one frame at a time.    *)
(***************************************************************************)

Heard(frame) == up /\ line = NoLine /\ said # <<>> /\ Head(said) = frame

\* A line is recorded, and whatever was held for the lead has arrived.
RecordLine(l) ==
    /\ Heard(l)
    /\ said' = Tail(said)
    /\ line' = l
    /\ logOpen' = (l = "speaks")
    /\ retired' = retired \union delivering
    /\ delivering' = Nothing
    /\ UNCHANGED <<waiting, status, reader, task, restoring, link, inbox, agent,
                   handed, told, counts>>

\* A turn starts if none is open, and ends if one is; either moves the session.
Moves(r, l) == (l = "speaks") # (r = "open")

\* Mutant of ReadLine: a turn that ends does not look for what is waiting.
ReadLineQuiet(t) ==
    /\ line # NoLine
    /\ task[t] = Idle
    /\ LET r == EnsureReader(reader, logOpen)
       IN  IF Moves(r, line)
           THEN status' = IF line = "speaks" THEN "working" ELSE "stopped"
           ELSE UNCHANGED status
    /\ reader' = IF line = "speaks" THEN "open" ELSE "rest"
    /\ line' = NoLine
    /\ UNCHANGED <<waiting, logOpen, delivering, task, restoring, link, worker,
                   agent, history, counts>>

\* The recorded line is read for what it means, by a reader that may only now
\* be built -- from the recorded lines, this one among them.  A move is
\* announced, and drains what is waiting in a task of its own.
ReadLine(t) ==
    /\ line # NoLine
    /\ task[t] = Idle
    /\ LET r == EnsureReader(reader, logOpen)
       IN  IF Moves(r, line)
           THEN /\ status' = IF line = "speaks" THEN "working" ELSE "stopped"
                /\ task' = [task EXCEPT ![t] = Looking]
           ELSE UNCHANGED <<status, task>>
    /\ reader' = IF line = "speaks" THEN "open" ELSE "rest"
    /\ line' = NoLine
    /\ UNCHANGED <<waiting, logOpen, delivering, restoring, link, worker,
                   agent, history, counts>>

\* Mutant of DeliveryFailed: only an agent that is gone puts the body back.
DeliveryFailedGone(e) ==
    /\ Heard(e)
    /\ said' = Tail(said)
    /\ IF e = "unavailable" THEN LetGo /\ status' = "stopped"
                            ELSE UNCHANGED <<delivering, restoring, status>>
    /\ UNCHANGED <<waiting, logOpen, reader, task, line, link, inbox, agent, history, counts>>

DeliveryFailed(e) ==
    /\ Heard(e)
    /\ said' = Tail(said)
    /\ LetGo
    /\ status' = IF e = "unavailable" THEN "stopped" ELSE status
    /\ UNCHANGED <<waiting, logOpen, reader, task, line, link, inbox, agent, history, counts>>

\* Mutant of AgentClosed: the reader goes and the status stays.
AgentClosedKeepsStatus ==
    /\ Heard("closed")
    /\ said' = Tail(said)
    /\ LetGo
    /\ reader' = "none"
    /\ UNCHANGED <<db, task, line, link, inbox, agent, history, counts>>

AgentClosed ==
    /\ Heard("closed")
    /\ said' = Tail(said)
    /\ LetGo
    /\ reader' = "none"
    /\ status' = "stopped"
    /\ UNCHANGED <<waiting, logOpen, task, line, link, inbox, agent, history, counts>>

(***************************************************************************)
(* Connections and restarts.                                               *)
(***************************************************************************)

\* Frames queued to the host go with the connection, and reports coming from
\* it; lines are asked for again.
Severed ==
    /\ up' = FALSE
    /\ outbox' = <<>>
    /\ said' = Without(said, Errors)
    /\ UNCHANGED <<conn, inbox>>

HostDropped ==
    /\ up /\ line = NoLine
    /\ conn < MaxDrops
    /\ Severed
    /\ LetGo
    /\ UNCHANGED <<db, reader, task, line, agent, history, counts>>

Connect ==
    /\ ~up
    /\ up' = TRUE
    /\ conn' = conn + 1
    /\ UNCHANGED <<db, memory, outbox, worker, agent, history, counts>>

Restart ==
    /\ restarts < MaxRestarts
    /\ restarts' = restarts + 1
    /\ Severed
    /\ delivering' = Nothing /\ reader' = "none" /\ line' = NoLine
    /\ task' = [t \in Tasks |-> Idle]
    /\ restoring' = {}
    /\ UNCHANGED <<db, agent, history, prompts, fails, exits>>

-----------------------------------------------------------------------------

Drain(t) == DrainHeld(t) \/ DrainTurn(t) \/ DrainTake(t) \/ DrainSend(t) \/ DrainHold(t)

PutBack == \E body \in restoring : Requeue(body)

Listen ==
    \/ \E l \in Lines : RecordLine(l)
    \/ \E t \in Tasks : ReadLine(t)
    \/ \E e \in Errors : DeliveryFailed(e)
    \/ AgentClosed

Answer == AgentReads \/ Undeliverable

Next ==
    \/ \E r \in Reports, t \in Tasks : HandBack(r, t)
    \/ \E t \in Tasks : Drain(t)
    \/ PutBack \/ Prompt \/ Carry \/ Answer
    \/ AgentEndsTurn \/ AgentExits \/ Relaunch
    \/ Listen
    \/ HostDropped \/ Connect \/ Restart

\* The control plane's tasks run, frames travel, every message is answered for,
\* an agent ends its turns and the supervisor reconnects.  Nobody has to
\* relaunch an agent, write to one, or hand anything back.
Fairness ==
    /\ \A t \in Tasks : WF_vars(Drain(t))
    /\ WF_vars(PutBack) /\ WF_vars(Carry) /\ WF_vars(Answer)
    /\ WF_vars(AgentEndsTurn) /\ WF_vars(Listen) /\ WF_vars(Connect)

Spec     == Init /\ [][Next]_vars
FairSpec == Spec /\ Fairness

-----------------------------------------------------------------------------

Bodies == SUBSET Reports

TypeOK ==
    /\ waiting \subseteq handed /\ handed \subseteq Reports
    /\ told \subseteq handed /\ retired \subseteq handed
    /\ status \in {"working", "stopped"}
    /\ delivering \in Bodies
    /\ reader \in {"none", "open", "rest"}
    /\ task \in [Tasks -> [at : {"idle", "held", "turn", "take", "send", "hold"}, body : Bodies]]
    /\ restoring \subseteq Bodies \ {{}}
    /\ line \in {NoLine} \union Lines
    /\ {logOpen, up, alive, busy} \subseteq BOOLEAN
    /\ conn \in Nat /\ outbox \in Seq(Bodies) /\ inbox \in Seq([body : Bodies, conn : Nat])
    /\ said \in Seq(Lines \union Errors \union {"closed"})
    /\ busy => alive

\* Copies of a report that somebody can still send.
Kept(r) ==
    \/ r \in waiting
    \/ \E t \in Tasks : r \in task[t].body
    \/ \E body \in restoring : r \in body
    \/ r \in delivering

\* A failed message, an exited agent, a dropped host and a displaced hold never
\* drop a child's report: a report the agent has not read is still kept by
\* somebody, unless a line of the lead retired it.
OnlyALineRetires == \A r \in handed : Kept(r) \/ r \in told \/ r \in retired

\* A lead whose recorded lines end outside a turn, and who has nothing left to be
\* read, is not shown as working: no stop is missed, whatever rebuilds the reader.
StopIsNoticed == (~logOpen /\ line = NoLine) => status = "stopped"

\* The reading of a line "is the only thing that moves a structured session off
\* `Working`": a line that ends the turn leaves the session stopped.
EveryStopMoves ==
    [][(line = "ends" /\ line' = NoLine /\ restarts' = restarts) => status' = "stopped"]_vars

\* "None of them may leave it held": whatever is held for the lead is, in the
\* end, retired or put back -- while the host stays connected.  A host that drops
\* between a drain's send and its hold finds nothing held, and the hold that is
\* then put in place is owned by nobody.
HoldIsAccountedFor == (delivering # Nothing) ~> (delivering = Nothing \/ conn > 0 \/ ~up)

Undisturbed == up /\ fails + exits + conn + restarts = 0

\* What a child hands back is read by the lead, while nothing fails.
EveryReportIsTold == \A r \in Reports : (r \in handed) ~> (r \in told \/ ~Undisturbed)
=============================================================================
