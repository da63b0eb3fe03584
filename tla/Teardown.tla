------------------------------ MODULE Teardown ------------------------------
(***************************************************************************)
(* How a workspace comes to an end: one workspace on one host, and the     *)
(* agents in it.                                                           *)
(*                                                                         *)
(* While the host answers, ending an agent is a Destroy frame; the worker  *)
(* kills the agent, reclaims the directory if no other agent is left in    *)
(* it, and reports the end through its event log.  While it does not, the  *)
(* control plane forgets the session and owes the host a teardown, which   *)
(* the next connection tells it about.  A sweep deletes a workspace whose  *)
(* sessions have all ended.  The worker runs every frame of these as a     *)
(* task of its own, so a teardown races the start of another agent in the  *)
(* same directory -- or of the very agent it ends.                         *)
(***************************************************************************)
EXTENDS Integers, Sequences, FiniteSets, SequencesExt

CONSTANTS
    Sessions,     \* the agents the workspace may have
    Settings,     \* the histories to look at, one of which each behaviour is
    MaxFrames     \* bound: frames on their way to the host

\* In a setting, some agents are running when the history begins and some may
\* be started; connections end and the worker's process dies so many times;
\* and a patient user ends no agent that is still being started.
ASSUME SettingsAssumption ==
    \A setting \in Settings :
        /\ setting.running \in (SUBSET Sessions) \ {{}}
        /\ setting.startable \in SUBSET (Sessions \ setting.running)
        /\ setting.drops \in Nat /\ setting.crashes \in Nat
        /\ setting.patient \in BOOLEAN

ASSUME BoundAssumption == MaxFrames \in Nat

VARIABLES
    row,          \* [Sessions -> the session's row: none, live, ended, gone]
    place,        \* whether the workspace's row exists
    forgotten,    \* its forgotten_at
    owed,         \* the owed_teardowns of this host
    request,      \* [Sessions -> where a start or a removal has got to]
    doomed,       \* whether the sweep has chosen this workspace
    up, frames,   \* the connection, and what is on its way to the worker
    paying,       \* debts this connection has read and not told; Unread before
    stored,       \* [Sessions -> the worker's row: none, live, ended]
    placed,       \* sessions with a row in the worker's workspaces table
    agent,        \* [Sessions -> whether its process runs]
    dir,          \* whether the workspace's directory is there
    starting, ending,  \* [Sessions -> where the worker's task has got to]
    reported,     \* sessions whose Ended event is in the worker's log, unheard
    drops, crashes,    \* how many there have been
    setting       \* the setting of this behaviour

control == <<row, place, forgotten, owed, request, doomed>>
link    == <<up, frames, paying>>
store   == <<stored, placed>>
host    == <<agent, dir>>
tasks   == <<starting, ending>>
counts  == <<drops, crashes, setting>>
vars    == <<control, link, store, host, tasks, reported, counts>>

Unread == {"unread"}
Frames == [do : {"start", "destroy"}, who : Sessions]

Init ==
    /\ setting \in Settings
    /\ row = [s \in Sessions |-> IF s \in setting.running THEN "live" ELSE "none"]
    /\ place = TRUE /\ forgotten = FALSE /\ owed = {} /\ doomed = FALSE
    /\ request = [s \in Sessions |-> "none"]
    /\ up = TRUE /\ frames = <<>> /\ paying = {}
    /\ stored = row
    /\ placed = setting.running
    /\ agent = [s \in Sessions |-> s \in setting.running]
    /\ dir = TRUE
    /\ starting = [s \in Sessions |-> "idle"]
    /\ ending = [s \in Sessions |-> "idle"]
    /\ reported = {}
    /\ drops = 0 /\ crashes = 0

Tell(do, s) ==
    /\ up
    /\ Len(frames) < MaxFrames
    /\ frames' = Append(frames, [do |-> do, who |-> s])

(***************************************************************************)
(* Another agent in the workspace: start_another_agent.                    *)
(***************************************************************************)

StartAsk(s) ==
    /\ s \in setting.startable
    /\ row[s] = "none" /\ request[s] = "none"
    /\ place /\ ~forgotten /\ up
    /\ request' = [request EXCEPT ![s] = "asked"]
    /\ UNCHANGED <<row, place, forgotten, owed, doomed, link, store, host, tasks, reported, counts>>

\* The new row names the workspace, which has to be there.
StartInsert(s) ==
    /\ request[s] = "asked"
    /\ IF place THEN /\ row' = [row EXCEPT ![s] = "live"]
                     /\ request' = [request EXCEPT ![s] = "inserted"]
                ELSE /\ request' = [request EXCEPT ![s] = "none"]
                     /\ UNCHANGED row
    /\ UNCHANGED <<place, forgotten, owed, doomed, link, store, host, tasks, reported, counts>>

StartSend(s) ==
    /\ request[s] = "inserted"
    /\ Tell("start", s) \/ (~up /\ UNCHANGED frames)
    /\ request' = [request EXCEPT ![s] = "none"]
    /\ UNCHANGED <<row, place, forgotten, owed, doomed, up, paying, store, host,
                   tasks, reported, counts>>

(***************************************************************************)
(* Ending one: destroy_session, forget_session, and the debt.              *)
(***************************************************************************)

BeingStarted(s) ==
    \/ request[s] \in {"asked", "inserted"}
    \/ Contains(frames, [do |-> "start", who |-> s])
    \/ starting[s] # "idle"

\* Nothing in the code waits for a start to be over; a patient user does.
MayEnd(s) == row[s] = "live" /\ (setting.patient => ~BeingStarted(s))

End(s) ==
    /\ MayEnd(s) /\ request[s] \in {"none", "inserted"}
    /\ Tell("destroy", s)
    /\ UNCHANGED <<control, up, paying, store, host, tasks, reported, counts>>

\* Removed by force while the host is away.
EndAway(s) ==
    /\ MayEnd(s) /\ request[s] = "none"
    /\ ~up
    /\ request' = [request EXCEPT ![s] = "forget"]
    /\ UNCHANGED <<row, place, forgotten, owed, doomed, link, store, host, tasks, reported, counts>>

\* The forgetting and its debt are one transaction.
Forget(s) ==
    /\ request[s] = "forget"
    /\ request' = [request EXCEPT ![s] = "none"]
    /\ IF row[s] = "gone" THEN UNCHANGED <<row, forgotten, owed>>
       ELSE /\ row' = [row EXCEPT ![s] = "ended"]
            /\ forgotten' = TRUE
            /\ owed' = owed \union {s}
    /\ UNCHANGED <<place, doomed, link, store, host, tasks, reported, counts>>

ReadDebts ==
    /\ up /\ paying = Unread
    /\ paying' = owed
    /\ UNCHANGED <<control, up, frames, store, host, tasks, reported, counts>>

\* Mutant of PayDebt: the debt goes and is still on the list.
PayDebtAgain(s) ==
    /\ paying # Unread /\ s \in paying
    /\ Tell("destroy", s)
    /\ owed' = owed \ {s}
    /\ UNCHANGED <<row, place, forgotten, request, doomed, up, paying, store, host, tasks,
                   reported, counts>>

\* Told is paid: the frame is queued and the debt goes.
PayDebt(s) ==
    /\ paying # Unread /\ s \in paying
    /\ Tell("destroy", s)
    /\ paying' = paying \ {s}
    /\ owed' = owed \ {s}
    /\ UNCHANGED <<row, place, forgotten, request, doomed, up, store, host, tasks, reported, counts>>

(***************************************************************************)
(* Reclaiming the rows: reclaim::sweep.                                    *)
(***************************************************************************)

SweepLook ==
    /\ place /\ ~doomed
    /\ \E s \in Sessions : row[s] = "ended"
    /\ \A s \in Sessions : row[s] # "live"
    /\ doomed' = TRUE
    /\ UNCHANGED <<row, place, forgotten, owed, request, link, store, host, tasks, reported, counts>>

\* Everything the workspace held goes with it.
SweepPurge ==
    /\ doomed
    /\ doomed' = FALSE
    /\ place' = FALSE
    /\ row' = [s \in Sessions |-> IF row[s] = "none" THEN "none" ELSE "gone"]
    /\ UNCHANGED <<forgotten, owed, request, link, store, host, tasks, reported, counts>>

\* The worker's word: its Ended event is recorded.
HearEnded(s) ==
    /\ up /\ s \in reported
    /\ reported' = reported \ {s}
    /\ row' = IF row[s] = "live" /\ ~forgotten THEN [row EXCEPT ![s] = "ended"] ELSE row
    /\ UNCHANGED <<place, forgotten, owed, request, doomed, link, store, host, tasks, counts>>

(***************************************************************************)
(* The worker: a task for each frame.                                      *)
(***************************************************************************)

Arrives(do, s) ==
    /\ up /\ frames # <<>>
    /\ Head(frames) = [do |-> do, who |-> s]
    /\ frames' = Tail(frames)

\* start_agent finds the directory, or says it is not there any more.
StartFind(s) ==
    /\ starting[s] = "idle"
    /\ Arrives("start", s)
    /\ starting' = [starting EXCEPT ![s] = IF dir THEN "found" ELSE "idle"]
    /\ UNCHANGED <<control, up, paying, store, host, ending, reported, counts>>

StartCreate(s) ==
    /\ starting[s] = "found"
    /\ starting' = [starting EXCEPT ![s] = "created"]
    /\ stored' = [stored EXCEPT ![s] = "live"]
    /\ UNCHANGED <<control, link, placed, host, ending, reported, counts>>

StartPlace(s) ==
    /\ starting[s] = "created"
    /\ starting' = [starting EXCEPT ![s] = "placed"]
    /\ placed' = placed \union {s}
    /\ UNCHANGED <<control, link, stored, host, ending, reported, counts>>

\* The agent's process starts in the directory, if that is still there.
StartLaunch(s) ==
    /\ starting[s] = "placed"
    /\ starting' = [starting EXCEPT ![s] = IF dir THEN "launched" ELSE "idle"]
    /\ agent' = [agent EXCEPT ![s] = dir]
    /\ UNCHANGED <<control, link, store, dir, ending, reported, counts>>

StartSettle(s) ==
    /\ starting[s] = "launched"
    /\ starting' = [starting EXCEPT ![s] = "idle"]
    /\ stored' = [stored EXCEPT ![s] = "live"]
    /\ UNCHANGED <<control, link, placed, host, ending, reported, counts>>

Ended(s) == stored' = [stored EXCEPT ![s] = IF @ = "none" THEN "none" ELSE "ended"]

\* Mutant of DestroyKill: the session is marked and its agent never killed.
DestroyKillLater(s) ==
    /\ ending[s] = "idle"
    /\ Arrives("destroy", s)
    /\ ending' = [ending EXCEPT ![s] = "killed"]
    /\ UNCHANGED <<control, up, paying, store, host, starting, reported, counts>>

DestroyKill(s) ==
    /\ ending[s] = "idle"
    /\ Arrives("destroy", s)
    /\ ending' = [ending EXCEPT ![s] = "killed"]
    /\ agent' = [agent EXCEPT ![s] = FALSE]
    /\ UNCHANGED <<control, up, paying, store, dir, starting, reported, counts>>

\* Mutant of DestroyMark: the row ends with the report and not before the count.
DestroyMarkLater(s) ==
    /\ ending[s] = "killed"
    /\ ending' = [ending EXCEPT ![s] = "marked"]
    /\ UNCHANGED <<control, link, store, host, starting, reported, counts>>

\* Ended before the others are counted.
DestroyMark(s) ==
    /\ ending[s] = "killed"
    /\ ending' = [ending EXCEPT ![s] = "marked"]
    /\ Ended(s)
    /\ UNCHANGED <<control, link, placed, host, starting, reported, counts>>

Others(s) == {x \in placed \ {s} : stored[x] # "ended"}

\* Mutant of DestroyCount: the first agent out takes the directory.
DestroyCountNobody(s) ==
    /\ ending[s] = "marked"
    /\ ending' = [ending EXCEPT ![s] = IF s \in placed THEN "alone" ELSE "last"]
    /\ UNCHANGED <<control, link, store, host, starting, reported, counts>>

\* The last agent out reclaims the directory, if it has one on record.
DestroyCount(s) ==
    /\ ending[s] = "marked"
    /\ ending' = [ending EXCEPT ![s] = IF s \in placed /\ Others(s) = {} THEN "alone" ELSE "last"]
    /\ UNCHANGED <<control, link, store, host, starting, reported, counts>>

DestroyReclaim(s) ==
    /\ ending[s] = "alone"
    /\ ending' = [ending EXCEPT ![s] = "last"]
    /\ dir' = FALSE
    /\ UNCHANGED <<control, link, store, agent, starting, reported, counts>>

\* Mutant of DestroyReport: the row ends and nothing says so.
DestroyReportQuiet(s) ==
    /\ ending[s] = "last"
    /\ ending' = [ending EXCEPT ![s] = "idle"]
    /\ Ended(s)
    /\ UNCHANGED <<control, link, placed, host, starting, reported, counts>>

\* An event needs a session: one the worker has no row for is not reported.
DestroyReport(s) ==
    /\ ending[s] = "last"
    /\ ending' = [ending EXCEPT ![s] = "idle"]
    /\ Ended(s)
    /\ reported' = IF stored[s] = "none" THEN reported ELSE reported \union {s}
    /\ UNCHANGED <<control, link, placed, host, starting, counts>>

(***************************************************************************)
(* Connections.                                                            *)
(***************************************************************************)

Severed == up' = FALSE /\ frames' = <<>> /\ paying' = {}

\* The worker's tasks finish what they are doing.
Drop ==
    /\ up /\ drops < setting.drops
    /\ drops' = drops + 1
    /\ Severed
    /\ UNCHANGED <<control, store, host, tasks, reported, crashes, setting>>

Connect ==
    /\ ~up
    /\ up' = TRUE
    /\ paying' = Unread
    /\ UNCHANGED <<control, frames, store, host, tasks, reported, counts>>

\* The worker's tasks die with it; its database, the agents and the directory
\* do not.
WorkerCrashes ==
    /\ up /\ crashes < setting.crashes
    /\ crashes' = crashes + 1
    /\ Severed
    /\ starting' = [s \in Sessions |-> "idle"]
    /\ ending' = [s \in Sessions |-> "idle"]
    /\ UNCHANGED <<control, store, host, reported, drops, setting>>

-----------------------------------------------------------------------------

Starting(s) == StartFind(s) \/ StartCreate(s) \/ StartPlace(s) \/ StartLaunch(s) \/ StartSettle(s)

Destroying(s) ==
    DestroyKill(s) \/ DestroyMark(s) \/ DestroyCount(s) \/ DestroyReclaim(s) \/ DestroyReport(s)

Serving(s) == StartInsert(s) \/ StartSend(s) \/ Forget(s) \/ PayDebt(s) \/ HearEnded(s)

Next ==
    \/ \E s \in Sessions :
          StartAsk(s) \/ End(s) \/ EndAway(s) \/ Serving(s) \/ Starting(s) \/ Destroying(s)
    \/ ReadDebts \/ SweepLook \/ SweepPurge
    \/ Drop \/ Connect \/ WorkerCrashes

\* The worker's and the control plane's tasks run to their end and the
\* supervisor reconnects.  Nobody has to start or end an agent.
Fairness ==
    /\ \A s \in Sessions :
          WF_vars(Starting(s)) /\ WF_vars(Destroying(s)) /\ WF_vars(Serving(s))
    /\ WF_vars(ReadDebts) /\ WF_vars(Connect)

Spec     == Init /\ [][Next]_vars
FairSpec == Spec /\ Fairness

-----------------------------------------------------------------------------

TypeOK ==
    /\ row \in [Sessions -> {"none", "live", "ended", "gone"}]
    /\ {place, forgotten, doomed, up, dir} \subseteq BOOLEAN
    /\ owed \subseteq Sessions
    /\ request \in [Sessions -> {"none", "asked", "inserted", "forget"}]
    /\ frames \in Seq(Frames) /\ Len(frames) <= MaxFrames
    /\ paying = Unread \/ paying \subseteq owed
    /\ stored \in [Sessions -> {"none", "live", "ended"}]
    /\ placed \subseteq {s \in Sessions : stored[s] # "none"}
    /\ agent \in [Sessions -> BOOLEAN]
    /\ starting \in [Sessions -> {"idle", "found", "created", "placed", "launched"}]
    /\ ending \in [Sessions -> {"idle", "killed", "marked", "alone", "last"}]
    /\ reported \subseteq Sessions
    /\ ~place => \A s \in Sessions : row[s] \in {"none", "gone"}

\* Nothing orders the start and the end of one session: where agents are being
\* started, what ending them promises takes a patient user.
Calm == setting.patient \/ setting.startable = {}

\* The worker's word is true: a session that ended without being forgotten has
\* no agent left running on the host.
EndedMeansGone ==
    Calm => \A s \in Sessions : (row[s] \in {"ended", "gone"} /\ ~forgotten) => ~agent[s]

\* While nobody starts another, no agent runs in a directory that has been
\* removed under it: of two teardowns at once, neither takes the other's place
\* from it, whatever dies in between.
DirectoryUnderAgents ==
    setting.startable = {} => \A s \in Sessions : agent[s] => dir

\* Whatever the order in which the agents of a workspace are started and torn
\* down, the last one out has taken the directory: with all of them ended, none
\* running and no task under way, nothing is left on the disk, if the worker
\* that tore them down has lived.
LastOutReclaims ==
    (/\ Calm /\ crashes = 0
     /\ \A s \in Sessions : /\ stored[s] # "live" /\ ~agent[s]
                            /\ starting[s] = "idle" /\ ending[s] = "idle") => ~dir

\* An end the host has been told of, for a session its worker knows, over a
\* connection that stays up and by a worker that does, ends the session's row.
EndIsHeard ==
    \A s \in Sessions : (stored[s] = "live" /\ Contains(frames, [do |-> "destroy", who |-> s]))
                        ~> (row[s] # "live" \/ drops + crashes > 0)

\* "A live workspace is untouched": the sweep never deletes a live session.
LiveWorkspaceIsUntouched == [][place /\ ~place' => \A s \in Sessions : row[s] # "live"]_vars
=============================================================================
