---------------------------- MODULE Conversation ----------------------------
(***************************************************************************)
(* One session's conversation in one window of the desktop client: the     *)
(* store that holds it (desktop/src/api/conversation.ts), the socket it    *)
(* is followed on (desktop/src/api/socket.tsx), and the control plane's    *)
(* end of that subscription (ft-server/src/api/conversation.rs,            *)
(* ft-server/src/api/stream.rs).                                           *)
(*                                                                         *)
(* A line of the agent's log is its kind: somebody's message, as the agent *)
(* repeats it (`opens` from elsewhere, or one of `Messages`, typed in this *)
(* window); the start of something the agent says; more of it; or a line   *)
(* that draws nothing.  An item on the screen is the lines its text was    *)
(* put together from, so a word lost or said twice can be seen.            *)
(***************************************************************************)
EXTENDS Integers, Sequences, SequencesExt, FiniteSetsExt, Queues

CONSTANTS
    Composed,       \* messages sent from the composer, which shows them first
    Noted,          \* messages sent from the notes, which send them first
    Scripts,        \* what the agent may come to write, whole logs
    PageSize,       \* exchanges in a page
    Readers,        \* components that may draw it at once
    BusDepth,       \* bound: lines a receiver may fall behind
    MaxVisits,      \* bound: times the first reader arrives
    MaxTroubles     \* bound: drops, failed reads, watchers lost, letting go

ASSUME BoundsAssumption ==
    /\ PageSize \in Nat \ {0} /\ Readers \in Nat /\ BusDepth \in Nat \ {0}
    /\ MaxVisits \in Nat /\ MaxTroubles \in Nat

VARIABLES
    script,     \* everything the agent will write
    recorded,   \* `agent_lines`: how many of its lines are recorded
    announced,  \* how many of them have been broadcast
    typed,      \* `Fleet::typed`: sent here and not yet found repeated
    pump,       \* the control plane's task for this subscription
    down,       \* frames on their way to the client
    up,         \* whether the socket is open
    store,      \* the `Held` entry: what is drawn, and what waits to be
    readers,    \* `Held.readers`
    follower,   \* how far `start` has got
    pages,      \* reads of older history in flight
    sent,       \* where each message has got to, as its sender knows
    left,       \* what remains of each bound
    fault,      \* history: what has happened that breaks a transcript
    cuts        \* history: the lines a page was cut at

server == <<script, recorded, announced, typed>>
client == <<store, readers, follower, pages, sent>>
history == <<fault, cuts>>
vars == <<server, pump, down, up, client, left, history>>

-----------------------------------------------------------------------------
(* Lines and items *)

Messages == Composed \cup Noted

Kinds == Messages \cup {"opens", "starts", "adds", "quiet"}

ASSUME MessagesAssumption == Messages \cap {"opens", "starts", "adds", "quiet"} = {}

ASSUME ScriptsAssumption ==
    \A s \in Scripts :
        /\ s \in Seq(Kinds)
        /\ \A n \in 1..Len(s) :
              /\ s[n] = "adds" => \E k \in 1..n : s[k] = "starts"
              /\ \A k \in 1..n : s[k] \in Messages /\ s[k] = s[n] => k = n

log == SubSeq(script, 1, recorded)

(* A message from a person, which is also where an exchange begins. *)
IsMessage(n) == script[n] \in Messages \cup {"opens"}
Draws(n) == script[n] # "quiet"

(* The item a line speaks of: its own, or the one the agent last started. *)
Opener(n) == IF script[n] = "adds" THEN Max({k \in 1..n : script[k] = "starts"}) ELSE n
Line(n) == <<"line", n>>
Typed(m) == <<"typed", m>>
Pending(m) == <<"pending", m>>

Has(items, id) == \E i \in 1..Len(items) : items[i].id = id

(* `change`, to nothing and to more: no other item is touched. *)
Emptied(items, id) ==
    [i \in 1..Len(items) |->
        IF items[i].id = id THEN [items[i] EXCEPT !.text = <<>>] ELSE items[i]]

(* Mutant of Start: an item already here is started a second time. *)
XStart(items, id, spoken) ==
    Append(IF spoken THEN Without(items, {item \in ToSet(items) : item.id[1] = "typed"}) ELSE items,
           [id |-> id, text |-> <<>>])

(* `ItemStarted`: an item already here is emptied, because its deltas are *)
(* about to come again; a person's message replaces what was typed.       *)
Settled(items) == Without(items, {item \in ToSet(items) : item.id[1] = "typed"})

Start(items, id, spoken) ==
    IF Has(items, id)
    THEN Emptied(items, id)
    ELSE Append(IF spoken THEN Settled(items) ELSE items, [id |-> id, text |-> <<>>])

(* `ContentDelta`: appended, and only to an item that was seen to start. *)
Delta(items, id, n) ==
    [i \in 1..Len(items) |->
        IF items[i].id = id THEN [items[i] EXCEPT !.text = Append(@, n)] ELSE items[i]]

(* Everything one line means to the screen. *)
ApplyLine(items, n) ==
    LET id == Line(Opener(n))
        begun == IF script[n] = "adds" THEN items ELSE Start(items, id, IsMessage(n))
    IN  IF Draws(n) THEN Delta(begun, id, n) ELSE items

ApplyLines(items, from, to) ==
    LET after[n \in 0..(to + 1 - from)] ==
            IF n = 0 THEN items ELSE ApplyLine(after[n - 1], from + n - 1)
    IN  after[to + 1 - from]

Drawn(items) == FlattenSeq([i \in 1..Len(items) |-> items[i].text])

-----------------------------------------------------------------------------
(* What is kept, and folding into it *)

Nothing ==
    [items |-> <<>>, waiting |-> <<>>, lastLine |-> 0, firstLine |-> 0,
     hasMore |-> FALSE, loadingOlder |-> FALSE, trouble |-> FALSE]

(* A frame is one line whole, and whatever typed messages were sent with it. *)
Frame(n, own, pending) == [t |-> "line", line |-> n, own |-> own, pending |-> pending]

(* The messages not yet repeated, each the start of an item. *)
Awaited(items, messages) ==
    LET after[n \in 0..Len(messages)] ==
            IF n = 0 THEN items ELSE Start(after[n - 1], Pending(messages[n]), TRUE)
    IN  after[Len(messages)]

ApplyFrame(held, frame) ==
    LET said == IF frame.own THEN ApplyLine(held.items, frame.line) ELSE held.items
    IN  [held EXCEPT
           !.items = Awaited(said, frame.pending),
           !.lastLine = IF frame.line > @ THEN frame.line ELSE @]

Drain(held) ==
    LET after[n \in 0..Len(held.waiting)] ==
            IF n = 0 THEN held ELSE ApplyFrame(after[n - 1], held.waiting[n])
    IN  [after[Len(held.waiting)] EXCEPT !.waiting = <<>>]

(* `window`: the last exchanges before a line, or of everything. *)
Page(before) ==
    LET end == IF before = 0 THEN recorded ELSE before - 1
        opens == {n \in 1..end : IsMessage(n)}
        whole == Cardinality(opens) <= PageSize
        start == IF whole THEN 1 ELSE Ascending(opens)[Cardinality(opens) + 1 - PageSize]
        drawing == {n \in start..recorded : Draws(n)}
    IN  [from |-> start, to |-> end, hasMore |-> ~whole, lastLine |-> recorded,
         firstLine |-> IF drawing = {} THEN recorded ELSE Min(drawing)]

(* Mutant of Prepend: the older page is put after what is drawn. *)
XPrepend(held, page) ==
    [held EXCEPT
       !.items = LET older == ApplyLines(<<>>, page.from, page.to)
                 IN  @ \o Without(older, {item \in ToSet(older) : Has(@, item.id)}),
       !.firstLine = page.firstLine, !.hasMore = page.hasMore, !.loadingOlder = FALSE]

(* `prepend`: a page is folded on its own, and only what is not drawn kept. *)
Prepend(held, page) ==
    LET older == ApplyLines(<<>>, page.from, page.to)
    IN  [held EXCEPT
           !.items = Without(older, {item \in ToSet(older) : Has(@, item.id)}) \o @,
           !.firstLine = page.firstLine,
           !.hasMore = page.hasMore,
           !.loadingOlder = FALSE]

-----------------------------------------------------------------------------
(* The subscription *)

Off == [at |-> "off", from |-> 0, replayed |-> 0, todo |-> <<>>, bus |-> <<>>, closed |-> FALSE]

(* The receiver is taken before the log is read. *)
Watching(from) == [Off EXCEPT !.at = "read", !.from = from]

NotFollowing == [at |-> "no"]
Following == [at |-> "on"]

(* A subscription begun again with lines of the one before still to come, *)
(* which it will be sent as well.                                         *)
Overlap(coming) ==
    fault \cup (IF \E i \in 1..Len(coming) : coming[i].t = "line" THEN {"overlap"} ELSE {})

Spend(what) == left[what] > 0 /\ left' = [left EXCEPT ![what] = @ - 1]

(* `listen`: from here on frames are taken, and the cursor is what has been *)
(* folded, so everything that waits is folded first.                        *)
Listen(held) ==
    /\ store' = Drain(held)
    /\ follower' = Following
    /\ pump' = IF up THEN Watching(store'.lastLine) ELSE pump
    /\ fault' = IF up THEN Overlap(down) ELSE fault

-----------------------------------------------------------------------------
(* The control plane *)

(* A line is recorded, then announced, one at a time.  The agent repeats a *)
(* message once it was given it.                                            *)
Record ==
    /\ recorded < Len(script)
    /\ announced = recorded
    /\ LET line == script[recorded + 1]
       IN  line \in Messages => sent[line] \in {"noted", "posted"}
    /\ recorded' = recorded + 1
    /\ UNCHANGED <<script, announced, typed, pump, down, up, client, left, history>>

(* To a receiver as far behind as it may be, the oldest is lost. *)
Announce ==
    /\ announced < recorded
    /\ announced' = announced + 1
    /\ IF pump.at = "off" \/ pump.closed
       THEN UNCHANGED <<pump, fault>>
       ELSE LET full == Len(pump.bus) = BusDepth
                lost == full /\ pump.at = "live" /\ Head(pump.bus) > pump.replayed
            IN  /\ pump' = [pump EXCEPT
                              !.bus = Append(IF full THEN Tail(@) ELSE @, announced')]
                /\ fault' = fault \cup (IF lost THEN {"lost"} ELSE {})
    /\ UNCHANGED <<script, recorded, typed, down, up, client, left, cuts>>

(* The worker's watcher stops, and with it the session's broadcast. *)
Unwatch ==
    /\ pump.at # "off" /\ ~pump.closed
    /\ Spend("troubles")
    /\ pump' = [pump EXCEPT !.closed = TRUE]
    /\ UNCHANGED <<server, down, up, client, history>>

(* The log as recorded, then what was typed and has not been repeated. *)
PumpRead ==
    LET waiting == Without(typed, ToSet(log))
        lines == Ascending({n \in (pump.from + 1)..recorded : Draws(n)})
        backlog == [i \in 1..Len(lines) |-> Frame(lines[i], TRUE, <<>>)]
        shared == lines # <<>> /\ Last(lines) = recorded
    IN  /\ pump.at = "read"
        /\ typed' = waiting
        /\ pump' = [pump EXCEPT
                      !.at = "live",
                      !.replayed = recorded,
                      !.todo = CASE waiting = <<>> -> backlog
                                 [] waiting # <<>> /\ shared ->
                                      Append(Front(backlog), Frame(recorded, TRUE, waiting))
                                 [] OTHER -> Append(backlog, Frame(recorded, FALSE, waiting))]
        /\ UNCHANGED <<script, recorded, announced, down, up, client, left, history>>

(* The read of the log fails, and is taken for an empty log. *)
PumpReadFails ==
    /\ pump.at = "read"
    /\ Spend("troubles")
    /\ pump' = [pump EXCEPT
                  !.at = "live",
                  !.todo = IF typed = <<>> THEN <<>> ELSE <<Frame(0, FALSE, typed)>>]
    /\ fault' = fault \cup {"lost"}
    /\ UNCHANGED <<server, down, up, client, cuts>>

(* The session cannot be looked up: the subscription is refused. *)
PumpRefused ==
    /\ pump.at = "read"
    /\ Spend("troubles")
    /\ pump' = Off
    /\ down' = Append(down, [t |-> "error"])
    /\ UNCHANGED <<server, up, client, history>>

PumpSend ==
    /\ pump.todo # <<>>
    /\ down' = Append(down, Head(pump.todo))
    /\ pump' = [pump EXCEPT !.todo = Tail(@)]
    /\ UNCHANGED <<server, up, client, left, history>>

(* Mutant of PumpLive: a line the backlog already had goes out again. *)
XPumpLive ==
    LET n == Head(pump.bus)
    IN  /\ pump.at = "live" /\ pump.todo = <<>> /\ pump.bus # <<>>
        /\ pump' = [pump EXCEPT !.bus = Tail(@)]
        /\ down' = IF Draws(n) THEN Append(down, Frame(n, TRUE, <<>>)) ELSE down
        /\ UNCHANGED <<server, up, client, left, history>>

(* A live line, unless the backlog already had it. *)
PumpLive ==
    LET n == Head(pump.bus)
        new == n > pump.replayed
    IN  /\ pump.at = "live" /\ pump.todo = <<>> /\ pump.bus # <<>>
        /\ pump' = [pump EXCEPT !.bus = Tail(@), !.replayed = Max({@, n})]
        /\ down' = IF new /\ Draws(n) THEN Append(down, Frame(n, TRUE, <<>>)) ELSE down
        /\ UNCHANGED <<server, up, client, left, history>>

(* Mutant of PumpEnds: the subscription ends without a word. *)
XPumpEnds ==
    /\ pump.at = "live" /\ pump.closed /\ pump.todo = <<>> /\ pump.bus = <<>>
    /\ pump' = Off
    /\ UNCHANGED <<server, down, up, client, left, history>>

(* The broadcast is gone and read to its end: the client is to come again. *)
PumpEnds ==
    /\ pump.at = "live" /\ pump.closed /\ pump.todo = <<>> /\ pump.bus = <<>>
    /\ pump' = Off
    /\ down' = Append(down, [t |-> "reset"])
    /\ UNCHANGED <<server, up, client, left, history>>

-----------------------------------------------------------------------------
(* The socket *)

SocketDrops ==
    /\ up
    /\ Spend("troubles")
    /\ up' = FALSE
    /\ down' = <<>>
    /\ pump' = Off
    /\ UNCHANGED <<server, client, history>>

(* What is followed is followed again, from where it actually got to. *)
SocketOpens ==
    /\ ~up
    /\ up' = TRUE
    /\ IF follower = Following
       THEN /\ store' = Drain(store)
            /\ pump' = Watching(store'.lastLine)
       ELSE UNCHANGED <<store, pump>>
    /\ UNCHANGED <<server, down, readers, follower, pages, sent, left, history>>

(* A frame is handed to whoever follows the session, or to nobody. *)
Receive ==
    /\ up /\ down # <<>>
    /\ down' = Tail(down)
    /\ LET frame == Head(down)
       IN  CASE follower # Following -> UNCHANGED <<store, pump, fault>>
             [] follower = Following /\ frame.t = "line" ->
                  /\ store' = [store EXCEPT !.waiting = Append(@, frame)]
                  /\ UNCHANGED <<pump, fault>>
             [] follower = Following /\ frame.t = "error" ->
                  /\ store' = [Drain(store) EXCEPT !.trouble = TRUE]
                  /\ UNCHANGED <<pump, fault>>
             [] follower = Following /\ frame.t = "reset" ->
                  /\ store' = Drain(store)
                  /\ pump' = Watching(store'.lastLine)
                  /\ fault' = Overlap(down')
    /\ UNCHANGED <<server, up, readers, follower, pages, sent, left, cuts>>

-----------------------------------------------------------------------------
(* The window *)

(* Everything that arrived since the last frame of the screen, in one go. *)
Paint ==
    /\ store.waiting # <<>>
    /\ store' = Drain(store)
    /\ UNCHANGED <<server, pump, down, up, readers, follower, pages, sent, left, history>>

(* The first reader starts it: from what is held, or from a page. *)
Mount ==
    /\ readers < Readers
    /\ readers' = readers + 1
    /\ IF readers > 0
       THEN UNCHANGED <<store, pump, follower, left, fault>>
       ELSE /\ Spend("visits")
            /\ IF store.lastLine > 0
               THEN Listen(store)
               ELSE /\ follower' = [at |-> "asked"]
                    /\ UNCHANGED <<store, pump, fault>>
    /\ UNCHANGED <<server, down, up, pages, sent, cuts>>

(* The last one out stops it, and folds what the cursor will claim. *)
Unmount ==
    /\ readers > 0
    /\ readers' = readers - 1
    /\ IF readers > 1
       THEN UNCHANGED <<store, pump, follower>>
       ELSE /\ follower' = NotFollowing
            /\ pump' = IF follower = Following THEN Off ELSE pump
            /\ store' = Drain(store)
    /\ UNCHANGED <<server, down, up, pages, sent, left, history>>

AnswerSnapshot ==
    /\ follower.at = "asked"
    /\ follower' = [at |-> "answered", page |-> Page(0)]
    /\ UNCHANGED <<server, pump, down, up, store, readers, pages, sent, left, history>>

TakeSnapshot ==
    /\ follower.at = "answered"
    /\ LET page == follower.page
       IN  /\ Listen([store EXCEPT
                         !.items = ApplyLines(@, page.from, page.to),
                         !.lastLine = Max({@, page.lastLine}),
                         !.firstLine = page.firstLine,
                         !.hasMore = page.hasMore])
           /\ cuts' = cuts \cup {page.from}
    /\ UNCHANGED <<server, down, up, readers, pages, sent, left>>

(* Not fatal: the subscription starts from nothing instead. *)
SnapshotFails ==
    /\ follower.at = "asked"
    /\ Spend("troubles")
    /\ Listen(store)
    /\ UNCHANGED <<server, down, up, readers, pages, sent, cuts>>

(* `earlier`: one page at a time, of what is before the ones drawn. *)
ScrollBack ==
    /\ readers > 0
    /\ store.hasMore /\ ~store.loadingOlder /\ store.firstLine > 0
    /\ store' = [Drain(store) EXCEPT !.loadingOlder = TRUE]
    /\ pages' = pages \cup {[at |-> "asked", before |-> store.firstLine, late |-> FALSE]}
    /\ UNCHANGED <<server, pump, down, up, readers, follower, sent, left, history>>

AnswerPage(asked) ==
    /\ asked.at = "asked"
    /\ pages' = (pages \ {asked}) \cup
                   {[at |-> "answered", page |-> Page(asked.before), late |-> asked.late]}
    /\ UNCHANGED <<server, pump, down, up, store, readers, follower, sent, left, history>>

(* Put on the front of what is held by now. *)
TakePage(answered) ==
    /\ answered.at = "answered"
    /\ store' = Prepend(Drain(store), answered.page)
    /\ pages' = pages \ {answered}
    /\ cuts' = cuts \cup {answered.page.from}
    /\ fault' = fault \cup (IF answered.late THEN {"late page"} ELSE {})
    /\ UNCHANGED <<server, pump, down, up, readers, follower, sent, left>>

PageFails(asked) ==
    /\ asked.at = "asked"
    /\ Spend("troubles")
    /\ store' = [Drain(store) EXCEPT !.loadingOlder = FALSE]
    /\ pages' = pages \ {asked}
    /\ UNCHANGED <<server, pump, down, up, readers, follower, sent, history>>

(* Nothing draws it any more, and the window lets go of it: `sweep`, or the *)
(* server it belongs to is disconnected.                                    *)
LetGo ==
    /\ readers = 0
    /\ store # Nothing
    /\ Spend("troubles")
    /\ store' = Nothing
    /\ pages' = {[page EXCEPT !.late = TRUE] : page \in pages}
    /\ UNCHANGED <<server, pump, down, up, readers, follower, sent, history>>

-----------------------------------------------------------------------------
(* Saying something, which the agent comes to repeat sooner or later *)

Echo(m) ==
    store' = [Drain(store) EXCEPT !.items = Append(@, [id |-> Typed(m), text |-> <<>>])]

(* From the composer: on the screen first, then on its way. *)
Say(m) ==
    /\ m \in Composed /\ readers > 0 /\ sent[m] = "unsent" /\ Contains(script, m)
    /\ Echo(m)
    /\ sent' = [sent EXCEPT ![m] = "posting"]
    /\ UNCHANGED <<server, pump, down, up, readers, follower, pages, left, history>>

(* From the notes: on its way first, on the screen once it was taken. *)
SendNotes(m) ==
    /\ m \in Noted /\ readers > 0 /\ sent[m] = "unsent" /\ Contains(script, m)
    /\ sent' = [sent EXCEPT ![m] = "noting"]
    /\ UNCHANGED <<server, pump, down, up, store, readers, follower, pages, left, history>>

Accept(m) ==
    /\ sent[m] \in {"posting", "noting"}
    /\ typed' = Append(typed, m)
    /\ sent' = [sent EXCEPT ![m] = IF @ = "posting" THEN "posted" ELSE "noted"]
    /\ UNCHANGED <<script, recorded, announced, pump, down, up, store, readers, follower, pages, left, history>>

NotesTaken(m) ==
    /\ sent[m] = "noted"
    /\ Echo(m)
    /\ sent' = [sent EXCEPT ![m] = "posted"]
    /\ UNCHANGED <<server, pump, down, up, readers, follower, pages, left, history>>

-----------------------------------------------------------------------------
Init ==
    /\ script \in Scripts /\ recorded = 0 /\ announced = 0 /\ typed = <<>>
    /\ pump = Off /\ down = <<>> /\ up = TRUE
    /\ store = Nothing /\ readers = 0 /\ follower = NotFollowing
    /\ pages = {} /\ sent = [m \in Messages |-> "unsent"]
    /\ left = [visits |-> MaxVisits, troubles |-> MaxTroubles]
    /\ fault = {} /\ cuts = {}

ControlPlane ==
    \/ Record \/ Announce \/ Unwatch
    \/ PumpRead \/ PumpReadFails \/ PumpRefused \/ PumpSend \/ PumpLive \/ PumpEnds

Socket == SocketDrops \/ SocketOpens \/ Receive

Window ==
    \/ Paint \/ Mount \/ Unmount
    \/ AnswerSnapshot \/ TakeSnapshot \/ SnapshotFails
    \/ ScrollBack
    \/ \E page \in pages : AnswerPage(page) \/ TakePage(page) \/ PageFails(page)
    \/ LetGo

Person == \E m \in Messages : Say(m) \/ SendNotes(m) \/ Accept(m) \/ NotesTaken(m)

Next == ControlPlane \/ Socket \/ Window \/ Person

Spec == Init /\ [][Next]_vars

(* What goes on by itself: the tasks the control plane has spawned, frames *)
(* on an open socket, the retry of a closed one, the frame clock, a read.  *)
Work ==
    \/ Announce \/ PumpRead \/ PumpSend \/ PumpLive \/ PumpEnds
    \/ SocketOpens \/ Receive \/ Paint \/ AnswerSnapshot \/ TakeSnapshot

(* When there is any: ENABLED Work, written out, which TLC evaluates sooner. *)
Busy ==
    \/ announced < recorded
    \/ pump.at = "read" \/ pump.todo # <<>> \/ pump.bus # <<>>
    \/ pump.at = "live" /\ pump.closed
    \/ ~up \/ down # <<>> \/ store.waiting # <<>>
    \/ follower.at \in {"asked", "answered"}

(* Weak fairness of Work: nobody starves it, whatever else goes on. *)
FairSpec == Spec /\ ([]<>~Busy \/ []<><<Work>>_vars)

-----------------------------------------------------------------------------
(* Properties *)

(* Every variable holds what it is declared to hold; in particular no two   *)
(* items on the screen share an id, which React keys them by.               *)
TypeOK ==
    /\ script \in Scripts /\ recorded \in 0..Len(script) /\ announced \in 0..recorded /\ typed \in Seq(Messages)
    /\ pump.at \in {"off", "read", "live"} /\ pump.from \in 0..recorded
    /\ up \in BOOLEAN /\ readers \in 0..Readers
    /\ follower.at \in {"no", "asked", "answered", "on"}
    /\ store.lastLine \in 0..recorded /\ store.firstLine \in 0..recorded
    /\ IsInjective([i \in 1..Len(store.items) |-> store.items[i].id])

(* A page cut in the middle of something the agent was saying: what follows *)
(* of it is ignored, and the older page brings only its beginning.          *)
Torn ==
    \E cut \in cuts : \E n \in cut..recorded : script[n] = "adds" /\ Opener(n) < cut

Spoiled == fault # {} \/ Torn

LinesInOrder(s) == SortSeq(s, LAMBDA a, b : a < b)

Screen == INSTANCE Transcript WITH
    written <- SelectSeq([n \in 1..recorded |-> n], Draws),
    shown <- LinesInOrder(Drawn(store.items)),
    spoiled <- Spoiled

(* The store implements the promise of `Transcript`: across mounts, drops,  *)
(* resets, paging and a failed first read, the screen is one unbroken       *)
(* stretch of the log, each word once, unless one of the named faults has   *)
(* happened (see `fault` and `Torn`).                                       *)
ImplementsTranscript == Screen!Spec

(* What is drawn stands in the order it was said, however it was read:      *)
(* snapshot, stream, or a page put on the front of either.                  *)
InOrder ==
    fault \cap {"overlap", "late page"} = {} =>
        \A i, j \in 1..Len(store.items) :
            (i < j /\ store.items[i].id[1] = "line" /\ store.items[j].id[1] = "line")
                => store.items[i].id[2] < store.items[j].id[2]

(* A conversation that stays open on a socket that stays up comes to show   *)
(* the last thing the agent said, or says that it is in trouble; only a     *)
(* read of the log that failed silently may leave it behind.                *)
Newest == LET drawing == {n \in 1..recorded : Draws(n)}
          IN  IF drawing = {} THEN 0 ELSE Max(drawing)

OpenConversationCatchesUp ==
    <>[](readers > 0 /\ up) =>
        <>[](store.lastLine >= Newest \/ store.trouble \/ "lost" \in fault)
=============================================================================
