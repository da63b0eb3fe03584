--------------------------- MODULE EventLogProofs ---------------------------
(***************************************************************************)
(* Proofs about EventLog: its type invariant, that the resume cursor is    *)
(* the newest row, that a connection leaves no gap behind the point it     *)
(* resumed from, and the two action properties of a recorded event.        *)
(*                                                                         *)
(* The induction needs three facts beside the properties: the stretch the  *)
(* tail is sending and the stretch the replay is sending lie inside the    *)
(* log, and a worker that is down holds nothing.                           *)
(***************************************************************************)
EXTENDS EventLog, TLAPS

TailInLog == tail # 0 => forwarded < tail /\ tail <= Len(log)

ReplayInLog ==
    /\ replay.phase = "asked" => replay.next >= 1
    /\ replay.phase = "sending" => /\ 1 <= replay.next
                                   /\ replay.next <= replay.last
                                   /\ replay.last <= Len(log)

DownHoldsNothing ==
    ~up => /\ \A t \in Tasks : emitting[t] = 0
           /\ tail = 0
           /\ replay = Idle
           /\ wire = <<>>

Typed == TypeOK /\ TailInLog /\ ReplayInLog /\ DownHoldsNothing

IInv == Typed /\ CursorIsNewestRow /\ NothingFallsBetween

-----------------------------------------------------------------------------

\* A sequence over 1 .. m is one over any larger 1 .. n: the frames on the wire
\* stay events of the log as the log grows.
LEMMA SeqWidens ==
    ASSUME NEW m \in Nat, NEW n \in Nat, m <= n, NEW w \in Seq(1 .. m)
    PROVE  w \in Seq(1 .. n)
  <1>1. \A i \in 1 .. Len(w) : w[i] \in 1 .. n
    OBVIOUS
  <1> QED
    BY <1>1

\* What appending to the log does to it: emit's and a stray task's append.
LEMMA LogGrows ==
    ASSUME TypeOK, NEW s \in Sessions, NEW k \in Kinds, Append2Log(s, k)
    PROVE  /\ log' \in Seq(Events)
           /\ Len(log') = Len(log) + 1
           /\ Len(log) \in Nat
           /\ \A q \in Seqs : log'[q] = log[q]
  BY DEF TypeOK, Append2Log, Events, Seqs

\* What a frame entering the channel does to the wire.
LEMMA WireGrows ==
    ASSUME TypeOK, NEW q \in Seqs, Send(q)
    PROVE  /\ wire' \in Seq(Seqs)
           /\ \A p : OnWire(p) => OnWire(p)'
           /\ OnWire(q)'
  <1>1. wire \in Seq(Seqs) /\ Len(wire) \in Nat
    BY DEF TypeOK
  <1>2. /\ wire' = Append(wire, q)
        /\ wire' \in Seq(Seqs)
        /\ Len(wire') = Len(wire) + 1
        /\ \A i \in 1 .. Len(wire) : wire'[i] = wire[i]
        /\ wire'[Len(wire) + 1] = q
    BY <1>1 DEF Send
  <1>3. DOMAIN wire = 1 .. Len(wire) /\ DOMAIN wire' = 1 .. Len(wire')
    BY <1>1, <1>2
  <1> QED
    BY <1>1, <1>2, <1>3 DEF OnWire

\* What reading a frame does to the wire.
LEMMA WireShrinks ==
    ASSUME TypeOK, wire # <<>>, wire' = Tail(wire)
    PROVE  /\ Head(wire) \in Seqs
           /\ wire' \in Seq(Seqs)
           /\ \A p : OnWire(p) => p = Head(wire) \/ OnWire(p)'
  <1>1. wire \in Seq(Seqs) /\ Len(wire) \in Nat /\ Len(wire) # 0
    BY DEF TypeOK
  <1>2. /\ Head(wire) = wire[1]
        /\ Head(wire) \in Seqs
        /\ wire' \in Seq(Seqs)
        /\ Len(wire') = Len(wire) - 1
        /\ \A i \in 1 .. Len(wire') : wire'[i] = wire[i + 1]
    BY <1>1
  <1>3. DOMAIN wire = 1 .. Len(wire) /\ DOMAIN wire' = 1 .. Len(wire')
    BY <1>1, <1>2
  <1>4. ASSUME NEW i \in 1 .. Len(wire), i # 1
        PROVE  i - 1 \in 1 .. Len(wire') /\ wire'[i - 1] = wire[i]
    BY <1>1, <1>2, <1>4
  <1> QED
    BY <1>2, <1>3, <1>4 DEF OnWire

-----------------------------------------------------------------------------

\* An idle worker process is of the right type.
LEMMA IdleTyped ==
    /\ NothingToEmit \in [Tasks -> {0}]
    /\ Idle \in Replaying
    /\ Idle.phase = "idle"
  BY DEF NothingToEmit, Idle, Replaying

LEMMA InitTyped == Init => Typed
  <1> SUFFICES ASSUME Init PROVE Typed
    OBVIOUS
  <1>1. log \in Seq(Events) /\ wire \in Seq(Seqs)
    BY DEF Init
  <1>2. emitting \in [Tasks -> {0} \union Seqs] /\ \A t \in Tasks : emitting[t] = 0
    BY IdleTyped DEF Init
  <1>3. status \in [Sessions -> SessionStatus]
    BY DEF Init, SessionStatus
  <1>4. replay \in Replaying /\ replay.phase = "idle"
    BY IdleTyped DEF Init
  <1> QED
    BY <1>1, <1>2, <1>3, <1>4 DEF Init, Typed, TypeOK, TailInLog, ReplayInLog,
       DownHoldsNothing

\* What an event does to the sessions keeps their types.
LEMMA RecordTyped ==
    ASSUME TypeOK, NEW q \in Seqs, RecordNew(q) \/ RecordKnown(q)
    PROVE  /\ recorded' \subseteq Seqs
           /\ lastSeq' \in {0} \union Seqs
           /\ status' \in [Sessions -> SessionStatus]
  <1>1. log[q] \in Events
    BY DEF TypeOK, Seqs
  <1>2. /\ recorded \subseteq Seqs
        /\ lastSeq \in {0} \union Seqs
        /\ status \in [Sessions -> SessionStatus]
    BY DEF TypeOK
  <1>3. Larger(lastSeq, q) \in {0} \union Seqs
    BY <1>2 DEF Larger
  <1>4. CASE RecordKnown(q)
    BY <1>2, <1>3, <1>4 DEF RecordKnown
  <1>5. CASE RecordNew(q)
    <2>1. status' \in [Sessions -> SessionStatus]
      BY <1>1, <1>2, <1>5, StatusAssumption DEF RecordNew, MoveSession, Moves, Events
    <2> QED
      BY <1>2, <1>3, <1>5, <2>1 DEF RecordNew
  <1> QED
    BY <1>4, <1>5

\* Appending an event keeps every type, whoever appends it.
LEMMA AppendTyped ==
    ASSUME Typed, NEW s \in Sessions, NEW k \in Kinds, Append2Log(s, k),
           emitting' \in [Tasks -> {0} \union Seqs'],
           stray' \subseteq Seqs',
           UNCHANGED <<up, forwarded, tail, replay, wire, serverVars, since, drops>>,
           ~up => \A t \in Tasks : emitting'[t] = 0
    PROVE  Typed'
  <1>1. log' \in Seq(Events) /\ Len(log) \in Nat /\ Len(log') = Len(log) + 1
    BY LogGrows DEF Typed
  <1>2. Seqs \subseteq Seqs'
    BY <1>1 DEF Seqs
  <1>3. wire' \in Seq(Seqs')
    BY <1>1, SeqWidens DEF Typed, TypeOK, Seqs
  <1>4. TypeOK'
    BY <1>1, <1>2, <1>3 DEF Typed, TypeOK, serverVars
  <1>5. TailInLog' /\ ReplayInLog'
    BY <1>1 DEF Typed, TypeOK, TailInLog, ReplayInLog, Replaying, Seqs
  <1>6. DownHoldsNothing'
    BY DEF Typed, DownHoldsNothing
  <1> QED
    BY <1>4, <1>5, <1>6 DEF Typed

LEMMA StepTyped == Typed /\ [Next]_vars => Typed'
  <1> SUFFICES ASSUME Typed, [Next]_vars PROVE Typed'
    OBVIOUS
  <1> USE DEF Typed
  <1>a. Len(log) \in Nat
    BY DEF TypeOK
  <1>1. CASE Connect
    BY <1>1, <1>a DEF Connect, TypeOK, TailInLog, ReplayInLog, DownHoldsNothing, Replaying,
       Seqs, serverVars, Idle
  <1>2. CASE Disconnect
    <2>1. /\ emitting' \in [Tasks -> {0} \union Seqs]
          /\ \A t \in Tasks : emitting'[t] = 0
      BY <1>2, IdleTyped DEF Disconnect
    <2>2. replay' \in Replaying /\ replay'.phase = "idle"
      BY <1>2, IdleTyped DEF Disconnect
    <2>3. wire' \in Seq(Seqs)
      BY <1>2 DEF Disconnect
    <2>4. TypeOK'
      <3>1. up' \in BOOLEAN /\ tail' \in {0} \union Seqs
        BY <1>2 DEF Disconnect
      <3>3. drops' \in Nat
        BY <1>2 DEF Disconnect, TypeOK
      <3>2. Seqs' = Seqs
        BY <1>2 DEF Disconnect, Seqs
      <3> QED
        BY <1>2, <2>1, <2>2, <2>3, <3>1, <3>2, <3>3 DEF Disconnect, TypeOK, serverVars
    <2>5. TailInLog' /\ ReplayInLog' /\ DownHoldsNothing'
      BY <1>2, <2>1, <2>2 DEF Disconnect, TailInLog, ReplayInLog, DownHoldsNothing
    <2> QED
      BY <2>4, <2>5
  <1>3. ASSUME NEW t \in Tasks, NEW s \in Sessions, NEW k \in Kinds, EmitAppend(t, s, k)
        PROVE  Typed'
    <2>1. Append2Log(s, k) /\ emitting' = [emitting EXCEPT ![t] = Len(log')]
      BY <1>3 DEF EmitAppend
    <2>2. Len(log') \in Seqs' /\ Seqs \subseteq Seqs'
      BY <2>1, LogGrows DEF Seqs
    <2>3. emitting' \in [Tasks -> {0} \union Seqs']
      BY <2>1, <2>2 DEF TypeOK
    <2> QED
      BY <1>3, <2>1, <2>2, <2>3, AppendTyped DEF EmitAppend, TypeOK
  <1>4. ASSUME NEW s \in Sessions, NEW k \in Kinds, StrayAppend(s, k)
        PROVE  Typed'
    <2>1. Append2Log(s, k) /\ stray' = stray \union {Len(log')}
      BY <1>4 DEF StrayAppend
    <2>2. Len(log') \in Seqs' /\ Seqs \subseteq Seqs'
      BY <2>1, LogGrows DEF Seqs
    <2>3. stray' \subseteq Seqs' /\ emitting' \in [Tasks -> {0} \union Seqs']
      BY <1>4, <2>1, <2>2 DEF TypeOK, StrayAppend, workerVars
    <2> QED
      BY <1>4, <2>1, <2>3, AppendTyped DEF StrayAppend, workerVars, DownHoldsNothing
  <1>5. ASSUME NEW t \in Tasks, EmitSend(t) PROVE Typed'
    <2>1. emitting[t] \in Seqs
      BY <1>5 DEF EmitSend, TypeOK
    <2>2. wire' \in Seq(Seqs)
      BY <1>5, <2>1, WireGrows DEF EmitSend
    <2>3. forwarded' \in {0} \union Seqs /\ emitting' \in [Tasks -> {0} \union Seqs]
      BY <1>5, <2>1 DEF EmitSend, TypeOK, Larger
    <2>4. up
      BY <1>5, <2>1 DEF EmitSend, DownHoldsNothing
    <2> QED
      BY <1>5, <2>2, <2>3, <2>4 DEF EmitSend, TypeOK, TailInLog, ReplayInLog,
         DownHoldsNothing, Seqs, serverVars
  <1>6. CASE TailLook
    BY <1>6, <1>a DEF TailLook, TypeOK, TailInLog, ReplayInLog, DownHoldsNothing, Seqs,
       serverVars
  <1>7. CASE TailSend
    <2>1. forwarded + 1 \in Seqs
      BY <1>7, <1>a DEF TailSend, TailInLog, TypeOK, Seqs
    <2>2. wire' \in Seq(Seqs)
      BY <1>7, <2>1, WireGrows DEF TailSend
    <2>3. TailInLog' /\ tail' \in {0} \union Seqs
      BY <1>7, <1>a, <2>1 DEF TailSend, TailInLog, TypeOK, Seqs
    <2>4. up
      BY <1>7 DEF TailSend, DownHoldsNothing
    <2> QED
      BY <1>7, <2>1, <2>2, <2>3, <2>4 DEF TailSend, TypeOK, ReplayInLog,
         DownHoldsNothing, Seqs, serverVars
  <1>8. CASE ReplayLook
    <2>1. replay' \in Replaying /\ ReplayInLog'
      <3>1. CASE replay.next <= Len(log)
        <4>1. replay' = [replay EXCEPT !.phase = "sending", !.last = Len(log)]
          BY <1>8, <3>1 DEF ReplayLook
        <4>2. replay' = [phase |-> "sending", next |-> replay.next, last |-> Len(log)]
          BY <4>1 DEF TypeOK, Replaying
        <4> QED
          BY <1>8, <1>a, <3>1, <4>2 DEF ReplayLook, TypeOK, ReplayInLog, Replaying
      <3>2. CASE ~(replay.next <= Len(log))
        BY <1>8, <3>2, IdleTyped DEF ReplayLook, ReplayInLog
      <3> QED
        BY <3>1, <3>2
    <2>2. up
      BY <1>8, IdleTyped DEF ReplayLook, DownHoldsNothing
    <2> QED
      BY <1>8, <2>1, <2>2 DEF ReplayLook, TypeOK, TailInLog, DownHoldsNothing, Seqs,
         serverVars
  <1>9. CASE ReplaySend
    <2>1. replay.next \in Seqs
      BY <1>9, <1>a DEF ReplaySend, ReplayInLog, TypeOK, Replaying, Seqs
    <2>2. wire' \in Seq(Seqs)
      BY <1>9, <2>1, WireGrows DEF ReplaySend
    <2>3. ReplayInLog' /\ replay' \in Replaying
      BY <1>9, <1>a DEF ReplaySend, ReplayInLog, TypeOK, Replaying, Idle
    <2>4. up
      BY <1>9 DEF ReplaySend, DownHoldsNothing, Idle
    <2> QED
      BY <1>9, <2>2, <2>3, <2>4 DEF ReplaySend, TypeOK, TailInLog, DownHoldsNothing, Seqs,
         serverVars
  <1>10. CASE Receive
    <2>1. Head(wire) \in Seqs /\ wire' \in Seq(Seqs)
      BY <1>10, WireShrinks DEF Receive
    <2>2. /\ recorded' \subseteq Seqs
          /\ lastSeq' \in {0} \union Seqs
          /\ status' \in [Sessions -> SessionStatus]
      BY <1>10, <2>1, RecordTyped DEF Receive
    <2>3. up
      BY <1>10 DEF Receive, DownHoldsNothing
    <2> QED
      BY <1>10, <2>1, <2>2, <2>3 DEF Receive, TypeOK, TailInLog, ReplayInLog,
         DownHoldsNothing, Seqs, workerVars
  <1>11. CASE ReceiveRefused
    <2>1. Head(wire) \in Seqs /\ wire' \in Seq(Seqs)
      BY <1>11, WireShrinks DEF ReceiveRefused
    <2>2. up
      BY <1>11 DEF ReceiveRefused, DownHoldsNothing
    <2> QED
      BY <1>11, <2>1, <2>2 DEF ReceiveRefused, TypeOK, TailInLog, ReplayInLog,
         DownHoldsNothing, Seqs, workerVars
  <1>12. ASSUME NEW s \in Sessions, NEW st \in Statuses, AnnounceStatus(s, st)
         PROVE  Typed'
    <2>1. status' \in [Sessions -> SessionStatus]
      BY <1>12, StatusAssumption DEF AnnounceStatus, MoveSession, Moves, TypeOK
    <2> QED
      BY <1>12, <2>1 DEF AnnounceStatus, TypeOK, TailInLog, ReplayInLog, DownHoldsNothing,
         Seqs, workerVars
  <1>13. ASSUME NEW s \in Sessions, ForgetSession(s) PROVE Typed'
    BY <1>13, WorkspaceAssumption DEF ForgetSession, TypeOK, TailInLog, ReplayInLog,
       DownHoldsNothing, Seqs, workerVars, SessionStatus
  <1>14. CASE UNCHANGED vars
    BY <1>14 DEF vars, workerVars, serverVars, TypeOK, TailInLog, ReplayInLog,
       DownHoldsNothing, Seqs
  <1> QED
    BY <1>1, <1>2, <1>3, <1>4, <1>5, <1>6, <1>7, <1>8, <1>9, <1>10, <1>11, <1>12, <1>13,
       <1>14 DEF Next, Worker, Server

\* In every execution every variable has its type, and every frame, cursor and
\* row refers to an event the worker's log holds.
THEOREM TypeCorrect == Spec => []TypeOK
  <1>1. Spec => []Typed
    BY InitTyped, StepTyped, PTL DEF Spec
  <1>2. Typed => TypeOK
    BY DEF Typed
  <1> QED
    BY <1>1, <1>2, PTL

-----------------------------------------------------------------------------

\* Only reading a frame touches the rows and the cursor.
LEMMA OnlyReceiveRecords ==
    ASSUME [Next]_vars, ~Receive
    PROVE  UNCHANGED <<recorded, lastSeq>>
  BY DEF Next, Worker, Server, vars, workerVars, serverVars, Connect, Disconnect, EmitAppend,
     StrayAppend, EmitSend, TailLook, TailSend, ReplayLook, ReplaySend, ReceiveRefused,
     AnnounceStatus, ForgetSession

LEMMA StepCursor == Typed /\ CursorIsNewestRow /\ [Next]_vars => CursorIsNewestRow'
  <1> SUFFICES ASSUME Typed, CursorIsNewestRow, [Next]_vars PROVE CursorIsNewestRow'
    OBVIOUS
  <1>1. CASE ~Receive
    BY <1>1, OnlyReceiveRecords DEF CursorIsNewestRow
  <1>2. CASE Receive
    <2> DEFINE q == Head(wire)
    <2>1. q \in Seqs
      BY <1>2, WireShrinks DEF Receive, Typed
    <2>2. q \in Nat /\ lastSeq \in Nat /\ recorded \subseteq Nat
      BY <2>1 DEF Typed, TypeOK, Seqs
    <2>3. /\ lastSeq' = Larger(lastSeq, q)
          /\ recorded' = recorded \union {q}
      BY <1>2 DEF Receive, RecordNew, RecordKnown
    <2> HIDE DEF q
    <2> QED
      BY <2>2, <2>3 DEF CursorIsNewestRow, Larger
  <1> QED
    BY <1>1, <1>2

\* In every execution the resume cursor is the newest event that has a row, so a
\* reconnect neither skips what is held nor asks for it again.
THEOREM CursorCorrect == Spec => []CursorIsNewestRow
  <1>1. Init => Typed /\ CursorIsNewestRow
    BY InitTyped DEF Init, CursorIsNewestRow
  <1>2. Typed /\ CursorIsNewestRow /\ [Next]_vars => (Typed /\ CursorIsNewestRow)'
    BY StepTyped, StepCursor
  <1> QED
    BY <1>1, <1>2, PTL DEF Spec

-----------------------------------------------------------------------------

Settled(q) == q \in recorded \/ OnWire(q) \/ StillToSend(q) \/ q \in refused

\* A step that appends nothing and settles whatever was settled opens no gap.
LEMMA NoGapOpens ==
    ASSUME NothingFallsBetween, up, UNCHANGED <<log, since, stray>>,
           \A q \in Seqs : Settled(q) => Settled(q)'
    PROVE  NothingFallsBetween'
  BY DEF NothingFallsBetween, Settled, Seqs

\* Nor does one that appends an event and leaves it with a task or a stray.
LEMMA NoGapAppends ==
    ASSUME TypeOK, NothingFallsBetween, NEW s \in Sessions, NEW k \in Kinds,
           Append2Log(s, k),
           UNCHANGED <<up, since, wire, recorded, refused, replay>>,
           stray \subseteq stray',
           \A q \in Seqs, t \in Tasks : emitting[t] = q => emitting'[t] = q,
           \/ Len(log') \in stray'
           \/ \E t \in Tasks : emitting'[t] = Len(log')
    PROVE  NothingFallsBetween'
  <1>1. Seqs' = Seqs \union {Len(log')}
    BY LogGrows DEF Seqs
  <1>2. \A q \in Seqs : Settled(q) => Settled(q)'
    BY DEF Settled, OnWire, StillToSend
  <1>4. ASSUME NEW q \in Seqs', up', q > since', q \notin stray' \union refused'
        PROVE  q \in recorded' \/ OnWire(q)' \/ StillToSend(q)'
    <2>1. CASE q = Len(log')
      BY <1>4, <2>1 DEF StillToSend
    <2>2. CASE q # Len(log')
      <3>1. q \in Seqs /\ up /\ q > since /\ q \notin stray \union refused
        BY <1>1, <1>4, <2>2
      <3>2. Settled(q)'
        BY <1>2, <3>1 DEF NothingFallsBetween, Settled
      <3> QED
        BY <1>4, <3>2 DEF Settled
    <2> QED
      BY <2>1, <2>2
  <1> QED
    BY <1>4 DEF NothingFallsBetween

LEMMA StepNoGap == Typed /\ NothingFallsBetween /\ [Next]_vars => NothingFallsBetween'
  <1> SUFFICES ASSUME Typed, NothingFallsBetween, [Next]_vars PROVE NothingFallsBetween'
    OBVIOUS
  <1> USE DEF Typed
  <1>1. CASE Connect
    <2>1. lastSeq \in Nat /\ since' = lastSeq /\ Seqs' \subseteq Nat
      BY <1>1 DEF Connect, TypeOK, Seqs
    <2>2. replay'.phase = "asked" /\ replay'.next = lastSeq + 1
      BY <1>1 DEF Connect
    <2>3. ASSUME NEW q \in Seqs', q > since' PROVE StillToSend(q)'
      BY <2>1, <2>2, <2>3 DEF StillToSend
    <2> QED
      BY <2>3 DEF NothingFallsBetween
  <1>2. CASE Disconnect
    BY <1>2 DEF Disconnect, NothingFallsBetween
  <1>3. ASSUME NEW t \in Tasks, NEW s \in Sessions, NEW k \in Kinds, EmitAppend(t, s, k)
        PROVE  NothingFallsBetween'
    <2>1. Append2Log(s, k) /\ emitting[t] = 0 /\ emitting' = [emitting EXCEPT ![t] = Len(log')]
      BY <1>3 DEF EmitAppend
    <2>2. \A q \in Seqs, u \in Tasks : emitting[u] = q => emitting'[u] = q
      BY <2>1 DEF TypeOK, Seqs
    <2>3. emitting'[t] = Len(log')
      BY <2>1 DEF TypeOK
    <2> QED
      BY <1>3, <2>1, <2>2, <2>3, NoGapAppends DEF EmitAppend, serverVars
  <1>4. ASSUME NEW s \in Sessions, NEW k \in Kinds, StrayAppend(s, k)
        PROVE  NothingFallsBetween'
    BY <1>4, NoGapAppends DEF StrayAppend, workerVars, serverVars
  <1>5. ASSUME NEW t \in Tasks, EmitSend(t) PROVE NothingFallsBetween'
    <2>1. PICK sent \in Seqs : sent = emitting[t] /\ Send(sent)
      BY <1>5 DEF EmitSend, TypeOK
    <2>2. (\A p : OnWire(p) => OnWire(p)') /\ OnWire(sent)'
      BY <2>1, WireGrows
    <2>3. \A u \in Tasks : u = t \/ emitting'[u] = emitting[u]
      BY <1>5 DEF EmitSend, TypeOK
    <2>4. UNCHANGED <<log, since, stray, recorded, refused, replay>>
      BY <1>5 DEF EmitSend, serverVars
    <2>5. \A q \in Seqs : Settled(q) => Settled(q)'
      BY <2>1, <2>2, <2>3, <2>4 DEF Settled, StillToSend
    <2>6. up
      BY <1>5 DEF EmitSend, DownHoldsNothing
    <2> QED
      BY <2>4, <2>5, <2>6, NoGapOpens
  <1>6. CASE TailLook
    <2>1. up /\ UNCHANGED <<log, since, stray>>
      BY <1>6 DEF TailLook
    <2>2. \A q \in Seqs : Settled(q) => Settled(q)'
      BY <1>6 DEF TailLook, Settled, OnWire, StillToSend, serverVars
    <2> QED
      BY <2>1, <2>2, NoGapOpens
  <1>7. CASE TailSend
    <2>1. forwarded + 1 \in Seqs
      BY <1>7 DEF TailSend, TailInLog, TypeOK, Seqs
    <2>2. \A p : OnWire(p) => OnWire(p)'
      BY <1>7, <2>1, WireGrows DEF TailSend
    <2>3. \A q \in Seqs : Settled(q) => Settled(q)'
      BY <1>7, <2>2 DEF TailSend, Settled, StillToSend, serverVars
    <2>4. up /\ UNCHANGED <<log, since, stray>>
      BY <1>7 DEF TailSend, DownHoldsNothing
    <2> QED
      BY <2>3, <2>4, NoGapOpens
  <1>8. CASE ReplayLook
    <2>1. up /\ UNCHANGED <<log, since, stray>>
      BY <1>8, IdleTyped DEF ReplayLook, DownHoldsNothing
    <2>2. UNCHANGED <<recorded, refused, wire, emitting>>
      BY <1>8 DEF ReplayLook, serverVars
    <2>3. ASSUME NEW q \in Seqs, q >= replay.next PROVE StillToSend(q)'
      <3>1. q <= Len(log) /\ Len(log) \in Nat /\ replay.next \in Nat /\ q \in Nat
        BY DEF Seqs, TypeOK, Replaying
      <3>2. replay' = [replay EXCEPT !.phase = "sending", !.last = Len(log)]
        BY <1>8, <2>3, <3>1 DEF ReplayLook
      <3>3. replay' = [phase |-> "sending", next |-> replay.next, last |-> Len(log)]
        BY <3>2 DEF TypeOK, Replaying
      <3> QED
        BY <2>3, <3>1, <3>3 DEF StillToSend
    <2>4. \A q \in Seqs : Settled(q) => Settled(q)'
      BY <1>8, <2>2, <2>3 DEF ReplayLook, Settled, OnWire, StillToSend
    <2> QED
      BY <2>1, <2>4, NoGapOpens
  <1>9. CASE ReplaySend
    <2>1. replay.next \in Seqs /\ replay.next \in Nat /\ replay.last \in Nat
      BY <1>9 DEF ReplaySend, ReplayInLog, TypeOK, Replaying, Seqs
    <2>7. PICK sent \in Seqs : sent = replay.next /\ Send(sent)
      BY <1>9, <2>1 DEF ReplaySend
    <2>2. (\A p : OnWire(p) => OnWire(p)') /\ OnWire(sent)'
      BY <2>7, WireGrows
    <2>3. UNCHANGED <<log, since, stray, recorded, refused, emitting>>
      BY <1>9 DEF ReplaySend, serverVars
    <2>4. ASSUME NEW q \in Seqs, q \in replay.next .. replay.last, q # replay.next
          PROVE  StillToSend(q)'
      <3>1. replay' = [phase |-> "sending", next |-> replay.next + 1, last |-> replay.last]
        <4>1. replay.next # replay.last
          BY <2>1, <2>4 DEF Seqs
        <4> QED
          BY <1>9, <4>1 DEF ReplaySend, TypeOK, Replaying
      <3> QED
        BY <2>1, <2>4, <3>1 DEF StillToSend, Seqs
    <2>5. ASSUME NEW q \in Seqs, Settled(q) PROVE Settled(q)'
      BY <1>9, <2>2, <2>3, <2>4, <2>5, <2>7 DEF ReplaySend, Settled, StillToSend
    <2>6. up
      BY <1>9, IdleTyped DEF ReplaySend, DownHoldsNothing
    <2> QED
      BY <2>3, <2>5, <2>6, NoGapOpens
  <1>10. CASE Receive \/ ReceiveRefused
    <2>1. \A p : OnWire(p) => p = Head(wire) \/ OnWire(p)'
      BY <1>10, WireShrinks DEF Receive, ReceiveRefused
    <2>2. Head(wire) \in recorded' \/ Head(wire) \in refused'
      BY <1>10 DEF Receive, ReceiveRefused, RecordNew, RecordKnown
    <2>3. recorded \subseteq recorded' /\ refused \subseteq refused'
      BY <1>10 DEF Receive, ReceiveRefused, RecordNew, RecordKnown
    <2>4. UNCHANGED <<log, since, stray, emitting, replay>>
      BY <1>10 DEF Receive, ReceiveRefused, workerVars
    <2>5. \A q \in Seqs : Settled(q) => Settled(q)'
      BY <2>1, <2>2, <2>3, <2>4 DEF Settled, StillToSend
    <2>6. up
      BY <1>10 DEF Receive, ReceiveRefused, DownHoldsNothing
    <2> QED
      BY <2>4, <2>5, <2>6, NoGapOpens
  <1>11. ASSUME NEW s \in Sessions, NEW st \in Statuses, AnnounceStatus(s, st)
         PROVE  NothingFallsBetween'
    BY <1>11 DEF AnnounceStatus, NothingFallsBetween, Seqs, OnWire, StillToSend, workerVars
  <1>12. ASSUME NEW s \in Sessions, ForgetSession(s) PROVE NothingFallsBetween'
    BY <1>12 DEF ForgetSession, NothingFallsBetween, Seqs, OnWire, StillToSend, workerVars
  <1>13. CASE UNCHANGED vars
    BY <1>13 DEF vars, workerVars, serverVars, NothingFallsBetween, Seqs, OnWire, StillToSend
  <1> QED
    BY <1>1, <1>2, <1>3, <1>4, <1>5, <1>6, <1>7, <1>8, <1>9, <1>10, <1>11, <1>12, <1>13
       DEF Next, Worker, Server

\* While a connection lasts, every event after the point it resumed from that
\* the process serving it recorded has a row, is on the wire or is held by a
\* task that will send it - unless the database refused it.
THEOREM NoGapCorrect == Spec => []NothingFallsBetween
  <1>1. Init => IInv
    BY InitTyped DEF Init, IInv, CursorIsNewestRow, NothingFallsBetween
  <1>2. IInv /\ [Next]_vars => IInv'
    BY StepTyped, StepCursor, StepNoGap DEF IInv
  <1>3. IInv => NothingFallsBetween
    BY DEF IInv
  <1> QED
    BY <1>1, <1>2, <1>3, PTL DEF Spec

-----------------------------------------------------------------------------

\* An event that already has a row changes nothing when it arrives again.
THEOREM ReplayIsHarmless == Spec => ReplayChangesNothing
  <1> DEFINE Again == wire # <<>> /\ wire' = Tail(wire) /\ Head(wire) \in recorded
             Same  == UNCHANGED <<recorded, status, lastSeq>>
  <1>1. Typed /\ CursorIsNewestRow /\ [Next]_vars => (Again => Same)
    <2> SUFFICES ASSUME Typed, CursorIsNewestRow, [Next]_vars, Again PROVE Same
      OBVIOUS
    <2>1. wire \in Seq(Seqs) /\ Len(wire') = Len(wire) - 1 /\ Len(wire) \in Nat
      BY DEF Typed, TypeOK
    <2>2. wire' # wire
      <3>1. SUFFICES ASSUME wire' = wire PROVE FALSE
        OBVIOUS
      <3>2. Len(wire) = Len(wire) - 1
        BY <2>1, <3>1
      <3> QED
        BY <2>1, <3>2
    <2>3. CASE Receive
      <3>1. RecordKnown(Head(wire))
        BY <2>3 DEF Receive, RecordNew
      <3>2. Head(wire) \in Nat /\ lastSeq \in Nat /\ Head(wire) <= lastSeq
        BY DEF CursorIsNewestRow, Typed, TypeOK, Seqs
      <3> QED
        BY <3>1, <3>2 DEF RecordKnown, Larger
    <2>4. CASE Disconnect \/ ReceiveRefused
      BY <2>4 DEF Disconnect, ReceiveRefused, serverVars
    <2>5. CASE \/ \E t \in Tasks : EmitSend(t)
               \/ TailSend \/ ReplaySend
      BY <2>5 DEF EmitSend, TailSend, ReplaySend, serverVars
    <2> QED
      BY <2>2, <2>3, <2>4, <2>5 DEF Next, Worker, Server, vars, Connect, EmitAppend,
         StrayAppend, TailLook, ReplayLook, AnnounceStatus, ForgetSession
  <1>2. Typed /\ CursorIsNewestRow /\ [Next]_vars => [Again => Same]_vars
    BY <1>1
  <1>3. Init => Typed /\ CursorIsNewestRow
    BY InitTyped DEF Init, CursorIsNewestRow
  <1>4. Typed /\ CursorIsNewestRow /\ [Next]_vars => (Typed /\ CursorIsNewestRow)'
    BY StepTyped, StepCursor
  <1> QED
    BY <1>2, <1>3, <1>4, PTL DEF Spec, ReplayChangesNothing

\* Nothing escapes Ended, and nothing but its own removal moves a session of a
\* workspace that was removed while its host was away.
THEOREM RemovalHolds == Spec => RemovedStaysRemoved
  <1> DEFINE Stays(s) == (status[s] = "Ended" \/ WorkspaceOf[s] \in forgotten)
                         => \/ status'[s] = status[s]
                            \/ status'[s] = "Ended" /\ ~up
  <1>1. Typed /\ [Next]_vars => \A s \in Sessions : Stays(s)
    <2> SUFFICES ASSUME Typed, [Next]_vars, NEW s \in Sessions PROVE Stays(s)
      OBVIOUS
    <2>1. status \in [Sessions -> SessionStatus]
      BY DEF Typed, TypeOK
    <2>2. ASSUME NEW e \in Events, MoveSession(e) PROVE Stays(s)
      BY <2>1, <2>2 DEF MoveSession, Moves, MayMove, Events
    <2>3. CASE Receive
      <3>1. Head(wire) \in Seqs
        BY <2>3, WireShrinks DEF Receive, Typed
      <3>2. log[Head(wire)] \in Events
        BY <3>1 DEF Typed, TypeOK, Seqs
      <3> QED
        BY <2>2, <2>3, <3>2 DEF Receive, RecordNew, RecordKnown
    <2>4. ASSUME NEW r \in Sessions, NEW st \in Statuses, AnnounceStatus(r, st)
          PROVE  Stays(s)
      BY <2>2, <2>4 DEF AnnounceStatus, Events, Kinds
    <2>5. ASSUME NEW r \in Sessions, ForgetSession(r) PROVE Stays(s)
      BY <2>1, <2>5 DEF ForgetSession
    <2>6. CASE UNCHANGED status
      BY <2>6
    <2> QED
      BY <2>3, <2>4, <2>5, <2>6 DEF Next, Worker, Server, vars, workerVars, serverVars,
         Connect, Disconnect, EmitAppend, StrayAppend, EmitSend, TailLook, TailSend,
         ReplayLook, ReplaySend, ReceiveRefused
  <1>2. Typed /\ [Next]_vars => [\A s \in Sessions : Stays(s)]_vars
    BY <1>1
  <1> QED
    BY <1>2, InitTyped, StepTyped, PTL DEF Spec, RemovedStaysRemoved
=============================================================================
