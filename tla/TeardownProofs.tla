--------------------------- MODULE TeardownProofs ---------------------------
(***************************************************************************)
(* Proofs about Teardown: its type invariant, that a session that ended    *)
(* has no agent running, that no agent runs in a directory removed under   *)
(* it, and that the last one out has taken the directory.                  *)
(***************************************************************************)
EXTENDS Teardown, TLAPS

Start(s)   == [do |-> "start", who |-> s]
Destroy(s) == [do |-> "destroy", who |-> s]

\* A frame to start or to end the session is on its way.
Starts(s) == Contains(frames, Start(s))
Ends(s)   == Contains(frames, Destroy(s))

\* A session is known once it has a row, and is quiet once its start is over:
\* for good, as only a session without a row is started.
Quiet(s) ==
    /\ row[s] # "none" /\ request[s] \notin {"asked", "inserted"}
    /\ ~Starts(s) /\ starting[s] = "idle"

\* Somebody has set about ending the session, or it has ended.
AtItsEnd(s) ==
    \/ Ends(s)
    \/ request[s] = "forget"
    \/ s \in owed \union reported
    \/ ending[s] # "idle"
    \/ row[s] = "ended"

\* The worker has said that it ended.
Done(s) == s \in reported \/ row[s] \in {"ended", "gone"}

\* What the session's start has left behind by the time it gets to each point.
StartsInOrder ==
    \A s \in Sessions :
        /\ request[s] = "asked" => row[s] = "none"
        /\ starting[s] \in {"created", "placed", "launched"} => stored[s] # "none"
        /\ starting[s] = "placed" => s \in placed
        /\ row[s] = "gone" => ~place
        /\ row[s] = "none" => /\ request[s] \in {"none", "asked"}
                              /\ ~Starts(s) /\ starting[s] = "idle"
                              /\ stored[s] = "none" /\ ~agent[s]
                              /\ s \notin owed /\ s \notin reported

\* With none to start, none is started.
NobodyStarts ==
    setting.startable = {} => \A s \in Sessions :
        request[s] \notin {"asked", "inserted"} /\ ~Starts(s) /\ starting[s] = "idle"

\* The end of a session waits for its start, and comes in order.
EndsInOrder ==
    Calm => \A s \in Sessions :
        /\ AtItsEnd(s) => Quiet(s)
        /\ ending[s] # "idle" => ~agent[s]
        /\ ending[s] \in {"marked", "alone", "last"} => stored[s] # "live"

\* Until one is forgotten, a session that is said to have ended has no agent
\* and the one whose end was not yet said still stands between the directory
\* and the sweep.
WordIsTrue ==
    (Calm /\ ~forgotten) =>
        /\ \A s \in Sessions : Done(s) => ~agent[s]
        /\ \A s \in Sessions : (dir /\ Done(s)) => stored[s] = "ended"
        /\ dir => \E x \in placed : stored[x] # "ended" \/ (ending[x] # "last" /\ ~Done(x))
        /\ doomed \/ ~place => ~dir /\ \A s \in Sessions : ~agent[s]

\* With no agent started, whoever is alone is the only one not marked yet.
NobodyJoins ==
    setting.startable = {} =>
        /\ \A s \in Sessions : agent[s] => s \in placed /\ stored[s] # "ended" /\ dir
        /\ \A s \in Sessions : ending[s] \in {"marked", "alone", "last"} => stored[s] # "live"
        /\ \A s \in Sessions : ending[s] # "idle" => ~agent[s]
        /\ \A s \in Sessions : ending[s] = "alone" => \A x \in Sessions : ~agent[x]

\* While the directory is there, somebody has yet to find that it is the last.
SomebodyReclaims ==
    (Calm /\ crashes = 0 /\ dir) =>
        \E x \in placed : stored[x] # "ended" \/ ending[x] \in {"marked", "alone"}

IInv ==
    /\ TypeOK /\ setting \in Settings /\ {drops, crashes} \subseteq Nat
    /\ StartsInOrder /\ NobodyStarts /\ EndsInOrder
    /\ WordIsTrue /\ NobodyJoins /\ SomebodyReclaims

-----------------------------------------------------------------------------

LEMMA FrameNames ==
    ASSUME NEW s \in Sessions, NEW t \in Sessions
    PROVE  /\ Start(s) \in Frames /\ Destroy(s) \in Frames
           /\ Start(s) # Destroy(t)
           /\ Start(s) = Start(t) => s = t
           /\ Destroy(s) = Destroy(t) => s = t
  <1>1. Start(s) \in Frames /\ Destroy(s) \in Frames
    BY DEF Start, Destroy, Frames
  <1>2. Start(s).who = s /\ Start(t).who = t /\ Destroy(s).who = s /\ Destroy(t).who = t
    BY DEF Start, Destroy
  <1>3. Start(s).do = "start" /\ Destroy(t).do = "destroy"
    BY DEF Start, Destroy
  <1> QED
    BY <1>1, <1>2, <1>3

\* What is in a queue of frames when one joins it, leaves it, or all are lost.
LEMMA QueueFacts ==
    ASSUME NEW q \in Seq(Frames), NEW f \in Frames
    PROVE  /\ Append(q, f) \in Seq(Frames) /\ Len(Append(q, f)) = Len(q) + 1
           /\ \A e : Contains(Append(q, f), e) <=> (Contains(q, e) \/ e = f)
           /\ q # <<>> => /\ Tail(q) \in Seq(Frames) /\ Len(Tail(q)) = Len(q) - 1
                          /\ Contains(q, Head(q))
                          /\ \A e : Contains(Tail(q), e) => Contains(q, e)
           /\ <<>> \in Seq(Frames) /\ Len(<<>>) = 0 /\ \A e : ~Contains(<<>>, e)
  <1> DEFINE S == Frames
  <1>0. q \in Seq(S) /\ f \in S
    OBVIOUS
  <1> HIDE DEF S
  <1>1. Append(q, f) \in Seq(S) /\ Len(Append(q, f)) = Len(q) + 1
    BY <1>0
  <1>2. ASSUME NEW e
        PROVE  Contains(Append(q, f), e) <=> (Contains(q, e) \/ e = f)
    <2>1. /\ Len(q) \in Nat /\ Append(q, f)[Len(q) + 1] = f
          /\ \A i \in 1..Len(q) : Append(q, f)[i] = q[i]
      BY <1>0
    <2> QED
      BY <1>1, <2>1 DEF Contains
  <1>3. ASSUME q # <<>>
        PROVE  /\ Tail(q) \in Seq(S) /\ Len(Tail(q)) = Len(q) - 1
               /\ Contains(q, Head(q))
               /\ \A e : Contains(Tail(q), e) => Contains(q, e)
    <2>1. /\ Len(q) \in Nat /\ Len(q) >= 1 /\ Head(q) = q[1]
          /\ Tail(q) \in Seq(S) /\ Len(Tail(q)) = Len(q) - 1
          /\ \A i \in 1..Len(Tail(q)) : Tail(q)[i] = q[i + 1]
      BY <1>0, <1>3
    <2>2. Contains(q, Head(q))
      BY <2>1 DEF Contains
    <2>3. ASSUME NEW e, Contains(Tail(q), e)
          PROVE  Contains(q, e)
      <3>1. PICK i \in 1..Len(Tail(q)) : Tail(q)[i] = e
        BY <2>3 DEF Contains
      <3>2. i + 1 \in 1..Len(q) /\ q[i + 1] = e
        BY <2>1, <3>1
      <3> QED
        BY <3>2 DEF Contains
    <2> QED
      BY <2>1, <2>2, <2>3
  <1>4. <<>> \in Seq(S) /\ Len(<<>>) = 0 /\ \A e : ~Contains(<<>>, e)
    BY DEF Contains
  <1> QED
    BY <1>1, <1>2, <1>3, <1>4 DEF S

FramesOK == frames \in Seq(Frames) /\ Len(frames) <= MaxFrames

LEMMA StartTold ==
    ASSUME FramesOK, NEW s \in Sessions, Tell("start", s)
    PROVE  /\ FramesOK' /\ up
           /\ \A t \in Sessions : Starts(t)' <=> (Starts(t) \/ t = s)
           /\ \A t \in Sessions : Ends(t)' <=> Ends(t)
  <1>1. up /\ frames' = Append(frames, Start(s)) /\ Len(frames) < MaxFrames
    BY DEF Tell, Start
  <1>2. Start(s) \in Frames
    BY FrameNames
  <1>3. \A e : Contains(frames', e) <=> (Contains(frames, e) \/ e = Start(s))
    BY <1>1, <1>2, QueueFacts DEF FramesOK
  <1>4. FramesOK'
    BY <1>1, <1>2, QueueFacts, BoundAssumption DEF FramesOK
  <1> QED
    BY <1>1, <1>3, <1>4, FrameNames DEF Starts, Ends

LEMMA DestroyTold ==
    ASSUME FramesOK, NEW s \in Sessions, Tell("destroy", s)
    PROVE  /\ FramesOK' /\ up
           /\ \A t \in Sessions : Starts(t)' <=> Starts(t)
           /\ \A t \in Sessions : Ends(t)' <=> (Ends(t) \/ t = s)
  <1>1. up /\ frames' = Append(frames, Destroy(s)) /\ Len(frames) < MaxFrames
    BY DEF Tell, Destroy
  <1>2. Destroy(s) \in Frames
    BY FrameNames
  <1>3. \A e : Contains(frames', e) <=> (Contains(frames, e) \/ e = Destroy(s))
    BY <1>1, <1>2, QueueFacts DEF FramesOK
  <1>4. FramesOK'
    BY <1>1, <1>2, QueueFacts, BoundAssumption DEF FramesOK
  <1> QED
    BY <1>1, <1>3, <1>4, FrameNames DEF Starts, Ends

LEMMA FrameArrives ==
    ASSUME FramesOK, NEW do \in {"start", "destroy"}, NEW s \in Sessions, Arrives(do, s)
    PROVE  /\ FramesOK'
           /\ \A t \in Sessions : (Starts(t)' => Starts(t)) /\ (Ends(t)' => Ends(t))
           /\ do = "start" => Starts(s)
           /\ do = "destroy" => Ends(s)
  <1>1. frames # <<>> /\ Head(frames) = [do |-> do, who |-> s] /\ frames' = Tail(frames)
    BY DEF Arrives
  <1>2. Start(s) \in Frames
    BY FrameNames
  <1>3. /\ Tail(frames) \in Seq(Frames) /\ Len(Tail(frames)) = Len(frames) - 1
        /\ Contains(frames, Head(frames))
        /\ \A e : Contains(frames', e) => Contains(frames, e)
    BY <1>1, <1>2, QueueFacts DEF FramesOK
  <1>4. FramesOK'
    <2>1. Len(frames) \in Nat
      BY DEF FramesOK
    <2> QED
      BY <1>1, <1>3, <2>1, BoundAssumption DEF FramesOK
  <1>5. (do = "start" => Head(frames) = Start(s)) /\ (do = "destroy" => Head(frames) = Destroy(s))
    BY <1>1 DEF Start, Destroy
  <1> QED
    BY <1>3, <1>4, <1>5 DEF Starts, Ends

LEMMA FramesLost ==
    ASSUME frames' = <<>>
    PROVE  FramesOK' /\ \A s \in Sessions : ~Starts(s)' /\ ~Ends(s)'
  <1>1. <<>> \in Seq(Frames) /\ Len(<<>>) = 0 /\ \A e : ~Contains(<<>>, e)
    BY DEF Contains
  <1> QED
    BY <1>1, BoundAssumption DEF FramesOK, Starts, Ends

LEMMA StartAskKeeps ==
    ASSUME IInv, NEW s \in Sessions, StartAsk(s)
    PROVE  IInv'
  <1>1. TypeOK /\ FramesOK /\ setting \in Settings /\ {drops, crashes} \subseteq Nat
    BY DEF IInv, TypeOK, FramesOK
  <1>2. /\ FramesOK'
        /\ \A t \in Sessions : (Starts(t)' <=> Starts(t)) /\ (Ends(t)' <=> Ends(t))
    BY <1>1 DEF FramesOK, Starts, Ends, StartAsk, link
  <1>3. (TypeOK /\ setting \in Settings /\ {drops, crashes} \subseteq Nat)'
    BY <1>1, <1>2
    DEF IInv, TypeOK, StartsInOrder, FramesOK, StartAsk, link, store, host, tasks,
        counts
  <1>4. StartsInOrder'
    BY <1>1, <1>2
    DEF IInv, TypeOK, StartsInOrder, StartAsk, store, host, tasks
  <1>5. NobodyStarts'
    BY <1>1, <1>2, SettingsAssumption
    DEF IInv, NobodyStarts, StartAsk, tasks, counts
  <1>6. EndsInOrder'
    BY <1>1, <1>2
    DEF IInv, TypeOK, StartsInOrder, EndsInOrder, AtItsEnd, Quiet, Calm, StartAsk,
        store, host, tasks, counts
  <1>7. WordIsTrue'
    BY <1>1, <1>2
    DEF IInv, TypeOK, StartsInOrder, EndsInOrder, WordIsTrue, AtItsEnd, Quiet, Done,
        Calm, StartAsk, store, host, tasks, counts
  <1>8. NobodyJoins'
    BY <1>1
    DEF IInv, TypeOK, NobodyJoins, StartAsk, store, host, tasks, counts
  <1>9. SomebodyReclaims'
    BY <1>1
    DEF IInv, TypeOK, SomebodyReclaims, Calm, StartAsk, store, host, tasks, counts
  <1> QED
    BY <1>3, <1>4, <1>5, <1>6, <1>7, <1>8, <1>9 DEF IInv

LEMMA StartInsertKeeps ==
    ASSUME IInv, NEW s \in Sessions, StartInsert(s)
    PROVE  IInv'
  <1>1. TypeOK /\ FramesOK /\ setting \in Settings /\ {drops, crashes} \subseteq Nat
    BY DEF IInv, TypeOK, FramesOK
  <1>2. /\ FramesOK'
        /\ \A t \in Sessions : (Starts(t)' <=> Starts(t)) /\ (Ends(t)' <=> Ends(t))
    BY <1>1 DEF FramesOK, Starts, Ends, StartInsert, link
  <1>3. (TypeOK /\ setting \in Settings /\ {drops, crashes} \subseteq Nat)'
    <2>1. row' \in [Sessions -> {"none", "live", "ended", "gone"}]
          /\ request' \in [Sessions -> {"none", "asked", "inserted", "forget"}]
      BY DEF IInv, TypeOK, StartInsert
    <2>2. UNCHANGED <<place, forgotten, owed, doomed, link, store, host, tasks, reported, counts>>
      BY DEF StartInsert
    <2>3. (~place => \A t \in Sessions : row[t] \in {"none", "gone"})'
      BY <2>2 DEF IInv, TypeOK, StartInsert
    <2> QED
      BY <1>1, <1>2, <2>1, <2>2, <2>3
      DEF TypeOK, FramesOK, link, store, host, tasks, counts
  <1>4. StartsInOrder'
    BY <1>1, <1>2
    DEF IInv, TypeOK, StartsInOrder, StartInsert, store, host, tasks
  <1>5. NobodyStarts'
    BY <1>1, <1>2
    DEF IInv, NobodyStarts, StartInsert, tasks, counts
  <1>6. EndsInOrder'
    BY <1>1, <1>2
    DEF IInv, TypeOK, StartsInOrder, EndsInOrder, AtItsEnd, Quiet, Calm,
        StartInsert, store, host, tasks, counts
  <1>7. WordIsTrue'
    BY <1>1, <1>2
    DEF IInv, TypeOK, StartsInOrder, EndsInOrder, WordIsTrue, AtItsEnd, Quiet, Done,
        Calm, StartInsert, store, host, tasks, counts
  <1>8. NobodyJoins'
    BY <1>1
    DEF IInv, TypeOK, NobodyJoins, StartInsert, store, host, tasks, counts
  <1>9. SomebodyReclaims'
    BY <1>1
    DEF IInv, TypeOK, SomebodyReclaims, Calm, StartInsert, store, host, tasks,
        counts
  <1> QED
    BY <1>3, <1>4, <1>5, <1>6, <1>7, <1>8, <1>9 DEF IInv

LEMMA StartSendKeeps ==
    ASSUME IInv, NEW s \in Sessions, StartSend(s)
    PROVE  IInv'
  <1>1. TypeOK /\ FramesOK /\ setting \in Settings /\ {drops, crashes} \subseteq Nat
    BY DEF IInv, TypeOK, FramesOK
  <1>2. /\ FramesOK'
        /\ \A t \in Sessions : Starts(t)' => (Starts(t) \/ t = s)
        /\ \A t \in Sessions : Ends(t)' <=> Ends(t)
    <2>1. CASE Tell("start", s)
      BY <1>1, <2>1, StartTold
    <2>2. CASE UNCHANGED frames
      BY <1>1, <2>2 DEF FramesOK, Starts, Ends
    <2> QED
      BY <2>1, <2>2 DEF StartSend
  <1>3. (TypeOK /\ setting \in Settings /\ {drops, crashes} \subseteq Nat)'
    BY <1>1, <1>2
    DEF IInv, TypeOK, StartsInOrder, FramesOK, StartSend, store, host, tasks,
        counts, Tell
  <1>4. StartsInOrder'
    BY <1>1, <1>2
    DEF IInv, TypeOK, StartsInOrder, StartSend, store, host, tasks
  <1>5. NobodyStarts'
    BY <1>1, <1>2
    DEF IInv, NobodyStarts, StartSend, tasks, counts
  <1>6. EndsInOrder'
    BY <1>1, <1>2
    DEF IInv, TypeOK, StartsInOrder, EndsInOrder, AtItsEnd, Quiet, Calm, StartSend,
        store, host, tasks, counts
  <1>7. WordIsTrue'
    BY <1>1, <1>2
    DEF IInv, TypeOK, StartsInOrder, EndsInOrder, WordIsTrue, AtItsEnd, Quiet, Done,
        Calm, StartSend, store, host, tasks, counts
  <1>8. NobodyJoins'
    BY <1>1
    DEF IInv, TypeOK, NobodyJoins, StartSend, store, host, tasks, counts
  <1>9. SomebodyReclaims'
    BY <1>1
    DEF IInv, TypeOK, SomebodyReclaims, Calm, StartSend, store, host, tasks, counts
  <1> QED
    BY <1>3, <1>4, <1>5, <1>6, <1>7, <1>8, <1>9 DEF IInv

LEMMA EndKeeps ==
    ASSUME IInv, NEW s \in Sessions, End(s)
    PROVE  IInv'
  <1>1. TypeOK /\ FramesOK /\ setting \in Settings /\ {drops, crashes} \subseteq Nat
    BY DEF IInv, TypeOK, FramesOK
  <1>2. /\ FramesOK'
        /\ \A t \in Sessions : Starts(t)' <=> Starts(t)
        /\ \A t \in Sessions : Ends(t)' <=> (Ends(t) \/ t = s)
    BY <1>1, DestroyTold DEF End
  <1>3. Calm => Quiet(s)
    <2>1. BeingStarted(s) <=> \/ request[s] \in {"asked", "inserted"}
                              \/ Starts(s) \/ starting[s] # "idle"
      BY DEF BeingStarted, Starts, Start
    <2>2. row[s] = "live" /\ (setting.patient => ~BeingStarted(s))
      BY DEF End, MayEnd
    <2> QED
      BY <2>1, <2>2 DEF IInv, NobodyStarts, Calm, Quiet
  <1>4. (TypeOK /\ setting \in Settings /\ {drops, crashes} \subseteq Nat)'
    BY <1>1, <1>2
    DEF IInv, TypeOK, StartsInOrder, FramesOK, End, MayEnd, control, store, host,
        tasks, counts, Tell
  <1>5. StartsInOrder'
    BY <1>1, <1>2
    DEF IInv, TypeOK, StartsInOrder, End, MayEnd, control, store, host, tasks
  <1>6. NobodyStarts'
    BY <1>1, <1>2
    DEF IInv, NobodyStarts, End, control, tasks, counts
  <1>7. EndsInOrder'
    BY <1>1, <1>2, <1>3
    DEF IInv, TypeOK, StartsInOrder, EndsInOrder, AtItsEnd, Quiet, Calm, End,
        MayEnd, control, store, host, tasks, counts
  <1>8. WordIsTrue'
    BY <1>1, <1>2, <1>3
    DEF IInv, TypeOK, StartsInOrder, EndsInOrder, WordIsTrue, AtItsEnd, Quiet, Done,
        Calm, End, MayEnd, control, store, host, tasks, counts
  <1>9. NobodyJoins'
    BY <1>1
    DEF IInv, TypeOK, NobodyJoins, End, store, host, tasks, counts
  <1>10. SomebodyReclaims'
    BY <1>1
    DEF IInv, TypeOK, SomebodyReclaims, Calm, End, store, host, tasks, counts
  <1> QED
    BY <1>4, <1>5, <1>6, <1>7, <1>8, <1>9, <1>10 DEF IInv

LEMMA EndAwayKeeps ==
    ASSUME IInv, NEW s \in Sessions, EndAway(s)
    PROVE  IInv'
  <1>1. TypeOK /\ FramesOK /\ setting \in Settings /\ {drops, crashes} \subseteq Nat
    BY DEF IInv, TypeOK, FramesOK
  <1>2. /\ FramesOK'
        /\ \A t \in Sessions : (Starts(t)' <=> Starts(t)) /\ (Ends(t)' <=> Ends(t))
    BY <1>1 DEF FramesOK, Starts, Ends, EndAway, link
  <1>3. Calm => Quiet(s)
    <2>1. BeingStarted(s) <=> \/ request[s] \in {"asked", "inserted"}
                              \/ Starts(s) \/ starting[s] # "idle"
      BY DEF BeingStarted, Starts, Start
    <2>2. row[s] = "live" /\ (setting.patient => ~BeingStarted(s))
      BY DEF EndAway, MayEnd
    <2> QED
      BY <2>1, <2>2 DEF IInv, NobodyStarts, Calm, Quiet
  <1>4. (TypeOK /\ setting \in Settings /\ {drops, crashes} \subseteq Nat)'
    BY <1>1, <1>2
    DEF IInv, TypeOK, StartsInOrder, FramesOK, EndAway, MayEnd, link, store, host,
        tasks, counts
  <1>5. StartsInOrder'
    BY <1>1, <1>2
    DEF IInv, TypeOK, StartsInOrder, EndAway, MayEnd, store, host, tasks
  <1>6. NobodyStarts'
    BY <1>1, <1>2
    DEF IInv, NobodyStarts, EndAway, tasks, counts
  <1>7. EndsInOrder'
    BY <1>1, <1>2, <1>3
    DEF IInv, TypeOK, StartsInOrder, EndsInOrder, AtItsEnd, Quiet, Calm, EndAway,
        MayEnd, store, host, tasks, counts
  <1>8. WordIsTrue'
    BY <1>1, <1>2, <1>3
    DEF IInv, TypeOK, StartsInOrder, EndsInOrder, WordIsTrue, AtItsEnd, Quiet, Done,
        Calm, EndAway, MayEnd, store, host, tasks, counts
  <1>9. NobodyJoins'
    BY <1>1
    DEF IInv, TypeOK, NobodyJoins, EndAway, store, host, tasks, counts
  <1>10. SomebodyReclaims'
    BY <1>1
    DEF IInv, TypeOK, SomebodyReclaims, Calm, EndAway, store, host, tasks, counts
  <1> QED
    BY <1>4, <1>5, <1>6, <1>7, <1>8, <1>9, <1>10 DEF IInv

LEMMA ForgetKeeps ==
    ASSUME IInv, NEW s \in Sessions, Forget(s)
    PROVE  IInv'
  <1>1. TypeOK /\ FramesOK /\ setting \in Settings /\ {drops, crashes} \subseteq Nat
    BY DEF IInv, TypeOK, FramesOK
  <1>2. /\ FramesOK'
        /\ \A t \in Sessions : (Starts(t)' <=> Starts(t)) /\ (Ends(t)' <=> Ends(t))
    BY <1>1 DEF FramesOK, Starts, Ends, Forget, link
  <1>3. (TypeOK /\ setting \in Settings /\ {drops, crashes} \subseteq Nat)'
    <2>1. row' \in [Sessions -> {"none", "live", "ended", "gone"}]
          /\ request' \in [Sessions -> {"none", "asked", "inserted", "forget"}]
          /\ owed' \subseteq Sessions /\ owed \subseteq owed'
      BY DEF IInv, TypeOK, Forget
    <2>2. {place, forgotten, doomed, up, dir}' \subseteq BOOLEAN
      BY DEF IInv, TypeOK, Forget, link, host
    <2>3. (~place => \A t \in Sessions : row[t] \in {"none", "gone"})'
      BY DEF IInv, TypeOK, StartsInOrder, Forget
    <2> QED
      BY <1>1, <1>2, <2>1, <2>2, <2>3
      DEF TypeOK, FramesOK, Forget, link, store, host, tasks, counts
  <1>4. StartsInOrder'
    BY <1>1, <1>2
    DEF IInv, TypeOK, StartsInOrder, Forget, store, host, tasks
  <1>5. NobodyStarts'
    BY <1>1, <1>2
    DEF IInv, NobodyStarts, Forget, tasks, counts
  <1>6. EndsInOrder'
    BY <1>1, <1>2
    DEF IInv, TypeOK, StartsInOrder, EndsInOrder, AtItsEnd, Quiet, Calm, Forget,
        store, host, tasks, counts
  <1>7. WordIsTrue'
    BY <1>1, <1>2
    DEF IInv, TypeOK, StartsInOrder, EndsInOrder, WordIsTrue, AtItsEnd, Quiet, Done,
        Calm, Forget, store, host, tasks, counts
  <1>8. NobodyJoins'
    BY <1>1
    DEF IInv, TypeOK, NobodyJoins, Forget, store, host, tasks, counts
  <1>9. SomebodyReclaims'
    BY <1>1
    DEF IInv, TypeOK, SomebodyReclaims, Calm, Forget, store, host, tasks, counts
  <1> QED
    BY <1>3, <1>4, <1>5, <1>6, <1>7, <1>8, <1>9 DEF IInv

LEMMA ReadDebtsKeeps ==
    ASSUME IInv, ReadDebts
    PROVE  IInv'
  <1>1. TypeOK /\ FramesOK /\ setting \in Settings /\ {drops, crashes} \subseteq Nat
    BY DEF IInv, TypeOK, FramesOK
  <1>2. /\ FramesOK'
        /\ \A t \in Sessions : (Starts(t)' <=> Starts(t)) /\ (Ends(t)' <=> Ends(t))
    BY <1>1 DEF FramesOK, Starts, Ends, ReadDebts
  <1>3. (TypeOK /\ setting \in Settings /\ {drops, crashes} \subseteq Nat)'
    BY <1>1, <1>2
    DEF IInv, TypeOK, StartsInOrder, FramesOK, ReadDebts, control, store, host,
        tasks, counts
  <1>4. StartsInOrder'
    BY <1>1, <1>2
    DEF IInv, TypeOK, StartsInOrder, ReadDebts, control, store, host, tasks
  <1>5. NobodyStarts'
    BY <1>1, <1>2
    DEF IInv, NobodyStarts, ReadDebts, control, tasks, counts
  <1>6. EndsInOrder'
    BY <1>1, <1>2
    DEF IInv, TypeOK, StartsInOrder, EndsInOrder, AtItsEnd, Quiet, Calm, ReadDebts,
        control, store, host, tasks, counts
  <1>7. WordIsTrue'
    BY <1>1, <1>2
    DEF IInv, TypeOK, StartsInOrder, EndsInOrder, WordIsTrue, AtItsEnd, Quiet, Done,
        Calm, ReadDebts, control, store, host, tasks, counts
  <1>8. NobodyJoins'
    BY <1>1
    DEF IInv, TypeOK, NobodyJoins, ReadDebts, store, host, tasks, counts
  <1>9. SomebodyReclaims'
    BY <1>1
    DEF IInv, TypeOK, SomebodyReclaims, Calm, ReadDebts, store, host, tasks, counts
  <1> QED
    BY <1>3, <1>4, <1>5, <1>6, <1>7, <1>8, <1>9 DEF IInv

LEMMA PayDebtKeeps ==
    ASSUME IInv, NEW s \in Sessions, PayDebt(s)
    PROVE  IInv'
  <1>1. TypeOK /\ FramesOK /\ setting \in Settings /\ {drops, crashes} \subseteq Nat
    BY DEF IInv, TypeOK, FramesOK
  <1>2. /\ FramesOK'
        /\ \A t \in Sessions : Starts(t)' <=> Starts(t)
        /\ \A t \in Sessions : Ends(t)' <=> (Ends(t) \/ t = s)
    BY <1>1, DestroyTold DEF PayDebt
  <1>3. (TypeOK /\ setting \in Settings /\ {drops, crashes} \subseteq Nat)'
    BY <1>1, <1>2
    DEF IInv, TypeOK, StartsInOrder, FramesOK, PayDebt, store, host, tasks, counts,
        Tell
  <1>4. StartsInOrder'
    BY <1>1, <1>2
    DEF IInv, TypeOK, StartsInOrder, PayDebt, store, host, tasks
  <1>5. NobodyStarts'
    BY <1>1, <1>2
    DEF IInv, NobodyStarts, PayDebt, tasks, counts
  <1>6. EndsInOrder'
    BY <1>1, <1>2
    DEF IInv, TypeOK, StartsInOrder, EndsInOrder, AtItsEnd, Quiet, Calm, PayDebt,
        store, host, tasks, counts
  <1>7. WordIsTrue'
    BY <1>1, <1>2
    DEF IInv, TypeOK, StartsInOrder, EndsInOrder, WordIsTrue, AtItsEnd, Quiet, Done,
        Calm, PayDebt, store, host, tasks, counts
  <1>8. NobodyJoins'
    BY <1>1
    DEF IInv, TypeOK, NobodyJoins, PayDebt, store, host, tasks, counts
  <1>9. SomebodyReclaims'
    BY <1>1
    DEF IInv, TypeOK, SomebodyReclaims, Calm, PayDebt, store, host, tasks, counts
  <1> QED
    BY <1>3, <1>4, <1>5, <1>6, <1>7, <1>8, <1>9 DEF IInv

LEMMA SweepLookKeeps ==
    ASSUME IInv, SweepLook
    PROVE  IInv'
  <1>1. TypeOK /\ FramesOK /\ setting \in Settings /\ {drops, crashes} \subseteq Nat
    BY DEF IInv, TypeOK, FramesOK
  <1>2. /\ FramesOK'
        /\ \A t \in Sessions : (Starts(t)' <=> Starts(t)) /\ (Ends(t)' <=> Ends(t))
    BY <1>1 DEF FramesOK, Starts, Ends, SweepLook, link
  <1>3. (TypeOK /\ setting \in Settings /\ {drops, crashes} \subseteq Nat)'
    BY <1>1, <1>2
    DEF IInv, TypeOK, StartsInOrder, FramesOK, SweepLook, link, store, host, tasks,
        counts
  <1>4. StartsInOrder'
    BY <1>1, <1>2
    DEF IInv, TypeOK, StartsInOrder, SweepLook, store, host, tasks
  <1>5. NobodyStarts'
    BY <1>1, <1>2
    DEF IInv, NobodyStarts, SweepLook, tasks, counts
  <1>6. EndsInOrder'
    BY <1>1, <1>2
    DEF IInv, TypeOK, StartsInOrder, EndsInOrder, AtItsEnd, Quiet, Calm, SweepLook,
        store, host, tasks, counts
  <1>7. WordIsTrue'
    BY <1>1, <1>2
    DEF IInv, TypeOK, StartsInOrder, EndsInOrder, WordIsTrue, AtItsEnd, Quiet, Done,
        Calm, SweepLook, store, host, tasks, counts
  <1>8. NobodyJoins'
    BY <1>1
    DEF IInv, TypeOK, NobodyJoins, SweepLook, store, host, tasks, counts
  <1>9. SomebodyReclaims'
    BY <1>1
    DEF IInv, TypeOK, SomebodyReclaims, Calm, SweepLook, store, host, tasks, counts
  <1> QED
    BY <1>3, <1>4, <1>5, <1>6, <1>7, <1>8, <1>9 DEF IInv

LEMMA SweepPurgeKeeps ==
    ASSUME IInv, SweepPurge
    PROVE  IInv'
  <1>1. TypeOK /\ FramesOK /\ setting \in Settings /\ {drops, crashes} \subseteq Nat
    BY DEF IInv, TypeOK, FramesOK
  <1>2. /\ FramesOK'
        /\ \A t \in Sessions : (Starts(t)' <=> Starts(t)) /\ (Ends(t)' <=> Ends(t))
    BY <1>1 DEF FramesOK, Starts, Ends, SweepPurge, link
  <1>3. (TypeOK /\ setting \in Settings /\ {drops, crashes} \subseteq Nat)'
    BY <1>1, <1>2
    DEF IInv, TypeOK, StartsInOrder, FramesOK, SweepPurge, link, store, host, tasks,
        counts
  <1>4. StartsInOrder'
    BY <1>1, <1>2
    DEF IInv, TypeOK, StartsInOrder, SweepPurge, store, host, tasks
  <1>5. NobodyStarts'
    BY <1>1, <1>2
    DEF IInv, NobodyStarts, SweepPurge, tasks, counts
  <1>6. EndsInOrder'
    BY <1>1, <1>2
    DEF IInv, TypeOK, StartsInOrder, EndsInOrder, AtItsEnd, Quiet, Calm, SweepPurge,
        store, host, tasks, counts
  <1>7. WordIsTrue'
    BY <1>1, <1>2
    DEF IInv, TypeOK, StartsInOrder, EndsInOrder, WordIsTrue, AtItsEnd, Quiet, Done,
        Calm, SweepPurge, store, host, tasks, counts
  <1>8. NobodyJoins'
    BY <1>1
    DEF IInv, TypeOK, NobodyJoins, SweepPurge, store, host, tasks, counts
  <1>9. SomebodyReclaims'
    BY <1>1
    DEF IInv, TypeOK, SomebodyReclaims, Calm, SweepPurge, store, host, tasks, counts
  <1> QED
    BY <1>3, <1>4, <1>5, <1>6, <1>7, <1>8, <1>9 DEF IInv

LEMMA HearEndedKeeps ==
    ASSUME IInv, NEW s \in Sessions, HearEnded(s)
    PROVE  IInv'
  <1>1. TypeOK /\ FramesOK /\ setting \in Settings /\ {drops, crashes} \subseteq Nat
    BY DEF IInv, TypeOK, FramesOK
  <1>2. /\ FramesOK'
        /\ \A t \in Sessions : (Starts(t)' <=> Starts(t)) /\ (Ends(t)' <=> Ends(t))
    BY <1>1 DEF FramesOK, Starts, Ends, HearEnded, link
  <1>3. (TypeOK /\ setting \in Settings /\ {drops, crashes} \subseteq Nat)'
    BY <1>1, <1>2
    DEF IInv, TypeOK, StartsInOrder, FramesOK, HearEnded, link, store, host, tasks,
        counts
  <1>4. StartsInOrder'
    BY <1>1, <1>2
    DEF IInv, TypeOK, StartsInOrder, HearEnded, store, host, tasks
  <1>5. NobodyStarts'
    BY <1>1, <1>2
    DEF IInv, NobodyStarts, HearEnded, tasks, counts
  <1>6. EndsInOrder'
    BY <1>1, <1>2
    DEF IInv, TypeOK, StartsInOrder, EndsInOrder, AtItsEnd, Quiet, Calm, HearEnded,
        store, host, tasks, counts
  <1>7. WordIsTrue'
    BY <1>1, <1>2
    DEF IInv, TypeOK, StartsInOrder, EndsInOrder, WordIsTrue, AtItsEnd, Quiet, Done,
        Calm, HearEnded, store, host, tasks, counts
  <1>8. NobodyJoins'
    BY <1>1
    DEF IInv, TypeOK, NobodyJoins, HearEnded, store, host, tasks, counts
  <1>9. SomebodyReclaims'
    BY <1>1
    DEF IInv, TypeOK, SomebodyReclaims, Calm, HearEnded, store, host, tasks, counts
  <1> QED
    BY <1>3, <1>4, <1>5, <1>6, <1>7, <1>8, <1>9 DEF IInv

LEMMA StartFindKeeps ==
    ASSUME IInv, NEW s \in Sessions, StartFind(s)
    PROVE  IInv'
  <1>1. TypeOK /\ FramesOK /\ setting \in Settings /\ {drops, crashes} \subseteq Nat
    BY DEF IInv, TypeOK, FramesOK
  <1>2. /\ FramesOK'
        /\ \A t \in Sessions : (Starts(t)' => Starts(t)) /\ (Ends(t)' => Ends(t))
        /\ Starts(s)
    BY <1>1, FrameArrives DEF StartFind
  <1>3. (TypeOK /\ setting \in Settings /\ {drops, crashes} \subseteq Nat)'
    BY <1>1, <1>2
    DEF IInv, TypeOK, StartsInOrder, FramesOK, StartFind, control, store, host,
        counts, Arrives
  <1>4. StartsInOrder'
    BY <1>1, <1>2
    DEF IInv, TypeOK, StartsInOrder, StartFind, control, store, host
  <1>5. NobodyStarts'
    BY <1>1, <1>2
    DEF IInv, NobodyStarts, StartFind, control, counts
  <1>6. EndsInOrder'
    BY <1>1, <1>2
    DEF IInv, TypeOK, StartsInOrder, EndsInOrder, AtItsEnd, Quiet, Calm, StartFind,
        control, store, host, counts
  <1>7. WordIsTrue'
    BY <1>1, <1>2
    DEF IInv, TypeOK, StartsInOrder, EndsInOrder, WordIsTrue, AtItsEnd, Quiet, Done,
        Calm, StartFind, control, store, host, counts
  <1>8. NobodyJoins'
    BY <1>1
    DEF IInv, TypeOK, NobodyJoins, StartFind, store, host, counts
  <1>9. SomebodyReclaims'
    BY <1>1
    DEF IInv, TypeOK, SomebodyReclaims, Calm, StartFind, store, host, counts
  <1> QED
    BY <1>3, <1>4, <1>5, <1>6, <1>7, <1>8, <1>9 DEF IInv

LEMMA StartCreateKeeps ==
    ASSUME IInv, NEW s \in Sessions, StartCreate(s)
    PROVE  IInv'
  <1>1. TypeOK /\ FramesOK /\ setting \in Settings /\ {drops, crashes} \subseteq Nat
    BY DEF IInv, TypeOK, FramesOK
  <1>2. /\ FramesOK'
        /\ \A t \in Sessions : (Starts(t)' <=> Starts(t)) /\ (Ends(t)' <=> Ends(t))
    BY <1>1 DEF FramesOK, Starts, Ends, StartCreate, link
  <1>3. (TypeOK /\ setting \in Settings /\ {drops, crashes} \subseteq Nat)'
    BY <1>1, <1>2
    DEF IInv, TypeOK, StartsInOrder, FramesOK, StartCreate, control, link, host,
        counts
  <1>4. StartsInOrder'
    BY <1>1, <1>2
    DEF IInv, TypeOK, StartsInOrder, StartCreate, control, host
  <1>5. NobodyStarts'
    BY <1>1, <1>2
    DEF IInv, NobodyStarts, StartCreate, control, counts
  <1>6. EndsInOrder'
    BY <1>1, <1>2
    DEF IInv, TypeOK, StartsInOrder, EndsInOrder, AtItsEnd, Quiet, Calm,
        StartCreate, control, host, counts
  <1>7. WordIsTrue'
    BY <1>1, <1>2
    DEF IInv, TypeOK, StartsInOrder, EndsInOrder, WordIsTrue, AtItsEnd, Quiet, Done,
        Calm, StartCreate, control, host, counts
  <1>8. NobodyJoins'
    BY <1>1, <1>2
    DEF IInv, TypeOK, StartsInOrder, NobodyStarts, NobodyJoins, StartCreate, host,
        counts
  <1>9. SomebodyReclaims'
    BY <1>1
    DEF IInv, TypeOK, SomebodyReclaims, Calm, StartCreate, host, counts
  <1> QED
    BY <1>3, <1>4, <1>5, <1>6, <1>7, <1>8, <1>9 DEF IInv

LEMMA StartPlaceKeeps ==
    ASSUME IInv, NEW s \in Sessions, StartPlace(s)
    PROVE  IInv'
  <1>1. TypeOK /\ FramesOK /\ setting \in Settings /\ {drops, crashes} \subseteq Nat
    BY DEF IInv, TypeOK, FramesOK
  <1>2. /\ FramesOK'
        /\ \A t \in Sessions : (Starts(t)' <=> Starts(t)) /\ (Ends(t)' <=> Ends(t))
    BY <1>1 DEF FramesOK, Starts, Ends, StartPlace, link
  <1>3. (TypeOK /\ setting \in Settings /\ {drops, crashes} \subseteq Nat)'
    BY <1>1, <1>2
    DEF IInv, TypeOK, StartsInOrder, FramesOK, StartPlace, control, link, host,
        counts
  <1>4. StartsInOrder'
    BY <1>1, <1>2
    DEF IInv, TypeOK, StartsInOrder, StartPlace, control, host
  <1>5. NobodyStarts'
    BY <1>1, <1>2
    DEF IInv, NobodyStarts, StartPlace, control, counts
  <1>6. EndsInOrder'
    BY <1>1, <1>2
    DEF IInv, TypeOK, StartsInOrder, EndsInOrder, AtItsEnd, Quiet, Calm, StartPlace,
        control, host, counts
  <1>7. WordIsTrue'
    BY <1>1, <1>2
    DEF IInv, TypeOK, StartsInOrder, EndsInOrder, WordIsTrue, AtItsEnd, Quiet, Done,
        Calm, StartPlace, control, host, counts
  <1>8. NobodyJoins'
    BY <1>1
    DEF IInv, TypeOK, NobodyJoins, StartPlace, host, counts
  <1>9. SomebodyReclaims'
    BY <1>1
    DEF IInv, TypeOK, SomebodyReclaims, Calm, StartPlace, host, counts
  <1> QED
    BY <1>3, <1>4, <1>5, <1>6, <1>7, <1>8, <1>9 DEF IInv

LEMMA StartLaunchKeeps ==
    ASSUME IInv, NEW s \in Sessions, StartLaunch(s)
    PROVE  IInv'
  <1>1. TypeOK /\ FramesOK /\ setting \in Settings /\ {drops, crashes} \subseteq Nat
    BY DEF IInv, TypeOK, FramesOK
  <1>2. /\ FramesOK'
        /\ \A t \in Sessions : (Starts(t)' <=> Starts(t)) /\ (Ends(t)' <=> Ends(t))
    BY <1>1 DEF FramesOK, Starts, Ends, StartLaunch, link
  <1>3. (TypeOK /\ setting \in Settings /\ {drops, crashes} \subseteq Nat)'
    BY <1>1, <1>2
    DEF IInv, TypeOK, StartsInOrder, FramesOK, StartLaunch, control, link, store,
        counts
  <1>4. StartsInOrder'
    BY <1>1, <1>2
    DEF IInv, TypeOK, StartsInOrder, StartLaunch, control, store
  <1>5. NobodyStarts'
    BY <1>1, <1>2
    DEF IInv, NobodyStarts, StartLaunch, control, counts
  <1>6. EndsInOrder'
    BY <1>1, <1>2
    DEF IInv, TypeOK, StartsInOrder, EndsInOrder, AtItsEnd, Quiet, Calm,
        StartLaunch, control, store, counts
  <1>7. WordIsTrue'
    BY <1>1, <1>2
    DEF IInv, TypeOK, StartsInOrder, EndsInOrder, WordIsTrue, AtItsEnd, Quiet, Done,
        Calm, StartLaunch, control, store, counts
  <1>8. NobodyJoins'
    BY <1>1, <1>2
    DEF IInv, TypeOK, StartsInOrder, NobodyStarts, NobodyJoins, StartLaunch, store,
        counts
  <1>9. SomebodyReclaims'
    BY <1>1
    DEF IInv, TypeOK, SomebodyReclaims, Calm, StartLaunch, store, counts
  <1> QED
    BY <1>3, <1>4, <1>5, <1>6, <1>7, <1>8, <1>9 DEF IInv

LEMMA StartSettleKeeps ==
    ASSUME IInv, NEW s \in Sessions, StartSettle(s)
    PROVE  IInv'
  <1>1. TypeOK /\ FramesOK /\ setting \in Settings /\ {drops, crashes} \subseteq Nat
    BY DEF IInv, TypeOK, FramesOK
  <1>2. /\ FramesOK'
        /\ \A t \in Sessions : (Starts(t)' <=> Starts(t)) /\ (Ends(t)' <=> Ends(t))
    BY <1>1 DEF FramesOK, Starts, Ends, StartSettle, link
  <1>3. (TypeOK /\ setting \in Settings /\ {drops, crashes} \subseteq Nat)'
    BY <1>1, <1>2
    DEF IInv, TypeOK, StartsInOrder, FramesOK, StartSettle, control, link, host,
        counts
  <1>4. StartsInOrder'
    BY <1>1, <1>2
    DEF IInv, TypeOK, StartsInOrder, StartSettle, control, host
  <1>5. NobodyStarts'
    BY <1>1, <1>2
    DEF IInv, NobodyStarts, StartSettle, control, counts
  <1>6. EndsInOrder'
    BY <1>1, <1>2
    DEF IInv, TypeOK, StartsInOrder, EndsInOrder, AtItsEnd, Quiet, Calm,
        StartSettle, control, host, counts
  <1>7. WordIsTrue'
    BY <1>1, <1>2
    DEF IInv, TypeOK, StartsInOrder, EndsInOrder, WordIsTrue, AtItsEnd, Quiet, Done,
        Calm, StartSettle, control, host, counts
  <1>8. NobodyJoins'
    BY <1>1, <1>2
    DEF IInv, TypeOK, StartsInOrder, NobodyStarts, NobodyJoins, StartSettle, host,
        counts
  <1>9. SomebodyReclaims'
    BY <1>1
    DEF IInv, TypeOK, SomebodyReclaims, Calm, StartSettle, host, counts
  <1> QED
    BY <1>3, <1>4, <1>5, <1>6, <1>7, <1>8, <1>9 DEF IInv

LEMMA DestroyKillKeeps ==
    ASSUME IInv, NEW s \in Sessions, DestroyKill(s)
    PROVE  IInv'
  <1>1. TypeOK /\ FramesOK /\ setting \in Settings /\ {drops, crashes} \subseteq Nat
    BY DEF IInv, TypeOK, FramesOK
  <1>2. /\ FramesOK'
        /\ \A t \in Sessions : (Starts(t)' => Starts(t)) /\ (Ends(t)' => Ends(t))
        /\ Ends(s)
    BY <1>1, FrameArrives DEF DestroyKill
  <1>3. (TypeOK /\ setting \in Settings /\ {drops, crashes} \subseteq Nat)'
    BY <1>1, <1>2
    DEF IInv, TypeOK, StartsInOrder, FramesOK, DestroyKill, control, store, counts,
        Arrives
  <1>4. StartsInOrder'
    BY <1>1, <1>2
    DEF IInv, TypeOK, StartsInOrder, DestroyKill, control, store
  <1>5. NobodyStarts'
    BY <1>1, <1>2
    DEF IInv, NobodyStarts, DestroyKill, control, counts
  <1>6. EndsInOrder'
    BY <1>1, <1>2
    DEF IInv, TypeOK, StartsInOrder, EndsInOrder, AtItsEnd, Quiet, Calm,
        DestroyKill, control, store, counts
  <1>7. WordIsTrue'
    BY <1>1, <1>2
    DEF IInv, TypeOK, StartsInOrder, EndsInOrder, WordIsTrue, AtItsEnd, Quiet, Done,
        Calm, DestroyKill, control, store, counts
  <1>8. NobodyJoins'
    BY <1>1
    DEF IInv, TypeOK, NobodyJoins, DestroyKill, store, counts
  <1>9. SomebodyReclaims'
    BY <1>1
    DEF IInv, TypeOK, SomebodyReclaims, Calm, DestroyKill, store, counts
  <1> QED
    BY <1>3, <1>4, <1>5, <1>6, <1>7, <1>8, <1>9 DEF IInv

LEMMA DestroyMarkKeeps ==
    ASSUME IInv, NEW s \in Sessions, DestroyMark(s)
    PROVE  IInv'
  <1>1. TypeOK /\ FramesOK /\ setting \in Settings /\ {drops, crashes} \subseteq Nat
    BY DEF IInv, TypeOK, FramesOK
  <1>2. /\ FramesOK'
        /\ \A t \in Sessions : (Starts(t)' <=> Starts(t)) /\ (Ends(t)' <=> Ends(t))
    BY <1>1 DEF FramesOK, Starts, Ends, DestroyMark, link
  <1>3. (TypeOK /\ setting \in Settings /\ {drops, crashes} \subseteq Nat)'
    BY <1>1, <1>2
    DEF IInv, TypeOK, StartsInOrder, FramesOK, DestroyMark, Ended, control, link,
        host, counts
  <1>4. StartsInOrder'
    BY <1>1, <1>2
    DEF IInv, TypeOK, StartsInOrder, DestroyMark, Ended, control, host
  <1>5. NobodyStarts'
    BY <1>1, <1>2
    DEF IInv, NobodyStarts, DestroyMark, Ended, control, counts
  <1>6. EndsInOrder'
    BY <1>1, <1>2
    DEF IInv, TypeOK, StartsInOrder, EndsInOrder, AtItsEnd, Quiet, Calm,
        DestroyMark, Ended, control, host, counts
  <1>7. WordIsTrue'
    BY <1>1, <1>2
    DEF IInv, TypeOK, StartsInOrder, EndsInOrder, WordIsTrue, AtItsEnd, Quiet, Done,
        Calm, DestroyMark, Ended, control, host, counts
  <1>8. NobodyJoins'
    BY <1>1
    DEF IInv, TypeOK, NobodyJoins, DestroyMark, Ended, host, counts
  <1>9. SomebodyReclaims'
    BY <1>1
    DEF IInv, TypeOK, SomebodyReclaims, Calm, DestroyMark, Ended, host, counts
  <1> QED
    BY <1>3, <1>4, <1>5, <1>6, <1>7, <1>8, <1>9 DEF IInv

LEMMA DestroyCountKeeps ==
    ASSUME IInv, NEW s \in Sessions, DestroyCount(s)
    PROVE  IInv'
  <1>1. TypeOK /\ FramesOK /\ setting \in Settings /\ {drops, crashes} \subseteq Nat
    BY DEF IInv, TypeOK, FramesOK
  <1>2. /\ FramesOK'
        /\ \A t \in Sessions : (Starts(t)' <=> Starts(t)) /\ (Ends(t)' <=> Ends(t))
    BY <1>1 DEF FramesOK, Starts, Ends, DestroyCount, link
  <1>3. (TypeOK /\ setting \in Settings /\ {drops, crashes} \subseteq Nat)'
    BY <1>1, <1>2
    DEF IInv, TypeOK, StartsInOrder, FramesOK, DestroyCount, Others, control, link,
        store, host, counts
  <1>4. StartsInOrder'
    BY <1>1, <1>2
    DEF IInv, TypeOK, StartsInOrder, DestroyCount, Others, control, store, host
  <1>5. NobodyStarts'
    BY <1>1, <1>2
    DEF IInv, NobodyStarts, DestroyCount, Others, control, counts
  <1>6. EndsInOrder'
    BY <1>1, <1>2
    DEF IInv, TypeOK, StartsInOrder, EndsInOrder, AtItsEnd, Quiet, Calm,
        DestroyCount, Others, control, store, host, counts
  <1>7. WordIsTrue'
    BY <1>1, <1>2
    DEF IInv, TypeOK, StartsInOrder, EndsInOrder, WordIsTrue, AtItsEnd, Quiet, Done,
        Calm, DestroyCount, Others, control, store, host, counts
  <1>8. NobodyJoins'
    BY <1>1
    DEF IInv, TypeOK, NobodyJoins, DestroyCount, Others, store, host, counts
  <1>9. SomebodyReclaims'
    BY <1>1
    DEF IInv, TypeOK, SomebodyReclaims, Calm, DestroyCount, Others, store, host,
        counts
  <1> QED
    BY <1>3, <1>4, <1>5, <1>6, <1>7, <1>8, <1>9 DEF IInv

LEMMA DestroyReclaimKeeps ==
    ASSUME IInv, NEW s \in Sessions, DestroyReclaim(s)
    PROVE  IInv'
  <1>1. TypeOK /\ FramesOK /\ setting \in Settings /\ {drops, crashes} \subseteq Nat
    BY DEF IInv, TypeOK, FramesOK
  <1>2. /\ FramesOK'
        /\ \A t \in Sessions : (Starts(t)' <=> Starts(t)) /\ (Ends(t)' <=> Ends(t))
    BY <1>1 DEF FramesOK, Starts, Ends, DestroyReclaim, link
  <1>3. (TypeOK /\ setting \in Settings /\ {drops, crashes} \subseteq Nat)'
    BY <1>1, <1>2
    DEF IInv, TypeOK, StartsInOrder, FramesOK, DestroyReclaim, control, link, store,
        counts
  <1>4. StartsInOrder'
    BY <1>1, <1>2
    DEF IInv, TypeOK, StartsInOrder, DestroyReclaim, control, store
  <1>5. NobodyStarts'
    BY <1>1, <1>2
    DEF IInv, NobodyStarts, DestroyReclaim, control, counts
  <1>6. EndsInOrder'
    BY <1>1, <1>2
    DEF IInv, TypeOK, StartsInOrder, EndsInOrder, AtItsEnd, Quiet, Calm,
        DestroyReclaim, control, store, counts
  <1>7. WordIsTrue'
    BY <1>1, <1>2
    DEF IInv, TypeOK, StartsInOrder, EndsInOrder, WordIsTrue, AtItsEnd, Quiet, Done,
        Calm, DestroyReclaim, control, store, counts
  <1>8. NobodyJoins'
    BY <1>1
    DEF IInv, TypeOK, NobodyJoins, DestroyReclaim, store, counts
  <1>9. SomebodyReclaims'
    BY <1>1
    DEF IInv, TypeOK, SomebodyReclaims, Calm, DestroyReclaim, store, counts
  <1> QED
    BY <1>3, <1>4, <1>5, <1>6, <1>7, <1>8, <1>9 DEF IInv

LEMMA DestroyReportKeeps ==
    ASSUME IInv, NEW s \in Sessions, DestroyReport(s)
    PROVE  IInv'
  <1>1. TypeOK /\ FramesOK /\ setting \in Settings /\ {drops, crashes} \subseteq Nat
    BY DEF IInv, TypeOK, FramesOK
  <1>2. /\ FramesOK'
        /\ \A t \in Sessions : (Starts(t)' <=> Starts(t)) /\ (Ends(t)' <=> Ends(t))
    BY <1>1 DEF FramesOK, Starts, Ends, DestroyReport, link
  <1>3. (TypeOK /\ setting \in Settings /\ {drops, crashes} \subseteq Nat)'
    BY <1>1, <1>2
    DEF IInv, TypeOK, StartsInOrder, FramesOK, DestroyReport, Ended, control, link,
        host, counts
  <1>4. StartsInOrder'
    BY <1>1, <1>2
    DEF IInv, TypeOK, StartsInOrder, DestroyReport, Ended, control, host
  <1>5. NobodyStarts'
    BY <1>1, <1>2
    DEF IInv, NobodyStarts, DestroyReport, Ended, control, counts
  <1>6. EndsInOrder'
    BY <1>1, <1>2
    DEF IInv, TypeOK, StartsInOrder, EndsInOrder, AtItsEnd, Quiet, Calm,
        DestroyReport, Ended, control, host, counts
  <1>7. WordIsTrue'
    BY <1>1, <1>2
    DEF IInv, TypeOK, StartsInOrder, EndsInOrder, WordIsTrue, AtItsEnd, Quiet, Done,
        Calm, DestroyReport, Ended, control, host, counts
  <1>8. NobodyJoins'
    BY <1>1
    DEF IInv, TypeOK, NobodyJoins, DestroyReport, Ended, host, counts
  <1>9. SomebodyReclaims'
    BY <1>1, <1>2
    DEF IInv, TypeOK, EndsInOrder, SomebodyReclaims, Calm, AtItsEnd, Quiet,
        DestroyReport, Ended, host, counts
  <1> QED
    BY <1>3, <1>4, <1>5, <1>6, <1>7, <1>8, <1>9 DEF IInv

LEMMA DropKeeps ==
    ASSUME IInv, Drop
    PROVE  IInv'
  <1>1. TypeOK /\ FramesOK /\ setting \in Settings /\ {drops, crashes} \subseteq Nat
    BY DEF IInv, TypeOK, FramesOK
  <1>2. /\ FramesOK'
        /\ \A t \in Sessions : ~Starts(t)' /\ ~Ends(t)'
    BY FramesLost DEF Drop, Severed
  <1>3. (TypeOK /\ setting \in Settings /\ {drops, crashes} \subseteq Nat)'
    <2>1. /\ drops + 1 \in Nat /\ crashes + 1 \in Nat
          /\ {drops, crashes}' \subseteq {drops, drops + 1, crashes, crashes + 1}
      BY <1>1 DEF Drop, counts
    <2>2. up' = FALSE /\ paying' = {} /\ setting' = setting
      BY DEF Drop, Severed, counts
    <2>3. starting' \in [Sessions -> {"idle", "found", "created", "placed", "launched"}]
          /\ ending' \in [Sessions -> {"idle", "killed", "marked", "alone", "last"}]
      BY DEF IInv, TypeOK, Drop, tasks
    <2>4. UNCHANGED <<control, store, host, reported>>
      BY DEF Drop
    <2>5. TypeOK'
      BY <1>1, <1>2, <2>2, <2>3, <2>4 DEF TypeOK, FramesOK, control, store, host
    <2> QED
      BY <1>1, <2>1, <2>2, <2>5
  <1>4. StartsInOrder'
    BY <1>1, <1>2
    DEF IInv, TypeOK, StartsInOrder, Drop, Severed, control, store, host, tasks
  <1>5. NobodyStarts'
    BY <1>1, <1>2
    DEF IInv, NobodyStarts, Drop, Severed, control, tasks
  <1>6. EndsInOrder'
    BY <1>1, <1>2
    DEF IInv, TypeOK, StartsInOrder, EndsInOrder, AtItsEnd, Quiet, Calm, Drop,
        Severed, control, store, host, tasks
  <1>7. WordIsTrue'
    BY <1>1, <1>2
    DEF IInv, TypeOK, StartsInOrder, EndsInOrder, WordIsTrue, AtItsEnd, Quiet, Done,
        Calm, Drop, Severed, control, store, host, tasks
  <1>8. NobodyJoins'
    BY <1>1
    DEF IInv, TypeOK, NobodyJoins, Drop, Severed, store, host, tasks
  <1>9. SomebodyReclaims'
    BY <1>1
    DEF IInv, TypeOK, SomebodyReclaims, Calm, Drop, Severed, store, host, tasks
  <1> QED
    BY <1>3, <1>4, <1>5, <1>6, <1>7, <1>8, <1>9 DEF IInv

LEMMA ConnectKeeps ==
    ASSUME IInv, Connect
    PROVE  IInv'
  <1>1. TypeOK /\ FramesOK /\ setting \in Settings /\ {drops, crashes} \subseteq Nat
    BY DEF IInv, TypeOK, FramesOK
  <1>2. /\ FramesOK'
        /\ \A t \in Sessions : (Starts(t)' <=> Starts(t)) /\ (Ends(t)' <=> Ends(t))
    BY <1>1 DEF FramesOK, Starts, Ends, Connect
  <1>3. (TypeOK /\ setting \in Settings /\ {drops, crashes} \subseteq Nat)'
    BY <1>1, <1>2
    DEF IInv, TypeOK, StartsInOrder, FramesOK, Connect, control, store, host, tasks,
        counts
  <1>4. StartsInOrder'
    BY <1>1, <1>2
    DEF IInv, TypeOK, StartsInOrder, Connect, control, store, host, tasks
  <1>5. NobodyStarts'
    BY <1>1, <1>2
    DEF IInv, NobodyStarts, Connect, control, tasks, counts
  <1>6. EndsInOrder'
    BY <1>1, <1>2
    DEF IInv, TypeOK, StartsInOrder, EndsInOrder, AtItsEnd, Quiet, Calm, Connect,
        control, store, host, tasks, counts
  <1>7. WordIsTrue'
    BY <1>1, <1>2
    DEF IInv, TypeOK, StartsInOrder, EndsInOrder, WordIsTrue, AtItsEnd, Quiet, Done,
        Calm, Connect, control, store, host, tasks, counts
  <1>8. NobodyJoins'
    BY <1>1
    DEF IInv, TypeOK, NobodyJoins, Connect, store, host, tasks, counts
  <1>9. SomebodyReclaims'
    BY <1>1
    DEF IInv, TypeOK, SomebodyReclaims, Calm, Connect, store, host, tasks, counts
  <1> QED
    BY <1>3, <1>4, <1>5, <1>6, <1>7, <1>8, <1>9 DEF IInv

LEMMA WorkerCrashesKeeps ==
    ASSUME IInv, WorkerCrashes
    PROVE  IInv'
  <1>1. TypeOK /\ FramesOK /\ setting \in Settings /\ {drops, crashes} \subseteq Nat
    BY DEF IInv, TypeOK, FramesOK
  <1>2. /\ FramesOK'
        /\ \A t \in Sessions : ~Starts(t)' /\ ~Ends(t)'
    BY FramesLost DEF WorkerCrashes, Severed
  <1>3. (TypeOK /\ setting \in Settings /\ {drops, crashes} \subseteq Nat)'
    <2>1. /\ drops + 1 \in Nat /\ crashes + 1 \in Nat
          /\ {drops, crashes}' \subseteq {drops, drops + 1, crashes, crashes + 1}
      BY <1>1 DEF WorkerCrashes, counts
    <2>2. up' = FALSE /\ paying' = {} /\ setting' = setting
      BY DEF WorkerCrashes, Severed, counts
    <2>3. starting' \in [Sessions -> {"idle", "found", "created", "placed", "launched"}]
          /\ ending' \in [Sessions -> {"idle", "killed", "marked", "alone", "last"}]
      BY DEF IInv, TypeOK, WorkerCrashes, tasks
    <2>4. UNCHANGED <<control, store, host, reported>>
      BY DEF WorkerCrashes
    <2>5. TypeOK'
      BY <1>1, <1>2, <2>2, <2>3, <2>4 DEF TypeOK, FramesOK, control, store, host
    <2> QED
      BY <1>1, <2>1, <2>2, <2>5
  <1>4. StartsInOrder'
    BY <1>1, <1>2
    DEF IInv, TypeOK, StartsInOrder, WorkerCrashes, Severed, control, store, host
  <1>5. NobodyStarts'
    BY <1>1, <1>2
    DEF IInv, NobodyStarts, WorkerCrashes, Severed, control
  <1>6. EndsInOrder'
    BY <1>1, <1>2
    DEF IInv, TypeOK, StartsInOrder, EndsInOrder, AtItsEnd, Quiet, Calm,
        WorkerCrashes, Severed, control, store, host
  <1>7. WordIsTrue'
    BY <1>1, <1>2
    DEF IInv, TypeOK, StartsInOrder, EndsInOrder, WordIsTrue, AtItsEnd, Quiet, Done,
        Calm, WorkerCrashes, Severed, control, store, host
  <1>8. NobodyJoins'
    BY <1>1
    DEF IInv, TypeOK, NobodyJoins, WorkerCrashes, Severed, store, host
  <1>9. SomebodyReclaims'
    BY <1>1
    DEF IInv, TypeOK, SomebodyReclaims, Calm, WorkerCrashes, Severed, store, host
  <1> QED
    BY <1>3, <1>4, <1>5, <1>6, <1>7, <1>8, <1>9 DEF IInv

LEMMA InitInv == Init => IInv
  <1> SUFFICES ASSUME Init
               PROVE  IInv
    OBVIOUS
  <1> USE DEF Init
  <1>1. /\ setting.running \in (SUBSET Sessions) \ {{}}
        /\ setting.drops \in Nat /\ setting.crashes \in Nat
    BY SettingsAssumption
  <1>2. FramesOK /\ \A s \in Sessions : ~Starts(s) /\ ~Ends(s)
    <2>1. <<>> \in Seq(Frames) /\ Len(<<>>) = 0 /\ \A e : ~Contains(<<>>, e)
      BY DEF Contains
    <2> QED
      BY <2>1, BoundAssumption DEF FramesOK, Starts, Ends
  <1>3. TypeOK
    <2>1. /\ row \in [Sessions -> {"none", "live", "ended", "gone"}]
          /\ stored \in [Sessions -> {"none", "live", "ended"}]
          /\ placed \subseteq {s \in Sessions : stored[s] # "none"}
      BY <1>1
    <2>2. /\ owed \subseteq Sessions /\ reported \subseteq Sessions /\ paying \subseteq owed
          /\ request \in [Sessions -> {"none", "asked", "inserted", "forget"}]
          /\ starting \in [Sessions -> {"idle", "found", "created", "placed", "launched"}]
          /\ ending \in [Sessions -> {"idle", "killed", "marked", "alone", "last"}]
      OBVIOUS
    <2>4. agent \in [Sessions -> BOOLEAN]
      OBVIOUS
    <2>5. {place, forgotten, doomed, up, dir} \subseteq BOOLEAN
      OBVIOUS
    <2>3. place
      OBVIOUS
    <2> HIDE DEF Init
    <2> QED
      BY <1>2, <2>1, <2>2, <2>3, <2>4, <2>5 DEF TypeOK, FramesOK
  <1>4. StartsInOrder /\ NobodyStarts
    BY <1>2 DEF StartsInOrder, NobodyStarts
  <1>5. EndsInOrder
    BY <1>2 DEF EndsInOrder, AtItsEnd
  <1>6. PICK x \in setting.running : stored[x] # "ended" /\ row[x] = "live" /\ x \in placed
    BY <1>1
  <1>7. WordIsTrue
    BY <1>1, <1>6 DEF WordIsTrue, Done
  <1>8. NobodyJoins /\ SomebodyReclaims
    BY <1>1, <1>6 DEF NobodyJoins, SomebodyReclaims
  <1> QED
    BY <1>3, <1>4, <1>5, <1>7, <1>8 DEF IInv

LEMMA StutterKeeps ==
    ASSUME IInv, UNCHANGED vars
    PROVE  IInv'
  <1>1. \A t \in Sessions : (Starts(t)' <=> Starts(t)) /\ (Ends(t)' <=> Ends(t))
    BY DEF Starts, Ends, vars, link
  <1>2. TypeOK' /\ StartsInOrder' /\ NobodyStarts'
    BY <1>1 DEF IInv, TypeOK, StartsInOrder, NobodyStarts,
                vars, control, link, store, host, tasks, counts
  <1>3. EndsInOrder' /\ WordIsTrue'
    BY <1>1 DEF IInv, EndsInOrder, WordIsTrue, AtItsEnd, Quiet, Done, Calm,
                vars, control, link, store, host, tasks, counts
  <1>4. NobodyJoins' /\ SomebodyReclaims'
    BY DEF IInv, NobodyJoins, SomebodyReclaims, Calm, vars, store, host, tasks, counts
  <1>5. (setting \in Settings /\ {drops, crashes} \subseteq Nat)'
    BY DEF IInv, vars, counts
  <1> QED
    BY <1>2, <1>3, <1>4, <1>5 DEF IInv

LEMMA StepKeeps == IInv /\ [Next]_vars => IInv'
  <1> SUFFICES ASSUME IInv, [Next]_vars
               PROVE  IInv'
    OBVIOUS
  <1>1. ASSUME NEW s \in Sessions, StartAsk(s) \/ End(s) \/ EndAway(s)
        PROVE  IInv'
    BY <1>1, StartAskKeeps, EndKeeps, EndAwayKeeps
  <1>2. ASSUME NEW s \in Sessions, Serving(s)
        PROVE  IInv'
    BY <1>2, StartInsertKeeps, StartSendKeeps, ForgetKeeps, PayDebtKeeps, HearEndedKeeps DEF Serving
  <1>3. ASSUME NEW s \in Sessions, Starting(s)
        PROVE  IInv'
    BY <1>3, StartFindKeeps, StartCreateKeeps, StartPlaceKeeps, StartLaunchKeeps,
       StartSettleKeeps DEF Starting
  <1>4. ASSUME NEW s \in Sessions, Destroying(s)
        PROVE  IInv'
    BY <1>4, DestroyKillKeeps, DestroyMarkKeeps, DestroyCountKeeps, DestroyReclaimKeeps,
       DestroyReportKeeps DEF Destroying
  <1>5. CASE ReadDebts \/ SweepLook \/ SweepPurge
    BY <1>5, ReadDebtsKeeps, SweepLookKeeps, SweepPurgeKeeps
  <1>6. CASE Drop \/ Connect \/ WorkerCrashes
    BY <1>6, DropKeeps, ConnectKeeps, WorkerCrashesKeeps
  <1>7. CASE UNCHANGED vars
    BY <1>7, StutterKeeps
  <1> QED
    BY <1>1, <1>2, <1>3, <1>4, <1>5, <1>6, <1>7 DEF Next

-----------------------------------------------------------------------------

\* The models' values stay in their types: a row, a stored session and a task
\* are only ever at the points the code takes them through.
THEOREM TypeCorrect == Spec => []TypeOK
  <1>1. IInv => TypeOK
    BY DEF IInv
  <1> QED
    BY InitInv, StepKeeps, <1>1, PTL DEF Spec

\* A session that ended, and was not forgotten, has no agent left running,
\* whatever is dropped and whenever the worker dies, if a user who starts agents
\* is patient.
THEOREM WordHolds == Spec => []EndedMeansGone
  <1>1. IInv => EndedMeansGone
    BY DEF IInv, WordIsTrue, Done, EndedMeansGone
  <1> QED
    BY InitInv, StepKeeps, <1>1, PTL DEF Spec

\* Of any number of teardowns at once, none removes the directory under an
\* agent another has not ended, whatever dies in between.
THEOREM NoneIsEvicted == Spec => []DirectoryUnderAgents
  <1>1. IInv => DirectoryUnderAgents
    BY DEF IInv, NobodyJoins, DirectoryUnderAgents
  <1> QED
    BY InitInv, StepKeeps, <1>1, PTL DEF Spec

\* Of any number of agents started and ended in any order, the last one out
\* has taken the directory.
THEOREM LastOutTakesIt == Spec => []LastOutReclaims
  <1>1. IInv => LastOutReclaims
    BY DEF IInv, TypeOK, SomebodyReclaims, LastOutReclaims
  <1> QED
    BY InitInv, StepKeeps, <1>1, PTL DEF Spec

\* The sweep may delete a session that has just been asked for; what it never
\* deletes, until a session is forgotten, is a workspace with an agent in it or
\* a directory an agent could yet be started in.
THEOREM SweepTakesNoAgent ==
    Spec => [][(place /\ ~place' /\ Calm /\ ~forgotten) =>
                   (~dir /\ \A s \in Sessions : ~agent[s])]_vars
  <1> DEFINE Kind == (place /\ ~place' /\ Calm /\ ~forgotten) =>
                         (~dir /\ \A s \in Sessions : ~agent[s])
  <1>1. ASSUME IInv, [Next]_vars
        PROVE  Kind \/ UNCHANGED vars
    <2>1. CASE SweepPurge
      BY <1>1, <2>1 DEF SweepPurge, IInv, WordIsTrue
    <2>2. CASE ~SweepPurge /\ Next
      <3>1. place' = place
        BY <2>2 DEF Next, Serving, Starting, Destroying, control,
           StartAsk, End, EndAway, StartInsert, StartSend, Forget, PayDebt, HearEnded,
           StartFind, StartCreate, StartPlace, StartLaunch, StartSettle,
           DestroyKill, DestroyMark, DestroyCount, DestroyReclaim, DestroyReport,
           ReadDebts, SweepLook, Drop, Connect, WorkerCrashes
      <3> QED
        BY <3>1
    <2> QED
      BY <1>1, <2>1, <2>2
  <1>2. IInv /\ [Next]_vars => [Kind]_vars
    BY <1>1
  <1> QED
    BY InitInv, StepKeeps, <1>2, PTL DEF Spec
=============================================================================
