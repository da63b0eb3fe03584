--------------------------- MODULE DeliveriesProofs ---------------------------
(***************************************************************************)
(* Proofs about Deliveries: its type invariant, that nothing but a line of *)
(* the lead or a restart drops a report, and that without a restart no     *)
(* stop is missed.                                                         *)
(***************************************************************************)
EXTENDS Deliveries, QueueProofs

\* Whoever has a body has it from the children that handed it back.
BodiesHanded ==
    /\ \A t \in Tasks : task[t].body \subseteq handed
    /\ \A body \in restoring : body \subseteq handed
    /\ delivering \subseteq handed
    /\ outbox \in Seq(SUBSET handed)
    /\ inbox \in Seq([body : SUBSET handed, conn : Nat])

\* A drain has a body from the moment it claims one until it lets it go.
Carried ==
    \A t \in Tasks :
        /\ task[t].at \in {"idle", "held", "turn", "take"} => task[t].body = {}
        /\ task[t].at \in {"send", "hold"} => task[t].body # {}

\* Until a restart, a session whose reader is not inside a turn is stopped.
ReaderFollows ==
    /\ line # NoLine => (logOpen <=> line = "speaks")
    /\ restarts = 0 => /\ reader # "open" => status = "stopped"
                       /\ StopIsNoticed

NothingLost == restarts = 0 => OnlyALineRetires

IInv ==
    /\ TypeOK /\ restarts \in Nat
    /\ BodiesHanded /\ Carried /\ ReaderFollows /\ NothingLost

-----------------------------------------------------------------------------

LEMMA InitInv == Init => IInv
  <1> SUFFICES ASSUME Init
               PROVE  IInv
    OBVIOUS
  <1> USE DEF Init
  <1>1. TypeOK /\ restarts \in Nat
    <2>1. <<>> \in Seq(Bodies) /\ <<>> \in Seq([body : Bodies, conn : Nat])
          /\ <<>> \in Seq(Lines \union Errors \union {"closed"})
      OBVIOUS
    <2>2. task \in [Tasks -> [at : {"idle", "held", "turn", "take", "send", "hold"}, body : Bodies]]
      BY DEF Idle, Bodies
    <2> QED
      BY <2>1, <2>2 DEF TypeOK, Nothing, NoLine, Bodies
  <1>2. BodiesHanded /\ Carried
    BY DEF BodiesHanded, Carried, Idle, Nothing
  <1>3. ReaderFollows /\ NothingLost
    BY DEF ReaderFollows, StopIsNoticed, NothingLost, OnlyALineRetires, NoLine
  <1> QED
    BY <1>1, <1>2, <1>3 DEF IInv

LEMMA HandBackKeeps ==
    ASSUME IInv, NEW r \in Reports, NEW t \in Tasks, HandBack(r, t)
    PROVE  IInv'
  <1> USE DEF HandBack, Idle, Looking, db, memory, link, worker, agent, history, counts
  <1>1. (TypeOK /\ restarts \in Nat)'
    BY DEF IInv, TypeOK, BodiesHanded, Carried, Bodies, Lines, Errors, NoLine
  <1>2. (BodiesHanded /\ Carried)'
    <2>1. outbox' \in Seq(SUBSET handed') /\ inbox' \in Seq([body : SUBSET handed', conn : Nat])
      <3>1. SUBSET handed \subseteq SUBSET handed'
        OBVIOUS
      <3>2. [body : SUBSET handed, conn : Nat] \subseteq [body : SUBSET handed', conn : Nat]
        BY <3>1
      <3>3. outbox' = outbox /\ inbox' = inbox
        OBVIOUS
      <3>4. outbox \in Seq(SUBSET handed) /\ inbox \in Seq([body : SUBSET handed, conn : Nat])
        BY DEF IInv, BodiesHanded
      <3>5. outbox \in Seq(SUBSET handed')
        BY <3>1, <3>4, Wider
      <3>6. inbox \in Seq([body : SUBSET handed', conn : Nat])
        <4> DEFINE S == [body : SUBSET handed, conn : Nat]
                   T == [body : SUBSET handed', conn : Nat]
        <4>1. S \subseteq T /\ inbox \in Seq(S)
          BY <3>2, <3>4
        <4> HIDE DEF S, T
        <4>2. inbox \in Seq(T)
          BY <4>1, Wider
        <4> QED
          BY <4>2 DEF T
      <3> QED
        BY <3>3, <3>5, <3>6
    <2> QED
      BY <2>1 DEF IInv, TypeOK, BodiesHanded, Carried
  <1>3. ReaderFollows'
    BY DEF IInv, TypeOK, ReaderFollows, StopIsNoticed, Lines, NoLine
  <1>4. NothingLost'
    BY DEF IInv, TypeOK, Carried, NothingLost, OnlyALineRetires, Kept
  <1> QED
    BY <1>1, <1>2, <1>3, <1>4 DEF IInv

LEMMA DrainHeldKeeps ==
    ASSUME IInv, NEW t \in Tasks, DrainHeld(t)
    PROVE  IInv'
  <1> USE DEF DrainHeld, Idle, db, memory, link, worker, agent, history, counts
  <1>1. (TypeOK /\ restarts \in Nat)'
    BY DEF IInv, TypeOK, BodiesHanded, Carried, Bodies, Lines, Errors, NoLine
  <1>2. (BodiesHanded /\ Carried)'
    BY DEF IInv, TypeOK, BodiesHanded, Carried
  <1>3. ReaderFollows'
    BY DEF IInv, TypeOK, ReaderFollows, StopIsNoticed, Lines, NoLine
  <1>4. NothingLost'
    BY DEF IInv, TypeOK, Carried, NothingLost, OnlyALineRetires, Kept
  <1> QED
    BY <1>1, <1>2, <1>3, <1>4 DEF IInv

LEMMA DrainTurnKeeps ==
    ASSUME IInv, NEW t \in Tasks, DrainTurn(t)
    PROVE  IInv'
  <1> USE DEF DrainTurn, Idle, db, memory, link, worker, agent, history, counts
  <1>1. (TypeOK /\ restarts \in Nat)'
    BY SMTT(20) DEF IInv, TypeOK, BodiesHanded, Carried, Bodies, Lines, Errors, NoLine
  <1>2. (BodiesHanded /\ Carried)'
    BY DEF IInv, TypeOK, BodiesHanded, Carried
  <1>3. ReaderFollows'
    BY DEF IInv, TypeOK, ReaderFollows, StopIsNoticed, Lines, NoLine
  <1>4. NothingLost'
    BY DEF IInv, TypeOK, Carried, NothingLost, OnlyALineRetires, Kept
  <1> QED
    BY <1>1, <1>2, <1>3, <1>4 DEF IInv

LEMMA DrainTakeKeeps ==
    ASSUME IInv, NEW t \in Tasks, DrainTake(t)
    PROVE  IInv'
  <1> USE DEF DrainTake, Idle, db, memory, link, worker, agent, history, counts
  <1>1. (TypeOK /\ restarts \in Nat)'
    BY DEF IInv, TypeOK, BodiesHanded, Carried, Bodies, Lines, Errors, NoLine
  <1>2. (BodiesHanded /\ Carried)'
    BY DEF IInv, TypeOK, BodiesHanded, Carried
  <1>3. ReaderFollows'
    BY DEF IInv, TypeOK, ReaderFollows, StopIsNoticed, Lines, NoLine
  <1>4. NothingLost'
    BY DEF IInv, TypeOK, Carried, NothingLost, OnlyALineRetires, Kept
  <1> QED
    BY <1>1, <1>2, <1>3, <1>4 DEF IInv

LEMMA DrainSendKeeps ==
    ASSUME IInv, NEW t \in Tasks, DrainSend(t)
    PROVE  IInv'
  <1> USE DEF DrainSend, EnsureReader, db, memory, link, worker, agent, history, counts
  <1> DEFINE b == task[t].body
  <1>1. b \in Bodies /\ b # {} /\ b \subseteq handed
    BY DEF IInv, TypeOK, BodiesHanded, Carried
  <1>2. CASE up
    <2>1. task' = [task EXCEPT ![t].at = "hold"] /\ outbox' = Append(outbox, b) /\ restoring' = restoring
      BY <1>2
    <2>2. /\ outbox' \in Seq(Bodies) /\ outbox' \in Seq(SUBSET handed)
          /\ task' \in [Tasks -> [at : {"idle", "held", "turn", "take", "send", "hold"}, body : Bodies]]
      <3>1. outbox \in Seq(Bodies) /\ outbox \in Seq(SUBSET handed)
        BY DEF IInv, TypeOK, BodiesHanded
      <3>2. outbox' \in Seq(Bodies)
        BY <1>1, <2>1, <3>1
      <3>3. outbox' \in Seq(SUBSET handed)
        BY <1>1, <2>1, <3>1
      <3>4. task' \in [Tasks -> [at : {"idle", "held", "turn", "take", "send", "hold"}, body : Bodies]]
        BY <2>1 DEF IInv, TypeOK
      <3> QED
        BY <3>2, <3>3, <3>4
    <2>3. \A u \in Tasks : task'[u].body = task[u].body /\ (u # t => task'[u].at = task[u].at)
      BY <2>1 DEF IInv, TypeOK
    <2>4. (TypeOK /\ restarts \in Nat)'
      BY <2>1, <2>2 DEF IInv, TypeOK
    <2>5. (BodiesHanded /\ Carried)'
      <3>1. task'[t].at = "hold"
        BY <2>1 DEF IInv, TypeOK
      <3> QED
        BY <1>1, <2>1, <2>2, <2>3, <3>1 DEF IInv, BodiesHanded, Carried
    <2>6. ReaderFollows'
      BY DEF IInv, TypeOK, ReaderFollows, StopIsNoticed, Lines, NoLine
    <2>7. NothingLost'
      BY <2>1, <2>3 DEF IInv, NothingLost, OnlyALineRetires, Kept
    <2> QED
      BY <2>4, <2>5, <2>6, <2>7 DEF IInv
  <1>3. CASE ~up
    <2>1. task' = [task EXCEPT ![t] = Idle] /\ restoring' = restoring \union {b} /\ outbox' = outbox
      BY <1>3
    <2>2. task' \in [Tasks -> [at : {"idle", "held", "turn", "take", "send", "hold"}, body : Bodies]]
      BY <2>1 DEF IInv, TypeOK, Idle, Bodies
    <2>3. /\ \A u \in Tasks \ {t} : task'[u] = task[u]
          /\ task'[t].at = "idle" /\ task'[t].body = {}
      BY <2>1 DEF IInv, TypeOK, Idle
    <2>4. (TypeOK /\ restarts \in Nat)'
      BY <1>1, <2>1, <2>2 DEF IInv, TypeOK
    <2>5. (BodiesHanded /\ Carried)'
      BY <1>1, <2>1, <2>3 DEF IInv, BodiesHanded, Carried
    <2>6. ReaderFollows'
      BY DEF IInv, TypeOK, ReaderFollows, StopIsNoticed, Lines, NoLine
    <2>7. NothingLost'
      BY <2>1, <2>3 DEF IInv, NothingLost, OnlyALineRetires, Kept
    <2> QED
      BY <2>4, <2>5, <2>6, <2>7 DEF IInv
  <1> QED
    BY <1>2, <1>3


LEMMA DrainHoldKeeps ==
    ASSUME IInv, NEW t \in Tasks, DrainHold(t)
    PROVE  IInv'
  <1> USE DEF DrainHold, Idle, Nothing, db, memory, link, worker, agent, history, counts
  <1>1. (TypeOK /\ restarts \in Nat)'
    BY DEF IInv, TypeOK, BodiesHanded, Carried, Bodies, Lines, Errors, NoLine
  <1>2. (BodiesHanded /\ Carried)'
    BY DEF IInv, TypeOK, BodiesHanded, Carried
  <1>3. ReaderFollows'
    BY DEF IInv, TypeOK, ReaderFollows, StopIsNoticed, Lines, NoLine
  <1>4. NothingLost'
    BY DEF IInv, TypeOK, Carried, NothingLost, OnlyALineRetires, Kept
  <1> QED
    BY <1>1, <1>2, <1>3, <1>4 DEF IInv

LEMMA PutBackKeeps ==
    ASSUME IInv, PutBack
    PROVE  IInv'
  <1> USE DEF PutBack, Requeue, db, memory, link, worker, agent, history, counts
  <1>1. (TypeOK /\ restarts \in Nat)'
    BY DEF IInv, TypeOK, BodiesHanded, Carried, Bodies, Lines, Errors, NoLine
  <1>2. (BodiesHanded /\ Carried)'
    BY DEF IInv, TypeOK, BodiesHanded, Carried
  <1>3. ReaderFollows'
    BY DEF IInv, TypeOK, ReaderFollows, StopIsNoticed, Lines, NoLine
  <1>4. NothingLost'
    BY DEF IInv, TypeOK, Carried, NothingLost, OnlyALineRetires, Kept
  <1> QED
    BY <1>1, <1>2, <1>3, <1>4 DEF IInv

LEMMA PromptKeeps ==
    ASSUME IInv, Prompt
    PROVE  IInv'
  <1> USE DEF Prompt, EnsureReader, db, memory, link, worker, agent, history, counts
  <1>1. (TypeOK /\ restarts \in Nat)'
    BY DEF IInv, TypeOK, BodiesHanded, Carried, Bodies, Lines, Errors, NoLine
  <1>2. (BodiesHanded /\ Carried)'
    BY DEF IInv, TypeOK, BodiesHanded, Carried
  <1>3. ReaderFollows'
    BY DEF IInv, TypeOK, ReaderFollows, StopIsNoticed, Lines, NoLine
  <1>4. NothingLost'
    BY DEF IInv, TypeOK, Carried, NothingLost, OnlyALineRetires, Kept
  <1> QED
    BY <1>1, <1>2, <1>3, <1>4 DEF IInv

LEMMA CarryKeeps ==
    ASSUME IInv, Carry
    PROVE  IInv'
  <1> USE DEF Carry, db, memory, link, worker, agent, history, counts
  <1>1. (TypeOK /\ restarts \in Nat)'
    BY DEF IInv, TypeOK, BodiesHanded, Carried, Bodies, Lines, Errors, NoLine
  <1>2. (BodiesHanded /\ Carried)'
    BY DEF IInv, TypeOK, BodiesHanded, Carried
  <1>3. ReaderFollows'
    BY DEF IInv, TypeOK, ReaderFollows, StopIsNoticed, Lines, NoLine
  <1>4. NothingLost'
    BY DEF IInv, TypeOK, Carried, NothingLost, OnlyALineRetires, Kept
  <1> QED
    BY <1>1, <1>2, <1>3, <1>4 DEF IInv

LEMMA AgentReadsKeeps ==
    ASSUME IInv, AgentReads
    PROVE  IInv'
  <1> USE DEF AgentReads, Answerable, db, memory, link, worker, agent, history, counts
  <1>1. /\ Head(inbox).body \subseteq handed
        /\ inbox' \in Seq([body : Bodies, conn : Nat])
        /\ inbox' \in Seq([body : SUBSET handed, conn : Nat])
        /\ said' \in Seq(Lines \union Errors \union {"closed"})
    <2>1. inbox # <<>> /\ inbox' = Tail(inbox) /\ said' = Append(said, "speaks")
      OBVIOUS
    <2>2. inbox \in Seq([body : SUBSET handed, conn : Nat])
      BY DEF IInv, BodiesHanded
    <2>3. inbox \in Seq([body : Bodies, conn : Nat])
      BY DEF IInv, TypeOK
    <2>4. said \in Seq(Lines \union Errors \union {"closed"})
      BY DEF IInv, TypeOK
    <2> HIDE DEF AgentReads, Answerable, db, memory, link, worker, agent, history, counts
    <2>5. Head(inbox).body \subseteq handed
      <3>1. Head(inbox) \in [body : SUBSET handed, conn : Nat]
        <4> DEFINE S == [body : SUBSET handed, conn : Nat]
        <4>1. inbox \in Seq(S)
          BY <2>2
        <4> HIDE DEF S
        <4>2. Head(inbox) \in S
          BY <2>1, <4>1
        <4> QED
          BY <4>2 DEF S
      <3> QED
        BY <3>1
    <2>6. inbox' \in Seq([body : Bodies, conn : Nat])
      BY <2>1, <2>3
    <2>7. inbox' \in Seq([body : SUBSET handed, conn : Nat])
      BY <2>1, <2>2
    <2>8. said' \in Seq(Lines \union Errors \union {"closed"})
      BY <2>1, <2>4 DEF Lines
    <2> QED
      BY <2>5, <2>6, <2>7, <2>8
  <1>2. (TypeOK /\ restarts \in Nat)'
    BY <1>1 DEF IInv, TypeOK
  <1>3. (BodiesHanded /\ Carried)'
    BY <1>1 DEF IInv, BodiesHanded, Carried
  <1>4. ReaderFollows'
    BY DEF IInv, ReaderFollows, StopIsNoticed
  <1>5. NothingLost'
    BY DEF IInv, NothingLost, OnlyALineRetires, Kept
  <1> QED
    BY <1>2, <1>3, <1>4, <1>5 DEF IInv


LEMMA UndeliverableKeeps ==
    ASSUME IInv, Undeliverable
    PROVE  IInv'
  <1> USE DEF Undeliverable, Answerable, db, memory, link, worker, agent, history, counts
  <1>1. (TypeOK /\ restarts \in Nat)'
    BY DEF IInv, TypeOK, BodiesHanded, Carried, Bodies, Lines, Errors, NoLine
  <1>2. (BodiesHanded /\ Carried)'
    BY DEF IInv, TypeOK, BodiesHanded, Carried
  <1>3. ReaderFollows'
    BY DEF IInv, TypeOK, ReaderFollows, StopIsNoticed, Lines, NoLine
  <1>4. NothingLost'
    BY DEF IInv, TypeOK, Carried, NothingLost, OnlyALineRetires, Kept
  <1> QED
    BY <1>1, <1>2, <1>3, <1>4 DEF IInv

LEMMA AgentEndsTurnKeeps ==
    ASSUME IInv, AgentEndsTurn
    PROVE  IInv'
  <1> USE DEF AgentEndsTurn, db, memory, link, worker, agent, history, counts
  <1>0. said' \in Seq(Lines \union Errors \union {"closed"})
    BY DEF IInv, TypeOK, Lines
  <1>1. (TypeOK /\ restarts \in Nat)'
    BY <1>0 DEF IInv, TypeOK
  <1>2. (BodiesHanded /\ Carried)'
    BY DEF IInv, TypeOK, BodiesHanded, Carried
  <1>3. ReaderFollows'
    BY DEF IInv, TypeOK, ReaderFollows, StopIsNoticed, Lines, NoLine
  <1>4. NothingLost'
    BY DEF IInv, TypeOK, Carried, NothingLost, OnlyALineRetires, Kept
  <1> QED
    BY <1>1, <1>2, <1>3, <1>4 DEF IInv

LEMMA AgentExitsKeeps ==
    ASSUME IInv, AgentExits
    PROVE  IInv'
  <1> USE DEF AgentExits, db, memory, link, worker, agent, history, counts
  <1>0. said' \in Seq(Lines \union Errors \union {"closed"})
    BY DEF IInv, TypeOK, Lines
  <1>1. (TypeOK /\ restarts \in Nat)'
    BY <1>0 DEF IInv, TypeOK
  <1>2. (BodiesHanded /\ Carried)'
    BY DEF IInv, TypeOK, BodiesHanded, Carried
  <1>3. ReaderFollows'
    BY DEF IInv, TypeOK, ReaderFollows, StopIsNoticed, Lines, NoLine
  <1>4. NothingLost'
    BY DEF IInv, TypeOK, Carried, NothingLost, OnlyALineRetires, Kept
  <1> QED
    BY <1>1, <1>2, <1>3, <1>4 DEF IInv

LEMMA RelaunchKeeps ==
    ASSUME IInv, Relaunch
    PROVE  IInv'
  <1> USE DEF Relaunch, db, memory, link, worker, agent, history, counts
  <1>1. (TypeOK /\ restarts \in Nat)'
    BY DEF IInv, TypeOK, BodiesHanded, Carried, Bodies, Lines, Errors, NoLine
  <1>2. (BodiesHanded /\ Carried)'
    BY DEF IInv, TypeOK, BodiesHanded, Carried
  <1>3. ReaderFollows'
    BY DEF IInv, TypeOK, ReaderFollows, StopIsNoticed, Lines, NoLine
  <1>4. NothingLost'
    BY DEF IInv, TypeOK, Carried, NothingLost, OnlyALineRetires, Kept
  <1> QED
    BY <1>1, <1>2, <1>3, <1>4 DEF IInv

LEMMA RecordLineKeeps ==
    ASSUME IInv, NEW l \in Lines, RecordLine(l)
    PROVE  IInv'
  <1> USE DEF RecordLine, Heard, Nothing, db, memory, link, worker, agent, history, counts
  <1>1. (TypeOK /\ restarts \in Nat)'
    BY DEF IInv, TypeOK, BodiesHanded, Carried, Bodies, Lines, Errors, NoLine
  <1>2. (BodiesHanded /\ Carried)'
    BY DEF IInv, TypeOK, BodiesHanded, Carried
  <1>3. ReaderFollows'
    BY DEF IInv, TypeOK, ReaderFollows, StopIsNoticed, Lines, NoLine
  <1>4. NothingLost'
    BY DEF IInv, TypeOK, Carried, NothingLost, OnlyALineRetires, Kept
  <1> QED
    BY <1>1, <1>2, <1>3, <1>4 DEF IInv

LEMMA ReadLineKeeps ==
    ASSUME IInv, NEW t \in Tasks, ReadLine(t)
    PROVE  IInv'
  <1> USE DEF ReadLine, Moves, EnsureReader, db, memory, link, worker, agent, history, counts
  <1>1. /\ task' \in [Tasks -> [at : {"idle", "held", "turn", "take", "send", "hold"}, body : Bodies]]
        /\ \A u \in Tasks : task'[u].body = task[u].body
        /\ \A u \in Tasks : task'[u] = task[u] \/ (task'[u].at = "held" /\ task'[u].body = {})
    <2>1. task' = task \/ task' = [task EXCEPT ![t] = Looking]
      OBVIOUS
    <2>2. task[t] = Idle
      OBVIOUS
    <2>3. task \in [Tasks -> [at : {"idle", "held", "turn", "take", "send", "hold"}, body : Bodies]]
      BY DEF IInv, TypeOK
    <2> HIDE DEF ReadLine, Moves, EnsureReader, db, memory, link, worker, agent, history, counts
    <2>4. task' \in [Tasks -> [at : {"idle", "held", "turn", "take", "send", "hold"}, body : Bodies]]
      BY <2>3, <2>1 DEF Looking, Bodies
    <2>5. task[t].body = {} /\ Looking.body = {} /\ Looking.at = "held"
      BY <2>2 DEF Idle, Looking
    <2>6. \A u \in Tasks : task'[u] = task[u] \/ (u = t /\ task'[u] = Looking)
      BY <2>3, <2>1
    <2> QED
      BY <2>4, <2>5, <2>6
  <1>2. (TypeOK /\ restarts \in Nat)'
    BY <1>1 DEF IInv, TypeOK, Lines, NoLine
  <1>3. (BodiesHanded /\ Carried)'
    <2> HIDE DEF ReadLine, Moves, EnsureReader
    <2>1. UNCHANGED <<waiting, delivering, restoring, handed, outbox, inbox>>
      BY DEF ReadLine
    <2> QED
      BY <1>1, <2>1 DEF IInv, BodiesHanded, Carried
  <1>4. ReaderFollows'
    BY DEF IInv, TypeOK, ReaderFollows, StopIsNoticed, Lines, NoLine
  <1>5. NothingLost'
    BY <1>1 DEF IInv, NothingLost, OnlyALineRetires, Kept
  <1> QED
    BY <1>2, <1>3, <1>4, <1>5 DEF IInv


LEMMA DeliveryFailedKeeps ==
    ASSUME IInv, NEW e \in Errors, DeliveryFailed(e)
    PROVE  IInv'
  <1> USE DEF DeliveryFailed, Heard, LetGo, Nothing, db, memory, link, worker, agent, history, counts
  <1>1. (TypeOK /\ restarts \in Nat)'
    BY DEF IInv, TypeOK, BodiesHanded, Carried, Bodies, Lines, Errors, NoLine
  <1>2. (BodiesHanded /\ Carried)'
    BY DEF IInv, TypeOK, BodiesHanded, Carried
  <1>3. ReaderFollows'
    BY DEF IInv, TypeOK, ReaderFollows, StopIsNoticed, Lines, NoLine
  <1>4. NothingLost'
    BY DEF IInv, TypeOK, Carried, NothingLost, OnlyALineRetires, Kept
  <1> QED
    BY <1>1, <1>2, <1>3, <1>4 DEF IInv

LEMMA AgentClosedKeeps ==
    ASSUME IInv, AgentClosed
    PROVE  IInv'
  <1> USE DEF AgentClosed, Heard, LetGo, Nothing, db, memory, link, worker, agent, history, counts
  <1>1. (TypeOK /\ restarts \in Nat)'
    BY DEF IInv, TypeOK, BodiesHanded, Carried, Bodies, Lines, Errors, NoLine
  <1>2. (BodiesHanded /\ Carried)'
    BY DEF IInv, TypeOK, BodiesHanded, Carried
  <1>3. ReaderFollows'
    BY DEF IInv, TypeOK, ReaderFollows, StopIsNoticed, Lines, NoLine
  <1>4. NothingLost'
    BY DEF IInv, TypeOK, Carried, NothingLost, OnlyALineRetires, Kept
  <1> QED
    BY <1>1, <1>2, <1>3, <1>4 DEF IInv

LEMMA HostDroppedKeeps ==
    ASSUME IInv, HostDropped
    PROVE  IInv'
  <1> USE DEF HostDropped, Severed, LetGo, Nothing, db, memory, link, worker, agent, history, counts
  <1>0. said' \in Seq(Lines \union Errors \union {"closed"})
    <2>1. said \in Seq(Lines \union Errors \union {"closed"}) /\ said' = Without(said, Errors)
      BY DEF IInv, TypeOK
    <2>2. said' \in Seq((Lines \union Errors \union {"closed"}) \ Errors)
      BY <2>1, WithoutType
    <2> QED
      BY <2>2, Wider
  <1>1. (TypeOK /\ restarts \in Nat)'
    <2>1. <<>> \in Seq(Bodies) /\ {} \in Bodies
      BY DEF Bodies
    <2>2. task' \in [Tasks -> [at : {"idle", "held", "turn", "take", "send", "hold"}, body : Bodies]]
      BY DEF IInv, TypeOK, Bodies, Idle
    <2>3. restoring' \subseteq Bodies \ {{}} /\ up' \in BOOLEAN /\ outbox' = <<>>
      BY DEF IInv, TypeOK
    <2>4. delivering' \in Bodies /\ reader' \in {"none", "open", "rest"} /\ line' \in {NoLine} \union Lines
      BY <2>1 DEF IInv, TypeOK, NoLine
    <2>5. UNCHANGED <<waiting, handed, told, retired, status, logOpen, conn, inbox, alive, busy>>
      OBVIOUS
    <2>6. restarts' \in Nat
      BY DEF IInv
    <2> HIDE DEF HostDropped, Restart, Severed, LetGo, db, memory, link, worker, agent, history, counts
    <2> QED
      BY <1>0, <2>1, <2>2, <2>3, <2>4, <2>5, <2>6 DEF IInv, TypeOK
  <1>2. (BodiesHanded /\ Carried)'
    BY DEF IInv, TypeOK, BodiesHanded, Carried
  <1>3. ReaderFollows'
    BY DEF IInv, TypeOK, ReaderFollows, StopIsNoticed, Lines, NoLine
  <1>4. NothingLost'
    BY DEF IInv, TypeOK, Carried, NothingLost, OnlyALineRetires, Kept
  <1> QED
    BY <1>1, <1>2, <1>3, <1>4 DEF IInv

LEMMA ConnectKeeps ==
    ASSUME IInv, Connect
    PROVE  IInv'
  <1> USE DEF Connect, db, memory, link, worker, agent, history, counts
  <1>1. (TypeOK /\ restarts \in Nat)'
    BY DEF IInv, TypeOK, BodiesHanded, Carried, Bodies, Lines, Errors, NoLine
  <1>2. (BodiesHanded /\ Carried)'
    BY DEF IInv, TypeOK, BodiesHanded, Carried
  <1>3. ReaderFollows'
    BY DEF IInv, TypeOK, ReaderFollows, StopIsNoticed, Lines, NoLine
  <1>4. NothingLost'
    BY DEF IInv, TypeOK, Carried, NothingLost, OnlyALineRetires, Kept
  <1> QED
    BY <1>1, <1>2, <1>3, <1>4 DEF IInv

LEMMA RestartKeeps ==
    ASSUME IInv, Restart
    PROVE  IInv'
  <1> USE DEF Restart, Severed, Idle, Nothing, db, memory, link, worker, agent, history, counts
  <1>0. said' \in Seq(Lines \union Errors \union {"closed"})
    <2>1. said \in Seq(Lines \union Errors \union {"closed"}) /\ said' = Without(said, Errors)
      BY DEF IInv, TypeOK
    <2>2. said' \in Seq((Lines \union Errors \union {"closed"}) \ Errors)
      BY <2>1, WithoutType
    <2> QED
      BY <2>2, Wider
  <1>1. (TypeOK /\ restarts \in Nat)'
    <2>1. <<>> \in Seq(Bodies) /\ {} \in Bodies
      BY DEF Bodies
    <2>2. task' \in [Tasks -> [at : {"idle", "held", "turn", "take", "send", "hold"}, body : Bodies]]
      BY DEF IInv, TypeOK, Bodies, Idle
    <2>3. restoring' \subseteq Bodies \ {{}} /\ up' \in BOOLEAN /\ outbox' = <<>>
      BY DEF IInv, TypeOK
    <2>4. delivering' \in Bodies /\ reader' \in {"none", "open", "rest"} /\ line' \in {NoLine} \union Lines
      BY <2>1 DEF IInv, TypeOK, NoLine
    <2>5. UNCHANGED <<waiting, handed, told, retired, status, logOpen, conn, inbox, alive, busy>>
      OBVIOUS
    <2>6. restarts' \in Nat
      BY DEF IInv
    <2> HIDE DEF HostDropped, Restart, Severed, LetGo, db, memory, link, worker, agent, history, counts
    <2> QED
      BY <1>0, <2>1, <2>2, <2>3, <2>4, <2>5, <2>6 DEF IInv, TypeOK
  <1>2. (BodiesHanded /\ Carried)'
    BY DEF IInv, TypeOK, BodiesHanded, Carried
  <1>3. ReaderFollows'
    BY DEF IInv, TypeOK, ReaderFollows, StopIsNoticed, Lines, NoLine
  <1>4. NothingLost'
    BY DEF IInv, TypeOK, Carried, NothingLost, OnlyALineRetires, Kept
  <1> QED
    BY <1>1, <1>2, <1>3, <1>4 DEF IInv

LEMMA NextKeeps == IInv /\ [Next]_vars => IInv'
  <1> SUFFICES ASSUME IInv, [Next]_vars
               PROVE  IInv'
    OBVIOUS
  <1>1. ASSUME NEW r \in Reports, NEW t \in Tasks, HandBack(r, t)
        PROVE  IInv'
    BY <1>1, HandBackKeeps
  <1>2. ASSUME NEW t \in Tasks, Drain(t)
        PROVE  IInv'
    BY <1>2, DrainHeldKeeps, DrainTurnKeeps, DrainTakeKeeps, DrainSendKeeps, DrainHoldKeeps DEF Drain
  <1>3. CASE PutBack
    BY <1>3, PutBackKeeps
  <1>4. CASE Prompt
    BY <1>4, PromptKeeps
  <1>5. CASE Carry
    BY <1>5, CarryKeeps
  <1>6. CASE Answer
    BY <1>6, AgentReadsKeeps, UndeliverableKeeps DEF Answer
  <1>7. CASE AgentEndsTurn
    BY <1>7, AgentEndsTurnKeeps
  <1>8. CASE AgentExits
    BY <1>8, AgentExitsKeeps
  <1>9. CASE Relaunch
    BY <1>9, RelaunchKeeps
  <1>10. CASE Listen
    BY <1>10, RecordLineKeeps, ReadLineKeeps, DeliveryFailedKeeps, AgentClosedKeeps DEF Listen
  <1>11. CASE HostDropped
    BY <1>11, HostDroppedKeeps
  <1>12. CASE Connect
    BY <1>12, ConnectKeeps
  <1>13. CASE Restart
    BY <1>13, RestartKeeps
  <1>14. CASE UNCHANGED vars
    <2>1. restarts' = restarts /\ TypeOK' = TypeOK
      BY <1>14 DEF vars, db, memory, link, worker, agent, history, counts, TypeOK
    <2>2. BodiesHanded' = BodiesHanded /\ Carried' = Carried
      BY <1>14 DEF vars, db, memory, link, worker, agent, history, counts, BodiesHanded, Carried
    <2>3. ReaderFollows' = ReaderFollows
      BY <1>14 DEF vars, db, memory, link, worker, agent, history, counts, ReaderFollows, StopIsNoticed
    <2>4. NothingLost' = NothingLost
      BY <1>14 DEF vars, db, memory, link, worker, agent, history, counts, NothingLost,
         OnlyALineRetires, Kept
    <2> QED
      BY <2>1, <2>2, <2>3, <2>4 DEF IInv
  <1> QED
    BY <1>1, <1>2, <1>3, <1>4, <1>5, <1>6, <1>7, <1>8, <1>9, <1>10, <1>11, <1>12, <1>13, <1>14 DEF Next

LEMMA IInvHolds == Spec => []IInv
  BY InitInv, NextKeeps, PTL DEF Spec

-----------------------------------------------------------------------------

\* The types of what the database, the memory, the link and the agent hold.
THEOREM TypeCorrect == Spec => []TypeOK
  <1>1. IInv => TypeOK
    BY DEF IInv
  <1> QED
    BY <1>1, IInvHolds, PTL

\* However many drains run at once, whatever the worker cannot hand over and
\* however often the host drops or the agent exits: a report the agent has not
\* read is a row, or on somebody's way to becoming one, unless a line of the
\* lead retired it -- until the control plane restarts.
THEOREM ReportsKept == Spec => [](restarts = 0 => OnlyALineRetires)
  <1>1. IInv => (restarts = 0 => OnlyALineRetires)
    BY DEF IInv, NothingLost
  <1> QED
    BY <1>1, IInvHolds, PTL

\* A lead whose recorded lines end outside a turn, all of them read, is not
\* shown as working -- until the control plane restarts.
THEOREM NoStopMissed == Spec => [](restarts = 0 => StopIsNoticed)
  <1>1. IInv => (restarts = 0 => StopIsNoticed)
    BY DEF IInv, ReaderFollows
  <1> QED
    BY <1>1, IInvHolds, PTL

\* The line that ends a turn leaves the session stopped when it is read, even by
\* a reader built from lines it is one of.  It takes a restart, and the status a
\* row kept across it, for the claim of EveryStopMoves to fail.
THEOREM StopsMove ==
    Spec => [][(restarts' = 0 /\ line = "ends" /\ line' = NoLine) => status' = "stopped"]_vars
  <1>1. ASSUME IInv, Next, restarts' = 0, line = "ends", line' = NoLine
        PROVE  status' = "stopped"
    <2>1. PICK t \in Tasks : ReadLine(t)
      <3> USE DEF NoLine, db, memory, link, worker, agent, history, counts
      <3>1. \A r \in Reports, t \in Tasks : ~HandBack(r, t)
        BY <1>1 DEF HandBack
      <3>2. \A t \in Tasks : ~Drain(t)
        BY <1>1 DEF Drain, DrainHeld, DrainTurn, DrainTake, DrainSend, DrainHold
      <3>3. ~PutBack /\ ~Prompt /\ ~Carry /\ ~Answer
        BY <1>1 DEF PutBack, Requeue, Prompt, Carry, Answer, AgentReads, Undeliverable
      <3>4. ~AgentEndsTurn /\ ~AgentExits /\ ~Relaunch
        BY <1>1 DEF AgentEndsTurn, AgentExits, Relaunch
      <3>5. ~AgentClosed /\ (\A l \in Lines : ~RecordLine(l)) /\ (\A e \in Errors : ~DeliveryFailed(e))
        BY <1>1 DEF AgentClosed, RecordLine, DeliveryFailed, Heard
      <3>6. ~HostDropped /\ ~Connect
        BY <1>1 DEF HostDropped, Connect
      <3>7. ~Restart
        <4>1. restarts \in Nat
          BY <1>1 DEF IInv
        <4> QED
          BY <1>1, <4>1 DEF Restart
      <3> QED
        BY <1>1, <3>1, <3>2, <3>3, <3>4, <3>5, <3>6, <3>7 DEF Next, Listen
    <2>2. restarts = 0 /\ reader \in {"none", "open", "rest"}
      BY <1>1, <2>1 DEF ReadLine, counts, IInv, TypeOK
    <2>3. ~logOpen /\ (reader # "open" => status = "stopped")
      BY <1>1, <2>2 DEF IInv, ReaderFollows, NoLine
    <2> QED
      BY <1>1, <2>1, <2>2, <2>3 DEF ReadLine, Moves, EnsureReader
  <1>2. IInv /\ [Next]_vars
        => [(restarts' = 0 /\ line = "ends" /\ line' = NoLine) => status' = "stopped"]_vars
    BY <1>1
  <1> QED
    BY <1>2, IInvHolds, PTL DEF Spec
=============================================================================
