---------------------------- MODULE EventFeedProofs ----------------------------
(***************************************************************************)
(* Proofs about EventFeed: its type invariant, that a subscription         *)
(* delivers what it took on, and that a reconnect replays nothing and      *)
(* leaves no gap.                                                          *)
(***************************************************************************)
EXTENDS EventFeed, QueueProofs

\* A transaction in hand has an id of its own, readable once it has committed.
Writing ==
    /\ rows \subseteq 1 .. nextId - 1
    /\ \A w \in Writers :
          /\ writing[w].phase = "idle" <=> writing[w].id = 0
          /\ writing[w].id < nextId
          /\ writing[w].phase = "inserted" => writing[w].id \notin rows
          /\ writing[w].phase = "committed" => writing[w].id \in rows
    /\ \A w, v \in Writers : (w # v /\ writing[w].id = writing[v].id) => writing[w].id = 0

\* What is on its way to the client can be read, and a pump that gave up has
\* said so last.
OnTheWay ==
    /\ frames \in Seq(rows \union {Reset}) /\ backlog \in Seq(rows) /\ bus \in Seq(rows)
    /\ \A i \in DOMAIN frames : frames[i] = Reset => i = Len(frames) /\ pump.phase = "none"

\* Each queue is filled in one phase of the subscription only.
Phases ==
    /\ ~open => pump.phase = "none" /\ frames = <<>>
    /\ pump.phase # "replaying" => backlog = <<>>
    /\ pump.phase # "live" => bus = <<>> /\ ~lagged
    /\ pump.phase \in {"none", "asked"} => owed = {}
    /\ pump.phase = "asked" => frames = <<>> /\ pump.from = seen

\* The cursor is the newest id the client has applied.
Cursor ==
    /\ IF seen = Never THEN applied = {} ELSE seen \in applied
    /\ \A q \in applied : q <= seen

\* A backlog is sent in the order of its ids, each of them once.
Sorted ==
    /\ \A i, j \in DOMAIN backlog : i < j => backlog[i] < backlog[j]
    /\ ToSet(frames) \intersect ToSet(backlog) = {}

\* A row nobody announces any more.
Announced(q) == q \in rows /\ \A w \in Writers : writing[w].id # q

\* Nothing newer than q goes before it.
Clear(s, q) == \A i \in DOMAIN s : s[i] > q => \E j \in DOMAIN s : j < i /\ s[j] = q

\* An announced row that did not slip and is not applied is past the cursor, goes
\* before anything newer, and is on its way or will be asked for.
Coming(q) ==
    /\ seen # Never /\ seen < q
    /\ Clear(frames, q)
    /\ Holds(frames, q) \/ Clear(backlog, q)
    /\ Holds(frames, q) \/ lagged \/ Clear(bus, q)
    /\ \/ pump.phase \in {"none", "asked"} \/ lagged
       \/ Holds(frames, q) \/ Holds(backlog, q) \/ Holds(bus, q)

NothingMissing == \A q \in rows \ (slipped \union applied) : Announced(q) => Coming(q)

\* TypeOK, but for the queues, which OnTheWay types.
Types ==
    /\ writing \in [Writers -> [phase : {"idle", "inserted", "committed"}, id : {0} \union Ids]]
    /\ nextId \in 1 .. MaxRows + 1
    /\ rows \subseteq Ids /\ slipped \subseteq rows /\ applied \subseteq rows /\ owed \subseteq rows
    /\ open \in BOOLEAN /\ lagged \in BOOLEAN
    /\ pump \in [phase : {"none", "asked", "replaying", "live"}, from : {0} \union Ids]
    /\ seen \in {Never} \union Ids
    /\ Len(bus) <= BusDepth

IInv ==
    /\ Types /\ Writing /\ OnTheWay /\ Phases /\ Cursor /\ Sorted
    /\ SubscriptionDelivers /\ ReconnectReplaysNothing /\ NothingMissing

-----------------------------------------------------------------------------
(* Queues *)

LEMMA ToSetEmpty == ToSet(<<>>) = {}
  BY DEF ToSet

LEMMA ToSetAppend ==
    ASSUME NEW S, NEW s \in Seq(S), NEW x \in S
    PROVE  ToSet(Append(s, x)) = ToSet(s) \union {x}
  <1>1. DOMAIN Append(s, x) = DOMAIN s \union {Len(s) + 1}
    OBVIOUS
  <1>2. (\A i \in DOMAIN s : Append(s, x)[i] = s[i]) /\ Append(s, x)[Len(s) + 1] = x
    OBVIOUS
  <1> QED
    BY <1>1, <1>2 DEF ToSet

LEMMA ToSetHead ==
    ASSUME NEW S, NEW s \in Seq(S), s # <<>>
    PROVE  ToSet(s) = {Head(s)} \union ToSet(Tail(s))
  <1>1. \A i \in DOMAIN Tail(s) : Tail(s)[i] = s[i + 1] /\ i + 1 \in DOMAIN s
    OBVIOUS
  <1>2. \A i \in DOMAIN s : i # 1 => i - 1 \in DOMAIN Tail(s) /\ (i - 1) + 1 = i
    OBVIOUS
  <1>3. Head(s) = s[1] /\ 1 \in DOMAIN s
    OBVIOUS
  <1> QED
    BY <1>1, <1>2, <1>3 DEF ToSet

LEMMA ToSetIn ==
    ASSUME NEW S, NEW s \in Seq(S)
    PROVE  ToSet(s) \subseteq S /\ \A i \in DOMAIN s : s[i] \in ToSet(s)
  BY DEF ToSet

LEMMA ClearEmpty == \A q : Clear(<<>>, q)
  BY DEF Clear

LEMMA ClearBelow ==
    ASSUME NEW s \in Seq(Nat), NEW q \in Nat, \A x \in ToSet(s) : x <= q
    PROVE  Clear(s, q)
  <1>1. \A i \in DOMAIN s : s[i] \in Nat /\ s[i] <= q
    BY DEF ToSet
  <1> QED
    BY <1>1 DEF Clear

LEMMA ClearAppend ==
    ASSUME NEW s \in Seq(Nat), NEW q \in Nat, Clear(s, q),
           NEW x \in Nat, x <= q \/ q \in ToSet(s)
    PROVE  Clear(Append(s, x), q)
  <1> DEFINE t == Append(s, x)
  <1>1. DOMAIN t = 1 .. Len(s) + 1 /\ DOMAIN s = 1 .. Len(s) /\ Len(s) \in Nat
    OBVIOUS
  <1>2. (\A i \in DOMAIN s : t[i] = s[i]) /\ t[Len(s) + 1] = x
    OBVIOUS
  <1>3. ASSUME NEW i \in DOMAIN t, t[i] > q
        PROVE  \E j \in DOMAIN t : j < i /\ t[j] = q
    <2>1. CASE i \in DOMAIN s
      <3>1. PICK j \in DOMAIN s : j < i /\ s[j] = q
        BY <1>2, <1>3, <2>1 DEF Clear
      <3> QED
        BY <1>1, <1>2, <3>1
    <2>2. CASE i = Len(s) + 1
      <3>1. q \in ToSet(s)
        BY <1>2, <1>3, <2>2
      <3>2. PICK j \in DOMAIN s : s[j] = q
        BY <3>1 DEF ToSet
      <3> QED
        BY <1>1, <1>2, <2>2, <3>2
    <2> QED
      BY <1>1, <2>1, <2>2
  <1> QED
    BY <1>3 DEF Clear

LEMMA ClearTail ==
    ASSUME NEW s \in Seq(Nat), s # <<>>, NEW q \in Nat, Clear(s, q)
    PROVE  Head(s) <= q /\ (Head(s) # q => Clear(Tail(s), q))
  <1> DEFINE t == Tail(s)
  <1>1. \A i \in DOMAIN t : t[i] = s[i + 1] /\ i + 1 \in DOMAIN s /\ i \in Nat \ {0}
    OBVIOUS
  <1>2. \A i \in DOMAIN s : i \in Nat \ {0} /\ (i # 1 => i - 1 \in DOMAIN t /\ (i - 1) + 1 = i)
    OBVIOUS
  <1>3. Head(s) = s[1] /\ 1 \in DOMAIN s /\ s[1] \in Nat
    OBVIOUS
  <1>4. Head(s) <= q
    <2>1. ~(s[1] > q)
      <3>1. \A j \in DOMAIN s : ~(j < 1)
        BY <1>2
      <3> QED
        BY <1>3, <3>1 DEF Clear
    <2> QED
      BY <1>3, <2>1
  <1>5. ASSUME Head(s) # q, NEW i \in DOMAIN t, t[i] > q
        PROVE  \E j \in DOMAIN t : j < i /\ t[j] = q
    <2>1. PICK j \in DOMAIN s : j < i + 1 /\ s[j] = q
      BY <1>1, <1>5 DEF Clear
    <2>2. j # 1
      BY <1>3, <1>5, <2>1
    <2>3. j - 1 \in DOMAIN t /\ t[j - 1] = s[j]
      BY <1>1, <1>2, <2>2
    <2>4. j - 1 < i
      BY <1>1, <1>2, <1>5, <2>1
    <2> QED
      BY <2>1, <2>3, <2>4
  <1> QED
    BY <1>4, <1>5 DEF Clear

LEMMA ClearSorted ==
    ASSUME NEW s \in Seq(Nat), NEW q \in ToSet(s),
           \A i, j \in DOMAIN s : i < j => s[i] < s[j]
    PROVE  Clear(s, q)
  <1>1. PICK j \in DOMAIN s : s[j] = q
    BY DEF ToSet
  <1>2. ASSUME NEW i \in DOMAIN s, s[i] > q
        PROVE  j < i
    <2>1. s[i] \in Nat /\ s[j] \in Nat /\ i \in Nat /\ j \in Nat
      OBVIOUS
    <2>2. ~(i < j) /\ i # j
      BY <1>1, <1>2, <2>1
    <2> QED
      BY <2>1, <2>2
  <1> QED
    BY <1>1, <1>2 DEF Clear

LEMMA IdsNat == MaxRows \in Nat /\ Ids \subseteq Nat \ {0} /\ IsFiniteSet(Ids)
  <1>1. MaxRows \in Nat
    BY DepthAssumption
  <1> QED
    BY <1>1, FS_Interval DEF Ids

\* What the queues hold, and what the cursor is.
LEMMA Queued ==
    ASSUME IInv
    PROVE  /\ rows \subseteq Nat \ {0} /\ IsFiniteSet(rows)
           /\ frames \in Seq(rows \union {Reset}) /\ backlog \in Seq(rows) /\ bus \in Seq(rows)
           /\ frames \in Seq(Nat) /\ backlog \in Seq(Nat) /\ bus \in Seq(Nat)
           /\ ToSet(frames) \subseteq rows \union {Reset}
           /\ ToSet(backlog) \subseteq rows /\ ToSet(bus) \subseteq rows
           /\ seen \in Int /\ (seen # Never => seen \in applied) /\ applied \subseteq rows
  <1>1. rows \subseteq Nat \ {0} /\ IsFiniteSet(rows)
    BY IdsNat, FS_Subset DEF IInv, Types
  <1>2. frames \in Seq(rows \union {Reset}) /\ backlog \in Seq(rows) /\ bus \in Seq(rows)
    BY DEF IInv, OnTheWay
  <1>3. rows \union {Reset} \subseteq Nat /\ rows \subseteq Nat
    BY <1>1 DEF Reset
  <1>4. frames \in Seq(Nat) /\ backlog \in Seq(Nat) /\ bus \in Seq(Nat)
    BY <1>2, <1>3, Wider
  <1>5. /\ ToSet(frames) \subseteq rows \union {Reset}
        /\ ToSet(backlog) \subseteq rows /\ ToSet(bus) \subseteq rows
    BY <1>2, ToSetIn
  <1>6. seen \in Int /\ (seen # Never => seen \in applied) /\ applied \subseteq rows
    BY IdsNat DEF IInv, Types, Cursor, Never
  <1> QED
    BY <1>1, <1>2, <1>4, <1>5, <1>6

\* What a writer has in hand.
LEMMA InHand ==
    ASSUME IInv
    PROVE  /\ nextId \in Nat
           /\ \A v \in Writers : writing[v].id \in Nat
           /\ \A v \in Writers : writing[v].phase # "idle" => writing[v].id \in Ids
  <1>1. \A v \in Writers : writing[v].id \in {0} \union Ids /\ (writing[v].phase # "idle" => writing[v].id # 0)
    BY DEF IInv, Types, Writing
  <1>2. nextId \in Nat
    BY IdsNat DEF IInv, Types
  <1>3. \A v \in Writers : writing[v].id \in Nat
    <2>1. {0} \union Ids \subseteq Nat
      BY IdsNat
    <2> QED
      BY <1>1, <2>1
  <1> QED
    BY <1>1, <1>2, <1>3

-----------------------------------------------------------------------------

LEMMA InitInv == Init => IInv
  <1> SUFFICES ASSUME Init
               PROVE  IInv
    OBVIOUS
  <1> USE DEF Init
  <1>1. Types
    <2>1. nextId \in 1 .. MaxRows + 1 /\ Len(bus) <= BusDepth
      BY DepthAssumption
    <2>2. pump \in [phase : {"none", "asked", "replaying", "live"}, from : {0} \union Ids]
      BY DEF NoPump
    <2> QED
      BY <2>1, <2>2 DEF Types, Never
  <1>2. Writing
    BY DEF Writing
  <1>3. OnTheWay /\ Phases /\ Cursor
    BY DEF OnTheWay, Phases, Cursor, NoPump, Never
  <1>4. Sorted /\ SubscriptionDelivers /\ ReconnectReplaysNothing /\ NothingMissing
    BY ToSetEmpty DEF Sorted, SubscriptionDelivers, ReconnectReplaysNothing, NothingMissing
  <1> QED
    BY <1>1, <1>2, <1>3, <1>4 DEF IInv

\* What a step that leaves the queues, the subscription and the cursor alone keeps.
LEMMA QueuesKept ==
    ASSUME IInv, rows \subseteq rows',
           UNCHANGED <<open, pump, backlog, bus, lagged, frames, client, owed>>
    PROVE  /\ OnTheWay' /\ Phases' /\ Cursor' /\ Sorted'
           /\ SubscriptionDelivers' /\ ReconnectReplaysNothing'
  <1> USE DEF client
  <1>1. OnTheWay'
    <2>1. frames \in Seq(rows' \union {Reset}) /\ backlog \in Seq(rows') /\ bus \in Seq(rows')
      <3>1. rows \union {Reset} \subseteq rows' \union {Reset}
        OBVIOUS
      <3> QED
        BY <3>1, Queued, Wider
    <2> QED
      BY <2>1 DEF IInv, OnTheWay
  <1>2. Phases' /\ Cursor' /\ Sorted'
    BY DEF IInv, Phases, Cursor, Sorted
  <1>3. SubscriptionDelivers' /\ ReconnectReplaysNothing'
    BY DEF IInv, SubscriptionDelivers, ReconnectReplaysNothing, Holds
  <1> QED
    BY <1>1, <1>2, <1>3

LEMMA InsertKeeps ==
    ASSUME IInv, NEW w \in Writers, Insert(w)
    PROVE  IInv'
  <1> USE DEF Insert
  <1>1. Types'
    <2>1. nextId' \in 1 .. MaxRows + 1
      BY IdsNat DEF IInv, Types, Ids
    <2>2. writing' \in [Writers -> [phase : {"idle", "inserted", "committed"}, id : {0} \union Ids]]
      BY DEF IInv, Types
    <2> QED
      BY <2>1, <2>2 DEF IInv, Types, client
  <1>2. Writing'
    <2>1. /\ writing'[w].phase = "inserted" /\ writing'[w].id = nextId
          /\ \A v \in Writers \ {w} : writing'[v] = writing[v]
      BY DEF IInv, Types
    <2>2. nextId \in Nat \ {0} /\ nextId \notin rows /\ nextId' = nextId + 1 /\ rows' = rows
      BY IdsNat DEF IInv, Types, Writing
    <2>3. \A v \in Writers : writing[v].id \in Nat
      BY InHand
    <2>4. rows' \subseteq 1 .. nextId' - 1
      BY <2>2 DEF IInv, Writing
    <2> QED
      BY <2>1, <2>2, <2>3, <2>4 DEF IInv, Writing
  <1>3. rows' = rows /\ UNCHANGED <<open, pump, backlog, bus, lagged, frames, client, owed, slipped>>
    OBVIOUS
  <1>4. NothingMissing'
    <2>1. ASSUME NEW q \in rows, Announced(q)'
          PROVE  Announced(q)
      <3>1. q # 0
        BY Queued
      <3>2. writing[w].id = 0
        BY DEF IInv, Types, Writing
      <3>3. \A v \in Writers \ {w} : writing'[v] = writing[v]
        BY DEF IInv, Types
      <3> QED
        BY <2>1, <3>1, <3>2, <3>3 DEF Announced
    <2>2. ASSUME NEW q, Coming(q)
          PROVE  Coming(q)'
      BY <1>3, <2>2 DEF Coming, Clear, Holds, client
    <2> QED
      BY <1>3, <2>1, <2>2 DEF IInv, NothingMissing, client
  <1> HIDE DEF Insert
  <1> QED
    BY <1>1, <1>2, <1>3, <1>4, QueuesKept DEF IInv

LEMMA CommitKeeps ==
    ASSUME IInv, NEW w \in Writers, Commit(w)
    PROVE  IInv'
  <1> USE DEF Commit
  <1>1. writing' = [writing EXCEPT ![w].phase = "committed"] /\ writing[w].id \in Ids
    <2>1. writing[w].id \in Ids
      BY InHand
    <2> QED
      BY <2>1
  <1>2. /\ rows' = rows \union {writing[w].id}
        /\ UNCHANGED <<open, pump, backlog, bus, lagged, frames, client, owed, slipped, nextId>>
    OBVIOUS
  <1> HIDE DEF Commit
  <1>3. Types'
    BY <1>1, <1>2 DEF IInv, Types, client
  <1>4. /\ writing'[w].phase = "committed" /\ \A v \in Writers : writing'[v].id = writing[v].id
        /\ \A v \in Writers \ {w} : writing'[v] = writing[v]
    BY <1>1 DEF IInv, Types
  <1>5. Writing'
    <2>1. nextId \in Nat /\ \A v \in Writers : writing[v].id \in Nat
      BY InHand
    <2>2. writing[w].id # 0 /\ writing[w].id < nextId
      BY <1>1, IdsNat DEF IInv, Writing
    <2>3. rows' \subseteq 1 .. nextId - 1
      <3>1. rows \subseteq 1 .. nextId - 1
        BY DEF IInv, Writing
      <3>2. writing[w].id \in 1 .. nextId - 1
        BY <2>1, <2>2
      <3> QED
        BY <1>2, <3>1, <3>2
    <2> QED
      BY <1>2, <1>4, <2>1, <2>2, <2>3 DEF IInv, Writing
  <1>6. NothingMissing'
    <2>1. ASSUME NEW q \in rows', Announced(q)'
          PROVE  q \in rows /\ Announced(q)
      BY <1>2, <1>4, <2>1 DEF Announced
    <2>2. ASSUME NEW q, Coming(q)
          PROVE  Coming(q)'
      BY <1>2, <2>2 DEF Coming, Clear, Holds, client
    <2> QED
      BY <1>2, <2>1, <2>2 DEF IInv, NothingMissing, client
  <1> QED
    BY <1>2, <1>3, <1>5, <1>6, QueuesKept DEF IInv

LEMMA AnnounceKeeps ==
    ASSUME IInv, NEW w \in Writers, Announce(w)
    PROVE  IInv'
  <1> DEFINE a == writing[w].id
  <1>1. /\ writing' = [writing EXCEPT ![w] = [phase |-> "idle", id |-> 0]]
        /\ UNCHANGED <<nextId, rows, client, open, pump, backlog, frames, drops>>
    BY DEF Announce
  <1>2. a \in rows /\ a \in Nat \ {0}
    BY Queued DEF IInv, Writing, Announce
  <1>3. \/ /\ pump.phase # "live" /\ UNCHANGED <<bus, lagged, owed>>
        \/ /\ pump.phase = "live" /\ Len(bus) < BusDepth /\ bus' = Append(bus, a)
           /\ owed' = owed \union {a} /\ lagged' = lagged
        \/ /\ pump.phase = "live" /\ ~(Len(bus) < BusDepth) /\ bus' = Append(Tail(bus), a)
           /\ owed' = owed /\ lagged' = TRUE
    BY DEF Announce
  <1>4. /\ slipped' = slipped \union {a} \/ slipped' = slipped
        /\ a \notin slipped' => /\ seen # Never /\ \A n \in rows : ~(n > a)
                                /\ pump.phase = "replaying" => a \in owed
    BY DEF Announce, Slips
  <1>5. /\ writing'[w].phase = "idle" /\ writing'[w].id = 0
        /\ \A v \in Writers \ {w} : writing'[v] = writing[v]
    BY <1>1 DEF IInv, Types
  <1>6. /\ bus' \in Seq(rows) /\ bus' \in Seq(Nat) /\ Len(bus') <= BusDepth
        /\ bus' # bus => pump.phase = "live"
        /\ ~lagged' => ~lagged /\ ToSet(bus) \subseteq ToSet(bus')
        /\ pump.phase = "live" => a \in ToSet(bus')
    <2>1. bus \in Seq(rows) /\ rows \subseteq Nat
      BY Queued
    <2>2. BusDepth \in Nat \ {0} /\ Len(bus) \in Nat /\ Len(bus) <= BusDepth
      BY DepthAssumption, <2>1 DEF IInv, Types
    <2>3. bus' \in Seq(rows) /\ Len(bus') <= BusDepth
      <3>1. CASE bus' = bus
        BY <2>1, <2>2, <3>1
      <3>2. CASE bus' = Append(bus, a) /\ Len(bus) < BusDepth
        BY <1>2, <2>1, <2>2, <3>2
      <3>3. CASE bus' = Append(Tail(bus), a) /\ ~(Len(bus) < BusDepth)
        <4>1. bus # <<>>
          BY <2>1, <2>2, <3>3
        <4>2. Tail(bus) \in Seq(rows) /\ Len(Tail(bus)) = Len(bus) - 1
          BY <2>1, <4>1
        <4> QED
          BY <1>2, <2>2, <3>3, <4>2
      <3> QED
        BY <1>3, <3>1, <3>2, <3>3
    <2>4. bus' \in Seq(Nat)
      BY <2>1, <2>3, Wider
    <2>5. ~lagged' => ToSet(bus) \subseteq ToSet(bus')
      <3>1. CASE bus' = Append(bus, a)
        <4>1. ToSet(bus') = ToSet(bus) \union {a}
          BY <1>2, <2>1, <3>1, ToSetAppend
        <4> QED
          BY <4>1
      <3> QED
        BY <1>3, <3>1
    <2>6. pump.phase = "live" => a \in ToSet(bus')
      <3>1. CASE bus' = Append(bus, a)
        BY <1>2, <2>1, <3>1, ToSetAppend
      <3>2. CASE bus' = Append(Tail(bus), a) /\ ~(Len(bus) < BusDepth)
        <4>1. bus # <<>>
          BY <2>1, <2>2, <3>2
        <4>2. Tail(bus) \in Seq(rows)
          BY <2>1, <4>1
        <4> DEFINE rest == Tail(bus)
        <4>3. bus' = Append(rest, a) /\ rest \in Seq(rows)
          BY <3>2, <4>2
        <4> HIDE DEF rest, a
        <4>4. ToSet(bus') = ToSet(rest) \union {a}
          BY <1>2, <4>3, ToSetAppend
        <4> QED
          BY <4>4
      <3> QED
        BY <1>3, <3>1, <3>2
    <2> QED
      BY <1>3, <2>3, <2>4, <2>5, <2>6 DEF IInv, Types
  <1>7. Types'
    <2>1. writing' \in [Writers -> [phase : {"idle", "inserted", "committed"}, id : {0} \union Ids]]
      BY <1>1 DEF IInv, Types
    <2>2. slipped' \subseteq rows /\ owed' \subseteq rows /\ lagged' \in BOOLEAN
      BY <1>2, <1>3, <1>4 DEF IInv, Types
    <2> QED
      BY <1>1, <1>6, <2>1, <2>2 DEF IInv, Types, client
  <1>8. Writing'
    BY <1>1, <1>5, IdsNat DEF IInv, Types, Writing
  <1>9. OnTheWay' /\ Cursor' /\ Sorted' /\ ReconnectReplaysNothing'
    BY <1>1, <1>6 DEF IInv, OnTheWay, Cursor, Sorted, ReconnectReplaysNothing, client
  <1>10. Phases'
    BY <1>1, <1>3 DEF IInv, Phases, client
  <1>11. SubscriptionDelivers'
    BY <1>1, <1>3, <1>6 DEF IInv, SubscriptionDelivers, Holds, client
  <1>12. NothingMissing'
    <2> SUFFICES ASSUME NEW q \in rows, q \notin slipped', q \notin applied, Announced(q)'
                 PROVE  Coming(q)'
      BY <1>1 DEF NothingMissing, client
    <2>1. q \in Nat \ {0}
      BY Queued
    <2>2. CASE q = a
      <3>1. seen # Never /\ \A n \in rows : n <= a
        BY <1>2, <1>4, <2>2, Queued
      <3>2. seen < a
        BY <1>2, <2>2, <3>1, Queued
      <3>3. Clear(frames, a) /\ Clear(backlog, a) /\ Clear(bus', a)
        <4>1. \A n \in rows \union {Reset} : n <= a
          BY <1>2, <3>1 DEF Reset
        <4>2. ToSet(bus') \subseteq rows
          BY <1>6, ToSetIn
        <4> QED
          BY <1>2, <1>6, <4>1, <4>2, Queued, ClearBelow
      <3>4. CASE pump.phase = "live"
        BY <1>1, <1>6, <2>2, <3>1, <3>2, <3>3, <3>4 DEF Coming, Holds, client
      <3>5. CASE pump.phase = "replaying"
        <4>1. a \in owed /\ ~lagged /\ a \notin applied
          BY <1>4, <2>2, <3>5 DEF IInv, Phases
        <4>2. Holds(frames, a) \/ Holds(backlog, a) \/ Holds(bus, a)
          BY <4>1 DEF IInv, SubscriptionDelivers
        <4>3. bus' = bus
          BY <1>3, <3>5
        <4> QED
          BY <1>1, <2>2, <3>1, <3>2, <3>3, <4>2, <4>3 DEF Coming, client, Holds
      <3>6. CASE pump.phase \in {"none", "asked"}
        BY <1>1, <2>2, <3>1, <3>2, <3>3, <3>6 DEF Coming, client
      <3> QED
        BY <3>4, <3>5, <3>6 DEF IInv, Types
    <2>3. CASE q # a
      <3>1. Coming(q)
        <4>1. Announced(q)
          BY <1>5, <2>3 DEF Announced
        <4> QED
          BY <1>4, <4>1 DEF IInv, NothingMissing
      <3>2. Holds(frames, q) \/ lagged' \/ Clear(bus', q)
        <4>1. CASE bus' = bus
          BY <1>3, <3>1, <4>1 DEF Coming
        <4>2. CASE pump.phase = "live" /\ bus' = Append(bus, a)
          <5>1. backlog = <<>>
            BY <4>2 DEF IInv, Phases
          <5>2. ~Holds(backlog, q)
            BY <5>1, ToSetEmpty DEF Holds
          <5>3. Holds(frames, q) \/ lagged \/ (Holds(bus, q) /\ Clear(bus, q))
            BY <3>1, <4>2, <5>2 DEF Coming
          <5>4. (Holds(bus, q) /\ Clear(bus, q)) => Clear(bus', q)
            BY <1>2, <2>1, <4>2, Queued, ClearAppend DEF Holds
          <5>5. lagged => lagged'
            BY <1>3, <4>2 DEF IInv, Types
          <5> QED
            BY <5>3, <5>4, <5>5
        <4> QED
          BY <1>3, <4>1, <4>2
      <3>3. \/ pump.phase \in {"none", "asked"} \/ lagged'
            \/ Holds(frames, q) \/ Holds(backlog, q) \/ Holds(bus', q)
        BY <1>3, <1>6, <3>1 DEF Coming, Holds
      <3> QED
        BY <1>1, <3>1, <3>2, <3>3 DEF Coming, Holds, client
    <2> QED
      BY <2>2, <2>3
  <1> QED
    BY <1>7, <1>8, <1>9, <1>10, <1>11, <1>12 DEF IInv

LEMMA PumpReadKeeps ==
    ASSUME IInv, PumpRead
    PROVE  IInv'
  <1> DEFINE missed == {q \in rows : q > seen}
  <1>1. /\ pump.phase = "asked" /\ pump.from = seen /\ pump' = [pump EXCEPT !.phase = "replaying"]
        /\ backlog' = Ascending(missed) /\ owed' = missed /\ frames = <<>> /\ bus = <<>> /\ ~lagged
        /\ UNCHANGED <<server, client, open, bus, lagged, frames, slipped, drops>>
    BY DEF PumpRead, IInv, Phases
  <1>2. /\ pump'.phase = "replaying" /\ pump'.from = pump.from
        /\ pump' \in [phase : {"none", "asked", "replaying", "live"}, from : {0} \union Ids]
    BY <1>1 DEF IInv, Types
  <1>3. /\ missed \subseteq rows /\ missed \subseteq Nat /\ IsFiniteSet(missed)
    BY Queued, FS_Subset
  <1> HIDE DEF missed
  <1>4. /\ backlog' \in Seq(missed) /\ backlog' \in Seq(rows) /\ backlog' \in Seq(Nat)
        /\ ToSet(backlog') = missed
        /\ \A i, j \in DOMAIN backlog' : i < j => backlog'[i] < backlog'[j]
    <2>1. backlog' \in Seq(missed) /\ DOMAIN backlog' = 1 .. Len(backlog')
      BY <1>1, <1>3, AscendingFacts
    <2>2. \A n \in missed : \E i \in DOMAIN backlog' : backlog'[i] = n
      BY <1>1, <1>3, <2>1, AscendingFacts
    <2>3. \A i, j \in DOMAIN backlog' : i < j => backlog'[i] < backlog'[j]
      BY <1>1, <1>3, <2>1, AscendingFacts
    <2>4. ToSet(backlog') = missed
      BY <2>1, <2>2 DEF ToSet
    <2>5. backlog' \in Seq(rows) /\ backlog' \in Seq(Nat)
      BY <1>3, <2>1, Wider
    <2> QED
      BY <2>1, <2>3, <2>4, <2>5
  <1>5. Types' /\ Writing'
    BY <1>1, <1>2, <1>3 DEF IInv, Types, Writing, server, client
  <1>6. OnTheWay' /\ Phases' /\ Cursor'
    BY <1>1, <1>2, <1>4 DEF IInv, OnTheWay, Phases, Cursor, server, client
  <1>7. Sorted' /\ SubscriptionDelivers'
    BY <1>1, <1>4, ToSetEmpty DEF Sorted, SubscriptionDelivers, Holds
  <1>8. ReconnectReplaysNothing'
    <2>1. \A q \in applied : q \notin missed
      BY Queued DEF missed, IInv, Cursor
    <2> QED
      BY <1>1, <1>4, <2>1 DEF ReconnectReplaysNothing, client
  <1>9. NothingMissing'
    <2> SUFFICES ASSUME NEW q \in rows, q \notin slipped, q \notin applied, Announced(q)
                 PROVE  Coming(q)'
      BY <1>1 DEF NothingMissing, Announced, server, client
    <2>1. Coming(q)
      BY DEF IInv, NothingMissing
    <2>2. q \in ToSet(backlog') /\ q \in Nat
      BY <1>4, <2>1, Queued DEF Coming, missed
    <2>3. Clear(backlog', q)
      BY <1>4, <2>2, ClearSorted
    <2>4. Clear(<<>>, q)
      BY ClearEmpty
    <2> QED
      BY <1>1, <2>1, <2>2, <2>3, <2>4 DEF Coming, Holds, client
  <1> QED
    BY <1>5, <1>6, <1>7, <1>8, <1>9 DEF IInv

\* What the failed read was to find has slipped, and nothing else is missing.
LEMMA PumpReadFailsKeeps ==
    ASSUME IInv, PumpReadFails
    PROVE  IInv'
  <1> DEFINE missed == {q \in rows : q > seen /\ \A w \in Writers : writing[w].id # q}
  <1>1. /\ pump.phase = "asked" /\ pump' = [pump EXCEPT !.phase = "replaying"]
        /\ slipped' = slipped \union missed
        /\ backlog = <<>> /\ frames = <<>> /\ bus = <<>> /\ ~lagged /\ owed = {}
        /\ UNCHANGED <<server, client, open, backlog, bus, lagged, frames, owed>>
    BY DEF PumpReadFails, IInv, Phases
  <1>2. /\ pump'.phase = "replaying" /\ pump'.from = pump.from
        /\ pump' \in [phase : {"none", "asked", "replaying", "live"}, from : {0} \union Ids]
    BY <1>1 DEF IInv, Types
  <1>3. Types' /\ Writing'
    BY <1>1, <1>2 DEF IInv, Types, Writing, server, client
  <1>4. OnTheWay' /\ Phases' /\ Cursor'
    BY <1>1, <1>2 DEF IInv, OnTheWay, Phases, Cursor, server, client
  <1>5. Sorted' /\ SubscriptionDelivers' /\ ReconnectReplaysNothing'
    BY <1>1, ToSetEmpty DEF Sorted, SubscriptionDelivers, ReconnectReplaysNothing
  <1>6. NothingMissing'
    <2> SUFFICES ASSUME NEW q \in rows, q \notin slipped, q \notin missed, q \notin applied, Announced(q)
                 PROVE  FALSE
      BY <1>1 DEF NothingMissing, Announced, server, client
    <2>1. seen < q
      BY DEF IInv, NothingMissing, Coming
    <2> QED
      BY <2>1, Queued DEF Announced
  <1> QED
    BY <1>3, <1>4, <1>5, <1>6 DEF IInv

LEMMA PumpReplayKeeps ==
    ASSUME IInv, PumpReplay
    PROVE  IInv'
  <1> DEFINE h == Head(backlog)
  <1>1. /\ pump.phase = "replaying" /\ backlog # <<>> /\ frames' = Append(frames, h)
        /\ backlog' = Tail(backlog)
        /\ UNCHANGED <<server, client, open, pump, bus, lagged, owed, slipped, drops>>
    BY DEF PumpReplay, Send
  <1>2. /\ h \in rows /\ h \in Nat \ {0} /\ h \in ToSet(backlog)
        /\ backlog' \in Seq(rows) /\ backlog' \in Seq(Nat)
        /\ ToSet(backlog) = {h} \union ToSet(backlog')
    <2>1. backlog \in Seq(rows)
      BY Queued
    <2>2. h \in rows /\ backlog' \in Seq(rows)
      BY <1>1, <2>1
    <2>3. ToSet(backlog) = {h} \union ToSet(backlog')
      BY <1>1, <2>1, ToSetHead
    <2>4. rows \subseteq Nat \ {0} /\ rows \subseteq Nat
      BY Queued
    <2>5. backlog' \in Seq(Nat)
      BY <2>2, <2>4, Wider
    <2> QED
      BY <2>2, <2>3, <2>4, <2>5
  <1>3. /\ frames' \in Seq(rows \union {Reset}) /\ frames' \in Seq(Nat)
        /\ ToSet(frames') = ToSet(frames) \union {h}
        /\ \A i \in DOMAIN frames' : frames'[i] # Reset
    <2>1. frames \in Seq(rows \union {Reset}) /\ frames \in Seq(Nat)
      BY Queued
    <2>2. frames' \in Seq(rows \union {Reset})
      BY <1>1, <1>2, <2>1
    <2>3. frames' \in Seq(Nat)
      BY <1>1, <1>2, <2>1
    <2>4. ToSet(frames') = ToSet(frames) \union {h}
      BY <1>1, <1>2, <2>1, ToSetAppend
    <2>5. \A i \in DOMAIN frames : frames[i] # Reset
      BY <1>1 DEF IInv, OnTheWay
    <2>6. Reset \notin ToSet(frames')
      BY <1>2, <2>4, <2>5 DEF ToSet, Reset
    <2>7. \A i \in DOMAIN frames' : frames'[i] \in ToSet(frames')
      BY <2>2, ToSetIn
    <2> QED
      BY <2>2, <2>3, <2>4, <2>6, <2>7
  <1>4. \A i, j \in DOMAIN backlog' : i < j => backlog'[i] < backlog'[j]
    <2>1. backlog \in Seq(rows) /\ \A i, j \in DOMAIN backlog : i < j => backlog[i] < backlog[j]
      BY Queued DEF IInv, Sorted
    <2>2. \A i \in DOMAIN backlog' : i \in Nat /\ i + 1 \in DOMAIN backlog /\ backlog'[i] = backlog[i + 1]
      BY <1>1, <2>1
    <2>3. \A i, j \in DOMAIN backlog' : i < j => i + 1 < j + 1
      BY <2>2
    <2> QED
      BY <2>1, <2>2, <2>3
  <1>5. h \notin ToSet(backlog')
    <2> SUFFICES ASSUME h \in ToSet(backlog')
                 PROVE  FALSE
      OBVIOUS
    <2>1. backlog \in Seq(rows) /\ rows \subseteq Nat
      BY Queued
    <2>2. PICK i \in DOMAIN backlog' : backlog'[i] = h
      BY DEF ToSet
    <2>3. backlog'[i] = backlog[i + 1] /\ h = backlog[1] /\ 1 < i + 1 /\ {1, i + 1} \subseteq DOMAIN backlog
      BY <1>1, <2>1
    <2>4. backlog[1] < backlog[i + 1]
      BY <2>3 DEF IInv, Sorted
    <2> QED
      BY <1>2, <2>2, <2>3, <2>4
  <1>6. Types' /\ Writing'
    BY <1>1 DEF IInv, Types, Writing, server, client
  <1>7. OnTheWay'
    BY <1>1, <1>2, <1>3 DEF IInv, OnTheWay, server
  <1>8. Phases' /\ Cursor'
    BY <1>1 DEF IInv, Phases, Cursor, client
  <1>9. Sorted' /\ SubscriptionDelivers' /\ ReconnectReplaysNothing'
    BY <1>1, <1>2, <1>3, <1>4, <1>5 DEF IInv, Sorted, SubscriptionDelivers,
       ReconnectReplaysNothing, Holds, client
  <1>10. NothingMissing'
    <2> SUFFICES ASSUME NEW q \in rows, q \notin slipped, q \notin applied, Announced(q)
                 PROVE  Coming(q)'
      BY <1>1 DEF NothingMissing, Announced, server, client
    <2>1. Coming(q) /\ q \in Nat
      BY Queued DEF IInv, NothingMissing
    <2>2. Holds(frames', q) \/ (~Holds(frames, q) /\ q # h)
      BY <1>3 DEF Holds
    <2>3. q # h /\ ~Holds(frames, q) => h <= q /\ Clear(backlog', q)
      BY <1>1, <2>1, Queued, ClearTail DEF Coming
    <2>4. Clear(frames', q)
      <3>1. h <= q \/ q \in ToSet(frames)
        BY <1>2, <2>1, <2>3 DEF Holds
      <3> QED
        BY <1>1, <1>2, <2>1, <3>1, Queued, ClearAppend DEF Coming
    <2>5. Holds(frames, q) => Holds(frames', q)
      BY <1>3 DEF Holds
    <2>6. Holds(backlog, q) => Holds(frames', q) \/ Holds(backlog', q)
      BY <1>2, <1>3 DEF Holds
    <2> QED
      BY <1>1, <2>1, <2>2, <2>3, <2>4, <2>5, <2>6 DEF Coming, Holds, client
  <1> QED
    BY <1>6, <1>7, <1>8, <1>9, <1>10 DEF IInv

LEMMA PumpSubscribeKeeps ==
    ASSUME IInv, PumpSubscribe
    PROVE  IInv'
  <1>1. /\ pump.phase = "replaying" /\ backlog = <<>> /\ pump'.phase = "live"
        /\ pump' \in [phase : {"none", "asked", "replaying", "live"}, from : {0} \union Ids]
        /\ UNCHANGED <<server, client, open, backlog, bus, lagged, frames, owed, slipped, drops>>
    BY DEF PumpSubscribe, Subscribed
  <1>2. Types' /\ Writing'
    BY <1>1 DEF IInv, Types, Writing, server, client
  <1>3. OnTheWay' /\ Phases' /\ Cursor' /\ Sorted'
    BY <1>1 DEF IInv, OnTheWay, Phases, Cursor, Sorted, server, client
  <1>4. SubscriptionDelivers' /\ ReconnectReplaysNothing'
    BY <1>1 DEF IInv, SubscriptionDelivers, ReconnectReplaysNothing, Holds, client
  <1>5. NothingMissing'
    BY <1>1 DEF IInv, NothingMissing, Announced, Coming, Clear, Holds, server, client
  <1> QED
    BY <1>2, <1>3, <1>4, <1>5 DEF IInv

LEMMA PumpLiveKeeps ==
    ASSUME IInv, PumpLive
    PROVE  IInv'
  <1> DEFINE h == Head(bus)
  <1>1. /\ pump.phase = "live" /\ ~lagged /\ bus # <<>> /\ frames' = Append(frames, h)
        /\ bus' = Tail(bus) /\ backlog = <<>>
        /\ UNCHANGED <<server, client, open, pump, backlog, lagged, owed, slipped, drops>>
    BY DEF PumpLive, Send, IInv, Phases
  <1>2. /\ h \in rows /\ h \in Nat \ {0} /\ bus' \in Seq(rows) /\ bus' \in Seq(Nat)
        /\ ToSet(bus) = {h} \union ToSet(bus') /\ Len(bus') <= BusDepth
    <2>1. bus \in Seq(rows)
      BY Queued
    <2>2. h \in rows /\ bus' \in Seq(rows)
      BY <1>1, <2>1
    <2>3. ToSet(bus) = {h} \union ToSet(bus')
      BY <1>1, <2>1, ToSetHead
    <2>4. rows \subseteq Nat \ {0} /\ rows \subseteq Nat
      BY Queued
    <2>5. bus' \in Seq(Nat)
      BY <2>2, <2>4, Wider
    <2>6. Len(bus') <= BusDepth
      <3>1. Len(bus') = Len(bus) - 1 /\ Len(bus) \in Nat /\ BusDepth \in Nat /\ Len(bus) <= BusDepth
        BY <1>1, <2>1, DepthAssumption DEF IInv, Types
      <3> QED
        BY <3>1
    <2> QED
      BY <2>2, <2>3, <2>4, <2>5, <2>6
  <1>3. /\ frames' \in Seq(rows \union {Reset}) /\ ToSet(frames') = ToSet(frames) \union {h}
        /\ \A i \in DOMAIN frames' : frames'[i] # Reset
    <2>1. frames \in Seq(rows \union {Reset})
      BY Queued
    <2>2. frames' \in Seq(rows \union {Reset})
      BY <1>1, <1>2, <2>1
    <2>3. ToSet(frames') = ToSet(frames) \union {h}
      BY <1>1, <1>2, <2>1, ToSetAppend
    <2>4. \A i \in DOMAIN frames : frames[i] # Reset
      BY <1>1 DEF IInv, OnTheWay
    <2>5. Reset \notin ToSet(frames')
      BY <1>2, <2>3, <2>4 DEF ToSet, Reset
    <2>6. \A i \in DOMAIN frames' : frames'[i] \in ToSet(frames')
      BY <2>2, ToSetIn
    <2> QED
      BY <2>2, <2>3, <2>5, <2>6
  <1>4. Types' /\ Writing'
    BY <1>1, <1>2 DEF IInv, Types, Writing, server, client
  <1>5. OnTheWay'
    BY <1>1, <1>2, <1>3 DEF IInv, OnTheWay, server
  <1>6. Phases' /\ Cursor'
    BY <1>1 DEF IInv, Phases, Cursor, client
  <1>7. Sorted' /\ SubscriptionDelivers' /\ ReconnectReplaysNothing'
    BY <1>1, <1>2, <1>3, ToSetEmpty DEF IInv, Sorted, SubscriptionDelivers,
       ReconnectReplaysNothing, Holds, client
  <1>8. NothingMissing'
    <2> SUFFICES ASSUME NEW q \in rows, q \notin slipped, q \notin applied, Announced(q)
                 PROVE  Coming(q)'
      BY <1>1 DEF NothingMissing, Announced, server, client
    <2>1. Coming(q) /\ q \in Nat
      BY Queued DEF IInv, NothingMissing
    <2>2. q # h /\ ~Holds(frames, q) => h <= q /\ Clear(bus', q)
      BY <1>1, <2>1, Queued, ClearTail DEF Coming
    <2>3. Clear(frames', q)
      <3>1. h <= q \/ q \in ToSet(frames)
        BY <1>2, <2>1, <2>2 DEF Holds
      <3> QED
        BY <1>1, <1>2, <2>1, <3>1, Queued, ClearAppend DEF Coming
    <2>4. Clear(backlog, q)
      BY <1>1, ClearEmpty
    <2>5. Holds(frames', q) \/ (~Holds(frames, q) /\ q # h)
      BY <1>3 DEF Holds
    <2>6. Holds(frames', q) \/ Holds(bus', q)
      BY <1>1, <1>2, <1>3, <2>1, ToSetEmpty DEF Holds, Coming
    <2> QED
      BY <1>1, <2>1, <2>2, <2>3, <2>4, <2>5, <2>6 DEF Coming, Holds, client
  <1> QED
    BY <1>4, <1>5, <1>6, <1>7, <1>8 DEF IInv

LEMMA PumpResetKeeps ==
    ASSUME IInv, PumpReset
    PROVE  IInv'
  <1>1. /\ pump.phase = "live" /\ frames' = Append(frames, Reset) /\ pump' = NoPump
        /\ bus' = <<>> /\ ~lagged' /\ lagged' \in BOOLEAN /\ owed' = {} /\ backlog = <<>> /\ open
        /\ UNCHANGED <<server, client, open, backlog, slipped, drops>>
    BY DEF PumpReset, Send, IInv, Phases, Types
  <1>2. /\ frames' \in Seq(rows \union {Reset}) /\ ToSet(frames') = ToSet(frames) \union {Reset}
        /\ \A i \in DOMAIN frames' : frames'[i] = Reset => i = Len(frames')
    <2>1. frames \in Seq(rows \union {Reset})
      BY Queued
    <2>2. frames' \in Seq(rows \union {Reset})
      BY <1>1, <2>1
    <2>3. ToSet(frames') = ToSet(frames) \union {Reset}
      BY <1>1, <2>1, ToSetAppend
    <2>4. \A i \in DOMAIN frames : frames[i] # Reset
      BY <1>1 DEF IInv, OnTheWay
    <2>5. \A i \in DOMAIN frames' : i = Len(frames') \/ (i \in DOMAIN frames /\ frames'[i] = frames[i])
      BY <1>1, <2>1
    <2> QED
      BY <2>2, <2>3, <2>4, <2>5
  <1>3. Types' /\ Writing'
    <2>1. Len(bus') <= BusDepth
      BY <1>1, DepthAssumption
    <2> QED
      BY <1>1, <2>1 DEF IInv, Types, Writing, NoPump, server, client
  <1>4. OnTheWay' /\ Phases' /\ Cursor'
    <2>1. <<>> \in Seq(rows)
      OBVIOUS
    <2> QED
      BY <1>1, <1>2, <2>1 DEF IInv, OnTheWay, Phases, Cursor, NoPump, server, client
  <1>5. Sorted' /\ SubscriptionDelivers' /\ ReconnectReplaysNothing'
    BY <1>1, ToSetEmpty DEF IInv, Sorted, SubscriptionDelivers, ReconnectReplaysNothing, client
  <1>6. NothingMissing'
    <2> SUFFICES ASSUME NEW q \in rows, q \notin slipped, q \notin applied, Announced(q)
                 PROVE  Coming(q)'
      BY <1>1 DEF NothingMissing, Announced, server, client
    <2>1. Coming(q) /\ q \in Nat /\ Reset \in Nat /\ Reset <= q
      BY Queued DEF IInv, NothingMissing, Reset
    <2>2. Clear(frames', q)
      BY <1>1, <2>1, Queued, ClearAppend DEF Coming
    <2> QED
      BY <1>1, <2>1, <2>2, ClearEmpty DEF Coming, NoPump, client
  <1> QED
    BY <1>3, <1>4, <1>5, <1>6 DEF IInv

\* A subscription starts with nothing on its way.
LEMMA Subscribes ==
    ASSUME IInv, pump' = Subscription, pump.phase = "none", frames' = <<>>, open' = TRUE,
           UNCHANGED <<server, client, backlog, bus, lagged, owed, slipped>>
    PROVE  IInv'
  <1>1. backlog = <<>> /\ bus = <<>> /\ ~lagged /\ owed = {}
    BY DEF IInv, Phases
  <1>2. /\ pump' \in [phase : {"none", "asked", "replaying", "live"}, from : {0} \union Ids]
        /\ IF seen = Never THEN pump'.phase = "replaying"
                           ELSE pump'.phase = "asked" /\ pump'.from = seen
    <2>1. seen = Never \/ seen \in Ids
      BY DEF IInv, Types
    <2> QED
      BY <2>1 DEF Subscription
  <1>3. Types' /\ Writing'
    BY <1>2 DEF IInv, Types, Writing, server, client
  <1>4. OnTheWay' /\ Phases' /\ Cursor'
    <2>1. <<>> \in Seq(rows \union {Reset})
      OBVIOUS
    <2> QED
      BY <1>1, <1>2, <2>1 DEF IInv, OnTheWay, Phases, Cursor, server, client
  <1>5. Sorted' /\ SubscriptionDelivers' /\ ReconnectReplaysNothing'
    BY <1>1, ToSetEmpty DEF IInv, Sorted, SubscriptionDelivers, ReconnectReplaysNothing, client
  <1>6. NothingMissing'
    <2> SUFFICES ASSUME NEW q \in rows, q \notin slipped, q \notin applied, Announced(q)
                 PROVE  Coming(q)'
      BY DEF NothingMissing, Announced, server, client
    <2>1. Coming(q)
      BY DEF IInv, NothingMissing
    <2> QED
      BY <1>1, <1>2, <2>1, ClearEmpty DEF Coming, client
  <1> QED
    BY <1>3, <1>4, <1>5, <1>6 DEF IInv

LEMMA ConnectKeeps ==
    ASSUME IInv, Connect
    PROVE  IInv'
  <1>1. pump.phase = "none" /\ frames' = <<>>
    BY DEF Connect, IInv, Phases
  <1> QED
    BY <1>1, Subscribes DEF Connect

LEMMA HandleResetKeeps ==
    ASSUME IInv, HandleReset
    PROVE  IInv'
  <1>1. frames \in Seq(rows \union {Reset}) /\ frames # <<>> /\ Head(frames) = Reset
    BY Queued DEF HandleReset
  <1>2. 1 \in DOMAIN frames /\ frames[1] = Reset
    BY <1>1
  <1>3. 1 = Len(frames) /\ pump.phase = "none"
    BY <1>2 DEF IInv, OnTheWay
  <1>4. frames' = <<>>
    BY <1>1, <1>3 DEF HandleReset
  <1>5. open
    BY <1>1 DEF IInv, Phases
  <1>6. open' = TRUE
    BY <1>5 DEF HandleReset, IInv, Types
  <1> QED
    BY <1>3, <1>4, <1>6, Subscribes DEF HandleReset

LEMMA DisconnectKeeps ==
    ASSUME IInv, Disconnect
    PROVE  IInv'
  <1>1. /\ ~open' /\ open' \in BOOLEAN /\ pump' = NoPump /\ backlog' = <<>> /\ bus' = <<>> /\ frames' = <<>>
        /\ ~lagged' /\ lagged' \in BOOLEAN /\ owed' = {} /\ UNCHANGED <<server, client, slipped>>
    BY DEF Disconnect
  <1>2. Types' /\ Writing'
    <2>1. Len(bus') <= BusDepth
      BY <1>1, DepthAssumption
    <2> QED
      BY <1>1, <2>1 DEF IInv, Types, Writing, NoPump, server, client
  <1>3. OnTheWay' /\ Phases' /\ Cursor'
    <2>1. <<>> \in Seq(rows \union {Reset}) /\ <<>> \in Seq(rows)
      OBVIOUS
    <2> QED
      BY <1>1, <2>1 DEF IInv, OnTheWay, Phases, Cursor, NoPump, server, client
  <1>4. Sorted' /\ SubscriptionDelivers' /\ ReconnectReplaysNothing'
    BY <1>1, ToSetEmpty DEF Sorted, SubscriptionDelivers, ReconnectReplaysNothing
  <1>5. NothingMissing'
    <2> SUFFICES ASSUME NEW q \in rows, q \notin slipped, q \notin applied, Announced(q)
                 PROVE  Coming(q)'
      BY <1>1 DEF NothingMissing, Announced, server, client
    <2>1. Coming(q)
      BY DEF IInv, NothingMissing
    <2> QED
      BY <1>1, <2>1, ClearEmpty DEF Coming, NoPump, client
  <1> QED
    BY <1>2, <1>3, <1>4, <1>5 DEF IInv

LEMMA HandleEventKeeps ==
    ASSUME IInv, HandleEvent
    PROVE  IInv'
  <1> DEFINE h == Head(frames)
  <1>1. /\ frames # <<>> /\ h # Reset /\ frames' = Tail(frames)
        /\ seen' = Larger(seen, h) /\ applied' = applied \union {h}
        /\ UNCHANGED <<server, open, pump, backlog, bus, lagged, owed, slipped, drops>>
    BY DEF HandleEvent, OnEvent
  <1>2. /\ h \in rows /\ h \in Nat \ {0} /\ frames' \in Seq(rows \union {Reset})
        /\ ToSet(frames) = {h} \union ToSet(frames')
        /\ \A i \in DOMAIN frames' : frames'[i] = Reset => i = Len(frames') /\ pump.phase = "none"
    <2>1. frames \in Seq(rows \union {Reset})
      BY Queued
    <2>2. h \in rows \union {Reset} /\ frames' \in Seq(rows \union {Reset})
      BY <1>1, <2>1
    <2>3. ToSet(frames) = {h} \union ToSet(frames')
      BY <1>1, <2>1, ToSetHead
    <2>4. h \in rows /\ h \in Nat \ {0}
      BY <1>1, <2>2, Queued
    <2>5. Len(frames') = Len(frames) - 1
      BY <1>1, <2>1
    <2>6. \A i \in DOMAIN frames' : i \in Nat /\ i + 1 \in DOMAIN frames /\ frames'[i] = frames[i + 1]
      BY <1>1, <2>1
    <2>7. Len(frames) \in Nat
      BY <2>1
    <2>8. \A i \in DOMAIN frames' : frames'[i] = Reset => i = Len(frames') /\ pump.phase = "none"
      <3> SUFFICES ASSUME NEW i \in DOMAIN frames', frames'[i] = Reset
                   PROVE  i = Len(frames') /\ pump.phase = "none"
        OBVIOUS
      <3>1. i + 1 = Len(frames) /\ pump.phase = "none"
        BY <2>6 DEF IInv, OnTheWay
      <3> QED
        BY <2>5, <2>6, <2>7, <3>1
    <2> QED
      BY <2>2, <2>3, <2>4, <2>8
  <1>3. /\ seen' \in {seen, h} /\ seen' >= h /\ seen' >= seen /\ seen' # Never /\ seen' \in applied'
    BY <1>1, <1>2, Queued DEF Larger, Never
  <1> HIDE DEF h
  <1>4. Types' /\ Writing'
    <2>1. seen' \in {Never} \union Ids /\ applied' \subseteq rows
      BY <1>1, <1>2, <1>3 DEF IInv, Types
    <2> QED
      BY <1>1, <2>1 DEF IInv, Types, Writing, server
  <1>5. OnTheWay'
    BY <1>1, <1>2 DEF IInv, OnTheWay, server
  <1>6. Phases'
    BY <1>1 DEF IInv, Phases
  <1>7. Cursor'
    <2>1. \A q \in applied' : q <= seen'
      <3>1. \A q \in applied : q \in Nat /\ q <= seen
        BY Queued DEF IInv, Cursor
      <3>2. seen \in Int /\ seen' \in Int /\ h \in Int
        BY <1>2, <1>3, Queued
      <3> QED
        BY <1>1, <1>3, <3>1, <3>2
    <2> QED
      BY <1>3, <2>1 DEF Cursor
  <1>8. Sorted' /\ SubscriptionDelivers' /\ ReconnectReplaysNothing'
    BY <1>1, <1>2 DEF IInv, Sorted, SubscriptionDelivers, ReconnectReplaysNothing, Holds
  <1>9. NothingMissing'
    <2> SUFFICES ASSUME NEW q \in rows, q \notin slipped, q \notin applied, q # h, Announced(q)
                 PROVE  Coming(q)'
      BY <1>1 DEF NothingMissing, Announced, server
    <2>1. Coming(q) /\ q \in Nat
      BY Queued DEF IInv, NothingMissing
    <2>2. h <= q /\ Clear(frames', q)
      BY <1>1, <2>1, Queued, ClearTail DEF Coming, h
    <2>3. seen' < q
      BY <1>2, <1>3, <2>1, <2>2, Queued DEF Coming
    <2>4. Holds(frames, q) => Holds(frames', q)
      BY <1>2 DEF Holds
    <2> QED
      BY <1>1, <1>3, <2>1, <2>2, <2>3, <2>4 DEF Coming, Holds
  <1> QED
    BY <1>4, <1>5, <1>6, <1>7, <1>8, <1>9 DEF IInv

LEMMA NextKeeps == IInv /\ [Next]_vars => IInv'
  <1> SUFFICES ASSUME IInv, [Next]_vars
               PROVE  IInv'
    OBVIOUS
  <1>1. ASSUME NEW w \in Writers, Insert(w) \/ Commit(w) \/ Announce(w)
        PROVE  IInv'
    BY <1>1, InsertKeeps, CommitKeeps, AnnounceKeeps
  <1>2. CASE Pump \/ PumpReadFails
    BY <1>2, PumpReadKeeps, PumpReadFailsKeeps, PumpReplayKeeps, PumpSubscribeKeeps,
       PumpLiveKeeps, PumpResetKeeps DEF Pump
  <1>3. CASE Connect \/ Disconnect \/ HandleEvent \/ HandleReset
    BY <1>3, ConnectKeeps, DisconnectKeeps, HandleEventKeeps, HandleResetKeeps
  <1>4. CASE UNCHANGED vars
    <2>1. /\ rows' = rows /\ Types' /\ Writing'
          /\ UNCHANGED <<open, pump, backlog, bus, lagged, frames, client, owed>>
      BY <1>4 DEF vars, server, client, IInv, Types, Writing
    <2>2. NothingMissing'
      BY <1>4 DEF vars, server, client, IInv, NothingMissing, Announced, Coming, Clear, Holds
    <2> QED
      BY <2>1, <2>2, QueuesKept DEF IInv
  <1> QED
    BY <1>1, <1>2, <1>3, <1>4 DEF Next

LEMMA IInvHolds == Spec => []IInv
  BY InitInv, NextKeeps, PTL DEF Spec

-----------------------------------------------------------------------------

\* The types of the log, the subscription, the queues and the client, and that a
\* receiver is never further behind than the bus is deep.
THEOREM TypeCorrect == Spec => []TypeOK
  <1>1. IInv => TypeOK
    <2> SUFFICES ASSUME IInv
                 PROVE  TypeOK
      OBVIOUS
    <2>1. rows \subseteq Ids /\ rows \union {Reset} \subseteq Ids \union {Reset}
      BY DEF IInv, Types
    <2>2. backlog \in Seq(Ids) /\ bus \in Seq(Ids) /\ frames \in Seq(Ids \union {Reset})
      BY <2>1, Queued, Wider
    <2> QED
      BY <2>2 DEF IInv, Types, TypeOK
  <1> QED
    BY <1>1, IInvHolds, PTL

\* What a subscription took on is applied or still in hand, unless it has fallen
\* a bus behind: for every number of writers, depth of the bus and of the socket.
THEOREM TakenOnIsDelivered == Spec => []SubscriptionDelivers
  <1>1. IInv => SubscriptionDelivers
    BY DEF IInv
  <1> QED
    BY <1>1, IInvHolds, PTL

\* No backlog holds an event the client has applied.
THEOREM NothingIsReplayed == Spec => []ReconnectReplaysNothing
  <1>1. IInv => ReconnectReplaysNothing
    BY DEF IInv
  <1> QED
    BY <1>1, IInvHolds, PTL

\* Of the rows below the client's cursor, announced and no longer on their way,
\* it has applied every one but those that slipped.
THEOREM NoGapIsLeft == Spec => []ReconnectLeavesNoGap
  <1>1. IInv => ReconnectLeavesNoGap
    <2> SUFFICES ASSUME IInv, NEW q \in rows \ slipped, q < seen,
                        \A w \in Writers : writing[w].id # q, q \notin applied
                 PROVE  FALSE
      BY DEF ReconnectLeavesNoGap
    <2>1. Coming(q)
      BY DEF IInv, NothingMissing, Announced
    <2>2. q \in Nat /\ seen \in Int
      BY Queued
    <2> QED
      BY <2>1, <2>2 DEF Coming
  <1> QED
    BY <1>1, IInvHolds, PTL

\* The cursor never goes past a row it will not get: an announced row that has
\* not slipped is applied or newer than everything the client has seen.
THEOREM CursorWaits ==
    Spec => [](\A q \in rows \ slipped : Announced(q) => q \in applied \/ seen < q)
  <1>1. IInv => (\A q \in rows \ slipped : Announced(q) => q \in applied \/ seen < q)
    BY DEF IInv, NothingMissing, Coming
  <1> QED
    BY <1>1, IInvHolds, PTL
=============================================================================
