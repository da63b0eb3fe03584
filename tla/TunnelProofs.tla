----------------------------- MODULE TunnelProofs -----------------------------
(***************************************************************************)
(* Proofs about Tunnel: its type invariant, that a tunnel which is carried *)
(* has its whole window, of every size, and that one which is given up     *)
(* always has something on its way that closes it.                         *)
(***************************************************************************)
EXTENDS Tunnel, QueueProofs

Frames == {OpenIt, CloseIt} \cup {Credit(n) : n \in 1..Chunk}

Units(s) == [i \in DOMAIN s |-> s[i].units]

\* Whoever has some of the window, all of them together.
Held == left + reader.budget + Total(bulk) + routing + Total(pieces) + Total(Credits)

\* The request opens one tunnel, and the worker hears of nothing before that.
OpensOnce ==
    /\ asker = "none" => toWorker = <<>> /\ control = <<>> /\ bulk = <<>> /\ opening = "none"
    /\ (asker # "none" /\ opening = "none") => toWorker # <<>> /\ Head(toWorker) = OpenIt
    /\ \A i \in DOMAIN toWorker : toWorker[i] = OpenIt => i = 1 /\ opening = "none"

\* There is no reader before the tunnel is connected, only one that reads has
\* claimed anything, and a tunnel is in the table once it has been opened.
ReaderStands ==
    /\ reader \in [at : {"off", "claim", "looked", "parked", "reading", "ending", "forgotten", "over"},
                   budget : 0..Chunk]
    /\ reader.at # "reading" => reader.budget = 0
    /\ opening \in {"none", "connecting", "connected"} => reader = Off
    /\ table => opening = "over"

\* The request has not left, and the worker has not struck the tunnel off.
Carried ==
    /\ asker \in {"none", "asking", "reading"}
    /\ asker = "none" \/ entry # "none"
    /\ table \/ opening # "over"

\* Bytes and credit are dropped with a tunnel, and never made.
WindowKept == Held <= Window /\ (Carried => Held = Window)

\* TypeOK, but for the bound on what may still be sent, which is the window's.
Typed ==
    /\ asker \in {"none", "asking", "reading", "leaving", "gone", "finished"}
    /\ told \in {"nothing", "ok", "refused"} /\ (told # "nothing" => asker = "asking")
    /\ entry \in {"none", "waiting", "answered"}
    /\ (asker = "reading" => entry # "waiting") /\ (told # "nothing" => entry # "waiting")
    /\ routing \in 0..Chunk /\ pieces \in Seq(1..Chunk) /\ bulk \in Seq(1..Chunk) /\ Len(pieces) <= Pieces
    /\ toWorker \in Seq(Frames)
    /\ control \in Seq({"ok", "refused", "closed"})
    /\ opening \in {"none", "connecting", "connected", "spawned", "over"}
    /\ table \in BOOLEAN /\ left \in Nat

IInv == Typed /\ OpensOnce /\ ReaderStands /\ WindowKept

-----------------------------------------------------------------------------
(* Amounts *)

LEMMA WindowNat == Window \in Nat /\ Chunk \in Nat \ {0} /\ Pieces \in Nat
  BY SizesAssumption DEF Window, Pieces

LEMMA FramesUnits == \A f \in Frames : f.units \in Nat
  BY SizesAssumption DEF Frames, OpenIt, CloseIt, Credit

LEMMA UnitsNat ==
    ASSUME NEW s \in Seq(Frames)
    PROVE  Total(Units(s)) \in Nat
  <1>1. Units(s) \in Seq(Nat)
    BY FramesUnits DEF Units
  <1> QED
    BY <1>1, TotalNat

LEMMA UnitsAppend ==
    ASSUME NEW s \in Seq(Frames), NEW f \in Frames
    PROVE  Total(Units(Append(s, f))) = Total(Units(s)) + f.units
  <1>1. Units(s) \in Seq(Nat) /\ f.units \in Nat
    BY FramesUnits DEF Units
  <1>2. Units(Append(s, f)) = Append(Units(s), f.units)
    BY FramesUnits DEF Units
  <1> QED
    BY <1>1, <1>2, TotalAppend

LEMMA UnitsTail ==
    ASSUME NEW s \in Seq(Frames), s # <<>>
    PROVE  Total(Units(s)) = Head(s).units + Total(Units(Tail(s)))
  <1>1. Units(s) \in Seq(Nat) /\ Units(s) # <<>> /\ Head(Units(s)) = Head(s).units
    BY FramesUnits DEF Units
  <1>2. Units(Tail(s)) = Tail(Units(s))
    BY FramesUnits DEF Units
  <1> QED
    BY <1>1, <1>2, TotalTail

\* The frames that open and close a tunnel grant nothing.
LEMMA BareFrames ==
    /\ OpenIt \in Frames /\ OpenIt.units = 0
    /\ CloseIt \in Frames /\ CloseIt.units = 0 /\ CloseIt # OpenIt
    /\ \A n \in 1..Chunk : Credit(n) \in Frames /\ Credit(n).units = n /\ Credit(n) # OpenIt
  BY DEF Frames, OpenIt, CloseIt, Credit

LEMMA BareAppend ==
    ASSUME NEW s \in Seq(Frames), NEW f \in {OpenIt, CloseIt}
    PROVE  Append(s, f) \in Seq(Frames) /\ Total(Units(Append(s, f))) = Total(Units(s))
  <1>1. f \in Frames /\ f.units = 0
    BY BareFrames
  <1>2. Total(Units(s)) \in Nat
    BY UnitsNat
  <1>3. Total(Units(Append(s, f))) = Total(Units(s)) + f.units
    BY <1>1, UnitsAppend
  <1>4. Append(s, f) \in Seq(Frames)
    BY <1>1
  <1> QED
    BY <1>1, <1>2, <1>3, <1>4

LEMMA BareTail ==
    ASSUME NEW s \in Seq(Frames), s # <<>>, Head(s) \in {OpenIt, CloseIt}
    PROVE  Total(Units(Tail(s))) = Total(Units(s))
  <1>1. Head(s).units = 0
    BY BareFrames
  <1>2. Tail(s) \in Seq(Frames)
    OBVIOUS
  <1>3. Total(Units(Tail(s))) \in Nat
    BY <1>2, UnitsNat
  <1> QED
    BY <1>1, <1>3, UnitsTail

LEMMA ChunksNat ==
    ASSUME NEW s \in Seq(1..Chunk)
    PROVE  s \in Seq(Nat) /\ Total(s) \in Nat
  <1>1. 1..Chunk \subseteq Nat
    OBVIOUS
  <1>2. s \in Seq(Nat)
    BY <1>1, Wider
  <1> QED
    BY <1>2, TotalNat

LEMMA ChunksTail ==
    ASSUME NEW s \in Seq(1..Chunk), s # <<>>
    PROVE  /\ Head(s) \in 1..Chunk /\ Tail(s) \in Seq(1..Chunk)
           /\ Total(s) = Head(s) + Total(Tail(s))
  <1>1. s \in Seq(Nat)
    BY ChunksNat
  <1>2. Head(s) \in 1..Chunk /\ Tail(s) \in Seq(1..Chunk)
    <2> DEFINE S == 1..Chunk
    <2>1. s \in Seq(S)
      OBVIOUS
    <2> HIDE DEF S
    <2>2. Head(s) \in S /\ Tail(s) \in Seq(S)
      BY <2>1
    <2> QED
      BY <2>2 DEF S
  <1> QED
    BY <1>1, <1>2, TotalTail

\* What the window is shared among.
Shares ==
    /\ left \in Nat /\ routing \in Nat /\ reader.budget \in Nat
    /\ Total(bulk) \in Nat /\ Total(pieces) \in Nat /\ Total(Units(toWorker)) \in Nat
    /\ Held = left + reader.budget + Total(bulk) + routing + Total(pieces) + Total(Units(toWorker))

LEMMA Amounts ==
    ASSUME Typed, ReaderStands
    PROVE  Shares
  <1>1. left \in Nat /\ routing \in Nat
    BY WindowNat DEF Typed
  <1>2. reader.budget \in Nat
    BY WindowNat DEF ReaderStands
  <1>3. Total(bulk) \in Nat /\ Total(pieces) \in Nat /\ Total(Units(toWorker)) \in Nat
    BY ChunksNat, UnitsNat DEF Typed
  <1> QED
    BY <1>1, <1>2, <1>3 DEF Shares, Held, Credits, Units

LEMMA AmountsNext ==
    ASSUME Typed', ReaderStands'
    PROVE  Shares'
  <1>1. left' \in Nat /\ routing' \in Nat
    BY WindowNat DEF Typed
  <1>2. reader'.budget \in Nat
    BY WindowNat DEF ReaderStands
  <1>3. Total(bulk') \in Nat /\ Total(pieces') \in Nat /\ Total(Units(toWorker')) \in Nat
    BY ChunksNat, UnitsNat DEF Typed
  <1> QED
    BY <1>1, <1>2, <1>3 DEF Shares, Held, Credits, Units

LEMMA StepKeeps ==
    ASSUME IInv, Typed', OpensOnce', ReaderStands',
           Held' <= Held, Carried' => Carried /\ Held' = Held
    PROVE  IInv'
  <1>1. Held \in Nat
    BY Amounts DEF IInv, Shares
  <1>2. Held' \in Nat
    BY AmountsNext DEF Shares
  <1> QED
    BY <1>1, <1>2, WindowNat DEF IInv, WindowKept

-----------------------------------------------------------------------------
(* Frames to the worker *)

LEMMA OpensAppend ==
    ASSUME NEW s \in Seq(Frames), NEW f \in Frames, f # OpenIt
    PROVE  /\ Append(s, f) # <<>> /\ (s # <<>> => Head(Append(s, f)) = Head(s))
           /\ \A i \in DOMAIN Append(s, f) : Append(s, f)[i] = OpenIt => i \in DOMAIN s /\ s[i] = OpenIt
  OBVIOUS

LEMMA OpensTail ==
    ASSUME NEW s \in Seq(Frames), s # <<>>
    PROVE  \A i \in DOMAIN Tail(s) : i + 1 \in DOMAIN s /\ i + 1 # 1 /\ Tail(s)[i] = s[i + 1]
  OBVIOUS

\* A frame that opens nothing is sent, or nothing is.
LEMMA OpensOnceSending ==
    ASSUME IInv, NEW f \in Frames, f # OpenIt,
           toWorker' = Append(toWorker, f) \/ toWorker' = toWorker,
           opening' = opening, asker # "none", asker' # "none"
    PROVE  OpensOnce'
  <1>1. toWorker \in Seq(Frames)
    BY DEF IInv, Typed
  <1>2. CASE toWorker' = toWorker
    BY <1>2 DEF IInv, OpensOnce
  <1>3. CASE toWorker' = Append(toWorker, f)
    BY <1>1, <1>3, OpensAppend DEF IInv, OpensOnce
  <1> QED
    BY <1>2, <1>3

\* The worker hears a frame.
LEMMA OpensOnceServing ==
    ASSUME IInv, NEW f, Serving(f), asker' = asker,
           opening' = IF f = OpenIt THEN "connecting" ELSE opening
    PROVE  OpensOnce' /\ asker # "none" /\ (f # OpenIt => opening = "over")
  <1>1. toWorker \in Seq(Frames) /\ toWorker # <<>> /\ toWorker' = Tail(toWorker) /\ Head(toWorker) = f
    BY DEF IInv, Typed, Serving
  <1>2. asker # "none" /\ (f # OpenIt => opening = "over")
    BY <1>1 DEF IInv, OpensOnce, Serving
  <1>3. \A i \in DOMAIN toWorker' : toWorker'[i] # OpenIt
    BY <1>1, OpensTail DEF IInv, OpensOnce
  <1> QED
    BY <1>2, <1>3 DEF OpensOnce

-----------------------------------------------------------------------------

LEMMA InitInv == Init => IInv
  <1> SUFFICES ASSUME Init
               PROVE  IInv
    OBVIOUS
  <1> USE DEF Init
  <1>1. Typed
    <2>1. <<>> \in Seq(1..Chunk) /\ <<>> \in Seq(Frames) /\ <<>> \in Seq({"ok", "refused", "closed"})
      OBVIOUS
    <2>2. 0 \in 0..Chunk /\ Len(<<>>) <= Pieces
      BY WindowNat
    <2>3. left \in Nat
      BY WindowNat
    <2> QED
      BY <2>1, <2>2, <2>3 DEF Typed
  <1>2. OpensOnce /\ ReaderStands
    BY WindowNat DEF OpensOnce, ReaderStands, Off
  <1>3. Total(bulk) = 0 /\ Total(pieces) = 0 /\ Total(Credits) = 0
    <2>1. Credits = <<>>
      BY DEF Credits
    <2> QED
      BY <2>1, TotalEmpty
  <1>4. Held = Window
    BY <1>3, WindowNat DEF Held, Off
  <1> QED
    BY <1>1, <1>2, <1>4, WindowNat DEF IInv, WindowKept

LEMMA OpenKeeps ==
    ASSUME IInv, Open
    PROVE  IInv'
  <1> USE DEF Open, ask, wire, worker, counts
  <1>1. toWorker' \in Seq(Frames) /\ Total(Units(toWorker')) = Total(Units(toWorker))
    BY BareAppend DEF IInv, Typed
  <1>2. Typed'
    BY <1>1, WindowNat DEF IInv, Typed, OpensOnce, ReaderStands, OpenIt
  <1>3. OpensOnce'
    BY DEF IInv, Typed, OpensOnce, OpenIt
  <1>4. ReaderStands'
    BY <1>1, WindowNat DEF IInv, Typed, OpensOnce, ReaderStands, Off, OpenIt
  <1>5. Held' = Held /\ Held' <= Held
    <2>1. UNCHANGED <<left, reader, bulk, routing, pieces>>
      OBVIOUS
    <2>2. Shares
      BY Amounts DEF IInv
    <2>3. Shares'
      BY <1>2, <1>4, AmountsNext
    <2> QED
      BY <1>1, <2>1, <2>2, <2>3 DEF Shares
  <1>6. Carried' => Carried /\ Held' = Held
    BY <1>5 DEF IInv, Typed, OpensOnce, ReaderStands, Carried
  <1> QED
    BY <1>2, <1>3, <1>4, <1>5, <1>6, StepKeeps

LEMMA HearsKeeps ==
    ASSUME IInv, Hears
    PROVE  IInv'
  <1> USE DEF Hears, ask, wire, worker, counts
  <1>2. Typed'
    BY WindowNat DEF IInv, Typed, OpensOnce, ReaderStands
  <1>3. OpensOnce'
    BY DEF IInv, Typed, OpensOnce
  <1>4. ReaderStands'
    BY WindowNat DEF IInv, Typed, OpensOnce, ReaderStands, Off
  <1>5. Held' = Held /\ Held' <= Held
    <2>1. UNCHANGED <<left, reader, bulk, routing, pieces, toWorker>>
      OBVIOUS
    <2>2. Shares
      BY Amounts DEF IInv
    <2>3. Shares'
      BY <1>2, <1>4, AmountsNext
    <2> QED
      BY <2>1, <2>2, <2>3 DEF Shares
  <1>6. Carried' => Carried /\ Held' = Held
    BY <1>5 DEF IInv, Typed, OpensOnce, ReaderStands, Carried
  <1> QED
    BY <1>2, <1>3, <1>4, <1>5, <1>6, StepKeeps

LEMMA TimesOutKeeps ==
    ASSUME IInv, TimesOut
    PROVE  IInv'
  <1> USE DEF TimesOut, ask, wire, worker, counts
  <1>1. toWorker' \in Seq(Frames) /\ Total(Units(toWorker')) = Total(Units(toWorker))
    BY BareAppend DEF IInv, Typed
  <1>2. Typed'
    BY <1>1, WindowNat DEF IInv, Typed, OpensOnce, ReaderStands
  <1>3. OpensOnce'
    BY OpensOnceSending, BareFrames DEF IInv, Typed
  <1>4. ReaderStands'
    BY <1>1, WindowNat DEF IInv, Typed, OpensOnce, ReaderStands, Off
  <1>5. Held' = Held /\ Held' <= Held
    <2>1. UNCHANGED <<left, reader, bulk, routing, pieces>>
      OBVIOUS
    <2>2. Shares
      BY Amounts DEF IInv
    <2>3. Shares'
      BY <1>2, <1>4, AmountsNext
    <2> QED
      BY <1>1, <2>1, <2>2, <2>3 DEF Shares
  <1>6. Carried' => Carried /\ Held' = Held
    BY <1>5 DEF IInv, Typed, OpensOnce, ReaderStands, Carried
  <1> QED
    BY <1>2, <1>3, <1>4, <1>5, <1>6, StepKeeps

LEMMA DroppedKeeps ==
    ASSUME IInv, Dropped
    PROVE  IInv'
  <1> USE DEF Dropped, ask, wire, worker, counts
  <1>2. Typed'
    BY WindowNat DEF IInv, Typed, OpensOnce, ReaderStands
  <1>3. OpensOnce'
    BY DEF IInv, Typed, OpensOnce
  <1>4. ReaderStands'
    BY WindowNat DEF IInv, Typed, OpensOnce, ReaderStands, Off
  <1>5. Held' = Held /\ Held' <= Held
    <2>1. UNCHANGED <<left, reader, bulk, routing, pieces, toWorker>>
      OBVIOUS
    <2>2. Shares
      BY Amounts DEF IInv
    <2>3. Shares'
      BY <1>2, <1>4, AmountsNext
    <2> QED
      BY <2>1, <2>2, <2>3 DEF Shares
  <1>6. Carried' => Carried /\ Held' = Held
    BY <1>5 DEF IInv, Typed, OpensOnce, ReaderStands, Carried
  <1> QED
    BY <1>2, <1>3, <1>4, <1>5, <1>6, StepKeeps

LEMMA RecvKeeps ==
    ASSUME IInv, Recv
    PROVE  IInv'
  <1> USE DEF Recv, ask, wire, worker, counts
  <1>1. /\ Head(pieces) \in 1..Chunk /\ pieces' \in Seq(1..Chunk) /\ Len(pieces') <= Len(pieces)
        /\ toWorker' \in Seq(Frames)
        /\ Total(pieces) = Head(pieces) + Total(pieces')
        /\ Total(Units(toWorker')) = Total(Units(toWorker)) + Head(pieces)
    <2>1. pieces \in Seq(1..Chunk) /\ pieces # <<>> /\ pieces' = Tail(pieces)
          /\ toWorker \in Seq(Frames) /\ toWorker' = Append(toWorker, Credit(Head(pieces)))
      BY DEF IInv, Typed
    <2> HIDE DEF Recv
    <2>2. /\ Head(pieces) \in 1..Chunk /\ pieces' \in Seq(1..Chunk)
          /\ Total(pieces) = Head(pieces) + Total(pieces')
      BY <2>1, ChunksTail
    <2>3. Len(pieces') <= Len(pieces)
      BY <2>1
    <2>4. Credit(Head(pieces)) \in Frames /\ Credit(Head(pieces)).units = Head(pieces)
      BY <2>2, BareFrames
    <2>5. toWorker' \in Seq(Frames)
      BY <2>1, <2>4
    <2>6. Total(Units(toWorker')) = Total(Units(toWorker)) + Head(pieces)
      BY <2>1, <2>4, UnitsAppend
    <2> QED
      BY <2>2, <2>3, <2>5, <2>6
  <1>2. Typed'
    BY <1>1, WindowNat DEF IInv, Typed, OpensOnce, ReaderStands
  <1>3. OpensOnce'
    <2>1. Credit(Head(pieces)) \in Frames /\ Credit(Head(pieces)) # OpenIt
      BY <1>1, BareFrames
    <2> QED
      BY <2>1, OpensOnceSending
  <1>4. ReaderStands'
    BY <1>1, WindowNat DEF IInv, Typed, OpensOnce, ReaderStands, Off
  <1>5. Held' = Held /\ Held' <= Held
    <2>1. UNCHANGED <<left, reader, bulk, routing>>
      OBVIOUS
    <2>2. Shares
      BY Amounts DEF IInv
    <2>3. Shares'
      BY <1>2, <1>4, AmountsNext
    <2>4. Head(pieces) \in Nat
      BY <1>1, WindowNat
    <2>5. Total(pieces) = Head(pieces) + Total(pieces') /\ Total(Units(toWorker')) = Total(Units(toWorker)) + Head(pieces)
      BY <1>1
    <2> HIDE DEF Recv, ask, wire, worker, counts
    <2> QED
      BY <2>4, <2>5, <2>1, <2>2, <2>3 DEF Shares
  <1>6. Carried' => Carried /\ Held' = Held
    BY <1>5 DEF IInv, Typed, OpensOnce, ReaderStands, Carried
  <1> QED
    BY <1>2, <1>3, <1>4, <1>5, <1>6, StepKeeps

LEMMA RecvNoneKeeps ==
    ASSUME IInv, RecvNone
    PROVE  IInv'
  <1> USE DEF RecvNone, ask, wire, worker, counts
  <1>2. Typed'
    BY WindowNat DEF IInv, Typed, OpensOnce, ReaderStands
  <1>3. OpensOnce'
    BY DEF IInv, Typed, OpensOnce
  <1>4. ReaderStands'
    BY WindowNat DEF IInv, Typed, OpensOnce, ReaderStands, Off
  <1>5. Held' = Held /\ Held' <= Held
    <2>1. UNCHANGED <<left, reader, bulk, routing, pieces, toWorker>>
      OBVIOUS
    <2>2. Shares
      BY Amounts DEF IInv
    <2>3. Shares'
      BY <1>2, <1>4, AmountsNext
    <2> QED
      BY <2>1, <2>2, <2>3 DEF Shares
  <1>6. Carried' => Carried /\ Held' = Held
    BY <1>5 DEF IInv, Typed, OpensOnce, ReaderStands, Carried
  <1> QED
    BY <1>2, <1>3, <1>4, <1>5, <1>6, StepKeeps

LEMMA HangUpKeeps ==
    ASSUME IInv, HangUp
    PROVE  IInv'
  <1> USE DEF HangUp, ask, wire, worker, counts
  <1>1. pieces' \in Seq(1..Chunk) /\ Len(pieces') = 0 /\ Total(pieces') = 0
    BY TotalEmpty
  <1>2. Typed'
    BY <1>1, WindowNat DEF IInv, Typed, OpensOnce, ReaderStands
  <1>3. OpensOnce'
    BY DEF IInv, Typed, OpensOnce
  <1>4. ReaderStands'
    BY <1>1, WindowNat DEF IInv, Typed, OpensOnce, ReaderStands, Off
  <1>5. Held' <= Held
    <2>1. UNCHANGED <<left, reader, bulk, routing, toWorker>>
      OBVIOUS
    <2>2. Shares
      BY Amounts DEF IInv
    <2>3. Shares'
      BY <1>2, <1>4, AmountsNext
    <2>4. /\ Total(Units(toWorker')) = Total(Units(toWorker)) /\ Total(bulk') = Total(bulk)
          /\ left' = left /\ routing' = routing /\ reader'.budget = reader.budget
      BY <2>1
    <2> HIDE DEF HangUp, ask, wire, worker, counts
    <2> QED
      BY <1>1, <2>2, <2>3, <2>4 DEF Shares
  <1>6. Carried' => Carried /\ Held' = Held
    BY <1>5 DEF IInv, Typed, OpensOnce, ReaderStands, Carried
  <1> QED
    BY <1>2, <1>3, <1>4, <1>5, <1>6, StepKeeps

LEMMA SayCloseKeeps ==
    ASSUME IInv, SayClose
    PROVE  IInv'
  <1> USE DEF SayClose, ask, wire, worker, counts
  <1>1. toWorker' \in Seq(Frames) /\ Total(Units(toWorker')) = Total(Units(toWorker))
    BY BareAppend DEF IInv, Typed
  <1>2. Typed'
    BY <1>1, WindowNat DEF IInv, Typed, OpensOnce, ReaderStands
  <1>3. OpensOnce'
    BY OpensOnceSending, BareFrames DEF IInv, Typed
  <1>4. ReaderStands'
    BY <1>1, WindowNat DEF IInv, Typed, OpensOnce, ReaderStands, Off
  <1>5. Held' = Held /\ Held' <= Held
    <2>1. UNCHANGED <<left, reader, bulk, routing, pieces>>
      OBVIOUS
    <2>2. Shares
      BY Amounts DEF IInv
    <2>3. Shares'
      BY <1>2, <1>4, AmountsNext
    <2> QED
      BY <1>1, <2>1, <2>2, <2>3 DEF Shares
  <1>6. Carried' => Carried /\ Held' = Held
    BY <1>5 DEF IInv, Typed, OpensOnce, ReaderStands, Carried
  <1> QED
    BY <1>2, <1>3, <1>4, <1>5, <1>6, StepKeeps

LEMMA HearOpenedKeeps ==
    ASSUME IInv, HearOpened
    PROVE  IInv'
  <1> USE DEF HearOpened, ask, wire, worker, counts
  <1>1. toWorker' \in Seq(Frames) /\ Total(Units(toWorker')) = Total(Units(toWorker))
    <2>1. toWorker' = toWorker \/ toWorker' = Append(toWorker, CloseIt)
      OBVIOUS
    <2> QED
      BY <2>1, BareAppend DEF IInv, Typed
  <1>2. Typed'
    BY <1>1, WindowNat DEF IInv, Typed, OpensOnce, ReaderStands
  <1>3. OpensOnce'
    <2>1. asker # "none"
      BY DEF IInv, Typed, OpensOnce
    <2> QED
      BY <2>1, OpensOnceSending, BareFrames
  <1>4. ReaderStands'
    BY <1>1, WindowNat DEF IInv, Typed, OpensOnce, ReaderStands, Off
  <1>5. Held' = Held /\ Held' <= Held
    <2>1. UNCHANGED <<left, reader, bulk, routing, pieces>>
      OBVIOUS
    <2>2. Shares
      BY Amounts DEF IInv
    <2>3. Shares'
      BY <1>2, <1>4, AmountsNext
    <2> QED
      BY <1>1, <2>1, <2>2, <2>3 DEF Shares
  <1>6. Carried' => Carried /\ Held' = Held
    BY <1>5 DEF IInv, Typed, OpensOnce, ReaderStands, Carried
  <1> QED
    BY <1>2, <1>3, <1>4, <1>5, <1>6, StepKeeps

LEMMA HearClosedKeeps ==
    ASSUME IInv, HearClosed
    PROVE  IInv'
  <1> USE DEF HearClosed, ask, wire, worker, counts
  <1>2. Typed'
    BY WindowNat DEF IInv, Typed, OpensOnce, ReaderStands
  <1>3. OpensOnce'
    BY DEF IInv, Typed, OpensOnce
  <1>4. ReaderStands'
    BY WindowNat DEF IInv, Typed, OpensOnce, ReaderStands, Off
  <1>5. Held' = Held /\ Held' <= Held
    <2>1. UNCHANGED <<left, reader, bulk, routing, pieces, toWorker>>
      OBVIOUS
    <2>2. Shares
      BY Amounts DEF IInv
    <2>3. Shares'
      BY <1>2, <1>4, AmountsNext
    <2> QED
      BY <2>1, <2>2, <2>3 DEF Shares
  <1>6. Carried' => Carried /\ Held' = Held
    BY <1>5 DEF IInv, Typed, OpensOnce, ReaderStands, Carried
  <1> QED
    BY <1>2, <1>3, <1>4, <1>5, <1>6, StepKeeps

LEMMA HearDataKeeps ==
    ASSUME IInv, HearData
    PROVE  IInv'
  <1> USE DEF HearData, ask, wire, worker, counts
  <1>1. /\ Head(bulk) \in 1..Chunk /\ bulk' \in Seq(1..Chunk)
        /\ Total(bulk) = Head(bulk) + Total(bulk')
    BY ChunksTail DEF IInv, Typed
  <1>2. Typed'
    BY <1>1, WindowNat DEF IInv, Typed, OpensOnce, ReaderStands
  <1>3. OpensOnce'
    BY DEF IInv, Typed, OpensOnce
  <1>4. ReaderStands'
    BY <1>1, WindowNat DEF IInv, Typed, OpensOnce, ReaderStands, Off
  <1>5. Held' <= Held /\ (entry # "none" => Held' = Held)
    <2>1. UNCHANGED <<left, reader, pieces, toWorker>>
      OBVIOUS
    <2>2. Shares
      BY Amounts DEF IInv
    <2>3. Shares'
      BY <1>2, <1>4, AmountsNext
    <2>5. routing = 0 /\ routing' = IF entry = "none" THEN 0 ELSE Head(bulk)
      OBVIOUS
    <2>6. Head(bulk) \in Nat
      BY <1>1, WindowNat
    <2>7. Total(bulk) = Head(bulk) + Total(bulk')
      BY <1>1
    <2> HIDE DEF HearData, ask, wire, worker, counts
    <2> QED
      BY <2>5, <2>6, <2>7, <2>1, <2>2, <2>3 DEF Shares
  <1>6. Carried' => Carried /\ Held' = Held
    BY <1>5 DEF IInv, Typed, OpensOnce, ReaderStands, Carried
  <1> QED
    BY <1>2, <1>3, <1>4, <1>5, <1>6, StepKeeps

LEMMA HandOverKeeps ==
    ASSUME IInv, HandOver
    PROVE  IInv'
  <1> USE DEF HandOver, Unread, HasRoom, ask, wire, worker, counts
  <1>1. /\ pieces' \in Seq(1..Chunk) /\ Len(pieces') <= Pieces
        /\ Total(pieces') = Total(pieces) + (IF Unread THEN 0 ELSE routing)
    <2>1. pieces \in Seq(1..Chunk) /\ pieces \in Seq(Nat) /\ Total(pieces) \in Nat /\ Len(pieces) <= Pieces
      BY ChunksNat DEF IInv, Typed
    <2>2. routing \in 1..Chunk
      BY WindowNat DEF IInv, Typed
    <2>3. CASE Unread
      BY <2>1, <2>3
    <2>4. CASE ~Unread
      <3>1. pieces' = Append(pieces, routing) /\ Len(pieces) < Pieces
        BY <2>4
      <3>2. Len(pieces) \in Nat /\ Len(pieces') = Len(pieces) + 1 /\ pieces' \in Seq(1..Chunk)
        BY <2>1, <2>2, <3>1
      <3>3. Total(pieces') = Total(pieces) + routing
        BY <2>1, <2>2, <3>1, TotalAppend
      <3> QED
        BY <2>4, <3>1, <3>2, <3>3, WindowNat
    <2> QED
      BY <2>3, <2>4
  <1>2. Typed'
    BY <1>1, WindowNat DEF IInv, Typed, OpensOnce, ReaderStands
  <1>3. OpensOnce'
    BY DEF IInv, Typed, OpensOnce
  <1>4. ReaderStands'
    BY <1>1, WindowNat DEF IInv, Typed, OpensOnce, ReaderStands, Off
  <1>5. Held' <= Held /\ (~Unread => Held' = Held)
    <2>1. UNCHANGED <<left, reader, bulk, toWorker>>
      OBVIOUS
    <2>2. Shares
      BY Amounts DEF IInv
    <2>3. Shares'
      BY <1>2, <1>4, AmountsNext
    <2>5. routing' = 0 /\ Total(pieces') = Total(pieces) + (IF Unread THEN 0 ELSE routing)
      BY <1>1
    <2> HIDE DEF HandOver, HasRoom, Unread, ask, wire, worker, counts
    <2> QED
      BY <2>5, <2>1, <2>2, <2>3 DEF Shares
  <1>6. Carried' => Carried /\ Held' = Held
    BY <1>5 DEF IInv, Typed, OpensOnce, ReaderStands, Carried
  <1> QED
    BY <1>2, <1>3, <1>4, <1>5, <1>6, StepKeeps

LEMMA HearOpenKeeps ==
    ASSUME IInv, HearOpen
    PROVE  IInv'
  <1> USE DEF HearOpen, Serving, ask, wire, worker, counts
  <1>1. toWorker' \in Seq(Frames) /\ Total(Units(toWorker')) = Total(Units(toWorker))
    <2>1. toWorker \in Seq(Frames) /\ toWorker # <<>> /\ toWorker' = Tail(toWorker) /\ Head(toWorker) = OpenIt
      BY DEF IInv, Typed
    <2>2. toWorker' \in Seq(Frames)
      BY <2>1
    <2> QED
      BY <2>1, <2>2, BareTail
  <1>2. Typed'
    BY <1>1, WindowNat DEF IInv, Typed, OpensOnce, ReaderStands
  <1>3. OpensOnce'
    BY OpensOnceServing
  <1>4. ReaderStands'
    BY <1>1, WindowNat DEF IInv, Typed, OpensOnce, ReaderStands, Off
  <1>5. Held' = Held /\ Held' <= Held
    <2>1. UNCHANGED <<left, reader, bulk, routing, pieces>>
      OBVIOUS
    <2>2. Shares
      BY Amounts DEF IInv
    <2>3. Shares'
      BY <1>2, <1>4, AmountsNext
    <2> QED
      BY <1>1, <2>1, <2>2, <2>3 DEF Shares
  <1>6. Carried' => Carried /\ Held' = Held
    BY <1>5 DEF IInv, Typed, OpensOnce, ReaderStands, Carried
  <1> QED
    BY <1>2, <1>3, <1>4, <1>5, <1>6, StepKeeps

LEMMA RefusesKeeps ==
    ASSUME IInv, Refuses
    PROVE  IInv'
  <1> USE DEF Refuses, ask, wire, worker, counts
  <1>2. Typed'
    BY WindowNat DEF IInv, Typed, OpensOnce, ReaderStands
  <1>3. OpensOnce'
    BY DEF IInv, Typed, OpensOnce
  <1>4. ReaderStands'
    BY WindowNat DEF IInv, Typed, OpensOnce, ReaderStands, Off
  <1>5. Held' = Held /\ Held' <= Held
    <2>1. UNCHANGED <<left, reader, bulk, routing, pieces, toWorker>>
      OBVIOUS
    <2>2. Shares
      BY Amounts DEF IInv
    <2>3. Shares'
      BY <1>2, <1>4, AmountsNext
    <2> QED
      BY <2>1, <2>2, <2>3 DEF Shares
  <1>6. Carried' => Carried /\ Held' = Held
    BY <1>5 DEF IInv, Typed, OpensOnce, ReaderStands, Carried
  <1> QED
    BY <1>2, <1>3, <1>4, <1>5, <1>6, StepKeeps

LEMMA ConnectsKeeps ==
    ASSUME IInv, Connects
    PROVE  IInv'
  <1> USE DEF Connects, ask, wire, worker, counts
  <1>2. Typed'
    BY WindowNat DEF IInv, Typed, OpensOnce, ReaderStands
  <1>3. OpensOnce'
    BY DEF IInv, Typed, OpensOnce
  <1>4. ReaderStands'
    BY WindowNat DEF IInv, Typed, OpensOnce, ReaderStands, Off
  <1>5. Held' = Held /\ Held' <= Held
    <2>1. UNCHANGED <<left, reader, bulk, routing, pieces, toWorker>>
      OBVIOUS
    <2>2. Shares
      BY Amounts DEF IInv
    <2>3. Shares'
      BY <1>2, <1>4, AmountsNext
    <2> QED
      BY <2>1, <2>2, <2>3 DEF Shares
  <1>6. Carried' => Carried /\ Held' = Held
    BY <1>5 DEF IInv, Typed, OpensOnce, ReaderStands, Carried
  <1> QED
    BY <1>2, <1>3, <1>4, <1>5, <1>6, StepKeeps

LEMMA SpawnsKeeps ==
    ASSUME IInv, Spawns
    PROVE  IInv'
  <1> USE DEF Spawns, ask, wire, worker, counts
  <1>2. Typed'
    BY WindowNat DEF IInv, Typed, OpensOnce, ReaderStands, At
  <1>3. OpensOnce'
    BY DEF IInv, Typed, OpensOnce, At
  <1>4. ReaderStands'
    BY WindowNat DEF IInv, Typed, OpensOnce, ReaderStands, Off, At
  <1>5. Held' = Held /\ Held' <= Held
    <2>1. UNCHANGED <<left, bulk, routing, pieces, toWorker>>
      OBVIOUS
    <2>2. Shares
      BY Amounts DEF IInv
    <2>3. Shares'
      BY <1>2, <1>4, AmountsNext
    <2> QED
      BY <2>1, <2>2, <2>3 DEF Shares, IInv, ReaderStands, Off, At
  <1>6. Carried' => Carried /\ Held' = Held
    BY <1>5 DEF IInv, Typed, OpensOnce, ReaderStands, Carried
  <1> QED
    BY <1>2, <1>3, <1>4, <1>5, <1>6, StepKeeps

LEMMA InsertsKeeps ==
    ASSUME IInv, Inserts
    PROVE  IInv'
  <1> USE DEF Inserts, ask, wire, worker, counts
  <1>2. Typed'
    BY WindowNat DEF IInv, Typed, OpensOnce, ReaderStands
  <1>3. OpensOnce'
    BY DEF IInv, Typed, OpensOnce
  <1>4. ReaderStands'
    BY WindowNat DEF IInv, Typed, OpensOnce, ReaderStands, Off
  <1>5. Held' = Held /\ Held' <= Held
    <2>1. UNCHANGED <<left, reader, bulk, routing, pieces, toWorker>>
      OBVIOUS
    <2>2. Shares
      BY Amounts DEF IInv
    <2>3. Shares'
      BY <1>2, <1>4, AmountsNext
    <2> QED
      BY <2>1, <2>2, <2>3 DEF Shares
  <1>6. Carried' => Carried /\ Held' = Held
    BY <1>5 DEF IInv, Typed, OpensOnce, ReaderStands, Carried
  <1> QED
    BY <1>2, <1>3, <1>4, <1>5, <1>6, StepKeeps

LEMMA HearCreditKeeps ==
    ASSUME IInv, NEW units \in 1..Chunk, HearCredit(units)
    PROVE  IInv'
  <1> USE DEF HearCredit, GiveBack, Serving, ask, wire, worker, counts
  <1>1. /\ toWorker' \in Seq(Frames)
        /\ Total(Units(toWorker)) = units + Total(Units(toWorker'))
    <2>1. toWorker \in Seq(Frames) /\ toWorker # <<>> /\ toWorker' = Tail(toWorker) /\ Head(toWorker) = Credit(units)
      BY DEF IInv, Typed
    <2>2. toWorker' \in Seq(Frames)
      BY <2>1
    <2> QED
      BY <2>1, <2>2, UnitsTail, BareFrames
  <1>2. Typed'
    BY <1>1, WindowNat DEF IInv, Typed, OpensOnce, ReaderStands, At
  <1>3. OpensOnce'
    <2>1. Credit(units) # OpenIt
      BY BareFrames
    <2> QED
      BY <2>1, OpensOnceServing
  <1>4. ReaderStands'
    BY <1>1, WindowNat DEF IInv, Typed, OpensOnce, ReaderStands, Off, At
  <1>5. Held' <= Held /\ (table => Held' = Held)
    <2>1. UNCHANGED <<bulk, routing, pieces>>
      OBVIOUS
    <2>2. Shares
      BY Amounts DEF IInv
    <2>3. Shares'
      BY <1>2, <1>4, AmountsNext
    <2>5. left' = (IF table THEN left + units ELSE left) /\ reader'.budget = reader.budget
      BY DEF IInv, ReaderStands, At
    <2>6. Total(Units(toWorker)) = units + Total(Units(toWorker')) /\ units \in Nat
      BY <1>1, WindowNat
    <2> HIDE DEF HearCredit, GiveBack, Serving, ask, wire, worker, counts
    <2> QED
      BY <2>5, <2>6, <2>1, <2>2, <2>3 DEF Shares
  <1>6. Carried' => Carried /\ Held' = Held
    BY <1>5, OpensOnceServing, BareFrames DEF IInv, Typed, OpensOnce, ReaderStands, Carried
  <1> QED
    BY <1>2, <1>3, <1>4, <1>5, <1>6, StepKeeps

LEMMA HearCloseKeeps ==
    ASSUME IInv, HearClose
    PROVE  IInv'
  <1> USE DEF HearClose, Close, Serving, ask, wire, worker, counts
  <1>1. toWorker' \in Seq(Frames) /\ Total(Units(toWorker')) = Total(Units(toWorker))
    <2>1. toWorker \in Seq(Frames) /\ toWorker # <<>> /\ toWorker' = Tail(toWorker) /\ Head(toWorker) = CloseIt
      BY DEF IInv, Typed
    <2>2. toWorker' \in Seq(Frames)
      BY <2>1
    <2> QED
      BY <2>1, <2>2, BareTail
  <1>2. Typed'
    BY <1>1, WindowNat DEF IInv, Typed, OpensOnce, ReaderStands, At
  <1>3. OpensOnce'
    BY OpensOnceServing, BareFrames
  <1>4. ReaderStands'
    BY <1>1, WindowNat DEF IInv, Typed, OpensOnce, ReaderStands, Off, At
  <1>5. Held' <= Held /\ (~table => Held' = Held)
    <2>1. UNCHANGED <<left, bulk, routing, pieces>>
      OBVIOUS
    <2>2. Shares
      BY Amounts DEF IInv
    <2>3. Shares'
      BY <1>2, <1>4, AmountsNext
    <2>4. reader'.budget <= reader.budget /\ (~table => reader' = reader)
      BY <2>2 DEF Shares, At
    <2>5. Total(Units(toWorker')) = Total(Units(toWorker))
      BY <1>1
    <2> HIDE DEF HearClose, Close, Serving, ask, wire, worker, counts
    <2> QED
      BY <2>4, <2>5, <2>1, <2>2, <2>3 DEF Shares
  <1>6. Carried' => Carried /\ Held' = Held
    BY <1>5 DEF IInv, Typed, OpensOnce, ReaderStands, Carried
  <1> QED
    BY <1>2, <1>3, <1>4, <1>5, <1>6, StepKeeps

LEMMA DestroyKeeps ==
    ASSUME IInv, Destroy
    PROVE  IInv'
  <1> USE DEF Destroy, Close, ask, wire, worker, counts
  <1>2. Typed'
    BY WindowNat DEF IInv, Typed, OpensOnce, ReaderStands, At
  <1>3. OpensOnce'
    BY DEF IInv, Typed, OpensOnce, At
  <1>4. ReaderStands'
    BY WindowNat DEF IInv, Typed, OpensOnce, ReaderStands, Off, At
  <1>5. Held' <= Held /\ (~table => Held' = Held)
    <2>1. UNCHANGED <<left, bulk, routing, pieces, toWorker>>
      OBVIOUS
    <2>2. Shares
      BY Amounts DEF IInv
    <2>3. Shares'
      BY <1>2, <1>4, AmountsNext
    <2>4. reader'.budget <= reader.budget /\ (~table => reader' = reader)
      BY <2>2 DEF Shares, At
    <2>5. Total(Units(toWorker')) = Total(Units(toWorker))
      OBVIOUS
    <2> HIDE DEF Destroy, Close, ask, wire, worker, counts
    <2> QED
      BY <2>4, <2>5, <2>1, <2>2, <2>3 DEF Shares
  <1>6. Carried' => Carried /\ Held' = Held
    BY <1>5 DEF IInv, Typed, OpensOnce, ReaderStands, Carried
  <1> QED
    BY <1>2, <1>3, <1>4, <1>5, <1>6, StepKeeps

LEMMA ClaimKeeps ==
    ASSUME IInv, Claim
    PROVE  IInv'
  <1> USE DEF Claim, Smaller, ask, wire, worker, counts
  <1>2. Typed'
    BY WindowNat DEF IInv, Typed, OpensOnce, ReaderStands, At
  <1>3. OpensOnce'
    BY DEF IInv, Typed, OpensOnce, At
  <1>4. ReaderStands'
    BY WindowNat DEF IInv, Typed, OpensOnce, ReaderStands, Off, At
  <1>5. Held' = Held /\ Held' <= Held
    <2>1. UNCHANGED <<bulk, routing, pieces, toWorker>>
      OBVIOUS
    <2>2. Shares
      BY Amounts DEF IInv
    <2>3. Shares'
      BY <1>2, <1>4, AmountsNext
    <2> QED
      BY <2>1, <2>2, <2>3 DEF Shares, IInv, ReaderStands, Off, At
  <1>6. Carried' => Carried /\ Held' = Held
    BY <1>5 DEF IInv, Typed, OpensOnce, ReaderStands, Carried
  <1> QED
    BY <1>2, <1>3, <1>4, <1>5, <1>6, StepKeeps

LEMMA ParksKeeps ==
    ASSUME IInv, Parks
    PROVE  IInv'
  <1> USE DEF Parks, ask, wire, worker, counts
  <1>2. Typed'
    BY WindowNat DEF IInv, Typed, OpensOnce, ReaderStands, At
  <1>3. OpensOnce'
    BY DEF IInv, Typed, OpensOnce, At
  <1>4. ReaderStands'
    BY WindowNat DEF IInv, Typed, OpensOnce, ReaderStands, Off, At
  <1>5. Held' = Held /\ Held' <= Held
    <2>1. UNCHANGED <<left, bulk, routing, pieces, toWorker>>
      OBVIOUS
    <2>2. Shares
      BY Amounts DEF IInv
    <2>3. Shares'
      BY <1>2, <1>4, AmountsNext
    <2> QED
      BY <2>1, <2>2, <2>3 DEF Shares, IInv, ReaderStands, Off, At
  <1>6. Carried' => Carried /\ Held' = Held
    BY <1>5 DEF IInv, Typed, OpensOnce, ReaderStands, Carried
  <1> QED
    BY <1>2, <1>3, <1>4, <1>5, <1>6, StepKeeps

LEMMA ReadsKeeps ==
    ASSUME IInv, Reads
    PROVE  IInv'
  <1> USE DEF Reads, ask, wire, worker, counts
  <1>1. \E n \in 1..reader.budget :
            /\ bulk' \in Seq(1..Chunk) /\ Total(bulk') = Total(bulk) + n
            /\ left' = left + (reader.budget - n) /\ left' \in Nat
    <2>1. PICK n \in 1..reader.budget : bulk' = Append(bulk, n) /\ left' = left + (reader.budget - n)
      OBVIOUS
    <2> HIDE DEF Reads
    <2>2. reader.budget \in 0..Chunk /\ bulk \in Seq(1..Chunk)
      BY DEF IInv, Typed, ReaderStands
    <2>3. n \in 1..Chunk /\ bulk \in Seq(Nat)
      BY <2>2, WindowNat, ChunksNat
    <2>4. bulk' \in Seq(1..Chunk)
      BY <2>1, <2>2, <2>3
    <2>5. Total(bulk') = Total(bulk) + n
      BY <2>1, <2>3, TotalAppend
    <2>6. left' \in Nat
      BY <2>1, <2>2, WindowNat DEF IInv, Typed
    <2> QED
      BY <2>1, <2>4, <2>5, <2>6
  <1>2. Typed'
    <2>1. UNCHANGED <<asker, told, entry, routing, pieces, toWorker, control, opening, table>>
      OBVIOUS
    <2> HIDE DEF Reads, ask, wire, worker, counts
    <2>2. left' \in Nat /\ bulk' \in Seq(1..Chunk)
      BY <1>1
    <2> QED
      BY <2>1, <2>2 DEF IInv, Typed
  <1>3. OpensOnce'
    <2>1. asker # "none"
      BY DEF IInv, OpensOnce, ReaderStands, Off
    <2>2. UNCHANGED <<asker, toWorker, opening>>
      OBVIOUS
    <2> QED
      BY <2>1, <2>2 DEF IInv, OpensOnce
  <1>4. ReaderStands'
    BY <1>1, WindowNat DEF IInv, Typed, OpensOnce, ReaderStands, Off, At
  <1>5. Held' = Held /\ Held' <= Held
    <2>1. UNCHANGED <<routing, pieces, toWorker>>
      OBVIOUS
    <2>2. Shares
      BY Amounts DEF IInv
    <2>3. Shares'
      BY <1>2, <1>4, AmountsNext
    <2>5. reader'.budget = 0
      BY DEF At
    <2>6. PICK n \in 1..reader.budget : /\ Total(bulk') = Total(bulk) + n
                                       /\ left' = left + (reader.budget - n)
      BY <1>1
    <2> HIDE DEF Reads, ask, wire, worker, counts
    <2> QED
      BY <2>5, <2>6, <2>1, <2>2, <2>3 DEF Shares
  <1>6. Carried' => Carried /\ Held' = Held
    BY <1>5 DEF IInv, Typed, OpensOnce, ReaderStands, Carried
  <1> QED
    BY <1>2, <1>3, <1>4, <1>5, <1>6, StepKeeps

LEMMA ReadsNoneKeeps ==
    ASSUME IInv, ReadsNone
    PROVE  IInv'
  <1> USE DEF ReadsNone, ask, wire, worker, counts
  <1>2. Typed'
    BY WindowNat DEF IInv, Typed, OpensOnce, ReaderStands, At
  <1>3. OpensOnce'
    BY DEF IInv, Typed, OpensOnce, At
  <1>4. ReaderStands'
    BY WindowNat DEF IInv, Typed, OpensOnce, ReaderStands, Off, At
  <1>5. Held' = Held /\ Held' <= Held
    <2>1. UNCHANGED <<bulk, routing, pieces, toWorker>>
      OBVIOUS
    <2>2. Shares
      BY Amounts DEF IInv
    <2>3. Shares'
      BY <1>2, <1>4, AmountsNext
    <2> QED
      BY <2>1, <2>2, <2>3 DEF Shares, IInv, ReaderStands, Off, At
  <1>6. Carried' => Carried /\ Held' = Held
    BY <1>5 DEF IInv, Typed, OpensOnce, ReaderStands, Carried
  <1> QED
    BY <1>2, <1>3, <1>4, <1>5, <1>6, StepKeeps

LEMMA ForgetsKeeps ==
    ASSUME IInv, Forgets
    PROVE  IInv'
  <1> USE DEF Forgets, ask, wire, worker, counts
  <1>2. Typed'
    BY WindowNat DEF IInv, Typed, OpensOnce, ReaderStands, At
  <1>3. OpensOnce'
    BY DEF IInv, Typed, OpensOnce, At
  <1>4. ReaderStands'
    BY WindowNat DEF IInv, Typed, OpensOnce, ReaderStands, Off, At
  <1>5. Held' = Held /\ Held' <= Held
    <2>1. UNCHANGED <<left, bulk, routing, pieces, toWorker>>
      OBVIOUS
    <2>2. Shares
      BY Amounts DEF IInv
    <2>3. Shares'
      BY <1>2, <1>4, AmountsNext
    <2> QED
      BY <2>1, <2>2, <2>3 DEF Shares, IInv, ReaderStands, Off, At
  <1>6. Carried' => Carried /\ Held' = Held
    BY <1>5 DEF IInv, Typed, OpensOnce, ReaderStands, Carried
  <1> QED
    BY <1>2, <1>3, <1>4, <1>5, <1>6, StepKeeps

LEMMA SaysClosedKeeps ==
    ASSUME IInv, SaysClosed
    PROVE  IInv'
  <1> USE DEF SaysClosed, ask, wire, worker, counts
  <1>2. Typed'
    BY WindowNat DEF IInv, Typed, OpensOnce, ReaderStands, At
  <1>3. OpensOnce'
    <2>1. asker # "none"
      BY DEF IInv, OpensOnce, ReaderStands, Off
    <2>2. UNCHANGED <<asker, toWorker, opening>>
      OBVIOUS
    <2> QED
      BY <2>1, <2>2 DEF IInv, OpensOnce
  <1>4. ReaderStands'
    BY WindowNat DEF IInv, Typed, OpensOnce, ReaderStands, Off, At
  <1>5. Held' = Held /\ Held' <= Held
    <2>1. UNCHANGED <<left, bulk, routing, pieces, toWorker>>
      OBVIOUS
    <2>2. Shares
      BY Amounts DEF IInv
    <2>3. Shares'
      BY <1>2, <1>4, AmountsNext
    <2> QED
      BY <2>1, <2>2, <2>3 DEF Shares, IInv, ReaderStands, Off, At
  <1>6. Carried' => Carried /\ Held' = Held
    BY <1>5 DEF IInv, Typed, OpensOnce, ReaderStands, Carried
  <1> QED
    BY <1>2, <1>3, <1>4, <1>5, <1>6, StepKeeps

LEMMA NextKeeps == IInv /\ [Next]_vars => IInv'
  <1> SUFFICES ASSUME IInv, [Next]_vars
               PROVE  IInv'
    OBVIOUS
  <1>1. CASE Open \/ TimesOut \/ Dropped \/ HangUp
    BY <1>1, OpenKeeps, TimesOutKeeps, DroppedKeeps, HangUpKeeps
  <1>2. CASE Read
    BY <1>2, HearsKeeps, RecvKeeps, RecvNoneKeeps, SayCloseKeeps DEF Read
  <1>3. CASE Route
    BY <1>3, HearOpenedKeeps, HearClosedKeeps, HearDataKeeps, HandOverKeeps DEF Route
  <1>4. CASE Serve
    BY <1>4, HearOpenKeeps, RefusesKeeps, ConnectsKeeps, SpawnsKeeps, InsertsKeeps,
       HearCreditKeeps, HearCloseKeeps DEF Serve
  <1>5. CASE Carry
    BY <1>5, ClaimKeeps, ParksKeeps, ReadsKeeps, ReadsNoneKeeps, ForgetsKeeps, SaysClosedKeeps DEF Carry
  <1>6. CASE Destroy
    BY <1>6, DestroyKeeps
  <1>7. CASE UNCHANGED vars
    BY <1>7 DEF vars, ask, wire, worker, counts, IInv, Typed, OpensOnce, ReaderStands, WindowKept,
       Carried, Held, Credits
  <1> QED
    BY <1>1, <1>2, <1>3, <1>4, <1>5, <1>6, <1>7 DEF Next

LEMMA IInvHolds == Spec => []IInv
  BY InitInv, NextKeeps, PTL DEF Spec

-----------------------------------------------------------------------------

\* The types of the request, the lanes and the reader, and that what the worker
\* may still send is never more than the window it was given.
THEOREM TypeCorrect == Spec => []TypeOK
  <1>1. IInv => TypeOK
    <2> SUFFICES ASSUME IInv
                 PROVE  TypeOK
      OBVIOUS
    <2>1. left \in 0..Window
      BY Amounts, WindowNat DEF IInv, WindowKept, Shares
    <2>2. toWorker \in Seq({OpenIt, CloseIt} \cup {Credit(n) : n \in 1..Chunk})
      BY DEF IInv, Typed, Frames
    <2> QED
      BY <2>1, <2>2 DEF IInv, Typed, ReaderStands, TypeOK
  <1> QED
    BY <1>1, IInvHolds, PTL

\* A carried tunnel has its window, whole, for every chunk and window: nothing
\* that is read, sent, granted or given back makes or loses a unit of it.
THEOREM WindowStaysWhole == Spec => []WindowIsWhole
  <1>1. IInv => WindowIsWhole
    BY DEF IInv, WindowKept, Carried, Held, WindowIsWhole
  <1> QED
    BY <1>1, IInvHolds, PTL

\* Whether or not the tunnel is carried -- timed out, hung up on, closed under
\* its reader -- no more than a window is ever sent and not yet accounted for.
THEOREM NeverMoreThanAWindow == Spec => [](Held <= Window)
  <1>1. IInv => Held <= Window
    BY DEF IInv, WindowKept
  <1> QED
    BY <1>1, IInvHolds, PTL

-----------------------------------------------------------------------------
(* Nothing is left open *)

Sent(s, frame) == \E i \in DOMAIN s : s[i] = frame

Answers == {"ok", "refused"}

\* The worker answers an opening once, before anything else it says of it, and
\* the request waits for that until it hears it or is given up.
AnswersOnce ==
    /\ (\E answer \in Answers : Sent(control, answer)) =>
         told = "nothing" /\ asker \in {"asking", "gone"} /\ opening \notin {"none", "connecting"}
    /\ opening \in {"none", "connecting"} =>
         control = <<>> /\ asker \in {"none", "asking", "gone"} /\ told = "nothing"
    /\ control # <<>> => \A answer \in Answers : ~Sent(Tail(control), answer)
    /\ (asker = "asking" /\ told = "nothing") =>
         /\ entry = "waiting"
         /\ opening \in {"none", "connecting"} \/ (control # <<>> /\ Head(control) \in Answers)

\* A tunnel that was refused has nothing to close.
RefusedIsClosed ==
    (told = "refused" \/ Sent(control, "refused")) => opening = "over" /\ reader.at = "off" /\ ~table

\* An answer is over for the request only when its reader is.
ReaderEnds ==
    /\ Sent(control, "closed") => reader.at = "over"
    /\ (asker \in {"asking", "reading"} /\ entry = "none") => reader.at = "over"
    /\ asker = "finished" => reader.at = "over"
    /\ (table /\ reader.at \in {"forgotten", "over"}) => "outrun" \in slips
    /\ (opening = "over" /\ ~table) => reader.at \in {"off", "forgotten", "over"}

\* Something closes a connection whose request was given up: a frame on its
\* way, the answer to one that no longer waits, or the end of its reader.
BeingClosed ==
    (asker = "gone" /\ "orphaned" \notin slips /\ "outrun" \notin slips
        /\ (opening \in {"connected", "spawned"} \/ table)) =>
      \/ Sent(toWorker, CloseIt) \/ Sent(control, "ok")
      \/ reader.at \in {"ending", "forgotten", "over"}

Ending == AnswersOnce /\ RefusedIsClosed /\ ReaderEnds /\ BeingClosed

LEMMA SentEmpty == \A g : ~Sent(<<>>, g)
  BY DEF Sent

LEMMA SentAppend ==
    ASSUME NEW S, NEW s \in Seq(S), NEW f \in S
    PROVE  \A g : Sent(Append(s, f), g) <=> Sent(s, g) \/ g = f
  <1>1. /\ Len(Append(s, f)) = Len(s) + 1 /\ Append(s, f)[Len(s) + 1] = f /\ Len(s) \in Nat
        /\ \A i \in 1..Len(s) : Append(s, f)[i] = s[i]
        /\ DOMAIN s = 1..Len(s) /\ DOMAIN Append(s, f) = 1..(Len(s) + 1)
    OBVIOUS
  <1> QED
    BY <1>1 DEF Sent

LEMMA SentTail ==
    ASSUME NEW S, NEW s \in Seq(S), s # <<>>
    PROVE  \A g : Sent(s, g) <=> Head(s) = g \/ Sent(Tail(s), g)
  <1>1. /\ Len(s) \in Nat \ {0} /\ Head(s) = s[1] /\ Len(Tail(s)) = Len(s) - 1
        /\ \A i \in 1..(Len(s) - 1) : Tail(s)[i] = s[i + 1]
        /\ DOMAIN s = 1..Len(s) /\ DOMAIN Tail(s) = 1..(Len(s) - 1)
    OBVIOUS
  <1>2. ASSUME NEW g, Sent(s, g), Head(s) # g
        PROVE  Sent(Tail(s), g)
    <2>1. PICK i \in 1..Len(s) : s[i] = g
      BY <1>1, <1>2 DEF Sent
    <2>2. i - 1 \in 1..(Len(s) - 1) /\ Tail(s)[i - 1] = g
      BY <1>1, <1>2, <2>1
    <2> QED
      BY <1>1, <2>2 DEF Sent
  <1>3. ASSUME NEW g, Sent(Tail(s), g)
        PROVE  Sent(s, g)
    <2>1. PICK i \in 1..(Len(s) - 1) : Tail(s)[i] = g
      BY <1>1, <1>3 DEF Sent
    <2>2. i + 1 \in 1..Len(s) /\ s[i + 1] = g
      BY <1>1, <2>1
    <2> QED
      BY <1>1, <2>2 DEF Sent
  <1>4. Sent(s, Head(s))
    <2>1. 1 \in 1..Len(s)
      BY <1>1
    <2> QED
      BY <1>1, <2>1 DEF Sent
  <1> QED
    BY <1>2, <1>3, <1>4

\* One more frame, and what it means for those behind the first.
LEMMA ControlAppend ==
    ASSUME IInv, NEW f \in {"ok", "refused", "closed"}, control' = Append(control, f)
    PROVE  /\ control' # <<>>
           /\ \A g : Sent(control', g) <=> Sent(control, g) \/ g = f
           /\ control = <<>> => Head(control') = f /\ \A g : ~Sent(Tail(control'), g)
           /\ control # <<>> => /\ Head(control') = Head(control)
                               /\ \A g : Sent(Tail(control'), g) <=> Sent(Tail(control), g) \/ g = f
  <1> DEFINE S == {"ok", "refused", "closed"}
  <1>1. control \in Seq(S)
    BY DEF IInv, Typed
  <1> HIDE DEF S
  <1>2. f \in S
    BY DEF S
  <1>3. \A g : Sent(control', g) <=> Sent(control, g) \/ g = f
    BY <1>1, <1>2, SentAppend
  <1>4. ASSUME control = <<>>
        PROVE  Head(control') = f /\ Tail(control') = <<>>
    BY <1>2, <1>4
  <1>5. ASSUME control # <<>>
        PROVE  Head(control') = Head(control) /\ Tail(control') = Append(Tail(control), f)
                 /\ Tail(control) \in Seq(S)
    BY <1>1, <1>2, <1>5
  <1>6. ASSUME control # <<>>
        PROVE  \A g : Sent(Tail(control'), g) <=> Sent(Tail(control), g) \/ g = f
    <2> DEFINE t == Tail(control)
    <2>1. t \in Seq(S) /\ Tail(control') = Append(t, f)
      BY <1>5, <1>6
    <2> HIDE DEF t
    <2>2. \A g : Sent(Append(t, f), g) <=> Sent(t, g) \/ g = f
      BY <1>2, <2>1, SentAppend
    <2> QED
      BY <2>1, <2>2 DEF t
  <1>7. control' # <<>>
    BY <1>1, <1>2
  <1> QED
    BY <1>3, <1>4, <1>5, <1>6, <1>7, SentEmpty

LEMMA ControlTail ==
    ASSUME IInv, AnswersOnce, control # <<>>, control' = Tail(control)
    PROVE  /\ \A g : Sent(control, g) <=> Head(control) = g \/ Sent(control', g)
           /\ \A answer \in Answers : ~Sent(control', answer)
           /\ control' # <<>> => \A answer \in Answers : ~Sent(Tail(control'), answer)
  <1> DEFINE S == {"ok", "refused", "closed"}
  <1>1. control \in Seq(S)
    BY DEF IInv, Typed
  <1> HIDE DEF S
  <1>2. \A g : Sent(control, g) <=> Head(control) = g \/ Sent(control', g)
    BY <1>1, SentTail
  <1>3. \A answer \in Answers : ~Sent(control', answer)
    BY DEF AnswersOnce
  <1>4. control' \in Seq(S)
    BY <1>1
  <1>5. control' # <<>> => \A g : Sent(control', g) <=> Head(control') = g \/ Sent(Tail(control'), g)
    BY <1>4, SentTail
  <1> QED
    BY <1>2, <1>3, <1>5

LEMMA WorkerAppend ==
    ASSUME IInv, NEW f \in Frames, toWorker' = Append(toWorker, f)
    PROVE  \A g : Sent(toWorker', g) <=> Sent(toWorker, g) \/ g = f
  BY SentAppend DEF IInv, Typed

LEMMA WorkerTail ==
    ASSUME IInv, toWorker # <<>>, toWorker' = Tail(toWorker)
    PROVE  \A g : Sent(toWorker, g) <=> Head(toWorker) = g \/ Sent(toWorker', g)
  BY SentTail DEF IInv, Typed

LEMMA OpenEnds ==
    ASSUME IInv, Ending, Open
    PROVE  Ending'
  <1> USE DEF Open, ask, wire, worker, counts
  <1>1. \A g : Sent(toWorker', g) <=> Sent(toWorker, g) \/ g = OpenIt
    BY WorkerAppend, BareFrames
  <1>2. AnswersOnce'
    BY <1>1, SentEmpty DEF IInv, Typed, OpensOnce, ReaderStands, Ending, AnswersOnce, RefusedIsClosed, ReaderEnds, BeingClosed, Answers, At, Off
  <1>3. RefusedIsClosed'
    BY <1>1, SentEmpty DEF IInv, Typed, OpensOnce, ReaderStands, Ending, AnswersOnce, RefusedIsClosed, ReaderEnds, BeingClosed, Answers, At, Off
  <1>4. ReaderEnds'
    BY <1>1, SentEmpty DEF IInv, Typed, OpensOnce, ReaderStands, Ending, AnswersOnce, RefusedIsClosed, ReaderEnds, BeingClosed, Answers, At, Off
  <1>5. BeingClosed'
    BY <1>1, SentEmpty DEF IInv, Typed, OpensOnce, ReaderStands, Ending, AnswersOnce, RefusedIsClosed, ReaderEnds, BeingClosed, Answers, At, Off
  <1> QED
    BY <1>2, <1>3, <1>4, <1>5 DEF Ending

LEMMA HearsEnds ==
    ASSUME IInv, Ending, Hears
    PROVE  Ending'
  <1> USE DEF Hears, ask, wire, worker, counts
  <1>2. AnswersOnce'
    BY DEF IInv, Typed, OpensOnce, ReaderStands, Ending, AnswersOnce, RefusedIsClosed, ReaderEnds, BeingClosed, Answers, At, Off
  <1>3. RefusedIsClosed'
    BY DEF IInv, Typed, OpensOnce, ReaderStands, Ending, AnswersOnce, RefusedIsClosed, ReaderEnds, BeingClosed, Answers, At, Off
  <1>4. ReaderEnds'
    BY DEF IInv, Typed, OpensOnce, ReaderStands, Ending, AnswersOnce, RefusedIsClosed, ReaderEnds, BeingClosed, Answers, At, Off
  <1>5. BeingClosed'
    BY DEF IInv, Typed, OpensOnce, ReaderStands, Ending, AnswersOnce, RefusedIsClosed, ReaderEnds, BeingClosed, Answers, At, Off
  <1> QED
    BY <1>2, <1>3, <1>4, <1>5 DEF Ending

LEMMA TimesOutEnds ==
    ASSUME IInv, Ending, TimesOut
    PROVE  Ending'
  <1> USE DEF TimesOut, ask, wire, worker, counts
  <1>1. \A g : Sent(toWorker', g) <=> Sent(toWorker, g) \/ g = CloseIt
    BY WorkerAppend, BareFrames
  <1>2. AnswersOnce'
    BY <1>1 DEF IInv, Typed, OpensOnce, ReaderStands, Ending, AnswersOnce, RefusedIsClosed, ReaderEnds, BeingClosed, Answers, At, Off
  <1>3. RefusedIsClosed'
    BY <1>1 DEF IInv, Typed, OpensOnce, ReaderStands, Ending, AnswersOnce, RefusedIsClosed, ReaderEnds, BeingClosed, Answers, At, Off
  <1>4. ReaderEnds'
    BY <1>1 DEF IInv, Typed, OpensOnce, ReaderStands, Ending, AnswersOnce, RefusedIsClosed, ReaderEnds, BeingClosed, Answers, At, Off
  <1>5. BeingClosed'
    BY <1>1 DEF IInv, Typed, OpensOnce, ReaderStands, Ending, AnswersOnce, RefusedIsClosed, ReaderEnds, BeingClosed, Answers, At, Off
  <1> QED
    BY <1>2, <1>3, <1>4, <1>5 DEF Ending

LEMMA DroppedEnds ==
    ASSUME IInv, Ending, Dropped
    PROVE  Ending'
  <1> USE DEF Dropped, ask, wire, worker, counts
  <1>1. control # <<>> => Sent(control, Head(control))
    BY SentTail DEF IInv, Typed
  <1>2. AnswersOnce'
    BY <1>1 DEF IInv, Typed, OpensOnce, ReaderStands, Ending, AnswersOnce, RefusedIsClosed, ReaderEnds, BeingClosed, Answers, At, Off
  <1>3. RefusedIsClosed'
    BY <1>1 DEF IInv, Typed, OpensOnce, ReaderStands, Ending, AnswersOnce, RefusedIsClosed, ReaderEnds, BeingClosed, Answers, At, Off
  <1>4. ReaderEnds'
    BY <1>1 DEF IInv, Typed, OpensOnce, ReaderStands, Ending, AnswersOnce, RefusedIsClosed, ReaderEnds, BeingClosed, Answers, At, Off
  <1>5. BeingClosed'
    BY <1>1 DEF IInv, Typed, OpensOnce, ReaderStands, Ending, AnswersOnce, RefusedIsClosed, ReaderEnds, BeingClosed, Answers, At, Off
  <1> QED
    BY <1>2, <1>3, <1>4, <1>5 DEF Ending

LEMMA PieceGranted ==
    ASSUME IInv, Recv
    PROVE  Credit(Head(pieces)) \in Frames
  <1> DEFINE S == 1..Chunk
  <1>1. pieces \in Seq(S)
    BY DEF IInv, Typed
  <1>2. pieces # <<>>
    BY DEF Recv
  <1> HIDE DEF S
  <1>3. Head(pieces) \in S
    BY <1>1, <1>2
  <1> QED
    BY <1>3, BareFrames DEF S

LEMMA RecvEnds ==
    ASSUME IInv, Ending, Recv
    PROVE  Ending'
  <1> USE DEF Recv, ask, wire, worker, counts
  <1>1. \A g : Sent(toWorker, g) => Sent(toWorker', g)
    BY PieceGranted, WorkerAppend
  <1>2. AnswersOnce'
    BY <1>1 DEF IInv, Typed, OpensOnce, ReaderStands, Ending, AnswersOnce, RefusedIsClosed, ReaderEnds, BeingClosed, Answers, At, Off
  <1>3. RefusedIsClosed'
    BY <1>1 DEF IInv, Typed, OpensOnce, ReaderStands, Ending, AnswersOnce, RefusedIsClosed, ReaderEnds, BeingClosed, Answers, At, Off
  <1>4. ReaderEnds'
    BY <1>1 DEF IInv, Typed, OpensOnce, ReaderStands, Ending, AnswersOnce, RefusedIsClosed, ReaderEnds, BeingClosed, Answers, At, Off
  <1>5. BeingClosed'
    BY <1>1 DEF IInv, Typed, OpensOnce, ReaderStands, Ending, AnswersOnce, RefusedIsClosed, ReaderEnds, BeingClosed, Answers, At, Off
  <1> QED
    BY <1>2, <1>3, <1>4, <1>5 DEF Ending

LEMMA RecvNoneEnds ==
    ASSUME IInv, Ending, RecvNone
    PROVE  Ending'
  <1> USE DEF RecvNone, ask, wire, worker, counts
  <1>2. AnswersOnce'
    BY DEF IInv, Typed, OpensOnce, ReaderStands, Ending, AnswersOnce, RefusedIsClosed, ReaderEnds, BeingClosed, Answers, At, Off
  <1>3. RefusedIsClosed'
    BY DEF IInv, Typed, OpensOnce, ReaderStands, Ending, AnswersOnce, RefusedIsClosed, ReaderEnds, BeingClosed, Answers, At, Off
  <1>4. ReaderEnds'
    BY DEF IInv, Typed, OpensOnce, ReaderStands, Ending, AnswersOnce, RefusedIsClosed, ReaderEnds, BeingClosed, Answers, At, Off
  <1>5. BeingClosed'
    BY DEF IInv, Typed, OpensOnce, ReaderStands, Ending, AnswersOnce, RefusedIsClosed, ReaderEnds, BeingClosed, Answers, At, Off
  <1> QED
    BY <1>2, <1>3, <1>4, <1>5 DEF Ending

LEMMA HangUpEnds ==
    ASSUME IInv, Ending, HangUp
    PROVE  Ending'
  <1> USE DEF HangUp, ask, wire, worker, counts
  <1>2. AnswersOnce'
    BY DEF IInv, Typed, OpensOnce, ReaderStands, Ending, AnswersOnce, RefusedIsClosed, ReaderEnds, BeingClosed, Answers, At, Off
  <1>3. RefusedIsClosed'
    BY DEF IInv, Typed, OpensOnce, ReaderStands, Ending, AnswersOnce, RefusedIsClosed, ReaderEnds, BeingClosed, Answers, At, Off
  <1>4. ReaderEnds'
    BY DEF IInv, Typed, OpensOnce, ReaderStands, Ending, AnswersOnce, RefusedIsClosed, ReaderEnds, BeingClosed, Answers, At, Off
  <1>5. BeingClosed'
    BY DEF IInv, Typed, OpensOnce, ReaderStands, Ending, AnswersOnce, RefusedIsClosed, ReaderEnds, BeingClosed, Answers, At, Off
  <1> QED
    BY <1>2, <1>3, <1>4, <1>5 DEF Ending

LEMMA SayCloseEnds ==
    ASSUME IInv, Ending, SayClose
    PROVE  Ending'
  <1> USE DEF SayClose, ask, wire, worker, counts
  <1>1. \A g : Sent(toWorker', g) <=> Sent(toWorker, g) \/ g = CloseIt
    BY WorkerAppend, BareFrames
  <1>2. AnswersOnce'
    BY <1>1 DEF IInv, Typed, OpensOnce, ReaderStands, Ending, AnswersOnce, RefusedIsClosed, ReaderEnds, BeingClosed, Answers, At, Off
  <1>3. RefusedIsClosed'
    BY <1>1 DEF IInv, Typed, OpensOnce, ReaderStands, Ending, AnswersOnce, RefusedIsClosed, ReaderEnds, BeingClosed, Answers, At, Off
  <1>4. ReaderEnds'
    BY <1>1 DEF IInv, Typed, OpensOnce, ReaderStands, Ending, AnswersOnce, RefusedIsClosed, ReaderEnds, BeingClosed, Answers, At, Off
  <1>5. BeingClosed'
    BY <1>1 DEF IInv, Typed, OpensOnce, ReaderStands, Ending, AnswersOnce, RefusedIsClosed, ReaderEnds, BeingClosed, Answers, At, Off
  <1> QED
    BY <1>2, <1>3, <1>4, <1>5 DEF Ending

LEMMA HearOpenedEnds ==
    ASSUME IInv, Ending, HearOpened
    PROVE  Ending'
  <1> USE DEF HearOpened, ask, wire, worker, counts
  <1>1. /\ \A g : Sent(control, g) <=> Head(control) = g \/ Sent(control', g)
        /\ \A answer \in Answers : ~Sent(control', answer)
        /\ control' # <<>> => \A answer \in Answers : ~Sent(Tail(control'), answer)
    BY ControlTail DEF Ending
  <1>7. \A g : Sent(toWorker', g) <=> Sent(toWorker, g) \/ (toWorker' # toWorker /\ g = CloseIt)
    BY WorkerAppend, BareFrames
  <1>2. AnswersOnce'
    BY <1>1, <1>7 DEF IInv, Typed, OpensOnce, ReaderStands, Ending, AnswersOnce, RefusedIsClosed, ReaderEnds, BeingClosed, Answers, At, Off
  <1>3. RefusedIsClosed'
    BY <1>1, <1>7 DEF IInv, Typed, OpensOnce, ReaderStands, Ending, AnswersOnce, RefusedIsClosed, ReaderEnds, BeingClosed, Answers, At, Off
  <1>4. ReaderEnds'
    BY <1>1, <1>7 DEF IInv, Typed, OpensOnce, ReaderStands, Ending, AnswersOnce, RefusedIsClosed, ReaderEnds, BeingClosed, Answers, At, Off
  <1>5. BeingClosed'
    BY <1>1, <1>7 DEF IInv, Typed, OpensOnce, ReaderStands, Ending, AnswersOnce, RefusedIsClosed, ReaderEnds, BeingClosed, Answers, At, Off
  <1> QED
    BY <1>2, <1>3, <1>4, <1>5 DEF Ending

LEMMA HearClosedEnds ==
    ASSUME IInv, Ending, HearClosed
    PROVE  Ending'
  <1> USE DEF HearClosed, ask, wire, worker, counts
  <1>1. /\ \A g : Sent(control, g) <=> Head(control) = g \/ Sent(control', g)
        /\ \A answer \in Answers : ~Sent(control', answer)
        /\ control' # <<>> => \A answer \in Answers : ~Sent(Tail(control'), answer)
    BY ControlTail DEF Ending
  <1>2. AnswersOnce'
    BY <1>1 DEF IInv, Typed, OpensOnce, ReaderStands, Ending, AnswersOnce, RefusedIsClosed, ReaderEnds, BeingClosed, Answers, At, Off
  <1>3. RefusedIsClosed'
    BY <1>1 DEF IInv, Typed, OpensOnce, ReaderStands, Ending, AnswersOnce, RefusedIsClosed, ReaderEnds, BeingClosed, Answers, At, Off
  <1>4. ReaderEnds'
    BY <1>1 DEF IInv, Typed, OpensOnce, ReaderStands, Ending, AnswersOnce, RefusedIsClosed, ReaderEnds, BeingClosed, Answers, At, Off
  <1>5. BeingClosed'
    BY <1>1 DEF IInv, Typed, OpensOnce, ReaderStands, Ending, AnswersOnce, RefusedIsClosed, ReaderEnds, BeingClosed, Answers, At, Off
  <1> QED
    BY <1>2, <1>3, <1>4, <1>5 DEF Ending

LEMMA HearDataEnds ==
    ASSUME IInv, Ending, HearData
    PROVE  Ending'
  <1> USE DEF HearData, ask, wire, worker, counts
  <1>2. AnswersOnce'
    BY DEF IInv, Typed, OpensOnce, ReaderStands, Ending, AnswersOnce, RefusedIsClosed, ReaderEnds, BeingClosed, Answers, At, Off
  <1>3. RefusedIsClosed'
    BY DEF IInv, Typed, OpensOnce, ReaderStands, Ending, AnswersOnce, RefusedIsClosed, ReaderEnds, BeingClosed, Answers, At, Off
  <1>4. ReaderEnds'
    BY DEF IInv, Typed, OpensOnce, ReaderStands, Ending, AnswersOnce, RefusedIsClosed, ReaderEnds, BeingClosed, Answers, At, Off
  <1>5. BeingClosed'
    BY DEF IInv, Typed, OpensOnce, ReaderStands, Ending, AnswersOnce, RefusedIsClosed, ReaderEnds, BeingClosed, Answers, At, Off
  <1> QED
    BY <1>2, <1>3, <1>4, <1>5 DEF Ending

LEMMA HandOverEnds ==
    ASSUME IInv, Ending, HandOver
    PROVE  Ending'
  <1> USE DEF HandOver, ask, wire, worker, counts, Unread
  <1>2. AnswersOnce'
    BY DEF IInv, Typed, OpensOnce, ReaderStands, Ending, AnswersOnce, RefusedIsClosed, ReaderEnds, BeingClosed, Answers, At, Off
  <1>3. RefusedIsClosed'
    BY DEF IInv, Typed, OpensOnce, ReaderStands, Ending, AnswersOnce, RefusedIsClosed, ReaderEnds, BeingClosed, Answers, At, Off
  <1>4. ReaderEnds'
    BY DEF IInv, Typed, OpensOnce, ReaderStands, Ending, AnswersOnce, RefusedIsClosed, ReaderEnds, BeingClosed, Answers, At, Off
  <1>5. BeingClosed'
    BY DEF IInv, Typed, OpensOnce, ReaderStands, Ending, AnswersOnce, RefusedIsClosed, ReaderEnds, BeingClosed, Answers, At, Off
  <1> QED
    BY <1>2, <1>3, <1>4, <1>5 DEF Ending

LEMMA HearOpenEnds ==
    ASSUME IInv, Ending, HearOpen
    PROVE  Ending'
  <1> USE DEF HearOpen, ask, wire, worker, counts, Serving
  <1>1. \A g : Sent(toWorker, g) <=> Head(toWorker) = g \/ Sent(toWorker', g)
    BY WorkerTail
  <1>2. AnswersOnce'
    BY <1>1, BareFrames DEF IInv, Typed, OpensOnce, ReaderStands, Ending, AnswersOnce, RefusedIsClosed, ReaderEnds, BeingClosed, Answers, At, Off
  <1>3. RefusedIsClosed'
    BY <1>1, BareFrames DEF IInv, Typed, OpensOnce, ReaderStands, Ending, AnswersOnce, RefusedIsClosed, ReaderEnds, BeingClosed, Answers, At, Off
  <1>4. ReaderEnds'
    BY <1>1, BareFrames DEF IInv, Typed, OpensOnce, ReaderStands, Ending, AnswersOnce, RefusedIsClosed, ReaderEnds, BeingClosed, Answers, At, Off
  <1>5. BeingClosed'
    BY <1>1, BareFrames DEF IInv, Typed, OpensOnce, ReaderStands, Ending, AnswersOnce, RefusedIsClosed, ReaderEnds, BeingClosed, Answers, At, Off
  <1> QED
    BY <1>2, <1>3, <1>4, <1>5 DEF Ending

LEMMA RefusesEnds ==
    ASSUME IInv, Ending, Refuses
    PROVE  Ending'
  <1> USE DEF Refuses, ask, wire, worker, counts
  <1>1. /\ control' # <<>>
        /\ \A g : Sent(control', g) <=> Sent(control, g) \/ g = "refused"
        /\ control = <<>> => Head(control') = "refused" /\ \A g : ~Sent(Tail(control'), g)
        /\ control # <<>> => /\ Head(control') = Head(control)
                            /\ \A g : Sent(Tail(control'), g) <=> Sent(Tail(control), g) \/ g = "refused"
    BY ControlAppend
  <1>2. AnswersOnce'
    BY <1>1, SentEmpty DEF IInv, Typed, OpensOnce, ReaderStands, Ending, AnswersOnce, RefusedIsClosed, ReaderEnds, BeingClosed, Answers, At, Off
  <1>3. RefusedIsClosed'
    BY <1>1, SentEmpty DEF IInv, Typed, OpensOnce, ReaderStands, Ending, AnswersOnce, RefusedIsClosed, ReaderEnds, BeingClosed, Answers, At, Off
  <1>4. ReaderEnds'
    BY <1>1, SentEmpty DEF IInv, Typed, OpensOnce, ReaderStands, Ending, AnswersOnce, RefusedIsClosed, ReaderEnds, BeingClosed, Answers, At, Off
  <1>5. BeingClosed'
    BY <1>1, SentEmpty DEF IInv, Typed, OpensOnce, ReaderStands, Ending, AnswersOnce, RefusedIsClosed, ReaderEnds, BeingClosed, Answers, At, Off
  <1> QED
    BY <1>2, <1>3, <1>4, <1>5 DEF Ending

LEMMA ConnectsEnds ==
    ASSUME IInv, Ending, Connects
    PROVE  Ending'
  <1> USE DEF Connects, ask, wire, worker, counts
  <1>1. /\ control' # <<>>
        /\ \A g : Sent(control', g) <=> Sent(control, g) \/ g = "ok"
        /\ control = <<>> => Head(control') = "ok" /\ \A g : ~Sent(Tail(control'), g)
        /\ control # <<>> => /\ Head(control') = Head(control)
                            /\ \A g : Sent(Tail(control'), g) <=> Sent(Tail(control), g) \/ g = "ok"
    BY ControlAppend
  <1>2. AnswersOnce'
    BY <1>1, SentEmpty DEF IInv, Typed, OpensOnce, ReaderStands, Ending, AnswersOnce, RefusedIsClosed, ReaderEnds, BeingClosed, Answers, At, Off
  <1>3. RefusedIsClosed'
    BY <1>1, SentEmpty DEF IInv, Typed, OpensOnce, ReaderStands, Ending, AnswersOnce, RefusedIsClosed, ReaderEnds, BeingClosed, Answers, At, Off
  <1>4. ReaderEnds'
    BY <1>1, SentEmpty DEF IInv, Typed, OpensOnce, ReaderStands, Ending, AnswersOnce, RefusedIsClosed, ReaderEnds, BeingClosed, Answers, At, Off
  <1>5. BeingClosed'
    BY <1>1, SentEmpty DEF IInv, Typed, OpensOnce, ReaderStands, Ending, AnswersOnce, RefusedIsClosed, ReaderEnds, BeingClosed, Answers, At, Off
  <1> QED
    BY <1>2, <1>3, <1>4, <1>5 DEF Ending

LEMMA SpawnsEnds ==
    ASSUME IInv, Ending, Spawns
    PROVE  Ending'
  <1> USE DEF Spawns, ask, wire, worker, counts
  <1>2. AnswersOnce'
    BY DEF IInv, Typed, OpensOnce, ReaderStands, Ending, AnswersOnce, RefusedIsClosed, ReaderEnds, BeingClosed, Answers, At, Off
  <1>3. RefusedIsClosed'
    BY DEF IInv, Typed, OpensOnce, ReaderStands, Ending, AnswersOnce, RefusedIsClosed, ReaderEnds, BeingClosed, Answers, At, Off
  <1>4. ReaderEnds'
    BY DEF IInv, Typed, OpensOnce, ReaderStands, Ending, AnswersOnce, RefusedIsClosed, ReaderEnds, BeingClosed, Answers, At, Off
  <1>5. BeingClosed'
    BY DEF IInv, Typed, OpensOnce, ReaderStands, Ending, AnswersOnce, RefusedIsClosed, ReaderEnds, BeingClosed, Answers, At, Off
  <1> QED
    BY <1>2, <1>3, <1>4, <1>5 DEF Ending

LEMMA InsertsEnds ==
    ASSUME IInv, Ending, Inserts
    PROVE  Ending'
  <1> USE DEF Inserts, ask, wire, worker, counts
  <1>2. AnswersOnce'
    BY DEF IInv, Typed, OpensOnce, ReaderStands, Ending, AnswersOnce, RefusedIsClosed, ReaderEnds, BeingClosed, Answers, At, Off
  <1>3. RefusedIsClosed'
    BY DEF IInv, Typed, OpensOnce, ReaderStands, Ending, AnswersOnce, RefusedIsClosed, ReaderEnds, BeingClosed, Answers, At, Off
  <1>4. ReaderEnds'
    BY DEF IInv, Typed, OpensOnce, ReaderStands, Ending, AnswersOnce, RefusedIsClosed, ReaderEnds, BeingClosed, Answers, At, Off
  <1>5. BeingClosed'
    BY DEF IInv, Typed, OpensOnce, ReaderStands, Ending, AnswersOnce, RefusedIsClosed, ReaderEnds, BeingClosed, Answers, At, Off
  <1> QED
    BY <1>2, <1>3, <1>4, <1>5 DEF Ending

LEMMA HearCreditEnds ==
    ASSUME IInv, Ending, NEW units \in 1..Chunk, HearCredit(units)
    PROVE  Ending'
  <1> USE DEF HearCredit, ask, wire, worker, counts, Serving, GiveBack
  <1>1. \A g : Sent(toWorker, g) <=> Head(toWorker) = g \/ Sent(toWorker', g)
    BY WorkerTail
  <1>2. AnswersOnce'
    BY <1>1, BareFrames DEF IInv, Typed, OpensOnce, ReaderStands, Ending, AnswersOnce, RefusedIsClosed, ReaderEnds, BeingClosed, Answers, At, Off
  <1>3. RefusedIsClosed'
    BY <1>1, BareFrames DEF IInv, Typed, OpensOnce, ReaderStands, Ending, AnswersOnce, RefusedIsClosed, ReaderEnds, BeingClosed, Answers, At, Off
  <1>4. ReaderEnds'
    BY <1>1, BareFrames DEF IInv, Typed, OpensOnce, ReaderStands, Ending, AnswersOnce, RefusedIsClosed, ReaderEnds, BeingClosed, Answers, At, Off
  <1>5. BeingClosed'
    BY <1>1, BareFrames DEF IInv, Typed, OpensOnce, ReaderStands, Ending, AnswersOnce, RefusedIsClosed, ReaderEnds, BeingClosed, Answers, At, Off
  <1> QED
    BY <1>2, <1>3, <1>4, <1>5 DEF Ending

LEMMA HearCloseEnds ==
    ASSUME IInv, Ending, HearClose
    PROVE  Ending'
  <1> USE DEF HearClose, ask, wire, worker, counts, Serving, Close
  <1>1. \A g : Sent(toWorker, g) <=> Head(toWorker) = g \/ Sent(toWorker', g)
    BY WorkerTail
  <1>2. AnswersOnce'
    BY <1>1, BareFrames DEF IInv, Typed, OpensOnce, ReaderStands, Ending, AnswersOnce, RefusedIsClosed, ReaderEnds, BeingClosed, Answers, At, Off
  <1>3. RefusedIsClosed'
    BY <1>1, BareFrames DEF IInv, Typed, OpensOnce, ReaderStands, Ending, AnswersOnce, RefusedIsClosed, ReaderEnds, BeingClosed, Answers, At, Off
  <1>4. ReaderEnds'
    BY <1>1, BareFrames DEF IInv, Typed, OpensOnce, ReaderStands, Ending, AnswersOnce, RefusedIsClosed, ReaderEnds, BeingClosed, Answers, At, Off
  <1>5. BeingClosed'
    BY <1>1, BareFrames DEF IInv, Typed, OpensOnce, ReaderStands, Ending, AnswersOnce, RefusedIsClosed, ReaderEnds, BeingClosed, Answers, At, Off
  <1> QED
    BY <1>2, <1>3, <1>4, <1>5 DEF Ending

LEMMA DestroyEnds ==
    ASSUME IInv, Ending, Destroy
    PROVE  Ending'
  <1> USE DEF Destroy, ask, wire, worker, counts, Close
  <1>2. AnswersOnce'
    BY DEF IInv, Typed, OpensOnce, ReaderStands, Ending, AnswersOnce, RefusedIsClosed, ReaderEnds, BeingClosed, Answers, At, Off
  <1>3. RefusedIsClosed'
    BY DEF IInv, Typed, OpensOnce, ReaderStands, Ending, AnswersOnce, RefusedIsClosed, ReaderEnds, BeingClosed, Answers, At, Off
  <1>4. ReaderEnds'
    BY DEF IInv, Typed, OpensOnce, ReaderStands, Ending, AnswersOnce, RefusedIsClosed, ReaderEnds, BeingClosed, Answers, At, Off
  <1>5. BeingClosed'
    BY DEF IInv, Typed, OpensOnce, ReaderStands, Ending, AnswersOnce, RefusedIsClosed, ReaderEnds, BeingClosed, Answers, At, Off
  <1> QED
    BY <1>2, <1>3, <1>4, <1>5 DEF Ending

LEMMA ClaimEnds ==
    ASSUME IInv, Ending, Claim
    PROVE  Ending'
  <1> USE DEF Claim, ask, wire, worker, counts
  <1>2. AnswersOnce'
    BY DEF IInv, Typed, OpensOnce, ReaderStands, Ending, AnswersOnce, RefusedIsClosed, ReaderEnds, BeingClosed, Answers, At, Off
  <1>3. RefusedIsClosed'
    BY DEF IInv, Typed, OpensOnce, ReaderStands, Ending, AnswersOnce, RefusedIsClosed, ReaderEnds, BeingClosed, Answers, At, Off
  <1>4. ReaderEnds'
    BY DEF IInv, Typed, OpensOnce, ReaderStands, Ending, AnswersOnce, RefusedIsClosed, ReaderEnds, BeingClosed, Answers, At, Off
  <1>5. BeingClosed'
    BY DEF IInv, Typed, OpensOnce, ReaderStands, Ending, AnswersOnce, RefusedIsClosed, ReaderEnds, BeingClosed, Answers, At, Off
  <1> QED
    BY <1>2, <1>3, <1>4, <1>5 DEF Ending

LEMMA ParksEnds ==
    ASSUME IInv, Ending, Parks
    PROVE  Ending'
  <1> USE DEF Parks, ask, wire, worker, counts
  <1>2. AnswersOnce'
    BY DEF IInv, Typed, OpensOnce, ReaderStands, Ending, AnswersOnce, RefusedIsClosed, ReaderEnds, BeingClosed, Answers, At, Off
  <1>3. RefusedIsClosed'
    BY DEF IInv, Typed, OpensOnce, ReaderStands, Ending, AnswersOnce, RefusedIsClosed, ReaderEnds, BeingClosed, Answers, At, Off
  <1>4. ReaderEnds'
    BY DEF IInv, Typed, OpensOnce, ReaderStands, Ending, AnswersOnce, RefusedIsClosed, ReaderEnds, BeingClosed, Answers, At, Off
  <1>5. BeingClosed'
    BY DEF IInv, Typed, OpensOnce, ReaderStands, Ending, AnswersOnce, RefusedIsClosed, ReaderEnds, BeingClosed, Answers, At, Off
  <1> QED
    BY <1>2, <1>3, <1>4, <1>5 DEF Ending

LEMMA ReadsEnds ==
    ASSUME IInv, Ending, Reads
    PROVE  Ending'
  <1> USE DEF Reads, ask, wire, worker, counts
  <1>2. AnswersOnce'
    BY DEF IInv, Typed, OpensOnce, ReaderStands, Ending, AnswersOnce, RefusedIsClosed, ReaderEnds, BeingClosed, Answers, At, Off
  <1>3. RefusedIsClosed'
    BY DEF IInv, Typed, OpensOnce, ReaderStands, Ending, AnswersOnce, RefusedIsClosed, ReaderEnds, BeingClosed, Answers, At, Off
  <1>4. ReaderEnds'
    BY DEF IInv, Typed, OpensOnce, ReaderStands, Ending, AnswersOnce, RefusedIsClosed, ReaderEnds, BeingClosed, Answers, At, Off
  <1>5. BeingClosed'
    BY DEF IInv, Typed, OpensOnce, ReaderStands, Ending, AnswersOnce, RefusedIsClosed, ReaderEnds, BeingClosed, Answers, At, Off
  <1> QED
    BY <1>2, <1>3, <1>4, <1>5 DEF Ending

LEMMA ReadsNoneEnds ==
    ASSUME IInv, Ending, ReadsNone
    PROVE  Ending'
  <1> USE DEF ReadsNone, ask, wire, worker, counts
  <1>2. AnswersOnce'
    BY DEF IInv, Typed, OpensOnce, ReaderStands, Ending, AnswersOnce, RefusedIsClosed, ReaderEnds, BeingClosed, Answers, At, Off
  <1>3. RefusedIsClosed'
    BY DEF IInv, Typed, OpensOnce, ReaderStands, Ending, AnswersOnce, RefusedIsClosed, ReaderEnds, BeingClosed, Answers, At, Off
  <1>4. ReaderEnds'
    BY DEF IInv, Typed, OpensOnce, ReaderStands, Ending, AnswersOnce, RefusedIsClosed, ReaderEnds, BeingClosed, Answers, At, Off
  <1>5. BeingClosed'
    BY DEF IInv, Typed, OpensOnce, ReaderStands, Ending, AnswersOnce, RefusedIsClosed, ReaderEnds, BeingClosed, Answers, At, Off
  <1> QED
    BY <1>2, <1>3, <1>4, <1>5 DEF Ending

LEMMA ForgetsEnds ==
    ASSUME IInv, Ending, Forgets
    PROVE  Ending'
  <1> USE DEF Forgets, ask, wire, worker, counts
  <1>2. AnswersOnce'
    BY DEF IInv, Typed, OpensOnce, ReaderStands, Ending, AnswersOnce, RefusedIsClosed, ReaderEnds, BeingClosed, Answers, At, Off
  <1>3. RefusedIsClosed'
    BY DEF IInv, Typed, OpensOnce, ReaderStands, Ending, AnswersOnce, RefusedIsClosed, ReaderEnds, BeingClosed, Answers, At, Off
  <1>4. ReaderEnds'
    BY DEF IInv, Typed, OpensOnce, ReaderStands, Ending, AnswersOnce, RefusedIsClosed, ReaderEnds, BeingClosed, Answers, At, Off
  <1>5. BeingClosed'
    BY DEF IInv, Typed, OpensOnce, ReaderStands, Ending, AnswersOnce, RefusedIsClosed, ReaderEnds, BeingClosed, Answers, At, Off
  <1> QED
    BY <1>2, <1>3, <1>4, <1>5 DEF Ending

LEMMA SaysClosedEnds ==
    ASSUME IInv, Ending, SaysClosed
    PROVE  Ending'
  <1> USE DEF SaysClosed, ask, wire, worker, counts
  <1>1. /\ control' # <<>>
        /\ \A g : Sent(control', g) <=> Sent(control, g) \/ g = "closed"
        /\ control = <<>> => Head(control') = "closed" /\ \A g : ~Sent(Tail(control'), g)
        /\ control # <<>> => /\ Head(control') = Head(control)
                            /\ \A g : Sent(Tail(control'), g) <=> Sent(Tail(control), g) \/ g = "closed"
    BY ControlAppend
  <1>2. AnswersOnce'
    BY <1>1, SentEmpty DEF IInv, Typed, OpensOnce, ReaderStands, Ending, AnswersOnce, RefusedIsClosed, ReaderEnds, BeingClosed, Answers, At, Off
  <1>3. RefusedIsClosed'
    BY <1>1, SentEmpty DEF IInv, Typed, OpensOnce, ReaderStands, Ending, AnswersOnce, RefusedIsClosed, ReaderEnds, BeingClosed, Answers, At, Off
  <1>4. ReaderEnds'
    BY <1>1, SentEmpty DEF IInv, Typed, OpensOnce, ReaderStands, Ending, AnswersOnce, RefusedIsClosed, ReaderEnds, BeingClosed, Answers, At, Off
  <1>5. BeingClosed'
    BY <1>1, SentEmpty DEF IInv, Typed, OpensOnce, ReaderStands, Ending, AnswersOnce, RefusedIsClosed, ReaderEnds, BeingClosed, Answers, At, Off
  <1> QED
    BY <1>2, <1>3, <1>4, <1>5 DEF Ending

LEMMA InitEnds == Init => Ending
  BY SentEmpty DEF Init, Ending, AnswersOnce, RefusedIsClosed, ReaderEnds, BeingClosed, Off

LEMMA NextEnds == IInv /\ Ending /\ [Next]_vars => Ending'
  <1> SUFFICES ASSUME IInv, Ending, [Next]_vars
               PROVE  Ending'
    OBVIOUS
  <1>1. CASE Open \/ TimesOut \/ Dropped \/ HangUp
    BY <1>1, OpenEnds, TimesOutEnds, DroppedEnds, HangUpEnds
  <1>2. CASE Read
    BY <1>2, HearsEnds, RecvEnds, RecvNoneEnds, SayCloseEnds DEF Read
  <1>3. CASE Route
    BY <1>3, HearOpenedEnds, HearClosedEnds, HearDataEnds, HandOverEnds DEF Route
  <1>4. CASE Serve
    BY <1>4, HearOpenEnds, RefusesEnds, ConnectsEnds, SpawnsEnds, InsertsEnds, HearCreditEnds, HearCloseEnds DEF Serve
  <1>5. CASE Carry
    BY <1>5, ClaimEnds, ParksEnds, ReadsEnds, ReadsNoneEnds, ForgetsEnds, SaysClosedEnds DEF Carry
  <1>6. CASE Destroy
    BY <1>6, DestroyEnds
  <1>7. CASE UNCHANGED vars
    BY <1>7 DEF vars, ask, wire, worker, counts, Ending, AnswersOnce, RefusedIsClosed, ReaderEnds, BeingClosed
  <1> QED
    BY <1>1, <1>2, <1>3, <1>4, <1>5, <1>6, <1>7 DEF Next

\* Closed, or still to be closed by something on its way: the worker's answer
\* to the opening, a frame that closes it, or a reader at its end.
StillToClose ==
    (asker \in {"gone", "finished"} /\ slips \cap {"orphaned", "outrun"} = {}) =>
      \/ opening \in {"none", "over"} /\ reader.at \in {"off", "over"} /\ ~table
      \/ opening \in {"none", "connecting"}
      \/ Sent(toWorker, CloseIt) \/ Sent(control, "ok")
      \/ reader.at \in {"ending", "forgotten"}
      \/ opening = "spawned" /\ reader.at = "over"

\* The safety half of NothingIsLeftOpen: a request that is given up never
\* leaves a socket, a reader or an entry in the worker's table behind with
\* nothing on its way that ends it, but for the two slips that property names
\* (Fleet::connect's Opened arm, Drop for Open, Tunnels::close).
THEOREM NoneIsStranded == Spec => []StillToClose
  <1>1. IInv /\ Ending => StillToClose
    BY DEF IInv, Typed, ReaderStands, Off, Ending, ReaderEnds, BeingClosed, StillToClose
  <1> QED
    BY <1>1, InitInv, NextKeeps, InitEnds, NextEnds, PTL DEF Spec
=============================================================================
