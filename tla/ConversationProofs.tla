-------------------------- MODULE ConversationProofs --------------------------
(***************************************************************************)
(* Proofs about Conversation: its type invariant, and that what is drawn   *)
(* stands in the order it was said, for every log, page size and number of *)
(* readers.                                                                *)
(***************************************************************************)
EXTENDS Conversation, QueueProofs

Ids == ({"line"} \X Nat) \cup ({"typed", "pending"} \X Messages)
Items == [id : Ids, text : Seq(Nat)]

\* The lines of the log that begin an item of their own.
Opens(n) == script[n] \notin {"quiet", "adds"}

\* The lines whose items are drawn, and the messages shown before the agent
\* repeats them.
LinesOf(items) == {n \in Nat : Has(items, Line(n))}
TypedOf(items) == {m \in Messages : Has(items, Typed(m))}

Unique(items) == \A i, j \in 1..Len(items) : items[i].id = items[j].id => i = j

Good(items) == items \in Seq(Items) /\ Unique(items)

Rising(items) ==
    \A i, j \in 1..Len(items) :
        (i < j /\ items[i].id[1] = "line" /\ items[j].id[1] = "line")
            => items[i].id[2] < items[j].id[2]

\* What a subscription sends, when so many lines are recorded.
Spoken(last) ==
    {frame \in [t : {"line"}, line : 0..last, own : BOOLEAN, pending : Seq(Messages)] :
        frame.own => frame.line # 0}
Words == {[t |-> "error"], [t |-> "reset"]}

HeldTyped(held, last) ==
    /\ held \in [items : Seq(Items), waiting : Seq(Spoken(last)), lastLine : 0..last,
                 firstLine : 0..last, hasMore : BOOLEAN, loadingOlder : BOOLEAN, trouble : BOOLEAN]
    /\ Unique(held.items)

PageTyped(page, last) ==
    /\ page \in [from : 1..(last + 1), to : 0..last, hasMore : BOOLEAN,
                 lastLine : 0..last, firstLine : 0..last]
    /\ page.from <= page.to + 1
    /\ IF page.hasMore
       THEN page.firstLine = page.from /\ page.from <= page.to /\ Opens(page.from)
       ELSE page.from = 1

LogTyped ==
    /\ script \in Scripts /\ recorded \in 0..Len(script)
    /\ announced \in 0..recorded /\ recorded <= announced + 1
    /\ typed \in Seq(Messages)

Pumps ==
    [at : {"off", "read", "live"}, from : 0..recorded, replayed : 0..recorded,
     todo : Seq(Spoken(recorded)), bus : Seq(1..announced), closed : BOOLEAN]

PumpTyped ==
    /\ pump \in Pumps
    /\ down \in Seq(Spoken(recorded) \cup Words)
    /\ up \in BOOLEAN

FollowerTyped ==
    \/ follower \in {NotFollowing, Following, [at |-> "asked"]}
    \/ \E page : /\ follower = [at |-> "answered", page |-> page]
                /\ PageTyped(page, recorded) /\ page.lastLine = page.to

Asked == [at : {"asked"}, before : 1..recorded, late : BOOLEAN]

Answered(page) ==
    \E answer : /\ page \in [at : {"answered"}, page : {answer}, late : BOOLEAN]
                /\ PageTyped(answer, recorded)

PagesTyped == \A page \in pages : page \in Asked \/ Answered(page)

\* A message is shown as typed only once its sender has put it there.
ShownOnce ==
    /\ sent \in [Messages -> {"unsent", "posting", "noting", "noted", "posted"}]
    /\ \A m \in TypedOf(store.items) : sent[m] \in {"posting", "posted"}

Typing ==
    /\ LogTyped /\ PumpTyped /\ FollowerTyped /\ PagesTyped /\ ShownOnce
    /\ HeldTyped(store, recorded)
    /\ readers \in 0..Readers
    /\ left \in [visits : Nat, troubles : Nat]

-----------------------------------------------------------------------------
(* The invariant behind InOrder *)

\* A conversation is followed by whoever reads it, from its last line on.
Followed ==
    /\ readers = 0 => follower = NotFollowing
    /\ follower.at \in {"asked", "answered"} => store.lastLine = 0
    /\ store.waiting # <<>> => follower = Following
    /\ pump.at # "off" => follower = Following /\ up
    /\ pump.at = "off" => pump = Off
    /\ ~up => down = <<>>

\* A line of its own comes after all that came before it; one that only
\* carries messages has been drawn already, or draws nothing.
Fits(coming, k, held) ==
    \A j \in 1..Len(coming) : (j > k /\ coming[j].t = "line") =>
        IF coming[j].own
        THEN /\ coming[j].line >= held.lastLine
             /\ \A i \in 1..(j - 1) : (i > k /\ coming[i].t = "line") => coming[i].line < coming[j].line
        ELSE coming[j].line # 0 /\ Opens(coming[j].line) => coming[j].line \in LinesOf(held.items)

\* Frames still to be folded, in the order they will be.
Coming(p, d, held) == (held.waiting \o d) \o p.todo

\* Nothing on its way before the log is read, and nothing newer than what was.
Stands(p, d, f, held) ==
    /\ f = Following => Fits(Coming(p, d, held), 0, held)
    /\ p.at = "read" =>
         /\ held.waiting = <<>> /\ p.todo = <<>> /\ p.from = held.lastLine
         /\ \A j \in 1..Len(d) : d[j].t # "line"
         /\ \A i \in 1..Len(p.bus) : p.bus[i] >= held.lastLine
    /\ p.at = "live" =>
         /\ \A j \in 1..Len(Coming(p, d, held)) :
              Coming(p, d, held)[j].t = "line" => Coming(p, d, held)[j].line <= p.replayed
         /\ \A i \in 1..Len(p.bus) : p.bus[i] > p.replayed => p.bus[i] >= held.lastLine

\* The lines drawn rise, to the last line folded.
Drawing(held) ==
    /\ Rising(held.items)
    /\ LinesOf(held.items) \subseteq 1..held.lastLine
    /\ held.lastLine # 0 /\ Opens(held.lastLine) => held.lastLine \in LinesOf(held.items)

\* A line that is drawn, and below which nothing is missing in the middle: an
\* older page ends there.
Edge(b, items) ==
    /\ b \in LinesOf(items)
    /\ \A n \in 1..(b - 1) :
         Opens(n) /\ (\E m \in LinesOf(items) : m <= n) => n \in LinesOf(items)

\* Where the older page that is being read ends, and what is drawn goes on.
GoesOn(page) == IF page.at = "asked" THEN page.before ELSE page.page.to + 1

Edges(held, reads) ==
    /\ held.hasMore => Edge(held.firstLine, held.items)
    /\ \A page \in reads : ~page.late => Edge(GoesOn(page), held.items)

Clean == fault \cap {"overlap", "late page"} = {}

Ordered == Stands(pump, down, follower, store) /\ Drawing(store) /\ Edges(store, pages)

Ordering == Followed /\ (Clean => Ordered)

IInv == Typing /\ Ordering

-----------------------------------------------------------------------------
(* Items *)

LEMMA IdFacts ==
    /\ \A n \in Nat : Line(n) \in Ids /\ Line(n)[1] = "line" /\ Line(n)[2] = n
    /\ \A m \in Messages : Typed(m) \in Ids /\ Typed(m)[1] = "typed" /\ Typed(m)[2] = m
    /\ \A m \in Messages : Pending(m) \in Ids /\ Pending(m)[1] = "pending"
    /\ \A id \in Ids : id[1] = "line" => id[2] \in Nat /\ id = Line(id[2])
    /\ \A id \in Ids : id[1] = "typed" => id[2] \in Messages /\ id = Typed(id[2])
  BY DEF Ids, Line, Typed, Pending

\* Two conversations that draw the same items, whatever is written in them.
SameIds(v, items) ==
    Len(v) = Len(items) /\ \A i \in 1..Len(items) : v[i].id = items[i].id

LEMMA SameIdsFacts ==
    ASSUME NEW items \in Seq(Items), NEW v \in Seq(Items), SameIds(v, items)
    PROVE  /\ Unique(items) => Unique(v)
           /\ Rising(items) => Rising(v)
           /\ LinesOf(v) = LinesOf(items) /\ TypedOf(v) = TypedOf(items)
  <1>1. \A id : Has(v, id) <=> Has(items, id)
    BY DEF SameIds, Has
  <1>2. LinesOf(v) = LinesOf(items) /\ TypedOf(v) = TypedOf(items)
    BY <1>1 DEF LinesOf, TypedOf
  <1>3. Unique(items) => Unique(v)
    BY DEF SameIds, Unique
  <1>4. Rising(items) => Rising(v)
    BY DEF SameIds, Rising
  <1> QED
    BY <1>2, <1>3, <1>4

LEMMA DeltaFacts ==
    ASSUME NEW items \in Seq(Items), NEW id, NEW n \in Nat
    PROVE  Delta(items, id, n) \in Seq(Items) /\ SameIds(Delta(items, id, n), items)
  <1> DEFINE v == Delta(items, id, n)
             more(i) == [items[i] EXCEPT !.text = Append(@, n)]
  <1>1. \A i \in 1..Len(items) : items[i] \in Items /\ more(i) \in Items /\ more(i).id = items[i].id
    <2> TAKE i \in 1..Len(items)
    <2>1. items[i] \in Items
      OBVIOUS
    <2>2. items[i].text \in Seq(Nat) /\ items[i].id \in Ids
      BY <2>1 DEF Items
    <2> DEFINE text == Append(items[i].text, n)
    <2>3. text \in Seq(Nat)
      BY <2>2
    <2>4. more(i) = [items[i] EXCEPT !.text = text]
      OBVIOUS
    <2> HIDE DEF text, more
    <2> QED
      BY <2>1, <2>2, <2>3, <2>4 DEF Items
  <1> HIDE DEF more
  <1>2. v = [i \in 1..Len(items) |-> IF items[i].id = id THEN more(i) ELSE items[i]]
    BY DEF Delta, more
  <1>3. v \in Seq(Items) /\ Len(v) = Len(items)
    BY <1>1, <1>2
  <1>4. \A i \in 1..Len(items) : v[i].id = items[i].id
    BY <1>1, <1>2
  <1> QED
    BY <1>3, <1>4 DEF SameIds

LEMMA EmptiedFacts ==
    ASSUME NEW items \in Seq(Items), NEW id
    PROVE  Emptied(items, id) \in Seq(Items) /\ SameIds(Emptied(items, id), items)
  <1> DEFINE v == Emptied(items, id)
             none(i) == [items[i] EXCEPT !.text = <<>>]
  <1>1. \A i \in 1..Len(items) : items[i] \in Items /\ none(i) \in Items /\ none(i).id = items[i].id
    <2> TAKE i \in 1..Len(items)
    <2>1. items[i] \in Items
      OBVIOUS
    <2>2. items[i].text \in Seq(Nat) /\ items[i].id \in Ids
      BY <2>1 DEF Items
    <2> DEFINE text == <<>>
    <2>3. text \in Seq(Nat)
      BY <2>2
    <2>4. none(i) = [items[i] EXCEPT !.text = text]
      OBVIOUS
    <2> HIDE DEF text, none
    <2> QED
      BY <2>1, <2>2, <2>3, <2>4 DEF Items
  <1> HIDE DEF none
  <1>2. v = [i \in 1..Len(items) |-> IF items[i].id = id THEN none(i) ELSE items[i]]
    BY DEF Emptied, none
  <1>3. v \in Seq(Items) /\ Len(v) = Len(items)
    BY <1>1, <1>2
  <1>4. \A i \in 1..Len(items) : v[i].id = items[i].id
    BY <1>1, <1>2
  <1> QED
    BY <1>3, <1>4 DEF SameIds

\* Items taken out leave the others as they stood.
LEMMA FewerFacts ==
    ASSUME NEW items, Good(items), NEW gone
    PROVE  LET v == Without(items, gone)
           IN  /\ Good(v) /\ (Rising(items) => Rising(v))
               /\ \A i \in 1..Len(v) : v[i] \notin gone /\ \E k \in 1..Len(items) : v[i] = items[k]
               /\ \A k \in 1..Len(items) : items[k] \notin gone => \E i \in 1..Len(v) : v[i] = items[k]
  <1> DEFINE v == Without(items, gone)
  <1>1. items \in Seq(Items) /\ Unique(items)
    BY DEF Good
  <1>2. v \in Seq(Items)
    <2>1. v \in Seq(Items \ gone)
      BY <1>1, WithoutType
    <2> HIDE DEF v
    <2> QED
      BY <2>1, Wider, Items \ gone \subseteq Items
  <1>3. PICK at : LeftOf(items, gone, v, at)
    BY <1>1, WithoutKeeps
  <1> HIDE DEF v
  <1>4. \A i \in 1..Len(v) : at[i] \in 1..Len(items) /\ v[i] = items[at[i]] /\ v[i] \notin gone
    BY <1>3 DEF LeftOf
  <1>5. \A i, j \in 1..Len(v) : i < j => at[i] < at[j]
    BY <1>3 DEF LeftOf
  <1>6. \A k \in 1..Len(items) : items[k] \notin gone => \E i \in 1..Len(v) : v[i] = items[k]
    BY <1>3, <1>4 DEF LeftOf
  <1>7. Unique(v)
    <2> SUFFICES ASSUME NEW i \in 1..Len(v), NEW j \in 1..Len(v), v[i].id = v[j].id
                 PROVE  i = j
      BY DEF Unique
    <2>1. at[i] = at[j]
      BY <1>1, <1>4 DEF Unique
    <2>2. i \in Int /\ j \in Int /\ ~(i < j) /\ ~(j < i)
      BY <1>2, <1>4, <1>5, <2>1
    <2> QED
      BY <2>2
  <1>8. ASSUME Rising(items)
        PROVE  Rising(v)
    BY <1>4, <1>5, <1>8, SMTT(20) DEF Rising
  <1> QED
    BY <1>2, <1>4, <1>6, <1>7, <1>8 DEF Good, v

\* A new item at the end.
LEMMA AddFacts ==
    ASSUME NEW items, Good(items), NEW id \in Ids, ~Has(items, id)
    PROVE  LET v == Append(items, [id |-> id, text |-> <<>>])
           IN  /\ Good(v)
               /\ LinesOf(v) = LinesOf(items) \cup {n \in Nat : Line(n) = id}
               /\ TypedOf(v) = TypedOf(items) \cup {m \in Messages : Typed(m) = id}
               /\ (Rising(items) /\ (id[1] = "line" => \A n \in LinesOf(items) : n < id[2])) => Rising(v)
  <1> DEFINE new == [id |-> id, text |-> <<>>]
             v == Append(items, new)
  <1>1. items \in Seq(Items) /\ Unique(items)
    BY DEF Good
  <1>2. new \in Items /\ new.id = id
    BY DEF Items
  <1> HIDE DEF new
  <1>3. /\ v \in Seq(Items) /\ Len(v) = Len(items) + 1 /\ v[Len(items) + 1] = new
        /\ \A i \in 1..Len(items) : v[i] = items[i]
    BY <1>1, <1>2
  <1>4. Len(items) \in Nat
    BY <1>1
  <1> HIDE DEF v
  <1>5. \A i \in 1..Len(v) : i = Len(items) + 1 \/ i \in 1..Len(items)
    BY <1>3, <1>4
  <1>6. ASSUME NEW some
        PROVE  Has(v, some) <=> (Has(items, some) \/ some = id)
    <2>1. ASSUME Has(v, some)
          PROVE  Has(items, some) \/ some = id
      BY <1>2, <1>3, <1>5, <2>1 DEF Has
    <2>2. ASSUME Has(items, some)
          PROVE  Has(v, some)
      BY <1>3, <1>4, <2>2 DEF Has
    <2>3. Len(items) + 1 \in 1..Len(v)
      BY <1>3, <1>4
    <2>4. Has(v, id)
      BY <1>2, <1>3, <2>3 DEF Has
    <2> QED
      BY <2>1, <2>2, <2>4
  <1>7. LinesOf(v) = LinesOf(items) \cup {n \in Nat : Line(n) = id}
    BY <1>6 DEF LinesOf
  <1>8. TypedOf(v) = TypedOf(items) \cup {m \in Messages : Typed(m) = id}
    BY <1>6 DEF TypedOf
  <1>9. Unique(v)
    BY <1>1, <1>2, <1>3, <1>5 DEF Unique, Has
  <1>10. ASSUME Rising(items), id[1] = "line" => \A n \in LinesOf(items) : n < id[2]
         PROVE  Rising(v)
    <2> SUFFICES ASSUME NEW i \in 1..Len(v), NEW j \in 1..Len(v), i < j,
                        v[i].id[1] = "line", v[j].id[1] = "line"
                 PROVE  v[i].id[2] < v[j].id[2]
      BY DEF Rising
    <2>1. i \in 1..Len(items)
      BY <1>3, <1>4
    <2>2. CASE j \in 1..Len(items)
      BY <1>3, <1>10, <2>1, <2>2 DEF Rising
    <2>3. CASE j = Len(items) + 1
      <3>1. v[j].id = id /\ v[i] = items[i]
        BY <1>2, <1>3, <2>1, <2>3
      <3>2. items[i] \in Items
        BY <1>1, <2>1
      <3>3. items[i].id \in Ids
        BY <3>2 DEF Items
      <3>4. items[i].id[2] \in Nat /\ items[i].id = Line(items[i].id[2])
        BY <3>1, <3>3, IdFacts
      <3>5. items[i].id[2] \in LinesOf(items)
        BY <2>1, <3>4 DEF LinesOf, Has
      <3> QED
        BY <1>10, <3>1, <3>5
    <2> QED
      BY <1>5, <2>2, <2>3
  <1> QED
    BY <1>3, <1>7, <1>8, <1>9, <1>10 DEF Good, v, new

\* Only what was typed is taken away.
LEMMA SettledFacts ==
    ASSUME NEW items, Good(items)
    PROVE  /\ Good(Settled(items)) /\ (Rising(items) => Rising(Settled(items)))
           /\ LinesOf(Settled(items)) = LinesOf(items)
           /\ TypedOf(Settled(items)) = {}
           /\ \A id : Has(Settled(items), id) => Has(items, id)
  <1> DEFINE gone == {item \in ToSet(items) : item.id[1] = "typed"}
             v == Without(items, gone)
  <1>1. Settled(items) = v
    BY DEF Settled
  <1>2. /\ Good(v) /\ (Rising(items) => Rising(v))
        /\ \A i \in 1..Len(v) : v[i] \notin gone /\ \E k \in 1..Len(items) : v[i] = items[k]
        /\ \A k \in 1..Len(items) : items[k] \notin gone => \E i \in 1..Len(v) : v[i] = items[k]
    <2> HIDE DEF gone
    <2> QED
      BY FewerFacts
  <1>3. \A k \in 1..Len(items) : items[k] \in ToSet(items)
    <2>1. items \in Seq(Items)
      BY DEF Good
    <2> QED
      BY <2>1 DEF ToSet
  <1> HIDE DEF v
  <1>4. \A i \in 1..Len(v) : v[i].id[1] # "typed"
    BY <1>2, <1>3
  <1>5. \A id : Has(v, id) => Has(items, id)
    BY <1>2 DEF Has
  <1>6. \A id : (Has(items, id) /\ id[1] # "typed") => Has(v, id)
    BY <1>2 DEF Has
  <1>7. TypedOf(v) = {}
    BY <1>4, IdFacts DEF TypedOf, Has
  <1>8. LinesOf(v) = LinesOf(items)
    <2>1. \A n \in Nat : Line(n)[1] # "typed"
      BY IdFacts
    <2> QED
      BY <1>5, <1>6, <2>1 DEF LinesOf
  <1> QED
    BY <1>1, <1>2, <1>5, <1>7, <1>8

LEMMA StartFacts ==
    ASSUME NEW items, Good(items), NEW id \in Ids, NEW spoken \in BOOLEAN
    PROVE  LET v == Start(items, id, spoken)
           IN  /\ Good(v)
               /\ LinesOf(v) = LinesOf(items) \cup {n \in Nat : Line(n) = id}
               /\ TypedOf(v) \subseteq TypedOf(items) \cup {m \in Messages : Typed(m) = id}
               /\ (Rising(items) /\ (id[1] = "line" => Has(items, id) \/ \A n \in LinesOf(items) : n < id[2]))
                     => Rising(v)
  <1> DEFINE v == Start(items, id, spoken)
             kept == IF spoken THEN Settled(items) ELSE items
  <1>1. CASE Has(items, id)
    <2>1. v = Emptied(items, id)
      BY <1>1 DEF Start
    <2>2. items \in Seq(Items) /\ Unique(items)
      BY DEF Good
    <2>3. v \in Seq(Items) /\ SameIds(v, items)
      BY <2>1, <2>2, EmptiedFacts
    <2> HIDE DEF v
    <2>4. Good(v) /\ (Rising(items) => Rising(v)) /\ LinesOf(v) = LinesOf(items) /\ TypedOf(v) = TypedOf(items)
      BY <2>2, <2>3, SameIdsFacts DEF Good
    <2>5. {n \in Nat : Line(n) = id} \subseteq LinesOf(items)
      BY <1>1 DEF LinesOf
    <2> QED
      BY <2>4, <2>5 DEF v
  <1>2. CASE ~Has(items, id)
    <2>1. v = Append(kept, [id |-> id, text |-> <<>>])
      BY <1>2 DEF Start
    <2>2. /\ Good(kept) /\ (Rising(items) => Rising(kept)) /\ LinesOf(kept) = LinesOf(items)
          /\ TypedOf(kept) \subseteq TypedOf(items) /\ ~Has(kept, id)
      BY <1>2, SettledFacts
    <2> HIDE DEF kept
    <2>3. /\ Good(v)
          /\ LinesOf(v) = LinesOf(kept) \cup {n \in Nat : Line(n) = id}
          /\ TypedOf(v) = TypedOf(kept) \cup {m \in Messages : Typed(m) = id}
          /\ (Rising(kept) /\ (id[1] = "line" => \A n \in LinesOf(kept) : n < id[2])) => Rising(v)
      BY <2>1, <2>2, AddFacts
    <2> HIDE DEF v
    <2> QED
      BY <1>2, <2>2, <2>3 DEF v
  <1> QED
    BY <1>1, <1>2

\* One line begins at most its own item, and takes only typed messages away.
LEMMA ApplyLineFacts ==
    ASSUME NEW items, Good(items), NEW n \in Nat
    PROVE  LET v == ApplyLine(items, n)
           IN  /\ Good(v)
               /\ LinesOf(v) = LinesOf(items) \cup {k \in {n} : Opens(k)}
               /\ TypedOf(v) \subseteq TypedOf(items)
               /\ (Rising(items) /\ (Opens(n) => n \in LinesOf(items) \/ \A k \in LinesOf(items) : k < n))
                     => Rising(v)
  <1> DEFINE v == ApplyLine(items, n)
  <1>1. items \in Seq(Items)
    BY DEF Good
  <1>2. CASE script[n] = "quiet"
    <2>1. v = items
      BY <1>2 DEF ApplyLine, Draws
    <2> QED
      BY <1>2, <2>1 DEF Opens
  <1>3. CASE script[n] = "adds"
    <2>1. v = Delta(items, Line(Opener(n)), n)
      BY <1>3 DEF ApplyLine, Draws
    <2>2. v \in Seq(Items) /\ SameIds(v, items)
      BY <1>1, <2>1, DeltaFacts
    <2> HIDE DEF v
    <2>3. Good(v) /\ (Rising(items) => Rising(v)) /\ LinesOf(v) = LinesOf(items) /\ TypedOf(v) = TypedOf(items)
      BY <1>1, <2>2, SameIdsFacts DEF Good
    <2>4. ~Opens(n)
      BY <1>3 DEF Opens
    <2> QED
      BY <2>3, <2>4 DEF v
  <1>4. CASE Opens(n)
    <2> DEFINE begun == Start(items, Line(n), IsMessage(n))
    <2>1. v = Delta(begun, Line(n), n)
      BY <1>4 DEF ApplyLine, Draws, Opens, Opener
    <2>2. Line(n) \in Ids /\ IsMessage(n) \in BOOLEAN /\ Line(n)[1] = "line" /\ Line(n)[2] = n
      BY IdFacts DEF IsMessage
    <2>3. /\ {k \in Nat : Line(k) = Line(n)} = {n} /\ {m \in Messages : Typed(m) = Line(n)} = {}
          /\ {k \in {n} : Opens(k)} = {n}
      BY <1>4, IdFacts
    <2>4. n \in LinesOf(items) <=> Has(items, Line(n))
      BY DEF LinesOf
    <2>5. /\ Good(begun)
          /\ LinesOf(begun) = LinesOf(items) \cup {k \in Nat : Line(k) = Line(n)}
          /\ TypedOf(begun) \subseteq TypedOf(items) \cup {m \in Messages : Typed(m) = Line(n)}
          /\ (Rising(items) /\ (Line(n)[1] = "line" => Has(items, Line(n)) \/ \A k \in LinesOf(items) : k < Line(n)[2]))
               => Rising(begun)
      BY <2>2, StartFacts
    <2> HIDE DEF begun
    <2>6. begun \in Seq(Items)
      BY <2>5 DEF Good
    <2>7. v \in Seq(Items) /\ SameIds(v, begun)
      BY <2>1, <2>6, DeltaFacts
    <2> HIDE DEF v
    <2>8. Good(v) /\ (Rising(begun) => Rising(v)) /\ LinesOf(v) = LinesOf(begun) /\ TypedOf(v) = TypedOf(begun)
      BY <2>5, <2>6, <2>7, SameIdsFacts DEF Good
    <2>9. LinesOf(v) = LinesOf(items) \cup {n} /\ TypedOf(v) \subseteq TypedOf(items)
      BY <2>3, <2>5, <2>8
    <2>10. (Rising(items) /\ (n \in LinesOf(items) \/ \A k \in LinesOf(items) : k < n)) => Rising(v)
      BY <2>2, <2>4, <2>5, <2>8
    <2> QED
      BY <1>4, <2>3, <2>8, <2>9, <2>10 DEF v
  <1> QED
    BY <1>2, <1>3, <1>4 DEF Opens

\* What a stretch of the log brings: the items that begin in it.
Stretched(v, items, from, to) ==
    /\ Good(v)
    /\ LinesOf(v) = LinesOf(items) \cup {k \in from..to : Opens(k)}
    /\ TypedOf(v) \subseteq TypedOf(items)
    /\ (Rising(items) /\ \A k \in LinesOf(items) : k < from) => Rising(v)

LEMMA ApplyLinesFacts ==
    ASSUME NEW items, Good(items), NEW from \in Nat, NEW to \in Nat, from <= to + 1
    PROVE  Stretched(ApplyLines(items, from, to), items, from, to)
  <1> DEFINE size == to + 1 - from
             S == {some \in Seq(Items) : Good(some)}
             F == [pair \in S \X (1..size) |-> ApplyLine(pair[1], from + pair[2] - 1)]
             Is(f) == f = [n \in 0..size |-> IF n = 0 THEN items ELSE ApplyLine(f[n - 1], from + n - 1)]
             h == CHOOSE f : Is(f)
  <1>1. size \in Nat
    OBVIOUS
  <1>2. items \in S
    BY DEF Good
  <1>3. ASSUME NEW x \in S, NEW n \in 1..size
        PROVE  F[<<x, n>>] = ApplyLine(x, from + n - 1) /\ F[<<x, n>>] \in S
    <2>1. from + n - 1 \in Nat /\ Good(x)
      OBVIOUS
    <2>2. Good(ApplyLine(x, from + n - 1))
      BY <2>1, ApplyLineFacts
    <2>3. F[<<x, n>>] = ApplyLine(x, from + n - 1)
      <3> HIDE DEF S
      <3> QED
        OBVIOUS
    <2> QED
      BY <2>2, <2>3 DEF Good
  <1> HIDE DEF S, F
  <1>4. PICK f : Steps(f, S, items, size, F)
    <2> HIDE DEF size
    <2>1. F \in [S \X (1..size) -> S]
      BY <1>3 DEF F
    <2> QED
      BY <1>1, <1>2, <2>1, StepsExist
  <1>5. \A n \in 0..size : f[n] = IF n = 0 THEN items ELSE ApplyLine(f[n - 1], from + n - 1)
    <2> TAKE n \in 0..size
    <2>1. CASE n # 0
      <3>1. n \in 1..size /\ n - 1 \in 0..size
        BY <2>1, <1>1
      <3>2. f[n - 1] \in S /\ f[n] = F[<<f[n - 1], n>>]
        BY <1>4, <3>1 DEF Steps
      <3>3. F[<<f[n - 1], n>>] = ApplyLine(f[n - 1], from + n - 1)
        BY <1>3, <3>1, <3>2
      <3> QED
        BY <2>1, <3>2, <3>3
    <2> QED
      BY <1>4, <2>1 DEF Steps
  <1>6. Is(f)
    <2> HIDE DEF size
    <2>1. f = [n \in 0..size |-> f[n]]
      BY <1>4 DEF Steps
    <2> QED
      BY <1>5, <2>1
  <1>7. Is(h)
    <2> HIDE DEF Is
    <2> QED
      BY <1>6
  <1>8. ApplyLines(items, from, to) = h[size]
    BY DEF ApplyLines
  <1>9. h[0] = items /\ \A n \in 1..size : h[n] = ApplyLine(h[n - 1], from + n - 1)
    <2> HIDE DEF h
    <2> QED
      BY <1>1, <1>7
  <1> HIDE DEF h, Is
  <1> DEFINE Upto(n) == {k \in from..(from + n - 1) : Opens(k)}
             Part(n) == /\ Good(h[n])
                        /\ LinesOf(h[n]) = LinesOf(items) \cup Upto(n)
                        /\ TypedOf(h[n]) \subseteq TypedOf(items)
                        /\ (Rising(items) /\ \A k \in LinesOf(items) : k < from) => Rising(h[n])
             N == {n \in Nat : n <= size => Part(n)}
  <1>10. Part(0)
    <2>1. Upto(0) = {}
      OBVIOUS
    <2> HIDE DEF Upto
    <2> QED
      BY <1>9, <2>1
  <1>11. ASSUME NEW n \in Nat, n + 1 <= size, Part(n)
         PROVE  Part(n + 1)
    <2> DEFINE line == from + n
    <2>1. line \in Nat /\ h[n + 1] = ApplyLine(h[n], line)
      <3>1. n + 1 \in 1..size /\ (n + 1) - 1 = n /\ from + (n + 1) - 1 = from + n
        BY <1>11
      <3> QED
        BY <1>9, <3>1
    <2>2. Upto(n + 1) = Upto(n) \cup {k \in {line} : Opens(k)}
      OBVIOUS
    <2>3. \A k \in Upto(n) : k < line
      OBVIOUS
    <2>4. (\A k \in LinesOf(items) : k < from) => \A k \in LinesOf(items) : k < line
      BY DEF LinesOf
    <2> HIDE DEF Upto, line
    <2>5. Good(h[n]) /\ LinesOf(h[n]) = LinesOf(items) \cup Upto(n) /\ TypedOf(h[n]) \subseteq TypedOf(items)
      BY <1>11
    <2>6. (Rising(items) /\ \A k \in LinesOf(items) : k < from) => Rising(h[n])
      BY <1>11
    <2>7. /\ Good(h[n + 1])
          /\ LinesOf(h[n + 1]) = LinesOf(h[n]) \cup {k \in {line} : Opens(k)}
          /\ TypedOf(h[n + 1]) \subseteq TypedOf(h[n])
          /\ (Rising(h[n]) /\ (Opens(line) => line \in LinesOf(h[n]) \/ \A k \in LinesOf(h[n]) : k < line))
               => Rising(h[n + 1])
      BY <2>1, <2>5, ApplyLineFacts
    <2>8. (Rising(items) /\ \A k \in LinesOf(items) : k < from) => Rising(h[n + 1])
      BY <2>3, <2>4, <2>5, <2>6, <2>7
    <2> QED
      BY <2>2, <2>5, <2>7, <2>8
  <1>12. Nat \subseteq N
    <2>1. 0 \in N
      BY <1>10
    <2>2. \A n \in Nat : n \in N => n + 1 \in N
      <3> HIDE DEF Part
      <3> QED
        BY <1>1, <1>11
    <2> HIDE DEF N
    <2> QED
      BY <2>1, <2>2, Inductive
  <1>13. Part(size)
    <2> HIDE DEF Part
    <2> QED
      BY <1>1, <1>12
  <1>14. from + size - 1 = to
    OBVIOUS
  <1>15. Upto(size) = {k \in from..to : Opens(k)}
    <2> HIDE DEF size
    <2> QED
      BY <1>14
  <1> HIDE DEF Upto, size
  <1> QED
    BY <1>8, <1>13, <1>15 DEF Stretched

\* Messages not yet repeated are no line of the log.
LEMMA AwaitedFacts ==
    ASSUME NEW items, Good(items), NEW messages \in Seq(Messages)
    PROVE  LET v == Awaited(items, messages)
           IN  /\ Good(v) /\ (Rising(items) => Rising(v))
               /\ LinesOf(v) = LinesOf(items) /\ TypedOf(v) \subseteq TypedOf(items)
  <1> DEFINE size == Len(messages)
             S == {some \in Seq(Items) : Good(some)}
             F == [pair \in S \X (1..size) |-> Start(pair[1], Pending(messages[pair[2]]), TRUE)]
             Is(f) == f = [n \in 0..size |-> IF n = 0 THEN items ELSE Start(f[n - 1], Pending(messages[n]), TRUE)]
             h == CHOOSE f : Is(f)
  <1>1. size \in Nat
    OBVIOUS
  <1>2. items \in S
    BY DEF Good
  <1>3. ASSUME NEW x, Good(x), NEW n \in 1..size
        PROVE  LET v == Start(x, Pending(messages[n]), TRUE)
               IN  /\ Good(v) /\ (Rising(x) => Rising(v))
                   /\ LinesOf(v) = LinesOf(x) /\ TypedOf(v) \subseteq TypedOf(x)
    <2> DEFINE id == Pending(messages[n])
    <2>1. messages[n] \in Messages
      OBVIOUS
    <2>2. id \in Ids /\ id[1] = "pending"
      BY <2>1, IdFacts
    <2>3. {k \in Nat : Line(k) = id} = {} /\ {m \in Messages : Typed(m) = id} = {} /\ id[1] # "line"
      <3> HIDE DEF id
      <3> QED
        BY <2>2, IdFacts
    <2> HIDE DEF id
    <2> DEFINE v == Start(x, id, TRUE)
    <2>4. /\ Good(v)
          /\ LinesOf(v) = LinesOf(x) \cup {k \in Nat : Line(k) = id}
          /\ TypedOf(v) \subseteq TypedOf(x) \cup {m \in Messages : Typed(m) = id}
          /\ (Rising(x) /\ (id[1] = "line" => Has(x, id) \/ \A k \in LinesOf(x) : k < id[2])) => Rising(v)
      BY <1>3, <2>2, StartFacts
    <2> HIDE DEF v
    <2>5. /\ Good(v) /\ (Rising(x) => Rising(v))
          /\ LinesOf(v) = LinesOf(x) /\ TypedOf(v) \subseteq TypedOf(x)
      BY <2>3, <2>4
    <2> QED
      BY <2>5 DEF v, id
  <1>4. ASSUME NEW x \in S, NEW n \in 1..size
        PROVE  F[<<x, n>>] = Start(x, Pending(messages[n]), TRUE) /\ F[<<x, n>>] \in S
    <2>1. F[<<x, n>>] = Start(x, Pending(messages[n]), TRUE)
      <3> HIDE DEF S, size
      <3> QED
        OBVIOUS
    <2>2. Good(Start(x, Pending(messages[n]), TRUE))
      BY <1>3
    <2> HIDE DEF F, size
    <2> QED
      BY <2>1, <2>2 DEF Good
  <1> HIDE DEF S, F
  <1>5. PICK f : Steps(f, S, items, size, F)
    <2> HIDE DEF size
    <2>1. F \in [S \X (1..size) -> S]
      BY <1>4 DEF F
    <2> QED
      BY <1>1, <1>2, <2>1, StepsExist
  <1>6. \A n \in 0..size : f[n] = IF n = 0 THEN items ELSE Start(f[n - 1], Pending(messages[n]), TRUE)
    <2> TAKE n \in 0..size
    <2>1. CASE n # 0
      <3>1. n \in 1..size /\ n - 1 \in 0..size
        BY <2>1, <1>1
      <3>2. f[n - 1] \in S /\ f[n] = F[<<f[n - 1], n>>]
        BY <1>5, <3>1 DEF Steps
      <3>3. F[<<f[n - 1], n>>] = Start(f[n - 1], Pending(messages[n]), TRUE)
        BY <1>4, <3>1, <3>2
      <3> QED
        BY <2>1, <3>2, <3>3
    <2> QED
      BY <1>5, <2>1 DEF Steps
  <1>7. Is(f)
    <2> HIDE DEF size
    <2>1. f = [n \in 0..size |-> f[n]]
      BY <1>5 DEF Steps
    <2> QED
      BY <1>6, <2>1
  <1>8. Is(h)
    <2> HIDE DEF Is
    <2> QED
      BY <1>7
  <1>9. Awaited(items, messages) = h[size]
    BY DEF Awaited
  <1>10. h[0] = items /\ \A n \in 1..size : h[n] = Start(h[n - 1], Pending(messages[n]), TRUE)
    <2> HIDE DEF h
    <2> QED
      BY <1>1, <1>8
  <1> HIDE DEF h, Is
  <1> DEFINE Part(n) == /\ Good(h[n]) /\ (Rising(items) => Rising(h[n]))
                        /\ LinesOf(h[n]) = LinesOf(items) /\ TypedOf(h[n]) \subseteq TypedOf(items)
             N == {n \in Nat : n <= size => Part(n)}
  <1>11. Part(0)
    BY <1>10
  <1>12. ASSUME NEW n \in Nat, n + 1 <= size, Part(n)
         PROVE  Part(n + 1)
    <2>1. n + 1 \in 1..size /\ (n + 1) - 1 = n
      BY <1>12
    <2>2. h[n + 1] = Start(h[n], Pending(messages[n + 1]), TRUE)
      BY <1>10, <2>1
    <2> DEFINE v == Start(h[n], Pending(messages[n + 1]), TRUE)
    <2>3. /\ Good(v) /\ (Rising(h[n]) => Rising(v))
          /\ LinesOf(v) = LinesOf(h[n]) /\ TypedOf(v) \subseteq TypedOf(h[n])
      BY <1>3, <1>12, <2>1
    <2> HIDE DEF v
    <2>4. h[n + 1] = v
      BY <2>2 DEF v
    <2> QED
      BY <1>12, <2>3, <2>4
  <1>13. Nat \subseteq N
    <2>1. 0 \in N
      BY <1>11
    <2>2. \A n \in Nat : n \in N => n + 1 \in N
      <3> HIDE DEF Part
      <3> QED
        BY <1>1, <1>12
    <2> HIDE DEF N
    <2> QED
      BY <2>1, <2>2, Inductive
  <1>14. Part(size)
    <2> HIDE DEF Part
    <2> QED
      BY <1>1, <1>13
  <1> QED
    BY <1>9, <1>14

-----------------------------------------------------------------------------
(* What is kept *)

LEMMA HeldFacts ==
    ASSUME NEW last \in Nat, NEW held, HeldTyped(held, last)
    PROVE  /\ Good(held.items) /\ held.items \in Seq(Items) /\ held.waiting \in Seq(Spoken(last))
           /\ held.lastLine \in 0..last /\ held.firstLine \in 0..last
           /\ held.hasMore \in BOOLEAN /\ held.loadingOlder \in BOOLEAN /\ held.trouble \in BOOLEAN
  BY DEF HeldTyped, Good

\* What a frame may do to what is kept.
FrameFolded(v, held, frame) ==
    /\ v.waiting = held.waiting /\ v.firstLine = held.firstLine /\ v.hasMore = held.hasMore
    /\ v.loadingOlder = held.loadingOlder /\ v.trouble = held.trouble
    /\ v.lastLine = IF frame.line > held.lastLine THEN frame.line ELSE held.lastLine
    /\ LinesOf(v.items) = LinesOf(held.items) \cup {k \in {frame.line} : frame.own /\ Opens(k)}
    /\ TypedOf(v.items) \subseteq TypedOf(held.items)
    /\ (/\ Rising(held.items)
        /\ frame.own /\ Opens(frame.line) =>
             frame.line \in LinesOf(held.items) \/ \A k \in LinesOf(held.items) : k < frame.line)
          => Rising(v.items)

LEMMA ApplyFrameFacts ==
    ASSUME NEW last \in Nat, NEW held, HeldTyped(held, last), NEW frame \in Spoken(last)
    PROVE  /\ HeldTyped(ApplyFrame(held, frame), last)
           /\ FrameFolded(ApplyFrame(held, frame), held, frame)
  <1> DEFINE v == ApplyFrame(held, frame)
             said == IF frame.own THEN ApplyLine(held.items, frame.line) ELSE held.items
             items == Awaited(said, frame.pending)
             lastLine == IF frame.line > held.lastLine THEN frame.line ELSE held.lastLine
  <1>1. /\ frame.line \in 0..last /\ frame.own \in BOOLEAN /\ frame.pending \in Seq(Messages)
        /\ frame.line \in Nat
    BY DEF Spoken
  <1>2. Good(held.items) /\ held.lastLine \in 0..last
    BY HeldFacts
  <1>3. /\ Good(said)
        /\ LinesOf(said) = LinesOf(held.items) \cup {k \in {frame.line} : frame.own /\ Opens(k)}
        /\ TypedOf(said) \subseteq TypedOf(held.items)
        /\ (/\ Rising(held.items)
            /\ frame.own /\ Opens(frame.line) =>
                 frame.line \in LinesOf(held.items) \/ \A k \in LinesOf(held.items) : k < frame.line)
              => Rising(said)
    <2>1. CASE frame.own
      <3> DEFINE w == ApplyLine(held.items, frame.line)
      <3>1. /\ Good(w)
            /\ LinesOf(w) = LinesOf(held.items) \cup {k \in {frame.line} : Opens(k)}
            /\ TypedOf(w) \subseteq TypedOf(held.items)
            /\ (/\ Rising(held.items)
                /\ Opens(frame.line) =>
                     frame.line \in LinesOf(held.items) \/ \A k \in LinesOf(held.items) : k < frame.line)
                  => Rising(w)
        BY <1>1, <1>2, ApplyLineFacts
      <3>2. said = w
        BY <2>1
      <3> HIDE DEF w, said
      <3> QED
        BY <2>1, <3>1, <3>2
    <2>2. CASE ~frame.own
      <3>1. said = held.items
        BY <2>2
      <3> HIDE DEF said
      <3> QED
        BY <1>2, <2>2, <3>1
    <2> QED
      BY <2>1, <2>2
  <1> HIDE DEF said
  <1>4. /\ Good(items) /\ (Rising(said) => Rising(items))
        /\ LinesOf(items) = LinesOf(said) /\ TypedOf(items) \subseteq TypedOf(said)
    BY <1>1, <1>3, AwaitedFacts
  <1>5. v = [held EXCEPT !.items = items, !.lastLine = lastLine]
    BY DEF ApplyFrame, said
  <1>6. lastLine \in 0..last
    BY <1>1, <1>2
  <1>7. items \in Seq(Items) /\ Unique(items)
    BY <1>4 DEF Good
  <1> HIDE DEF v, items, lastLine
  <1>8. /\ v.items = items /\ v.lastLine = lastLine
        /\ v.waiting = held.waiting /\ v.firstLine = held.firstLine /\ v.hasMore = held.hasMore
        /\ v.loadingOlder = held.loadingOlder /\ v.trouble = held.trouble
    BY <1>5 DEF HeldTyped
  <1>9. HeldTyped(v, last)
    BY <1>5, <1>6, <1>7 DEF HeldTyped
  <1> QED
    BY <1>3, <1>4, <1>8, <1>9 DEF v, lastLine, FrameFolded

\* Draining is folding the frames that wait, one after the other.
Folds(held, h) ==
    /\ h[0] = held
    /\ \A n \in 1..Len(held.waiting) : h[n] = ApplyFrame(h[n - 1], held.waiting[n])
    /\ Drain(held) = [h[Len(held.waiting)] EXCEPT !.waiting = <<>>]

LEMMA DrainSteps ==
    ASSUME NEW last \in Nat, NEW held, HeldTyped(held, last)
    PROVE  \E h : Folds(held, h) /\ \A n \in 0..Len(held.waiting) : HeldTyped(h[n], last)
  <1> DEFINE w == held.waiting
             size == Len(w)
             S == {some \in [items : Seq(Items), waiting : Seq(Spoken(last)), lastLine : 0..last,
                             firstLine : 0..last, hasMore : BOOLEAN, loadingOlder : BOOLEAN, trouble : BOOLEAN] :
                     HeldTyped(some, last)}
             F == [pair \in S \X (1..size) |-> ApplyFrame(pair[1], w[pair[2]])]
             Is(f) == f = [n \in 0..size |-> IF n = 0 THEN held ELSE ApplyFrame(f[n - 1], w[n])]
             h == CHOOSE f : Is(f)
  <1>1. size \in Nat /\ \A n \in 1..size : w[n] \in Spoken(last)
    BY HeldFacts
  <1>2. held \in S
    BY DEF HeldTyped
  <1>3. \A x \in S : HeldTyped(x, last)
    OBVIOUS
  <1>4. \A x : HeldTyped(x, last) => x \in S
    BY DEF HeldTyped
  <1> HIDE DEF S
  <1>5. ASSUME NEW x \in S, NEW n \in 1..size
        PROVE  F[<<x, n>>] = ApplyFrame(x, w[n]) /\ F[<<x, n>>] \in S
    <2>1. F[<<x, n>>] = ApplyFrame(x, w[n])
      <3> HIDE DEF size, w
      <3> QED
        OBVIOUS
    <2>2. HeldTyped(ApplyFrame(x, w[n]), last)
      BY <1>1, <1>3, ApplyFrameFacts
    <2> HIDE DEF F, size
    <2> QED
      BY <1>4, <2>1, <2>2
  <1> HIDE DEF F
  <1>6. PICK f : Steps(f, S, held, size, F)
    <2> HIDE DEF size
    <2>1. F \in [S \X (1..size) -> S]
      BY <1>5 DEF F
    <2> QED
      BY <1>1, <1>2, <2>1, StepsExist
  <1>7. \A n \in 0..size : f[n] = IF n = 0 THEN held ELSE ApplyFrame(f[n - 1], w[n])
    <2> TAKE n \in 0..size
    <2>1. CASE n # 0
      <3>1. n \in 1..size /\ n - 1 \in 0..size
        BY <2>1, <1>1
      <3>2. f[n - 1] \in S /\ f[n] = F[<<f[n - 1], n>>]
        BY <1>6, <3>1 DEF Steps
      <3>3. F[<<f[n - 1], n>>] = ApplyFrame(f[n - 1], w[n])
        BY <1>5, <3>1, <3>2
      <3> QED
        BY <2>1, <3>2, <3>3
    <2> QED
      BY <1>6, <2>1 DEF Steps
  <1>8. Is(f)
    <2> HIDE DEF size
    <2>1. f = [n \in 0..size |-> f[n]]
      BY <1>6 DEF Steps
    <2> QED
      BY <1>7, <2>1
  <1>9. Is(h)
    <2> HIDE DEF Is
    <2> QED
      BY <1>8
  <1>10. Drain(held) = [h[size] EXCEPT !.waiting = <<>>]
    BY DEF Drain
  <1>11. h[0] = held /\ \A n \in 1..size : h[n] = ApplyFrame(h[n - 1], w[n])
    <2> HIDE DEF h, size, w
    <2> QED
      BY <1>1, <1>9
  <1> HIDE DEF h, Is
  <1> DEFINE N == {n \in Nat : n <= size => h[n] \in S}
  <1>12. Nat \subseteq N
    <2>1. 0 \in N
      BY <1>2, <1>11
    <2>2. ASSUME NEW n \in Nat, n \in N
          PROVE  n + 1 \in N
      <3> SUFFICES ASSUME n + 1 <= size
                   PROVE  h[n + 1] \in S
        OBVIOUS
      <3>1. n + 1 \in 1..size /\ (n + 1) - 1 = n /\ h[n] \in S
        BY <1>1, <2>2
      <3>2. h[n + 1] = ApplyFrame(h[n], w[n + 1])
        BY <1>11, <3>1
      <3>3. HeldTyped(ApplyFrame(h[n], w[n + 1]), last)
        BY <1>1, <1>3, <3>1, ApplyFrameFacts
      <3> QED
        BY <1>4, <3>2, <3>3
    <2> HIDE DEF N
    <2> QED
      BY <2>1, <2>2, Inductive
  <1>13. \A n \in 0..size : HeldTyped(h[n], last)
    BY <1>3, <1>12
  <1> QED
    BY <1>10, <1>11, <1>13 DEF Folds

\* What is left when nothing waits.
Drained(v, held) ==
    /\ v.waiting = <<>> /\ v.firstLine = held.firstLine /\ v.hasMore = held.hasMore
    /\ v.loadingOlder = held.loadingOlder /\ v.trouble = held.trouble
    /\ TypedOf(v.items) \subseteq TypedOf(held.items)
    /\ held.waiting = <<>> => v = held

LEMMA DrainFacts ==
    ASSUME NEW last \in Nat, NEW held, HeldTyped(held, last)
    PROVE  HeldTyped(Drain(held), last) /\ Drained(Drain(held), held)
  <1> DEFINE size == Len(held.waiting)
  <1>1. PICK h : Folds(held, h) /\ \A n \in 0..size : HeldTyped(h[n], last)
    BY DrainSteps
  <1>2. size \in Nat /\ \A n \in 1..size : held.waiting[n] \in Spoken(last)
    BY HeldFacts
  <1> DEFINE Part(n) == /\ h[n].firstLine = held.firstLine /\ h[n].hasMore = held.hasMore
                        /\ h[n].loadingOlder = held.loadingOlder /\ h[n].trouble = held.trouble
                        /\ TypedOf(h[n].items) \subseteq TypedOf(held.items)
             N == {n \in Nat : n <= size => Part(n)}
  <1>3. 0 \in N
    BY <1>1 DEF Folds
  <1>4. ASSUME NEW n \in Nat, n \in N
        PROVE  n + 1 \in N
    <2> SUFFICES ASSUME n + 1 <= size
                 PROVE  Part(n + 1)
      OBVIOUS
    <2>1. n + 1 \in 1..size /\ (n + 1) - 1 = n /\ n \in 0..size /\ Part(n)
      BY <1>2, <1>4
    <2> DEFINE frame == held.waiting[n + 1]
               w == ApplyFrame(h[n], frame)
    <2>2. h[n + 1] = w
      BY <1>1, <2>1 DEF Folds
    <2>3. HeldTyped(h[n], last) /\ frame \in Spoken(last)
      BY <1>1, <1>2, <2>1
    <2>4. FrameFolded(w, h[n], frame)
      BY <2>3, ApplyFrameFacts
    <2> HIDE DEF w
    <2> QED
      BY <2>1, <2>2, <2>4 DEF FrameFolded
  <1>5. Nat \subseteq N
    <2> HIDE DEF N
    <2> QED
      BY <1>3, <1>4, Inductive
  <1>6. Part(size) /\ HeldTyped(h[size], last) /\ Drain(held) = [h[size] EXCEPT !.waiting = <<>>]
    BY <1>1, <1>2, <1>5 DEF Folds
  <1> DEFINE v == Drain(held)
  <1>7. <<>> \in Seq(Spoken(last))
    OBVIOUS
  <1>8. /\ v.items = h[size].items /\ v.waiting = <<>> /\ v.firstLine = h[size].firstLine
        /\ v.hasMore = h[size].hasMore /\ v.loadingOlder = h[size].loadingOlder /\ v.trouble = h[size].trouble
    <2> HIDE DEF v, size
    <2> QED
      BY <1>6 DEF v, HeldTyped
  <1>9. HeldTyped(v, last)
    <2> HIDE DEF v, size
    <2> QED
      BY <1>6, <1>7 DEF v, HeldTyped
  <1>10. ASSUME held.waiting = <<>>
         PROVE  v = held
    <2>1. size = 0
      BY <1>10
    <2>2. h[0] = held
      BY <1>1 DEF Folds
    <2> HIDE DEF size, v
    <2>3. v = [held EXCEPT !.waiting = <<>>]
      BY <1>6, <2>1, <2>2 DEF v
    <2> QED
      BY <1>10, <2>3 DEF HeldTyped
  <1> HIDE DEF v
  <1> QED
    BY <1>6, <1>8, <1>9, <1>10 DEF v, Drained

-----------------------------------------------------------------------------
(* The order of what is kept *)

\* An edge stays one when the lines that come are not before it.
LEMMA EdgeStays ==
    ASSUME NEW items, NEW v, NEW new, \A k \in new : k \in Nat /\ \A b \in LinesOf(items) : b <= k,
           LinesOf(v) = LinesOf(items) \cup new, NEW b, Edge(b, items)
    PROVE  Edge(b, v)
  <1>1. b \in LinesOf(items) /\ b \in Nat
    BY DEF Edge, LinesOf
  <1>2. ASSUME NEW n \in 1..(b - 1), Opens(n), NEW m \in LinesOf(v), m <= n
        PROVE  n \in LinesOf(v)
    <2>1. m \notin new
      BY <1>1, <1>2
    <2>2. m \in LinesOf(items)
      BY <1>2, <2>1
    <2> QED
      BY <1>2, <2>2 DEF Edge
  <1> QED
    BY <1>1, <1>2 DEF Edge

LEMMA FrameDraws ==
    ASSUME NEW last \in Nat, NEW held, HeldTyped(held, last), Drawing(held), NEW frame \in Spoken(last),
           IF frame.own THEN frame.line >= held.lastLine
                        ELSE frame.line # 0 /\ Opens(frame.line) => frame.line \in LinesOf(held.items)
    PROVE  /\ Drawing(ApplyFrame(held, frame))
           /\ \A b : Edge(b, held.items) => Edge(b, ApplyFrame(held, frame).items)
  <1> DEFINE v == ApplyFrame(held, frame)
             new == {k \in {frame.line} : frame.own /\ Opens(k)}
  <1>1. FrameFolded(v, held, frame)
    BY ApplyFrameFacts
  <1>2. frame.line \in Nat /\ frame.own \in BOOLEAN /\ (frame.own => frame.line # 0)
    BY DEF Spoken
  <1>3. held.lastLine \in Nat
    BY HeldFacts
  <1>4. LinesOf(held.items) \subseteq 1..held.lastLine /\ Rising(held.items)
    BY DEF Drawing
  <1> HIDE DEF v
  <1>5. frame.own => \A k \in LinesOf(held.items) : k <= frame.line
    BY <1>2, <1>3, <1>4
  <1>6. frame.own => frame.line \in LinesOf(held.items) \/ \A k \in LinesOf(held.items) : k < frame.line
    BY <1>2, <1>3, <1>4
  <1>7. Rising(v.items)
    BY <1>1, <1>4, <1>6 DEF FrameFolded
  <1>8. /\ v.lastLine = IF frame.line > held.lastLine THEN frame.line ELSE held.lastLine
        /\ LinesOf(v.items) = LinesOf(held.items) \cup new
    BY <1>1 DEF FrameFolded
  <1>9. LinesOf(v.items) \subseteq 1..v.lastLine
    <2>1. \A k \in LinesOf(held.items) : k \in 1..v.lastLine
      BY <1>2, <1>3, <1>4, <1>8
    <2>2. \A k \in new : k \in 1..v.lastLine
      BY <1>2, <1>3, <1>8
    <2> QED
      BY <1>8, <2>1, <2>2
  <1>10. ASSUME v.lastLine # 0, Opens(v.lastLine)
         PROVE  v.lastLine \in LinesOf(v.items)
    <2>1. CASE v.lastLine = held.lastLine
      BY <1>8, <1>10, <2>1 DEF Drawing
    <2>2. CASE v.lastLine = frame.line /\ frame.own
      BY <1>8, <1>10, <2>2
    <2>3. CASE v.lastLine = frame.line /\ ~frame.own
      BY <1>8, <1>10, <2>3
    <2> QED
      BY <1>2, <1>8, <2>1, <2>2, <2>3
  <1>11. \A b : Edge(b, held.items) => Edge(b, v.items)
    <2>1. \A k \in new : k \in Nat /\ \A b \in LinesOf(held.items) : b <= k
      BY <1>2, <1>5
    <2> HIDE DEF new
    <2> QED
      BY <1>8, <2>1, EdgeStays
  <1> QED
    BY <1>7, <1>9, <1>10, <1>11 DEF Drawing, v

\* What waits is folded in its order, and what is still to come fits after it.
DrainedInOrder(v, held, rest) ==
    /\ Drawing(v) /\ Fits(rest, 0, v)
    /\ \A b : Edge(b, held.items) => Edge(b, v.items)
    /\ v.lastLine = held.lastLine \/ \E j \in 1..Len(held.waiting) : v.lastLine = held.waiting[j].line

LEMMA DrainOrder ==
    ASSUME NEW last \in Nat, NEW held, HeldTyped(held, last), Drawing(held),
           NEW rest \in Seq(Spoken(last) \cup Words), Fits(held.waiting \o rest, 0, held)
    PROVE  DrainedInOrder(Drain(held), held, rest)
  <1> DEFINE size == Len(held.waiting)
             c == held.waiting \o rest
  <1>1. PICK h : Folds(held, h) /\ \A n \in 0..size : HeldTyped(h[n], last)
    BY DrainSteps
  <1>2. held.waiting \in Seq(Spoken(last)) /\ size \in Nat /\ \A n \in 1..size : held.waiting[n] \in Spoken(last)
    BY HeldFacts
  <1>3. /\ Len(c) = size + Len(rest) /\ Len(rest) \in Nat
        /\ \A j \in 1..size : c[j] = held.waiting[j]
        /\ \A j \in 1..Len(rest) : c[size + j] = rest[j]
    BY <1>2
  <1>4. \A frame \in Spoken(last) : frame.t = "line" /\ frame.line \in Nat
    BY DEF Spoken
  <1>5. \A j \in 1..Len(c) : c[j].t = "line" => c[j].line \in Nat
    <2> SUFFICES ASSUME NEW j \in 1..Len(c), c[j].t = "line"
                 PROVE  c[j].line \in Nat
      OBVIOUS
    <2>1. CASE j <= size
      <3> HIDE DEF c, size
      <3> QED
        BY <1>2, <1>3, <1>4, <2>1
    <2>2. CASE j > size
      <3>1. j - size \in 1..Len(rest) /\ c[j] = rest[j - size]
        <4> HIDE DEF c, size
        <4>1. j - size \in 1..Len(rest) /\ size + (j - size) = j
          BY <1>2, <1>3, <2>2
        <4> QED
          BY <1>3, <4>1
      <3>2. rest[j - size] \in Spoken(last) \cup Words
        BY <3>1
      <3>3. \A word \in Words : word.t # "line"
        BY DEF Words
      <3> HIDE DEF c, size
      <3> QED
        BY <1>4, <3>1, <3>2, <3>3
    <2>3. j \in Int
      OBVIOUS
    <2> HIDE DEF c, size
    <2> QED
      BY <1>2, <2>1, <2>2, <2>3
  <1>6. Fits(c, 0, held)
    OBVIOUS
  <1> HIDE DEF c
  <1> DEFINE Part(n) == /\ Drawing(h[n]) /\ Fits(c, n, h[n])
                        /\ \A b : Edge(b, held.items) => Edge(b, h[n].items)
                        /\ h[n].lastLine = held.lastLine \/ \E j \in 1..n : h[n].lastLine = held.waiting[j].line
             N == {n \in Nat : n <= size => Part(n)}
  <1>7. Part(0)
    <2>1. h[0] = held
      BY <1>1 DEF Folds
    <2> QED
      BY <1>6, <2>1
  <1>8. ASSUME NEW n \in Nat, n + 1 <= size, Part(n)
        PROVE  Part(n + 1)
    <2>1. n + 1 \in 1..size /\ (n + 1) - 1 = n /\ n \in 0..size /\ n + 1 \in 1..Len(c)
      BY <1>2, <1>3, <1>8
    <2> DEFINE frame == c[n + 1]
               x == h[n]
               y == h[n + 1]
    <2>2. frame = held.waiting[n + 1] /\ frame \in Spoken(last) /\ frame.t = "line" /\ frame.line \in Nat
      BY <1>2, <1>3, <1>4, <2>1
    <2>3. y = ApplyFrame(x, frame)
      BY <1>1, <2>1, <2>2 DEF Folds
    <2>4. HeldTyped(x, last) /\ Drawing(x) /\ Fits(c, n, x) /\ x.lastLine \in Nat
      <3>1. HeldTyped(x, last)
        BY <1>1, <2>1
      <3> HIDE DEF x
      <3>2. x.lastLine \in Nat
        BY <3>1, HeldFacts
      <3> QED
        BY <1>8, <3>1, <3>2 DEF x
    <2>5. \A b : Edge(b, held.items) => Edge(b, x.items)
      BY <1>8
    <2>6. x.lastLine = held.lastLine \/ \E j \in 1..n : x.lastLine = held.waiting[j].line
      BY <1>8
    <2> HIDE DEF x, y, frame
    <2>7. IF frame.own THEN frame.line >= x.lastLine
                       ELSE frame.line # 0 /\ Opens(frame.line) => frame.line \in LinesOf(x.items)
      <3>1. c[n + 1] = frame /\ n + 1 > n /\ n + 1 \in 1..Len(c)
        BY <2>1 DEF frame
      <3> QED
        BY <2>2, <2>4, <3>1 DEF Fits
    <2>8. Drawing(y) /\ \A b : Edge(b, x.items) => Edge(b, y.items)
      BY <2>2, <2>3, <2>4, <2>7, FrameDraws
    <2>9. FrameFolded(y, x, frame)
      BY <2>2, <2>3, <2>4, ApplyFrameFacts
    <2>10. Fits(c, n + 1, y)
      <3> SUFFICES ASSUME NEW j \in 1..Len(c), j > n + 1, c[j].t = "line"
                   PROVE  IF c[j].own
                          THEN /\ c[j].line >= y.lastLine
                               /\ \A i \in 1..(j - 1) : (i > n + 1 /\ c[i].t = "line") => c[i].line < c[j].line
                          ELSE c[j].line # 0 /\ Opens(c[j].line) => c[j].line \in LinesOf(y.items)
        BY DEF Fits
      <3>1. j > n
        OBVIOUS
      <3>2. CASE c[j].own
        <4>1. c[j].line >= x.lastLine /\ \A i \in 1..(j - 1) : (i > n /\ c[i].t = "line") => c[i].line < c[j].line
          BY <2>4, <3>1, <3>2 DEF Fits
        <4>2. frame.line < c[j].line
          <5>1. n + 1 \in 1..(j - 1) /\ n + 1 > n
            OBVIOUS
          <5> QED
            BY <2>2, <4>1, <5>1 DEF frame
        <4>3. c[j].line >= y.lastLine
          <5>1. y.lastLine = frame.line \/ y.lastLine = x.lastLine
            BY <2>9 DEF FrameFolded
          <5> QED
            BY <1>5, <2>2, <2>4, <3>2, <4>1, <4>2, <5>1
        <4>4. \A i \in 1..(j - 1) : (i > n + 1 /\ c[i].t = "line") => c[i].line < c[j].line
          BY <4>1
        <4> QED
          BY <3>2, <4>3, <4>4
      <3>3. CASE ~c[j].own
        BY <2>4, <2>9, <3>1, <3>3 DEF Fits, FrameFolded
      <3> QED
        BY <3>2, <3>3
    <2>11. y.lastLine = held.lastLine \/ \E j \in 1..(n + 1) : y.lastLine = held.waiting[j].line
      <3>1. y.lastLine = x.lastLine \/ y.lastLine = held.waiting[n + 1].line
        BY <2>2, <2>9 DEF FrameFolded
      <3>2. n + 1 \in 1..(n + 1) /\ \A j \in 1..n : j \in 1..(n + 1)
        OBVIOUS
      <3> QED
        BY <2>6, <3>1, <3>2
    <2> QED
      BY <2>5, <2>8, <2>10, <2>11 DEF y
  <1>9. Nat \subseteq N
    <2>1. 0 \in N
      BY <1>7
    <2>2. \A n \in Nat : n \in N => n + 1 \in N
      <3> HIDE DEF Part
      <3> QED
        BY <1>2, <1>8
    <2> HIDE DEF N
    <2> QED
      BY <2>1, <2>2, Inductive
  <1>10. Part(size)
    <2> HIDE DEF Part
    <2> QED
      BY <1>2, <1>9
  <1> DEFINE v == Drain(held)
             z == h[size]
  <1>11. v.items = z.items /\ v.lastLine = z.lastLine
    <2>1. HeldTyped(z, last) /\ v = [z EXCEPT !.waiting = <<>>]
      BY <1>1, <1>2 DEF Folds
    <2> HIDE DEF v, z
    <2> QED
      BY <2>1 DEF HeldTyped
  <1>12. Drawing(z) /\ Fits(c, size, z)
    BY <1>10
  <1>13. (\A b : Edge(b, held.items) => Edge(b, z.items))
         /\ (z.lastLine = held.lastLine \/ \E j \in 1..size : z.lastLine = held.waiting[j].line)
    BY <1>10
  <1> HIDE DEF v, z
  <1>14. Drawing(v)
    BY <1>11, <1>12 DEF Drawing
  <1>15. Fits(rest, 0, v)
    <2> SUFFICES ASSUME NEW j \in 1..Len(rest), rest[j].t = "line"
                 PROVE  IF rest[j].own
                        THEN /\ rest[j].line >= v.lastLine
                             /\ \A i \in 1..(j - 1) : rest[i].t = "line" => rest[i].line < rest[j].line
                        ELSE rest[j].line # 0 /\ Opens(rest[j].line) => rest[j].line \in LinesOf(v.items)
      BY DEF Fits
    <2> HIDE DEF size
    <2>1. size + j \in 1..Len(c) /\ size + j > size /\ c[size + j] = rest[j]
      BY <1>2, <1>3
    <2>2. \A i \in 1..(j - 1) : size + i \in 1..((size + j) - 1) /\ size + i > size /\ c[size + i] = rest[i]
      <3> TAKE i \in 1..(j - 1)
      <3>1. i \in 1..Len(rest) /\ i \in Nat \ {0} /\ i < j /\ j \in Nat
        BY <1>3
      <3>2. c[size + i] = rest[i]
        BY <1>3, <3>1
      <3>3. size \in Nat
        BY <1>2
      <3> QED
        BY <3>1, <3>2, <3>3
    <2>3. CASE rest[j].own
      BY <1>11, <1>12, <2>1, <2>2, <2>3 DEF Fits
    <2>4. CASE ~rest[j].own
      BY <1>11, <1>12, <2>1, <2>4 DEF Fits
    <2> QED
      BY <2>3, <2>4
  <1> QED
    BY <1>11, <1>13, <1>14, <1>15 DEF DrainedInOrder, v

-----------------------------------------------------------------------------
(* Pages *)

LEMMA NoItems == Good(<<>>) /\ Rising(<<>>) /\ LinesOf(<<>>) = {} /\ TypedOf(<<>>) = {}
  BY DEF Good, Unique, Rising, LinesOf, TypedOf, Has

LEMMA MessagesOpen == \A n : IsMessage(n) => Opens(n) /\ Draws(n)
  BY MessagesAssumption DEF IsMessage, Opens, Draws

LEMMA OpensDraws == \A n : Opens(n) => Draws(n)
  BY DEF Opens, Draws

\* A page that leaves something out begins with a message, at its first line.
LEMMA PageFacts ==
    ASSUME recorded \in Nat, NEW before \in 0..recorded
    PROVE  /\ PageTyped(Page(before), recorded) /\ Page(before).lastLine = recorded
           /\ Page(before).to = IF before = 0 THEN recorded ELSE before - 1
  <1> DEFINE end == IF before = 0 THEN recorded ELSE before - 1
             opens == {n \in 1..end : IsMessage(n)}
             size == Cardinality(opens)
             whole == size <= PageSize
             start == IF whole THEN 1 ELSE Ascending(opens)[size + 1 - PageSize]
             drawing == {n \in start..recorded : Draws(n)}
             first == IF drawing = {} THEN recorded ELSE Min(drawing)
  <1>1. end \in 0..recorded /\ PageSize \in Nat \ {0}
    BY BoundsAssumption
  <1>2. IsFiniteSet(opens) /\ opens \subseteq 1..end /\ size \in Nat /\ opens \subseteq Nat
    <2>1. opens \subseteq 1..end /\ IsFiniteSet(1..end) /\ 1..end \subseteq Nat
      BY <1>1, FS_Interval
    <2> HIDE DEF opens, end
    <2> QED
      BY <2>1, FS_Subset, FS_CardinalityType
  <1>3. ~whole => start \in opens
    <2> SUFFICES ASSUME ~whole
                 PROVE  start \in opens
      OBVIOUS
    <2> DEFINE i == size + 1 - PageSize
    <2>1. i \in 1..size
      <3> HIDE DEF size
      <3> QED
        BY <1>1, <1>2
    <2> HIDE DEF opens, i
    <2>2. Ascending(opens) \in Seq(opens) /\ Len(Ascending(opens)) = size
      BY <1>2, AscendingFacts
    <2>3. Ascending(opens)[i] \in opens
      BY <2>1, <2>2
    <2> QED
      BY <2>3 DEF i
  <1>4. \A n \in opens : IsMessage(n)
    OBVIOUS
  <1> HIDE DEF opens, size
  <1>5. /\ start \in 1..(end + 1)
        /\ ~whole => start <= end /\ Opens(start) /\ Draws(start)
        /\ whole => start = 1
    <2>1. CASE whole
      BY <1>1, <2>1
    <2>2. CASE ~whole
      <3>1. start \in 1..end /\ IsMessage(start)
        <4> HIDE DEF start, end, whole
        <4> QED
          BY <1>2, <1>3, <1>4, <2>2
      <3>2. Opens(start) /\ Draws(start)
        BY <3>1, MessagesOpen
      <3> HIDE DEF start, end, whole
      <3> QED
        BY <1>1, <2>2, <3>1, <3>2
    <2> QED
      BY <2>1, <2>2
  <1> HIDE DEF start, whole, end
  <1>6. drawing \subseteq Nat /\ drawing \subseteq start..recorded
    BY <1>1, <1>5
  <1>7. ~whole => start \in drawing
    BY <1>1, <1>5
  <1> HIDE DEF drawing
  <1>8. drawing # {} => Min(drawing) \in drawing /\ \A n \in drawing : Min(drawing) <= n
    <2> SUFFICES ASSUME drawing # {}
                 PROVE  Min(drawing) \in drawing /\ \A n \in drawing : Min(drawing) <= n
      OBVIOUS
    <2>1. \E x \in drawing : \A y \in drawing : x <= y
      BY <1>6, LeastNumber
    <2> QED
      BY <2>1 DEF Min
  <1>9. first \in 0..recorded /\ (~whole => first = start)
    <2>1. CASE drawing = {}
      BY <1>7, <2>1
    <2>2. CASE drawing # {}
      <3>1. first = Min(drawing)
        BY <2>2
      <3>2. Min(drawing) \in start..recorded /\ (~whole => Min(drawing) <= start)
        BY <1>6, <1>7, <1>8, <2>2
      <3>3. start \in Nat /\ recorded \in Nat
        BY <1>1, <1>5
      <3> HIDE DEF first
      <3> QED
        BY <3>1, <3>2, <3>3
    <2> QED
      BY <2>1, <2>2
  <1> HIDE DEF first
  <1> DEFINE page == [from |-> start, to |-> end, hasMore |-> ~whole, lastLine |-> recorded, firstLine |-> first]
  <1>10. Page(before) = page
    BY DEF Page, first, drawing, start, whole, size, opens, end
  <1>11. page.from = start /\ page.to = end /\ page.hasMore = ~whole /\ page.lastLine = recorded /\ page.firstLine = first
    OBVIOUS
  <1>12. page \in [from : 1..(recorded + 1), to : 0..recorded, hasMore : BOOLEAN,
                   lastLine : 0..recorded, firstLine : 0..recorded]
    <2>1. start \in 1..(recorded + 1) /\ recorded \in 0..recorded
      BY <1>1, <1>5
    <2> QED
      BY <1>1, <1>9, <2>1
  <1>13. page.from <= page.to + 1
    BY <1>1, <1>5
  <1> HIDE DEF page
  <1>14. PageTyped(page, recorded)
    BY <1>5, <1>9, <1>11, <1>12, <1>13 DEF PageTyped
  <1> QED
    BY <1>10, <1>11, <1>14 DEF end

\* An older page on the front of what is held.
Prepended(v, held, page) ==
    /\ v.waiting = held.waiting /\ v.lastLine = held.lastLine /\ v.trouble = held.trouble
    /\ v.firstLine = page.firstLine /\ v.hasMore = page.hasMore /\ ~v.loadingOlder
    /\ LinesOf(v.items) = LinesOf(held.items) \cup {k \in page.from..page.to : Opens(k)}
    /\ TypedOf(v.items) \subseteq TypedOf(held.items)
    /\ (/\ Rising(held.items)
        /\ \A k \in page.from..page.to : Opens(k) =>
             k \in LinesOf(held.items) \/ \A m \in LinesOf(held.items) : k < m)
          => Rising(v.items)

LEMMA PrependFacts ==
    ASSUME NEW last \in Nat, NEW held, HeldTyped(held, last), NEW page, PageTyped(page, last)
    PROVE  HeldTyped(Prepend(held, page), last) /\ Prepended(Prepend(held, page), held, page)
  <1> DEFINE older == ApplyLines(<<>>, page.from, page.to)
             gone == {item \in ToSet(older) : Has(held.items, item.id)}
             kept == Without(older, gone)
             mine == held.items
             items == kept \o mine
             v == Prepend(held, page)
             begun == {k \in page.from..page.to : Opens(k)}
  <1>1. /\ page.from \in Nat /\ page.to \in Nat /\ page.from <= page.to + 1
        /\ page.firstLine \in 0..last /\ page.hasMore \in BOOLEAN
    BY DEF PageTyped
  <1>2. /\ Good(older) /\ LinesOf(older) = begun /\ TypedOf(older) = {} /\ Rising(older)
    <2>1. Stretched(older, <<>>, page.from, page.to)
      BY <1>1, NoItems, ApplyLinesFacts
    <2> HIDE DEF older
    <2> QED
      BY <2>1, NoItems DEF Stretched
  <1>3. Good(mine) /\ mine \in Seq(Items)
    BY HeldFacts
  <1> HIDE DEF older
  <1>4. older \in Seq(Items) /\ \A k \in 1..Len(older) : older[k] \in ToSet(older)
    BY <1>2 DEF Good, ToSet
  <1>5. /\ Good(kept) /\ Rising(kept)
        /\ \A i \in 1..Len(kept) : kept[i] \notin gone /\ \E k \in 1..Len(older) : kept[i] = older[k]
        /\ \A k \in 1..Len(older) : older[k] \notin gone => \E i \in 1..Len(kept) : kept[i] = older[k]
    <2> HIDE DEF gone
    <2> QED
      BY <1>2, FewerFacts
  <1>6. \A i \in 1..Len(kept) : ~Has(mine, kept[i].id) /\ Has(older, kept[i].id)
    <2> TAKE i \in 1..Len(kept)
    <2>1. PICK k \in 1..Len(older) : kept[i] = older[k]
      BY <1>5
    <2> HIDE DEF kept
    <2>2. kept[i] \in ToSet(older) /\ kept[i] \notin gone
      BY <1>4, <1>5, <2>1
    <2> QED
      BY <2>1, <2>2 DEF Has
  <1>7. \A k \in 1..Len(older) : Has(mine, older[k].id) \/ \E i \in 1..Len(kept) : kept[i] = older[k]
    <2> HIDE DEF kept
    <2> QED
      BY <1>5
  <1> HIDE DEF kept, mine
  <1>8. /\ items \in Seq(Items) /\ Len(items) = Len(kept) + Len(mine)
        /\ \A i \in 1..Len(kept) : items[i] = kept[i]
        /\ \A i \in 1..Len(mine) : items[Len(kept) + i] = mine[i]
        /\ Len(kept) \in Nat /\ Len(mine) \in Nat
    <2>1. kept \in Seq(Items)
      BY <1>5 DEF Good
    <2> QED
      BY <1>3, <2>1
  <1> HIDE DEF items
  <1>9. ASSUME NEW i \in 1..Len(items), i \notin 1..Len(kept)
        PROVE  i - Len(kept) \in 1..Len(mine) /\ items[i] = mine[i - Len(kept)]
    <2>1. i - Len(kept) \in 1..Len(mine) /\ Len(kept) + (i - Len(kept)) = i
      BY <1>8, <1>9
    <2> QED
      BY <1>8, <2>1
  <1>10. ASSUME NEW id
         PROVE  Has(items, id) <=> Has(mine, id) \/ Has(older, id)
    <2>1. ASSUME Has(mine, id)
          PROVE  Has(items, id)
      <3>1. PICK i \in 1..Len(mine) : mine[i].id = id
        BY <2>1 DEF Has
      <3>2. Len(kept) + i \in 1..Len(items)
        BY <1>8
      <3> QED
        BY <1>8, <3>1, <3>2 DEF Has
    <2>2. ASSUME Has(older, id), ~Has(mine, id)
          PROVE  Has(items, id)
      <3>1. PICK k \in 1..Len(older) : older[k].id = id
        BY <2>2 DEF Has
      <3>2. PICK i \in 1..Len(kept) : kept[i] = older[k]
        BY <1>7, <2>2, <3>1
      <3>3. i \in 1..Len(items)
        BY <1>8
      <3> QED
        BY <1>8, <3>1, <3>2, <3>3 DEF Has
    <2>3. ASSUME Has(items, id)
          PROVE  Has(mine, id) \/ Has(older, id)
      <3>1. PICK i \in 1..Len(items) : items[i].id = id
        BY <2>3 DEF Has
      <3>2. CASE i \in 1..Len(kept)
        BY <1>6, <1>8, <3>1, <3>2
      <3>3. CASE i \notin 1..Len(kept)
        BY <1>9, <3>1, <3>3 DEF Has
      <3> QED
        BY <3>2, <3>3
    <2> QED
      BY <2>1, <2>2, <2>3
  <1>11. LinesOf(items) = LinesOf(mine) \cup begun /\ TypedOf(items) = TypedOf(mine)
    <2>1. LinesOf(items) = LinesOf(mine) \cup LinesOf(older)
      BY <1>10 DEF LinesOf
    <2>2. TypedOf(items) = TypedOf(mine) \cup TypedOf(older)
      BY <1>10 DEF TypedOf
    <2> HIDE DEF begun
    <2> QED
      BY <1>2, <2>1, <2>2
  <1>12. Unique(items)
    <2> SUFFICES ASSUME NEW i \in 1..Len(items), NEW j \in 1..Len(items), items[i].id = items[j].id
                 PROVE  i = j
      BY DEF Unique
    <2>1. CASE i \in 1..Len(kept) /\ j \in 1..Len(kept)
      BY <1>5, <1>8, <2>1 DEF Good, Unique
    <2>2. CASE i \notin 1..Len(kept) /\ j \notin 1..Len(kept)
      <3>1. i - Len(kept) = j - Len(kept)
        BY <1>3, <1>9, <2>2 DEF Good, Unique
      <3> QED
        BY <1>8, <3>1
    <2>3. CASE i \in 1..Len(kept) /\ j \notin 1..Len(kept)
      <3>1. j - Len(kept) \in 1..Len(mine) /\ mine[j - Len(kept)].id = kept[i].id
        BY <1>8, <1>9, <2>3
      <3> QED
        BY <1>6, <2>3, <3>1 DEF Has
    <2>4. CASE i \notin 1..Len(kept) /\ j \in 1..Len(kept)
      <3>1. i - Len(kept) \in 1..Len(mine) /\ mine[i - Len(kept)].id = kept[j].id
        BY <1>8, <1>9, <2>4
      <3> QED
        BY <1>6, <2>4, <3>1 DEF Has
    <2> QED
      BY <2>1, <2>2, <2>3, <2>4
  <1>13. ASSUME Rising(mine),
                \A k \in page.from..page.to : Opens(k) =>
                    k \in LinesOf(mine) \/ \A m \in LinesOf(mine) : k < m
         PROVE  Rising(items)
    <2> SUFFICES ASSUME NEW i \in 1..Len(items), NEW j \in 1..Len(items), i < j,
                        items[i].id[1] = "line", items[j].id[1] = "line"
                 PROVE  items[i].id[2] < items[j].id[2]
      BY DEF Rising
    <2>1. CASE i \in 1..Len(kept) /\ j \in 1..Len(kept)
      BY <1>5, <1>8, <2>1 DEF Rising
    <2>2. CASE i \notin 1..Len(kept) /\ j \notin 1..Len(kept)
      <3>1. i - Len(kept) < j - Len(kept)
        BY <1>8
      <3> QED
        <4> DEFINE k == i - Len(kept)
                   l == j - Len(kept)
        <4>1. k \in 1..Len(mine) /\ items[i] = mine[k] /\ l \in 1..Len(mine) /\ items[j] = mine[l]
          BY <1>9, <2>2
        <4>2. k < l
          BY <3>1
        <4> HIDE DEF k, l
        <4> QED
          BY <1>13, <4>1, <4>2 DEF Rising
    <2>3. CASE i \in 1..Len(kept) /\ j \notin 1..Len(kept)
      <3> DEFINE n == items[i].id[2]
                 m == items[j].id[2]
      <3>1. items[i] \in Items /\ items[j] \in Items
        BY <1>8
      <3>2. n \in Nat /\ items[i].id = Line(n) /\ m \in Nat /\ items[j].id = Line(m)
        BY <3>1, IdFacts DEF Items
      <3> HIDE DEF n, m
      <3>3. ~Has(mine, Line(n)) /\ Has(older, Line(n))
        BY <1>6, <1>8, <2>3, <3>2
      <3>4. Has(mine, Line(m))
        BY <1>9, <2>3, <3>2 DEF Has
      <3>5. n \in begun /\ n \notin LinesOf(mine) /\ m \in LinesOf(mine)
        BY <1>2, <3>2, <3>3, <3>4 DEF LinesOf
      <3>6. n < m
        BY <1>13, <3>5
      <3> QED
        BY <3>6 DEF n, m
    <2>4. CASE i \notin 1..Len(kept) /\ j \in 1..Len(kept)
      BY <1>8, <2>4
    <2> QED
      BY <2>1, <2>2, <2>3, <2>4
  <1>14. v = [held EXCEPT !.items = items, !.firstLine = page.firstLine, !.hasMore = page.hasMore, !.loadingOlder = FALSE]
    BY DEF Prepend, items, kept, mine, older
  <1> HIDE DEF v, begun
  <1>15. /\ v.items = items /\ v.waiting = held.waiting /\ v.lastLine = held.lastLine /\ v.trouble = held.trouble
         /\ v.firstLine = page.firstLine /\ v.hasMore = page.hasMore /\ v.loadingOlder = FALSE
    BY <1>14 DEF HeldTyped
  <1>16. HeldTyped(v, last)
    BY <1>1, <1>8, <1>12, <1>14, <1>15 DEF HeldTyped
  <1> QED
    BY <1>11, <1>13, <1>15, <1>16 DEF Prepended, v, mine, begun

-----------------------------------------------------------------------------
(* What a subscription sends first *)

\* Every line of the log that is new, in order; the messages still awaited come
\* with the last line recorded, which is sent again if it was not new.
Backlog(todo, from) ==
    /\ todo \in Seq(Spoken(recorded))
    /\ \A j \in 1..Len(todo) :
         IF todo[j].own
         THEN todo[j].line > from /\ \A i \in 1..(j - 1) : todo[i].line < todo[j].line
         ELSE todo[j].line = recorded /\ (recorded = from \/ ~Draws(recorded))

LEMMA FrameTyped ==
    ASSUME NEW last \in Nat, NEW n \in 0..last, NEW own \in BOOLEAN, NEW pending \in Seq(Messages), own => n # 0
    PROVE  Frame(n, own, pending) \in Spoken(last)
  BY DEF Frame, Spoken

LEMMA WaitingTyped ==
    ASSUME typed \in Seq(Messages)
    PROVE  Without(typed, ToSet(log)) \in Seq(Messages)
  <1> DEFINE gone == ToSet(log)
             kept == Without(typed, gone)
  <1>1. kept \in Seq(Messages \ gone)
    BY WithoutType
  <1> HIDE DEF gone, kept
  <1>2. kept \in Seq(Messages)
    BY <1>1, Wider, Messages \ gone \subseteq Messages
  <1> QED
    BY <1>2 DEF gone, kept

LEMMA BacklogFacts ==
    ASSUME LogTyped, PumpTyped, PumpRead
    PROVE  Backlog(pump'.todo, pump.from) /\ pump' = [pump EXCEPT !.at = "live", !.replayed = recorded, !.todo = pump'.todo]
  <1> DEFINE waiting == Without(typed, ToSet(log))
             new == {n \in (pump.from + 1)..recorded : Draws(n)}
             lines == Ascending(new)
             backlog == [i \in 1..Len(lines) |-> Frame(lines[i], TRUE, <<>>)]
             shared == lines # <<>> /\ Last(lines) = recorded
             todo == CASE waiting = <<>> -> backlog
                       [] waiting # <<>> /\ shared -> Append(Front(backlog), Frame(recorded, TRUE, waiting))
                       [] OTHER -> Append(backlog, Frame(recorded, FALSE, waiting))
  <1>1. recorded \in Nat /\ pump.from \in 0..recorded /\ pump \in Pumps
    <2>1. recorded \in Nat
      BY ScriptsAssumption DEF LogTyped
    <2> QED
      BY <2>1 DEF PumpTyped, Pumps
  <1>2. waiting \in Seq(Messages) /\ <<>> \in Seq(Messages)
    BY WaitingTyped DEF LogTyped
  <1>3. pump' = [pump EXCEPT !.at = "live", !.replayed = recorded, !.todo = todo]
    BY DEF PumpRead
  <1>4. pump'.todo = todo
    <2> HIDE DEF todo
    <2> QED
      BY <1>1, <1>3 DEF Pumps
  <1> HIDE DEF waiting
  <1>5. IsFiniteSet(new) /\ new \subseteq (pump.from + 1)..recorded /\ new \subseteq Nat
    <2> DEFINE least == pump.from + 1
    <2>0. least \in Nat /\ new = {n \in least..recorded : Draws(n)}
      BY <1>1
    <2> HIDE DEF least
    <2>1. new \subseteq least..recorded /\ IsFiniteSet(least..recorded) /\ least..recorded \subseteq Nat
      <3>1. IsFiniteSet(least..recorded)
        BY <1>1, <2>0, FS_Interval
      <3> QED
        BY <1>1, <2>0, <3>1
    <2> USE DEF least
    <2> HIDE DEF new
    <2> QED
      BY <2>1, FS_Subset
  <1>6. (recorded > pump.from /\ Draws(recorded)) => recorded \in new
    BY <1>1
  <1> HIDE DEF new
  <1>7. /\ lines \in Seq(new)
        /\ \A n \in new : \E i \in 1..Len(lines) : lines[i] = n
        /\ \A i, j \in 1..Len(lines) : i < j => lines[i] < lines[j]
    BY <1>5, AscendingFacts
  <1> HIDE DEF lines
  <1>8. \A i \in 1..Len(lines) : lines[i] \in (pump.from + 1)..recorded /\ lines[i] # 0
    <2> TAKE i \in 1..Len(lines)
    <2>1. lines[i] \in new
      BY <1>7
    <2>2. lines[i] \in (pump.from + 1)..recorded
      BY <1>5, <2>1
    <2> QED
      BY <1>1, <2>2
  <1>9. /\ Len(lines) \in Nat /\ backlog \in Seq(Spoken(recorded)) /\ Len(backlog) = Len(lines)
        /\ \A i \in 1..Len(lines) : backlog[i].line = lines[i] /\ backlog[i].own
    <2>1. \A i \in 1..Len(lines) : /\ Frame(lines[i], TRUE, <<>>) \in Spoken(recorded)
                                   /\ Frame(lines[i], TRUE, <<>>).line = lines[i]
                                   /\ Frame(lines[i], TRUE, <<>>).own = TRUE
      <3> TAKE i \in 1..Len(lines)
      <3>1. lines[i] \in 0..recorded /\ lines[i] # 0
        BY <1>1, <1>8
      <3>2. Frame(lines[i], TRUE, <<>>) \in Spoken(recorded)
        BY <1>1, <1>2, <3>1, FrameTyped
      <3> QED
        BY <3>2 DEF Frame
    <2>2. Len(lines) \in Nat
      BY <1>7
    <2> DEFINE f(i) == Frame(lines[i], TRUE, <<>>)
    <2>3. \A i \in 1..Len(lines) : f(i) \in Spoken(recorded) /\ f(i).line = lines[i] /\ f(i).own = TRUE
      BY <2>1
    <2>4. backlog = [i \in 1..Len(lines) |-> f(i)]
      OBVIOUS
    <2> HIDE DEF f, backlog
    <2> QED
      BY <2>2, <2>3, <2>4
  <1>10. Backlog(backlog, pump.from)
    <2> HIDE DEF backlog
    <2>1. \A j \in 1..Len(backlog) : /\ backlog[j].own /\ backlog[j].line > pump.from
                                     /\ \A i \in 1..(j - 1) : backlog[i].line < backlog[j].line
      <3> TAKE j \in 1..Len(backlog)
      <3>1. backlog[j].own /\ backlog[j].line > pump.from
        BY <1>1, <1>8, <1>9
      <3>2. \A i \in 1..(j - 1) : i \in 1..Len(lines) /\ i < j
        BY <1>9
      <3> QED
        BY <1>7, <1>9, <3>1, <3>2
    <2> QED
      BY <1>9, <2>1 DEF Backlog
  <1> HIDE DEF backlog
  <1>11. CASE waiting = <<>>
    BY <1>3, <1>4, <1>10, <1>11
  <1>12. CASE waiting # <<>> /\ shared
    <2> DEFINE front == Front(backlog)
               frame == Frame(recorded, TRUE, waiting)
    <2>1. todo = Append(front, frame)
      BY <1>12
    <2>2. Len(lines) >= 1 /\ lines[Len(lines)] = recorded /\ recorded # 0
      <3>1. Len(lines) >= 1
        BY <1>7, <1>9, <1>12
      <3> QED
        BY <1>8, <1>9, <1>12, <3>1 DEF Last
    <2>3. frame \in Spoken(recorded) /\ frame.line = recorded /\ frame.own
      <3>1. frame \in Spoken(recorded)
        BY <1>1, <1>2, <2>2, recorded \in 0..recorded, TRUE \in BOOLEAN, FrameTyped
      <3> QED
        BY <3>1 DEF Frame
    <2>4. front \in Seq(Spoken(recorded)) /\ Len(front) = Len(lines) - 1
          /\ \A i \in 1..Len(front) : front[i] = backlog[i]
      BY <1>9, <2>2 DEF Front
    <2> HIDE DEF front, frame, todo
    <2>5. /\ todo \in Seq(Spoken(recorded)) /\ Len(todo) = Len(lines)
          /\ todo[Len(lines)] = frame
          /\ \A i \in 1..(Len(lines) - 1) : todo[i] = backlog[i]
      BY <1>9, <2>1, <2>3, <2>4
    <2>6. \A i \in 1..Len(lines) : todo[i].line = lines[i] /\ todo[i].own
      <3> TAKE i \in 1..Len(lines)
      <3>1. CASE i = Len(lines)
        BY <2>2, <2>3, <2>5, <3>1
      <3>2. CASE i # Len(lines)
        <4>1. i \in 1..(Len(lines) - 1)
          BY <1>9, <3>2
        <4> QED
          BY <1>9, <2>5, <4>1
      <3> QED
        BY <3>1, <3>2
    <2>7. \A j \in 1..Len(todo) : /\ todo[j].own /\ todo[j].line > pump.from
                                  /\ \A i \in 1..(j - 1) : todo[i].line < todo[j].line
      <3> TAKE j \in 1..Len(todo)
      <3>1. todo[j].own /\ todo[j].line > pump.from
        BY <1>1, <1>8, <2>5, <2>6
      <3>2. \A i \in 1..(j - 1) : i \in 1..Len(lines) /\ i < j
        BY <1>9, <2>5
      <3> QED
        BY <1>7, <2>5, <2>6, <3>1, <3>2
    <2>8. Backlog(todo, pump.from)
      BY <2>5, <2>7 DEF Backlog
    <2> QED
      BY <1>3, <1>4, <2>8
  <1>13. CASE waiting # <<>> /\ ~shared
    <2> DEFINE frame == Frame(recorded, FALSE, waiting)
    <2>1. todo = Append(backlog, frame)
      <3> HIDE DEF frame, shared
      <3> QED
        BY <1>13 DEF frame
    <2>2. frame \in Spoken(recorded) /\ frame.line = recorded /\ frame.own = FALSE
      <3>1. frame \in Spoken(recorded)
        BY <1>1, <1>2, recorded \in 0..recorded, FALSE \in BOOLEAN, FrameTyped
      <3> QED
        BY <3>1 DEF Frame
    <2> HIDE DEF frame, todo
    <2>3. /\ todo \in Seq(Spoken(recorded)) /\ Len(todo) = Len(lines) + 1
          /\ todo[Len(lines) + 1] = frame
          /\ \A i \in 1..Len(lines) : todo[i] = backlog[i]
      BY <1>9, <2>1, <2>2
    <2>4. recorded = pump.from \/ ~Draws(recorded)
      <3> SUFFICES ASSUME recorded # pump.from, Draws(recorded)
                   PROVE  FALSE
        OBVIOUS
      <3>1. recorded \in new
        BY <1>1, <1>6
      <3>2. PICK i \in 1..Len(lines) : lines[i] = recorded
        BY <1>7, <3>1
      <3>3. Len(lines) >= 1 /\ Len(lines) \in 1..Len(lines)
        BY <1>9, <3>2
      <3>4. lines[Len(lines)] # recorded
        BY <1>13, <3>3 DEF Last
      <3>5. i < Len(lines)
        BY <1>9, <3>2, <3>4
      <3>6. recorded < lines[Len(lines)] /\ lines[Len(lines)] \in (pump.from + 1)..recorded
        BY <1>7, <1>8, <3>2, <3>3, <3>5
      <3> QED
        BY <1>1, <3>6
    <2>5. ASSUME NEW j \in 1..Len(todo)
          PROVE  IF todo[j].own
                 THEN todo[j].line > pump.from /\ \A i \in 1..(j - 1) : todo[i].line < todo[j].line
                 ELSE todo[j].line = recorded /\ (recorded = pump.from \/ ~Draws(recorded))
      <3>1. CASE j = Len(lines) + 1
        BY <2>2, <2>3, <2>4, <3>1
      <3>2. CASE j # Len(lines) + 1
        <4>1. j \in 1..Len(lines) /\ \A i \in 1..(j - 1) : i \in 1..Len(lines)
          BY <1>9, <2>3, <3>2
        <4>2. todo[j] = backlog[j] /\ \A i \in 1..(j - 1) : todo[i] = backlog[i]
          BY <2>3, <4>1
        <4>3. backlog[j].own
          BY <1>9, <4>1
        <4>4. backlog[j].line > pump.from /\ \A i \in 1..(j - 1) : backlog[i].line < backlog[j].line
          BY <1>9, <1>10, <4>1, <4>3 DEF Backlog
        <4> QED
          BY <4>2, <4>3, <4>4
      <3> QED
        BY <3>1, <3>2
    <2>6. Backlog(todo, pump.from)
      BY <2>3, <2>5 DEF Backlog
    <2> QED
      BY <1>3, <1>4, <2>6
  <1> QED
    BY <1>11, <1>12, <1>13

-----------------------------------------------------------------------------
(* Typing: what an action leaves alone *)

LEMMA Recorded ==
    ASSUME LogTyped
    PROVE  /\ recorded \in Nat /\ announced \in 0..recorded /\ script \in Seq(Kinds)
           /\ recorded <= Len(script)
  BY ScriptsAssumption DEF LogTyped

LEMMA LogStays ==
    ASSUME LogTyped, UNCHANGED server
    PROVE  LogTyped'
  BY DEF LogTyped, server

LEMMA PumpStays ==
    ASSUME PumpTyped, UNCHANGED <<recorded, announced, pump, down, up>>
    PROVE  PumpTyped'
  BY DEF PumpTyped, Pumps, Spoken

LEMMA StoreStays ==
    ASSUME HeldTyped(store, recorded), UNCHANGED <<recorded, store>>
    PROVE  HeldTyped(store, recorded)'
  BY DEF HeldTyped, Spoken

LEMMA FollowerStays ==
    ASSUME FollowerTyped, UNCHANGED <<script, recorded, follower>>
    PROVE  FollowerTyped'
  BY DEF FollowerTyped, PageTyped, Opens

LEMMA PagesStay ==
    ASSUME PagesTyped, UNCHANGED <<script, recorded, pages>>
    PROVE  PagesTyped'
  BY DEF PagesTyped, Asked, Answered, PageTyped, Opens

LEMMA ShownStays ==
    ASSUME ShownOnce, UNCHANGED <<store, sent>>
    PROVE  ShownOnce'
  BY DEF ShownOnce

\* Fewer typed messages are shown, and nobody's sender has heard of it.
LEMMA ShownFewer ==
    ASSUME ShownOnce, TypedOf(store'.items) \subseteq TypedOf(store.items), UNCHANGED sent
    PROVE  ShownOnce'
  BY DEF ShownOnce, TypedOf

LEMMA HeldNext ==
    ASSUME HeldTyped(store', recorded), UNCHANGED recorded
    PROVE  HeldTyped(store, recorded)'
  BY DEF HeldTyped, Spoken

LEMMA Spent ==
    ASSUME left \in [visits : Nat, troubles : Nat], NEW what \in {"visits", "troubles"}, Spend(what)
    PROVE  left' \in [visits : Nat, troubles : Nat]
  BY DEF Spend

LEMMA OffTyped ==
    ASSUME LogTyped
    PROVE  Off \in Pumps
  <1>1. recorded \in Nat /\ announced \in Nat
    BY Recorded
  <1>2. <<>> \in Seq(Spoken(recorded)) /\ <<>> \in Seq(1..announced)
    OBVIOUS
  <1> QED
    BY <1>1, <1>2 DEF Off, Pumps

LEMMA WatchingTyped ==
    ASSUME LogTyped, NEW from \in 0..recorded
    PROVE  /\ Watching(from) \in Pumps
           /\ Watching(from).at = "read" /\ Watching(from).from = from /\ Watching(from).replayed = 0
           /\ Watching(from).todo = <<>> /\ Watching(from).bus = <<>>
  <1>1. Off \in Pumps
    BY OffTyped
  <1>2. Watching(from) = [Off EXCEPT !.at = "read", !.from = from]
    BY DEF Watching
  <1>3. Watching(from) \in Pumps
    BY <1>1, <1>2 DEF Pumps
  <1> QED
    BY <1>2, <1>3 DEF Off

\* The typing of everything an action that only subscribes may change.
Listened(held) ==
    /\ store' = Drain(held) /\ follower' = Following
    /\ HeldTyped(store', recorded) /\ PumpTyped'

LEMMA ListenTyped ==
    ASSUME Typing, NEW held, HeldTyped(held, recorded), Listen(held), UNCHANGED <<server, down, up>>
    PROVE  Listened(held)
  <1>1. LogTyped /\ PumpTyped /\ recorded \in Nat
    BY Recorded DEF Typing
  <1>2. store' = Drain(held) /\ follower' = Following
        /\ pump' = IF up THEN Watching(store'.lastLine) ELSE pump
    BY DEF Listen
  <1>3. HeldTyped(store', recorded)
    BY <1>1, <1>2, DrainFacts
  <1>4. store'.lastLine \in 0..recorded
    BY <1>1, <1>3, HeldFacts
  <1>5. pump' \in Pumps
    BY <1>1, <1>2, <1>4, WatchingTyped DEF PumpTyped
  <1>6. PumpTyped'
    BY <1>1, <1>5 DEF PumpTyped, Pumps, Spoken, server
  <1> QED
    BY <1>2, <1>3, <1>6 DEF Listened

LEMMA WhatIsHeld ==
    ASSUME Typing
    PROVE  /\ recorded \in Nat /\ HeldTyped(store, recorded)
           /\ HeldTyped(Drain(store), recorded) /\ Drained(Drain(store), store)
  <1>1. recorded \in Nat /\ HeldTyped(store, recorded)
    BY Recorded DEF Typing
  <1> QED
    BY <1>1, DrainFacts

\* A message typed here is shown at the end, after what waited.
LEMMA EchoFacts ==
    ASSUME Typing, NEW m \in Messages, m \notin TypedOf(store.items), Echo(m)
    PROVE  /\ HeldTyped(store', recorded)
           /\ TypedOf(store'.items) \subseteq TypedOf(store.items) \cup {m}
           /\ LinesOf(store'.items) = LinesOf(Drain(store).items)
           /\ Rising(Drain(store).items) => Rising(store'.items)
           /\ store' = [Drain(store) EXCEPT !.items = store'.items]
  <1> DEFINE held == Drain(store)
             id == Typed(m)
             items == Append(held.items, [id |-> id, text |-> <<>>])
  <1>1. recorded \in Nat /\ HeldTyped(held, recorded) /\ TypedOf(held.items) \subseteq TypedOf(store.items)
    BY WhatIsHeld DEF Drained
  <1>2. store' = [held EXCEPT !.items = items]
    BY DEF Echo
  <1> HIDE DEF held
  <1>3. id \in Ids /\ id[1] = "typed" /\ {n \in Nat : Line(n) = id} = {} /\ {k \in Messages : Typed(k) = id} = {m}
    BY IdFacts
  <1>4. ~Has(held.items, id)
    BY <1>1 DEF TypedOf
  <1>5. Good(held.items)
    BY <1>1, HeldFacts
  <1> HIDE DEF id
  <1>6. /\ Good(items)
        /\ LinesOf(items) = LinesOf(held.items) \cup {n \in Nat : Line(n) = id}
        /\ TypedOf(items) = TypedOf(held.items) \cup {k \in Messages : Typed(k) = id}
        /\ (Rising(held.items) /\ (id[1] = "line" => \A n \in LinesOf(held.items) : n < id[2])) => Rising(items)
    BY <1>3, <1>4, <1>5, AddFacts
  <1> HIDE DEF items
  <1>7. store'.items = items
    BY <1>1, <1>2 DEF HeldTyped
  <1>8. HeldTyped(store', recorded)
    BY <1>1, <1>2, <1>6 DEF HeldTyped, Good
  <1>9. TypedOf(items) \subseteq TypedOf(store.items) \cup {m} /\ LinesOf(items) = LinesOf(held.items)
        /\ (Rising(held.items) => Rising(items))
    BY <1>1, <1>3, <1>6
  <1> QED
    BY <1>2, <1>7, <1>8, <1>9 DEF held

-----------------------------------------------------------------------------
(* Typing: the control plane *)

\* One more line recorded takes nothing away from what may be held.
LEMMA WiderSpoken ==
    ASSUME NEW last \in Nat
    PROVE  /\ Seq(Spoken(last)) \subseteq Seq(Spoken(last + 1))
           /\ Seq(Spoken(last) \cup Words) \subseteq Seq(Spoken(last + 1) \cup Words)
  <1>1. Spoken(last) \subseteq Spoken(last + 1)
    BY DEF Spoken
  <1>2. \A s \in Seq(Spoken(last)) : s \in Seq(Spoken(last + 1))
    BY <1>1, Wider
  <1>3. \A s \in Seq(Spoken(last) \cup Words) : s \in Seq(Spoken(last + 1) \cup Words)
    <2>1. Spoken(last) \cup Words \subseteq Spoken(last + 1) \cup Words
      BY <1>1
    <2> QED
      BY <2>1, Wider
  <1> QED
    BY <1>2, <1>3

LEMMA RecordTyping ==
    ASSUME Typing, Record
    PROVE  Typing'
  <1>1. /\ recorded \in Nat /\ recorded' = recorded + 1 /\ recorded' \in 0..Len(script)
        /\ announced = recorded /\ announced \in Nat /\ LogTyped
    BY Recorded DEF Typing, Record
  <1>2. UNCHANGED <<script, announced, typed, pump, down, up, client, left, history>>
    BY DEF Record
  <1>3. LogTyped'
    BY <1>1, <1>2 DEF LogTyped
  <1>4. /\ Seq(Spoken(recorded)) \subseteq Seq(Spoken(recorded'))
        /\ Seq(Spoken(recorded) \cup Words) \subseteq Seq(Spoken(recorded') \cup Words)
    BY <1>1, WiderSpoken
  <1>5. PumpTyped'
    <2>1. pump \in Pumps /\ down \in Seq(Spoken(recorded) \cup Words) /\ up \in BOOLEAN
      BY DEF Typing, PumpTyped
    <2>2. pump \in [at : {"off", "read", "live"}, from : 0..recorded', replayed : 0..recorded',
                    todo : Seq(Spoken(recorded')), bus : Seq(1..announced), closed : BOOLEAN]
      BY <1>1, <1>4, <2>1 DEF Pumps
    <2>3. down \in Seq(Spoken(recorded') \cup Words)
      BY <1>4, <2>1
    <2> QED
      BY <1>2, <2>1, <2>2, <2>3 DEF PumpTyped, Pumps, Spoken
  <1>6. \A page : PageTyped(page, recorded) => PageTyped(page, recorded)'
    BY <1>1, <1>2 DEF PageTyped, Opens
  <1>7. FollowerTyped'
    BY <1>2, <1>6 DEF Typing, FollowerTyped, client, PageTyped
  <1>8. PagesTyped'
    <2> SUFFICES ASSUME NEW page \in pages
                 PROVE  (page \in Asked \/ Answered(page))'
      BY <1>2 DEF PagesTyped, client
    <2>1. CASE page \in Asked
      BY <1>1, <2>1 DEF Asked
    <2>2. CASE Answered(page)
      BY <1>6, <2>2 DEF Answered, PageTyped
    <2> QED
      BY <2>1, <2>2 DEF Typing, PagesTyped
  <1>9. HeldTyped(store, recorded)'
    <2>1. HeldTyped(store, recorded)
      BY DEF Typing
    <2>2. HeldTyped(store, recorded')
      BY <1>1, <1>4, <2>1 DEF HeldTyped
    <2> QED
      BY <1>2, <2>2 DEF HeldTyped, client, Spoken
  <1>10. ShownOnce'
    BY <1>2, ShownStays DEF Typing, client
  <1> QED
    BY <1>2, <1>3, <1>5, <1>7, <1>8, <1>9, <1>10 DEF Typing, client

LEMMA AnnounceTyping ==
    ASSUME Typing, Announce
    PROVE  Typing'
  <1>1. /\ recorded \in Nat /\ announced \in Nat /\ announced < recorded /\ announced' = announced + 1 /\ LogTyped
    BY Recorded DEF Typing, Announce
  <1>2. UNCHANGED <<script, recorded, typed, down, up, client, left, cuts>>
    BY DEF Announce
  <1>3. LogTyped'
    BY <1>1, <1>2 DEF LogTyped
  <1>4. pump \in Pumps /\ down \in Seq(Spoken(recorded) \cup Words) /\ up \in BOOLEAN
    BY DEF Typing, PumpTyped
  <1>5. pump.bus \in Seq(1..(announced + 1))
    <2>1. 1..announced \subseteq 1..(announced + 1) /\ pump.bus \in Seq(1..announced)
      BY <1>1, <1>4 DEF Pumps
    <2> QED
      BY <2>1, Wider
  <1> DEFINE Pumped == [at : {"off", "read", "live"}, from : 0..recorded, replayed : 0..recorded,
                        todo : Seq(Spoken(recorded)), bus : Seq(1..(announced + 1)), closed : BOOLEAN]
  <1>6. pump' \in Pumped
    <2>1. CASE pump.at = "off" \/ pump.closed
      BY <1>4, <1>5, <2>1 DEF Announce, Pumps
    <2>2. CASE ~(pump.at = "off" \/ pump.closed)
      <3> DEFINE full == Len(pump.bus) = BusDepth
                 kept == IF full THEN Tail(pump.bus) ELSE pump.bus
                 bus == Append(kept, announced + 1)
      <3>1. pump' = [pump EXCEPT !.bus = bus]
        BY <1>1, <2>2 DEF Announce
      <3>2. kept \in Seq(1..(announced + 1))
        <4> DEFINE S == 1..(announced + 1)
        <4>1. full => pump.bus # <<>>
          BY BoundsAssumption
        <4>2. pump.bus \in Seq(S)
          BY <1>5
        <4> HIDE DEF S
        <4>3. kept \in Seq(S)
          BY <4>1, <4>2
        <4> QED
          BY <4>3 DEF S
      <3>3. bus \in Seq(1..(announced + 1))
        <4>1. announced + 1 \in 1..(announced + 1)
          BY <1>1
        <4> HIDE DEF kept
        <4> QED
          BY <3>2, <4>1
      <3> HIDE DEF bus
      <3> QED
        BY <1>4, <3>1, <3>3 DEF Pumps
    <2> QED
      BY <2>1, <2>2
  <1>7. PumpTyped'
    BY <1>1, <1>2, <1>4, <1>6 DEF PumpTyped, Pumps, Spoken
  <1>8. FollowerTyped' /\ PagesTyped' /\ HeldTyped(store, recorded)' /\ ShownOnce'
    BY <1>2, FollowerStays, PagesStay, StoreStays, ShownStays DEF Typing, client
  <1> QED
    BY <1>2, <1>3, <1>7, <1>8 DEF Typing, client

LEMMA PumpReadTyping ==
    ASSUME Typing, PumpRead
    PROVE  Typing'
  <1>1. LogTyped /\ PumpTyped /\ recorded \in Nat
    BY Recorded DEF Typing
  <1>2. UNCHANGED <<script, recorded, announced, down, up, client, left, history>> /\ typed' \in Seq(Messages)
    BY <1>1, WaitingTyped DEF PumpRead, LogTyped
  <1>3. LogTyped'
    BY <1>1, <1>2 DEF LogTyped
  <1>4. Backlog(pump'.todo, pump.from) /\ pump' = [pump EXCEPT !.at = "live", !.replayed = recorded, !.todo = pump'.todo]
    BY <1>1, BacklogFacts
  <1>5. pump'.todo \in Seq(Spoken(recorded))
    BY <1>4 DEF Backlog
  <1>6. pump' \in Pumps
    <2>1. \A todo \in Seq(Spoken(recorded)) :
             [pump EXCEPT !.at = "live", !.replayed = recorded, !.todo = todo] \in Pumps
      <3> TAKE todo \in Seq(Spoken(recorded))
      <3>1. pump \in Pumps /\ recorded \in 0..recorded
        BY <1>1 DEF PumpTyped
      <3> QED
        BY <3>1 DEF Pumps
    <2> QED
      BY <1>4, <1>5, <2>1
  <1>7. PumpTyped'
    BY <1>1, <1>2, <1>6 DEF PumpTyped, Pumps, Spoken
  <1>8. FollowerTyped' /\ PagesTyped' /\ HeldTyped(store, recorded)' /\ ShownOnce'
    BY <1>2, FollowerStays, PagesStay, StoreStays, ShownStays DEF Typing, client
  <1> QED
    BY <1>2, <1>3, <1>7, <1>8 DEF Typing, client

LEMMA PumpReadFailsTyped ==
    ASSUME LogTyped, PumpTyped, PumpReadFails
    PROVE  /\ pump' \in Pumps
           /\ pump'.todo = IF typed = <<>> THEN <<>> ELSE <<Frame(0, FALSE, typed)>>
  <1> DEFINE todo == IF typed = <<>> THEN <<>> ELSE <<Frame(0, FALSE, typed)>>
  <1>1. recorded \in Nat /\ typed \in Seq(Messages) /\ pump \in Pumps
    BY Recorded DEF LogTyped, PumpTyped
  <1>2. todo \in Seq(Spoken(recorded))
    <2> DEFINE frame == Frame(0, FALSE, typed)
    <2>1. frame \in Spoken(recorded)
      BY <1>1, 0 \in 0..recorded, FALSE \in BOOLEAN, FrameTyped
    <2> HIDE DEF frame
    <2>2. <<frame>> \in Seq(Spoken(recorded)) /\ <<>> \in Seq(Spoken(recorded))
      BY <2>1
    <2> QED
      BY <2>2 DEF frame
  <1>3. pump' = [pump EXCEPT !.at = "live", !.todo = todo]
    BY DEF PumpReadFails
  <1> HIDE DEF todo
  <1>4. pump' \in Pumps /\ pump'.todo = todo
    BY <1>1, <1>2, <1>3 DEF Pumps
  <1> QED
    BY <1>4 DEF todo

\* A frame put on its way.
LEMMA SentTyped ==
    ASSUME PumpTyped, NEW frame \in Spoken(recorded) \cup Words
    PROVE  Append(down, frame) \in Seq(Spoken(recorded) \cup Words)
  <1> DEFINE S == Spoken(recorded) \cup Words
  <1>1. down \in Seq(S) /\ frame \in S
    BY DEF PumpTyped
  <1> HIDE DEF S
  <1>2. Append(down, frame) \in Seq(S)
    BY <1>1
  <1> QED
    BY <1>2 DEF S

\* The pump takes the first of what it is to send, or of what it has heard.
LEMMA PumpSendTyped ==
    ASSUME PumpTyped, PumpSend
    PROVE  pump' \in Pumps /\ Head(pump.todo) \in Spoken(recorded) /\ pump'.todo = Tail(pump.todo)
  <1> DEFINE S == Spoken(recorded)
  <1>1. pump \in Pumps /\ pump.todo \in Seq(S) /\ pump.todo # <<>>
    BY DEF PumpTyped, Pumps, PumpSend
  <1>2. pump' = [pump EXCEPT !.todo = Tail(pump.todo)]
    BY DEF PumpSend
  <1> HIDE DEF S
  <1>3. Tail(pump.todo) \in Seq(S) /\ Head(pump.todo) \in S
    BY <1>1
  <1>4. Tail(pump.todo) \in Seq(Spoken(recorded))
    BY <1>3 DEF S
  <1> QED
    BY <1>1, <1>2, <1>3, <1>4 DEF Pumps, S

LEMMA PumpLiveTyped ==
    ASSUME LogTyped, PumpTyped, PumpLive
    PROVE  /\ Head(pump.bus) \in 1..announced /\ Head(pump.bus) = pump.bus[1]
           /\ pump' = [pump EXCEPT !.bus = Tail(pump.bus), !.replayed = pump'.replayed]
           /\ pump'.replayed = IF Head(pump.bus) > pump.replayed THEN Head(pump.bus) ELSE pump.replayed
           /\ pump' \in Pumps
           /\ Frame(Head(pump.bus), TRUE, <<>>) \in Spoken(recorded)
  <1> DEFINE S == 1..announced
             n == Head(pump.bus)
             seen == Max({pump.replayed, n})
  <1>1. recorded \in Nat /\ announced \in 0..recorded /\ pump \in Pumps
    BY Recorded DEF PumpTyped
  <1>2. pump.bus \in Seq(S) /\ pump.bus # <<>> /\ pump.replayed \in 0..recorded
    BY <1>1 DEF Pumps, PumpLive
  <1> HIDE DEF S
  <1>3. n \in S /\ Tail(pump.bus) \in Seq(S) /\ n = pump.bus[1]
    BY <1>2
  <1> USE DEF S
  <1> HIDE DEF n
  <1>4. n \in 1..recorded /\ n \in 0..recorded /\ n # 0
    BY <1>1, <1>3
  <1>5. seen = IF n > pump.replayed THEN n ELSE pump.replayed
    <2>1. n \in Int /\ pump.replayed \in Int
      BY <1>1, <1>2, <1>4
    <2> QED
      BY <2>1 DEF Max
  <1>6. pump' = [pump EXCEPT !.bus = Tail(pump.bus), !.replayed = seen]
    BY DEF PumpLive, n
  <1>7. seen \in 0..recorded
    BY <1>2, <1>4, <1>5
  <1> HIDE DEF seen
  <1>8. pump' \in Pumps /\ pump'.replayed = seen
    BY <1>1, <1>3, <1>6, <1>7 DEF Pumps
  <1>9. Frame(n, TRUE, <<>>) \in Spoken(recorded)
    BY <1>1, <1>4, <<>> \in Seq(Messages), TRUE \in BOOLEAN, FrameTyped
  <1> QED
    BY <1>3, <1>5, <1>6, <1>8, <1>9 DEF n

LEMMA PumpTyping ==
    ASSUME Typing, Unwatch \/ PumpReadFails \/ PumpRefused \/ PumpSend \/ PumpLive \/ PumpEnds
    PROVE  Typing'
  <1>1. LogTyped /\ PumpTyped /\ recorded \in Nat
    BY Recorded DEF Typing
  <1>2. /\ pump \in Pumps /\ up \in BOOLEAN /\ down \in Seq(Spoken(recorded) \cup Words)
        /\ [t |-> "error"] \in Spoken(recorded) \cup Words /\ [t |-> "reset"] \in Spoken(recorded) \cup Words
    BY <1>1 DEF PumpTyped, Words
  <1>3. UNCHANGED <<server, up, client, cuts>>
    BY DEF Unwatch, PumpReadFails, PumpRefused, PumpSend, PumpLive, PumpEnds, history
  <1>4. left' \in [visits : Nat, troubles : Nat]
    BY Spent DEF Typing, Unwatch, PumpReadFails, PumpRefused, PumpSend, PumpLive, PumpEnds
  <1>5. pump' \in Pumps /\ down' \in Seq(Spoken(recorded) \cup Words)
    <2>1. CASE Unwatch
      BY <1>2, <2>1 DEF Unwatch, Pumps
    <2>2. CASE PumpReadFails
      BY <1>1, <1>2, <2>2, PumpReadFailsTyped DEF PumpReadFails
    <2>3. CASE PumpRefused
      BY <1>1, <1>2, <2>3, OffTyped, SentTyped DEF PumpRefused
    <2>4. CASE PumpSend
      BY <1>1, <1>2, <2>4, PumpSendTyped, SentTyped DEF PumpSend
    <2>5. CASE PumpLive
      BY <1>1, <1>2, <2>5, PumpLiveTyped, SentTyped DEF PumpLive
    <2>6. CASE PumpEnds
      BY <1>1, <1>2, <2>6, OffTyped, SentTyped DEF PumpEnds
    <2> QED
      BY <2>1, <2>2, <2>3, <2>4, <2>5, <2>6
  <1>6. PumpTyped'
    BY <1>2, <1>3, <1>5 DEF PumpTyped, Pumps, Spoken, server
  <1>7. LogTyped' /\ FollowerTyped' /\ PagesTyped' /\ HeldTyped(store, recorded)' /\ ShownOnce'
    BY <1>3, LogStays, FollowerStays, PagesStay, StoreStays, ShownStays DEF Typing, client, server
  <1> QED
    BY <1>3, <1>4, <1>6, <1>7 DEF Typing, client

-----------------------------------------------------------------------------
(* Typing: the socket *)

\* What is folded and drawn on, whoever asked for it.
LEMMA DrainedTyping ==
    ASSUME Typing, store' = Drain(store), UNCHANGED <<recorded, sent>>
    PROVE  HeldTyped(store, recorded)' /\ ShownOnce'
  <1>1. HeldTyped(store', recorded) /\ TypedOf(store'.items) \subseteq TypedOf(store.items)
    BY WhatIsHeld DEF Drained
  <1> QED
    BY <1>1, HeldNext, ShownFewer DEF Typing

LEMMA SocketDropsTyping ==
    ASSUME Typing, SocketDrops
    PROVE  Typing'
  <1>1. LogTyped /\ UNCHANGED <<server, client, history>> /\ up' = FALSE /\ down' = <<>> /\ pump' = Off
    BY DEF Typing, SocketDrops
  <1>2. pump' \in Pumps /\ <<>> \in Seq(Spoken(recorded) \cup Words)
    BY <1>1, OffTyped
  <1>3. PumpTyped'
    BY <1>1, <1>2 DEF PumpTyped, Pumps, Spoken, server
  <1>4. left' \in [visits : Nat, troubles : Nat]
    BY Spent DEF Typing, SocketDrops
  <1>5. LogTyped' /\ FollowerTyped' /\ PagesTyped' /\ HeldTyped(store, recorded)' /\ ShownOnce'
    BY <1>1, LogStays, FollowerStays, PagesStay, StoreStays, ShownStays DEF Typing, client, server
  <1> QED
    BY <1>1, <1>3, <1>4, <1>5 DEF Typing, client

LEMMA SocketOpensTyping ==
    ASSUME Typing, SocketOpens
    PROVE  Typing'
  <1>1. UNCHANGED <<server, down, readers, follower, pages, sent, left, history>> /\ up' = TRUE
    BY DEF SocketOpens
  <1>2. LogTyped /\ PumpTyped /\ recorded \in Nat
    BY Recorded DEF Typing
  <1>3. pump' \in Pumps /\ HeldTyped(store, recorded)' /\ ShownOnce'
    <2>1. CASE follower = Following
      <3>1. store' = Drain(store) /\ pump' = Watching(store'.lastLine)
        BY <2>1 DEF SocketOpens
      <3>2. store'.lastLine \in 0..recorded
        <4>1. HeldTyped(store', recorded)
          BY <3>1, WhatIsHeld
        <4> QED
          BY <1>2, <4>1, HeldFacts
      <3>3. pump' \in Pumps
        BY <1>2, <3>1, <3>2, WatchingTyped
      <3> QED
        BY <1>1, <3>1, <3>3, DrainedTyping DEF server
    <2>2. CASE follower # Following
      <3>1. UNCHANGED <<store, pump>>
        BY <2>2 DEF SocketOpens
      <3> QED
        BY <1>1, <1>2, <3>1, StoreStays, ShownStays DEF Typing, PumpTyped, server
    <2> QED
      BY <2>1, <2>2
  <1>4. PumpTyped'
    BY <1>1, <1>2, <1>3 DEF PumpTyped, Pumps, Spoken, server
  <1>5. LogTyped' /\ FollowerTyped' /\ PagesTyped'
    BY <1>1, LogStays, FollowerStays, PagesStay DEF Typing, server
  <1> QED
    BY <1>1, <1>3, <1>4, <1>5 DEF Typing

\* What a frame that arrives does, by what it is and whether anybody listens.
LEMMA Received ==
    ASSUME PumpTyped, Receive
    PROVE  /\ down # <<>> /\ down' = Tail(down) /\ up
           /\ Tail(down) \in Seq(Spoken(recorded) \cup Words)
           /\ UNCHANGED <<server, up, readers, follower, pages, sent, left, cuts>>
           /\ \/ follower # Following /\ UNCHANGED <<store, pump, fault>>
              \/ /\ follower = Following /\ Head(down) \in Spoken(recorded) /\ Head(down).t = "line"
                 /\ store' = [store EXCEPT !.waiting = Append(store.waiting, Head(down))]
                 /\ UNCHANGED <<pump, fault>>
              \/ /\ follower = Following /\ Head(down).t # "line"
                 /\ store' = [Drain(store) EXCEPT !.trouble = TRUE]
                 /\ UNCHANGED <<pump, fault>>
              \/ /\ follower = Following /\ Head(down).t # "line"
                 /\ store' = Drain(store) /\ pump' = Watching(store'.lastLine)
                 /\ fault' = Overlap(Tail(down))
  <1> DEFINE S == Spoken(recorded) \cup Words
             frame == Head(down)
  <1>1. /\ down # <<>> /\ down' = Tail(down) /\ up /\ down \in Seq(S)
        /\ UNCHANGED <<server, up, readers, follower, pages, sent, left, cuts>>
    BY DEF PumpTyped, Receive
  <1>2. Tail(down) \in Seq(S) /\ frame \in S
    <2> HIDE DEF S
    <2> QED
      BY <1>1
  <1>3. frame.t \in {"line", "error", "reset"} /\ (frame.t = "line" => frame \in Spoken(recorded))
    <2> HIDE DEF frame
    <2> QED
      BY <1>2 DEF Spoken, Words
  <1>4. CASE follower # Following
    BY <1>1, <1>2, <1>4 DEF Receive
  <1>5. CASE follower = Following /\ frame.t = "line"
    BY <1>1, <1>2, <1>3, <1>5 DEF Receive
  <1>6. CASE follower = Following /\ frame.t = "error"
    BY <1>1, <1>2, <1>3, <1>6 DEF Receive
  <1>7. CASE follower = Following /\ frame.t = "reset"
    BY <1>1, <1>2, <1>3, <1>7 DEF Receive
  <1> QED
    BY <1>3, <1>4, <1>5, <1>6, <1>7

LEMMA ReceiveTyping ==
    ASSUME Typing, Receive
    PROVE  Typing'
  <1>1. LogTyped /\ PumpTyped /\ recorded \in Nat /\ HeldTyped(store, recorded) /\ ShownOnce
    BY WhatIsHeld DEF Typing
  <1>2. /\ UNCHANGED <<server, up, readers, follower, pages, sent, left>>
        /\ down' \in Seq(Spoken(recorded) \cup Words)
    BY <1>1, Received
  <1>3. pump' \in Pumps /\ HeldTyped(store, recorded)' /\ ShownOnce'
    <2>1. CASE follower # Following /\ UNCHANGED <<store, pump, fault>>
      BY <1>1, <1>2, <2>1, StoreStays, ShownStays DEF PumpTyped, server
    <2>2. CASE /\ Head(down) \in Spoken(recorded)
               /\ store' = [store EXCEPT !.waiting = Append(store.waiting, Head(down))] /\ UNCHANGED pump
      <3> DEFINE waiting == Append(store.waiting, Head(down))
      <3>1. waiting \in Seq(Spoken(recorded))
        BY <1>1, <2>2, HeldFacts
      <3>2. store' = [store EXCEPT !.waiting = waiting]
        BY <2>2
      <3> HIDE DEF waiting
      <3>3. HeldTyped(store', recorded) /\ store'.items = store.items
        BY <1>1, <3>1, <3>2 DEF HeldTyped
      <3> QED
        BY <1>1, <1>2, <2>2, <3>3, HeldNext, ShownFewer DEF PumpTyped, server
    <2>3. CASE store' = [Drain(store) EXCEPT !.trouble = TRUE] /\ UNCHANGED pump
      <3> DEFINE held == Drain(store)
      <3>1. HeldTyped(held, recorded) /\ TypedOf(held.items) \subseteq TypedOf(store.items)
        BY WhatIsHeld DEF Drained
      <3>2. store' = [held EXCEPT !.trouble = TRUE]
        BY <2>3
      <3> HIDE DEF held
      <3>3. HeldTyped(store', recorded) /\ store'.items = held.items
        BY <1>1, <3>1, <3>2 DEF HeldTyped
      <3> QED
        BY <1>1, <1>2, <2>3, <3>1, <3>3, HeldNext, ShownFewer DEF PumpTyped, server
    <2>4. CASE store' = Drain(store) /\ pump' = Watching(store'.lastLine)
      <3>1. store'.lastLine \in 0..recorded
        <4>1. HeldTyped(store', recorded)
          BY <2>4, WhatIsHeld
        <4> QED
          BY <1>1, <4>1, HeldFacts
      <3>2. pump' \in Pumps
        BY <1>1, <2>4, <3>1, WatchingTyped
      <3> QED
        BY <1>2, <2>4, <3>2, DrainedTyping DEF server
    <2> QED
      BY <1>1, <2>1, <2>2, <2>3, <2>4, Received
  <1>4. PumpTyped'
    BY <1>1, <1>2, <1>3 DEF PumpTyped, Pumps, Spoken, server
  <1>5. LogTyped' /\ FollowerTyped' /\ PagesTyped'
    BY <1>2, LogStays, FollowerStays, PagesStay DEF Typing, server
  <1> QED
    BY <1>2, <1>3, <1>4, <1>5 DEF Typing

-----------------------------------------------------------------------------
(* Typing: the window *)

LEMMA PaintTyping ==
    ASSUME Typing, Paint
    PROVE  Typing'
  <1>1. store' = Drain(store) /\ UNCHANGED <<server, pump, down, up, readers, follower, pages, sent, left, history>>
    BY DEF Paint
  <1>2. HeldTyped(store, recorded)' /\ ShownOnce'
    BY <1>1, DrainedTyping DEF server
  <1>3. LogTyped' /\ PumpTyped' /\ FollowerTyped' /\ PagesTyped'
    BY <1>1, LogStays, PumpStays, FollowerStays, PagesStay DEF Typing, server
  <1> QED
    BY <1>1, <1>2, <1>3 DEF Typing

\* The three ways in end in the same: somebody listens, to what is drawn.
LEMMA ListeningTyping ==
    ASSUME Typing, NEW held, HeldTyped(held, recorded), TypedOf(held.items) \subseteq TypedOf(store.items),
           Listen(held), UNCHANGED <<server, down, up, pages, sent>>,
           readers' \in 0..Readers, left' \in [visits : Nat, troubles : Nat]
    PROVE  Typing'
  <1>1. Listened(held)
    BY ListenTyped
  <1>2. recorded \in Nat /\ Drained(Drain(held), held)
    BY WhatIsHeld, DrainFacts
  <1>3. HeldTyped(store, recorded)'
    BY <1>1, HeldNext DEF Listened, server
  <1>4. ShownOnce'
    <2>1. TypedOf(store'.items) \subseteq TypedOf(store.items)
      BY <1>1, <1>2 DEF Listened, Drained
    <2> QED
      BY <2>1, ShownFewer DEF Typing
  <1>5. LogTyped' /\ PagesTyped'
    BY LogStays, PagesStay DEF Typing, server
  <1>6. FollowerTyped'
    BY <1>1 DEF Listened, FollowerTyped
  <1> QED
    BY <1>1, <1>3, <1>4, <1>5, <1>6 DEF Typing, Listened

LEMMA MountTyping ==
    ASSUME Typing, Mount
    PROVE  Typing'
  <1>1. /\ readers' \in 0..Readers /\ UNCHANGED <<server, down, up, pages, sent, cuts>>
        /\ left' \in [visits : Nat, troubles : Nat]
    <2>1. left' \in [visits : Nat, troubles : Nat]
      BY Spent DEF Typing, Mount
    <2> QED
      BY BoundsAssumption, <2>1 DEF Typing, Mount
  <1>2. CASE Listen(store)
    BY <1>1, <1>2, WhatIsHeld, ListeningTyping
  <1>3. CASE UNCHANGED <<store, pump>> /\ follower' \in {follower, [at |-> "asked"]}
    <2>1. LogTyped' /\ PumpTyped' /\ PagesTyped' /\ HeldTyped(store, recorded)' /\ ShownOnce'
      BY <1>1, <1>3, LogStays, PumpStays, PagesStay, StoreStays, ShownStays DEF Typing, server
    <2>2. FollowerTyped'
      <3>1. CASE follower' = follower
        BY <1>1, <3>1, FollowerStays DEF Typing, server
      <3>2. CASE follower' = [at |-> "asked"]
        BY <3>2 DEF FollowerTyped
      <3> QED
        BY <1>3, <3>1, <3>2
    <2> QED
      BY <1>1, <2>1, <2>2 DEF Typing
  <1> QED
    BY <1>2, <1>3 DEF Mount

LEMMA UnmountTyping ==
    ASSUME Typing, Unmount
    PROVE  Typing'
  <1>1. /\ readers' \in 0..Readers /\ UNCHANGED <<server, down, up, pages, sent, left, history>>
    BY BoundsAssumption DEF Typing, Unmount
  <1>2. LogTyped' /\ PagesTyped'
    BY <1>1, LogStays, PagesStay DEF Typing, server
  <1>3. CASE readers > 1
    <2>1. UNCHANGED <<store, pump, follower>>
      BY <1>3 DEF Unmount
    <2>2. PumpTyped' /\ FollowerTyped' /\ HeldTyped(store, recorded)' /\ ShownOnce'
      BY <1>1, <2>1, PumpStays, FollowerStays, StoreStays, ShownStays DEF Typing, server
    <2> QED
      BY <1>1, <1>2, <2>2 DEF Typing
  <1>4. CASE ~(readers > 1)
    <2>1. store' = Drain(store) /\ follower' = NotFollowing /\ pump' \in {Off, pump}
      BY <1>4 DEF Unmount
    <2>2. HeldTyped(store, recorded)' /\ ShownOnce'
      BY <1>1, <2>1, DrainedTyping DEF server
    <2>3. pump' \in Pumps
      BY <2>1, OffTyped DEF Typing, PumpTyped
    <2>4. PumpTyped'
      BY <1>1, <2>3 DEF Typing, PumpTyped, Pumps, Spoken, server
    <2>5. FollowerTyped'
      BY <2>1 DEF FollowerTyped
    <2> QED
      BY <1>1, <1>2, <2>2, <2>4, <2>5 DEF Typing
  <1> QED
    BY <1>3, <1>4

LEMMA AnswerSnapshotTyping ==
    ASSUME Typing, AnswerSnapshot
    PROVE  Typing'
  <1>1. /\ follower' = [at |-> "answered", page |-> Page(0)]
        /\ UNCHANGED <<server, pump, down, up, store, readers, pages, sent, left, history>>
    BY DEF AnswerSnapshot
  <1>2. PageTyped(Page(0), recorded) /\ Page(0).lastLine = recorded /\ Page(0).to = recorded
    <2>1. recorded \in Nat /\ 0 \in 0..recorded
      BY WhatIsHeld
    <2>2. /\ PageTyped(Page(0), recorded) /\ Page(0).lastLine = recorded
          /\ Page(0).to = IF 0 = 0 THEN recorded ELSE 0 - 1
      BY <2>1, PageFacts
    <2> QED
      BY <2>2
  <1>3. FollowerTyped'
    <2> DEFINE page == Page(0)
    <2>1. follower' = [at |-> "answered", page |-> page] /\ PageTyped(page, recorded) /\ page.lastLine = page.to
      BY <1>1, <1>2
    <2>2. PageTyped(page, recorded) => \E p : /\ follower' = [at |-> "answered", page |-> p]
                                              /\ PageTyped(p, recorded) /\ p.lastLine = p.to
      BY <2>1
    <2> HIDE DEF page
    <2> QED
      BY <1>1, <2>1, <2>2 DEF FollowerTyped, PageTyped, Opens, server
  <1>4. LogTyped' /\ PumpTyped' /\ PagesTyped' /\ HeldTyped(store, recorded)' /\ ShownOnce'
    BY <1>1, LogStays, PumpStays, PagesStay, StoreStays, ShownStays DEF Typing, server
  <1> QED
    BY <1>1, <1>3, <1>4 DEF Typing

\* What is held once a snapshot is folded into it, before anything follows.
Opened(page) ==
    [store EXCEPT !.items = ApplyLines(store.items, page.from, page.to),
                  !.lastLine = Max({store.lastLine, page.lastLine}),
                  !.firstLine = page.firstLine,
                  !.hasMore = page.hasMore]

LEMMA TakeSnapshotIs ==
    ASSUME TakeSnapshot
    PROVE  /\ follower.at = "answered" /\ Listen(Opened(follower.page))
           /\ UNCHANGED <<server, down, up, readers, pages, sent, left>>
  BY DEF TakeSnapshot, Opened

LEMMA AnsweredPage ==
    ASSUME FollowerTyped, follower.at = "answered"
    PROVE  PageTyped(follower.page, recorded) /\ follower.page.lastLine = follower.page.to
  BY DEF FollowerTyped, NotFollowing, Following

LEMMA OpenedFacts ==
    ASSUME Typing, NEW page, PageTyped(page, recorded)
    PROVE  LET held == Opened(page)
           IN  /\ HeldTyped(held, recorded)
               /\ Stretched(held.items, store.items, page.from, page.to)
               /\ held.lastLine = (IF page.lastLine > store.lastLine THEN page.lastLine ELSE store.lastLine)
               /\ held.firstLine = page.firstLine /\ held.hasMore = page.hasMore
               /\ held.waiting = store.waiting
  <1> DEFINE items == ApplyLines(store.items, page.from, page.to)
             lastLine == Max({store.lastLine, page.lastLine})
             held == Opened(page)
  <1>1. recorded \in Nat /\ HeldTyped(store, recorded)
    BY WhatIsHeld
  <1>2. /\ page.from \in Nat /\ page.to \in Nat /\ page.from <= page.to + 1
        /\ page.firstLine \in 0..recorded /\ page.lastLine \in 0..recorded /\ page.hasMore \in BOOLEAN
    BY <1>1 DEF PageTyped
  <1>3. Good(store.items) /\ store.lastLine \in 0..recorded
    BY <1>1, HeldFacts
  <1>4. Stretched(items, store.items, page.from, page.to)
    BY <1>2, <1>3, ApplyLinesFacts
  <1>5. lastLine = IF page.lastLine > store.lastLine THEN page.lastLine ELSE store.lastLine
    <2>1. page.lastLine \in Int /\ store.lastLine \in Int
      BY <1>2, <1>3
    <2> QED
      BY <2>1 DEF Max
  <1>6. lastLine \in 0..recorded
    BY <1>2, <1>3, <1>5
  <1>7. held = [store EXCEPT !.items = items, !.lastLine = lastLine, !.firstLine = page.firstLine, !.hasMore = page.hasMore]
    BY DEF Opened
  <1>8. items \in Seq(Items) /\ Unique(items)
    BY <1>4 DEF Stretched, Good
  <1> HIDE DEF items, lastLine, held
  <1>9. /\ held.items = items /\ held.lastLine = lastLine /\ held.firstLine = page.firstLine
        /\ held.hasMore = page.hasMore /\ held.waiting = store.waiting
    BY <1>1, <1>7 DEF HeldTyped
  <1>10. HeldTyped(held, recorded)
    BY <1>1, <1>2, <1>6, <1>7, <1>8 DEF HeldTyped
  <1> QED
    BY <1>4, <1>5, <1>9, <1>10 DEF held

LEMMA TakeSnapshotTyping ==
    ASSUME Typing, TakeSnapshot
    PROVE  Typing'
  <1> DEFINE held == Opened(follower.page)
  <1>1. /\ follower.at = "answered" /\ Listen(held)
        /\ UNCHANGED <<server, down, up, readers, pages, sent, left>>
    BY TakeSnapshotIs
  <1>2. PageTyped(follower.page, recorded)
    BY <1>1, AnsweredPage DEF Typing
  <1>3. HeldTyped(held, recorded) /\ Stretched(held.items, store.items, follower.page.from, follower.page.to)
    BY <1>2, OpenedFacts
  <1>4. TypedOf(held.items) \subseteq TypedOf(store.items)
    BY <1>3 DEF Stretched
  <1> HIDE DEF held
  <1> QED
    BY <1>1, <1>3, <1>4, ListeningTyping DEF Typing

LEMMA SnapshotFailsTyping ==
    ASSUME Typing, SnapshotFails
    PROVE  Typing'
  <1>1. Listen(store) /\ UNCHANGED <<server, down, up, readers, pages, sent, cuts>>
    BY DEF SnapshotFails
  <1>2. left' \in [visits : Nat, troubles : Nat]
    BY Spent DEF Typing, SnapshotFails
  <1> QED
    BY <1>1, <1>2, WhatIsHeld, ListeningTyping DEF Typing

\* Nothing but the store and the pages in flight.
LEMMA PagingTyping ==
    ASSUME Typing, UNCHANGED <<server, pump, down, up, readers, follower, sent>>,
           HeldTyped(store', recorded), TypedOf(store'.items) \subseteq TypedOf(store.items), PagesTyped',
           left' \in [visits : Nat, troubles : Nat]
    PROVE  Typing'
  <1>1. LogTyped' /\ PumpTyped' /\ FollowerTyped'
    BY LogStays, PumpStays, FollowerStays DEF Typing, server
  <1>2. HeldTyped(store, recorded)' /\ ShownOnce'
    BY HeldNext, ShownFewer DEF Typing, server
  <1> QED
    BY <1>1, <1>2 DEF Typing

LEMMA PagesTypedNext ==
    ASSUME UNCHANGED <<script, recorded>>, \A page \in pages' : page \in Asked \/ Answered(page)
    PROVE  PagesTyped'
  BY DEF PagesTyped, Asked, Answered, PageTyped, Opens

LEMMA LoadingTyped ==
    ASSUME NEW last \in Nat, NEW held, HeldTyped(held, last), NEW loading \in BOOLEAN
    PROVE  /\ HeldTyped([held EXCEPT !.loadingOlder = loading], last)
           /\ [held EXCEPT !.loadingOlder = loading].items = held.items
           /\ [held EXCEPT !.loadingOlder = loading].lastLine = held.lastLine
           /\ [held EXCEPT !.loadingOlder = loading].hasMore = held.hasMore
           /\ [held EXCEPT !.loadingOlder = loading].firstLine = held.firstLine
           /\ [held EXCEPT !.loadingOlder = loading].waiting = held.waiting
  BY DEF HeldTyped

LEMMA ScrollBackTyping ==
    ASSUME Typing, ScrollBack
    PROVE  Typing'
  <1> DEFINE held == Drain(store)
             asked == [at |-> "asked", before |-> store.firstLine, late |-> FALSE]
  <1>1. /\ store' = [held EXCEPT !.loadingOlder = TRUE] /\ store.firstLine > 0
        /\ pages' = pages \cup {asked}
        /\ UNCHANGED <<server, pump, down, up, readers, follower, sent, left, history>>
    BY DEF ScrollBack
  <1>2. recorded \in Nat /\ HeldTyped(held, recorded) /\ TypedOf(held.items) \subseteq TypedOf(store.items)
        /\ HeldTyped(store, recorded)
    BY WhatIsHeld DEF Drained
  <1> HIDE DEF held
  <1>3. HeldTyped(store', recorded) /\ store'.items = held.items
    BY <1>1, <1>2, TRUE \in BOOLEAN, LoadingTyped
  <1>4. asked \in Asked
    BY <1>1, <1>2, HeldFacts DEF Asked
  <1>5. PagesTyped'
    <2>1. \A page \in pages : page \in Asked \/ Answered(page)
      BY DEF Typing, PagesTyped
    <2> HIDE DEF asked
    <2> QED
      BY <1>1, <1>4, <2>1, PagesTypedNext DEF server
  <1> QED
    BY <1>1, <1>2, <1>3, <1>5, PagingTyping DEF Typing

LEMMA AnswerPageTyping ==
    ASSUME Typing, NEW asked \in pages, AnswerPage(asked)
    PROVE  Typing'
  <1> DEFINE page == Page(asked.before)
             answered == [at |-> "answered", page |-> page, late |-> asked.late]
  <1>1. /\ asked.at = "asked" /\ pages' = (pages \ {asked}) \cup {answered}
        /\ UNCHANGED <<server, pump, down, up, store, readers, follower, sent, left, history>>
    BY DEF AnswerPage
  <1>2. asked \in Asked
    BY <1>1 DEF Typing, PagesTyped, Answered
  <1>3. recorded \in Nat /\ asked.before \in 0..recorded /\ asked.late \in BOOLEAN
    BY <1>2, WhatIsHeld DEF Asked
  <1>4. PageTyped(page, recorded)
    BY <1>3, PageFacts
  <1> HIDE DEF page
  <1>5. Answered(answered)
    BY <1>3, <1>4 DEF Answered
  <1>6. PagesTyped'
    <2>1. \A other \in pages : other \in Asked \/ Answered(other)
      BY DEF Typing, PagesTyped
    <2> HIDE DEF answered
    <2> QED
      BY <1>1, <1>5, <2>1, PagesTypedNext DEF server
  <1> QED
    BY <1>1, <1>6, WhatIsHeld, PagingTyping DEF Typing

LEMMA AnsweredIs ==
    ASSUME PagesTyped, NEW answered \in pages, answered.at = "answered"
    PROVE  PageTyped(answered.page, recorded) /\ answered.late \in BOOLEAN
  BY DEF PagesTyped, Asked, Answered

LEMMA TakePageTyping ==
    ASSUME Typing, NEW answered \in pages, TakePage(answered)
    PROVE  Typing'
  <1> DEFINE held == Drain(store)
  <1>1. /\ answered.at = "answered" /\ store' = Prepend(held, answered.page) /\ pages' = pages \ {answered}
        /\ UNCHANGED <<server, pump, down, up, readers, follower, sent, left>>
    BY DEF TakePage
  <1>2. recorded \in Nat /\ HeldTyped(held, recorded) /\ TypedOf(held.items) \subseteq TypedOf(store.items)
    BY WhatIsHeld DEF Drained
  <1>3. PageTyped(answered.page, recorded)
    BY <1>1, AnsweredIs DEF Typing
  <1> HIDE DEF held
  <1>4. HeldTyped(store', recorded) /\ Prepended(store', held, answered.page)
    BY <1>1, <1>2, <1>3, PrependFacts
  <1>5. TypedOf(store'.items) \subseteq TypedOf(store.items)
    BY <1>2, <1>4 DEF Prepended
  <1>6. PagesTyped'
    BY <1>1, PagesTypedNext DEF Typing, PagesTyped, server
  <1> QED
    BY <1>1, <1>4, <1>5, <1>6, PagingTyping DEF Typing

LEMMA PageFailsTyping ==
    ASSUME Typing, NEW asked \in pages, PageFails(asked)
    PROVE  Typing'
  <1> DEFINE held == Drain(store)
  <1>1. /\ store' = [held EXCEPT !.loadingOlder = FALSE] /\ pages' = pages \ {asked}
        /\ UNCHANGED <<server, pump, down, up, readers, follower, sent, history>>
    BY DEF PageFails
  <1>2. recorded \in Nat /\ HeldTyped(held, recorded) /\ TypedOf(held.items) \subseteq TypedOf(store.items)
    BY WhatIsHeld DEF Drained
  <1> HIDE DEF held
  <1>3. HeldTyped(store', recorded) /\ store'.items = held.items
    BY <1>1, <1>2, FALSE \in BOOLEAN, LoadingTyped
  <1>4. PagesTyped'
    BY <1>1, PagesTypedNext DEF Typing, PagesTyped, server
  <1>5. left' \in [visits : Nat, troubles : Nat]
    BY Spent DEF Typing, PageFails
  <1> QED
    BY <1>1, <1>2, <1>3, <1>4, <1>5, PagingTyping

LEMMA NothingHeld ==
    ASSUME NEW last \in Nat
    PROVE  HeldTyped(Nothing, last) /\ Nothing.items = <<>>
  BY DEF HeldTyped, Nothing, Unique

LEMMA LetGoTyping ==
    ASSUME Typing, LetGo
    PROVE  Typing'
  <1>1. /\ store' = Nothing /\ pages' = {[page EXCEPT !.late = TRUE] : page \in pages}
        /\ UNCHANGED <<server, pump, down, up, readers, follower, sent, history>>
    BY DEF LetGo
  <1>2. HeldTyped(store', recorded) /\ TypedOf(store'.items) = {}
    BY <1>1, WhatIsHeld, NothingHeld, NoItems
  <1>3. \A page \in pages : [page EXCEPT !.late = TRUE] \in Asked \/ Answered([page EXCEPT !.late = TRUE])
    <2> TAKE page \in pages
    <2>1. CASE page \in Asked
      BY <2>1 DEF Asked
    <2>2. CASE Answered(page)
      <3>1. PICK answer : page \in [at : {"answered"}, page : {answer}, late : BOOLEAN] /\ PageTyped(answer, recorded)
        BY <2>2 DEF Answered
      <3>2. [page EXCEPT !.late = TRUE] \in [at : {"answered"}, page : {answer}, late : BOOLEAN]
        BY <3>1
      <3> QED
        BY <3>1, <3>2 DEF Answered
    <2> QED
      BY <2>1, <2>2 DEF Typing, PagesTyped
  <1>4. PagesTyped'
    BY <1>1, <1>3, PagesTypedNext DEF server
  <1>5. left' \in [visits : Nat, troubles : Nat]
    BY Spent DEF Typing, LetGo
  <1> QED
    BY <1>1, <1>2, <1>4, <1>5, PagingTyping

-----------------------------------------------------------------------------
(* Typing: somebody says something *)

LEMMA PersonTyping ==
    ASSUME Typing, Person
    PROVE  Typing'
  <1>1. PICK m \in Messages : Say(m) \/ SendNotes(m) \/ Accept(m) \/ NotesTaken(m)
    BY DEF Person
  <1>2. /\ UNCHANGED <<script, recorded, announced, pump, down, up, readers, follower, pages, left>>
        /\ ShownOnce /\ LogTyped /\ HeldTyped(store, recorded)
    BY <1>1 DEF Typing, Say, SendNotes, Accept, NotesTaken, server
  <1>3. PumpTyped' /\ FollowerTyped' /\ PagesTyped'
    BY <1>2, PumpStays, FollowerStays, PagesStay DEF Typing
  <1>4. LogTyped'
    BY <1>1, <1>2 DEF Say, SendNotes, Accept, NotesTaken, LogTyped, server
  <1>5. HeldTyped(store, recorded)' /\ ShownOnce'
    <2>1. CASE SendNotes(m) \/ Accept(m)
      <3>1. UNCHANGED store
        BY <2>1 DEF SendNotes, Accept
      <3>2. /\ sent' \in [Messages -> {"unsent", "posting", "noting", "noted", "posted"}]
            /\ \A k \in Messages : sent[k] \in {"posting", "posted"} => sent'[k] \in {"posting", "posted"}
        BY <1>2, <2>1 DEF ShownOnce, SendNotes, Accept
      <3>3. ShownOnce'
        BY <1>2, <3>1, <3>2 DEF ShownOnce, TypedOf
      <3> QED
        BY <1>2, <3>1, <3>3, StoreStays
    <2>2. CASE Say(m) \/ NotesTaken(m)
      <3>1. Echo(m) /\ sent[m] \in {"unsent", "noted"} /\ m \notin TypedOf(store.items)
        BY <1>2, <2>2 DEF Say, NotesTaken, ShownOnce
      <3>2. HeldTyped(store', recorded) /\ TypedOf(store'.items) \subseteq TypedOf(store.items) \cup {m}
        BY <3>1, EchoFacts
      <3>3. /\ sent' \in [Messages -> {"unsent", "posting", "noting", "noted", "posted"}]
            /\ sent'[m] \in {"posting", "posted"}
            /\ \A k \in Messages : sent[k] \in {"posting", "posted"} => sent'[k] \in {"posting", "posted"}
        BY <1>2, <2>2 DEF ShownOnce, Say, NotesTaken
      <3>4. ShownOnce'
        BY <1>2, <3>2, <3>3 DEF ShownOnce, TypedOf
      <3> QED
        BY <1>2, <3>2, <3>4, HeldNext
    <2> QED
      BY <1>1, <2>1, <2>2
  <1> QED
    BY <1>2, <1>3, <1>4, <1>5 DEF Typing

LEMMA InitTyping == Init => Typing
  <1> SUFFICES ASSUME Init
               PROVE  Typing
    OBVIOUS
  <1>1. /\ script \in Scripts /\ recorded = 0 /\ announced = 0 /\ typed = <<>>
        /\ pump = Off /\ down = <<>> /\ up = TRUE /\ store = Nothing /\ readers = 0
        /\ follower = NotFollowing /\ pages = {} /\ sent = [m \in Messages |-> "unsent"]
        /\ left = [visits |-> MaxVisits, troubles |-> MaxTroubles]
    BY DEF Init
  <1>2. LogTyped
    BY <1>1, ScriptsAssumption DEF LogTyped
  <1>3. PumpTyped
    BY <1>1, <1>2, OffTyped DEF PumpTyped
  <1>4. HeldTyped(store, recorded) /\ TypedOf(store.items) = {}
    BY <1>1, NothingHeld, NoItems
  <1>5. ShownOnce
    BY <1>1, <1>4 DEF ShownOnce
  <1>6. FollowerTyped /\ PagesTyped
    BY <1>1 DEF FollowerTyped, PagesTyped
  <1> QED
    BY <1>1, <1>2, <1>3, <1>4, <1>5, <1>6, BoundsAssumption DEF Typing

LEMMA StutterTyping ==
    ASSUME Typing, UNCHANGED vars
    PROVE  Typing'
  BY LogStays, PumpStays, StoreStays, FollowerStays, PagesStay, ShownStays DEF Typing, vars, server, client

LEMMA NextTyping ==
    ASSUME Typing, [Next]_vars
    PROVE  Typing'
  <1>1. CASE ControlPlane
    BY <1>1, RecordTyping, AnnounceTyping, PumpReadTyping, PumpTyping DEF ControlPlane
  <1>2. CASE Socket
    BY <1>2, SocketDropsTyping, SocketOpensTyping, ReceiveTyping DEF Socket
  <1>3. CASE Window
    BY <1>3, PaintTyping, MountTyping, UnmountTyping, AnswerSnapshotTyping, TakeSnapshotTyping,
       SnapshotFailsTyping, ScrollBackTyping, AnswerPageTyping, TakePageTyping, PageFailsTyping, LetGoTyping
       DEF Window
  <1>4. CASE Person
    BY <1>4, PersonTyping
  <1>5. CASE UNCHANGED vars
    BY <1>5, StutterTyping
  <1> QED
    BY <1>1, <1>2, <1>3, <1>4, <1>5 DEF Next

LEMMA TypingGives == Typing => TypeOK
  <1> SUFFICES ASSUME Typing
               PROVE  TypeOK
    OBVIOUS
  <1>1. /\ script \in Scripts /\ recorded \in 0..Len(script) /\ announced \in 0..recorded /\ typed \in Seq(Messages)
        /\ readers \in 0..Readers
    BY DEF Typing, LogTyped
  <1>2. pump.at \in {"off", "read", "live"} /\ pump.from \in 0..recorded /\ up \in BOOLEAN
    BY DEF Typing, PumpTyped, Pumps
  <1>3. follower.at \in {"no", "asked", "answered", "on"}
    BY DEF Typing, FollowerTyped, NotFollowing, Following
  <1>4. store.lastLine \in 0..recorded /\ store.firstLine \in 0..recorded /\ Unique(store.items)
    BY DEF Typing, HeldTyped
  <1>5. IsInjective([i \in 1..Len(store.items) |-> store.items[i].id])
    BY <1>4 DEF IsInjective, Unique
  <1> QED
    BY <1>1, <1>2, <1>3, <1>4, <1>5 DEF TypeOK

LEMMA SpecTyping == Spec => []Typing
  <1>1. Init => Typing
    BY InitTyping
  <1>2. Typing /\ [Next]_vars => Typing'
    BY NextTyping
  <1> QED
    BY <1>1, <1>2, PTL DEF Spec

\* Every variable holds what it is declared to, whatever the agent writes, and no
\* two items on the screen ever share the id they are kept by: not when a line is
\* said again, when a page overlaps what is drawn, or when a message typed here
\* comes back from the agent (apply, prepend and put of
\* desktop/src/api/conversation.ts).
THEOREM TypeCorrect == Spec => []TypeOK
  BY SpecTyping, TypingGives, PTL

-----------------------------------------------------------------------------
(* The frames still to be folded *)

LEMMA ComingFacts ==
    ASSUME NEW S, NEW w \in Seq(S), NEW d \in Seq(S), NEW todo \in Seq(S)
    PROVE  /\ (w \o d) \o todo \in Seq(S) /\ Len((w \o d) \o todo) = Len(w) + Len(d) + Len(todo)
           /\ \A j \in 1..Len(w) : ((w \o d) \o todo)[j] = w[j]
           /\ \A j \in 1..Len(d) : ((w \o d) \o todo)[Len(w) + j] = d[j]
           /\ \A j \in 1..Len(todo) : ((w \o d) \o todo)[Len(w) + Len(d) + j] = todo[j]
  <1>1. w \o d \in Seq(S) /\ Len(w \o d) = Len(w) + Len(d) /\ Len(w) \in Nat /\ Len(d) \in Nat /\ Len(todo) \in Nat
        /\ \A i \in 1..(Len(w) + Len(d)) : (w \o d)[i] = IF i <= Len(w) THEN w[i] ELSE d[i - Len(w)]
    BY ConcatProperties, LenProperties
  <1> DEFINE x == w \o d
  <1> HIDE DEF x
  <1>2. x \o todo \in Seq(S) /\ Len(x \o todo) = Len(x) + Len(todo)
        /\ \A i \in 1..(Len(x) + Len(todo)) : (x \o todo)[i] = IF i <= Len(x) THEN x[i] ELSE todo[i - Len(x)]
    BY <1>1, ConcatProperties DEF x
  <1> DEFINE c == x \o todo
  <1> HIDE DEF c
  <1>3. \A j \in 1..Len(w) : c[j] = w[j]
    BY <1>1, <1>2 DEF x, c
  <1>4. \A j \in 1..Len(d) : c[Len(w) + j] = d[j]
    BY <1>1, <1>2 DEF x, c
  <1>5. \A j \in 1..Len(todo) : c[Len(w) + Len(d) + j] = todo[j]
    BY <1>1, <1>2 DEF x, c
  <1> QED
    BY <1>1, <1>2, <1>3, <1>4, <1>5 DEF x, c

\* The first of a queue moves to the end of the one before it.
LEMMA Handed ==
    ASSUME NEW S, NEW s \in Seq(S), NEW t \in Seq(S), t # <<>>
    PROVE  Append(s, Head(t)) \o Tail(t) = s \o t
  <1>1. Head(t) \in S /\ Tail(t) \in Seq(S) /\ Len(Tail(t)) = Len(t) - 1 /\ Len(t) \in Nat /\ Len(t) >= 1 /\ Head(t) = t[1]
        /\ \A i \in 1..Len(Tail(t)) : Tail(t)[i] = t[i + 1]
    BY HeadTailProperties, EmptySeq
  <1> DEFINE a == Append(s, Head(t))
             b == Tail(t)
  <1>2. a \in Seq(S) /\ Len(a) = Len(s) + 1 /\ a[Len(s) + 1] = t[1] /\ \A i \in 1..Len(s) : a[i] = s[i]
    BY <1>1
  <1>3. Len(s) \in Nat
    OBVIOUS
  <1> HIDE DEF a
  <1>4. b \in Seq(S) /\ Len(b) = Len(t) - 1 /\ \A i \in 1..Len(b) : b[i] = t[i + 1]
    BY <1>1
  <1> HIDE DEF b
  <1>5. a \o b \in Seq(S) /\ Len(a \o b) = Len(a) + Len(b)
        /\ \A i \in 1..(Len(a) + Len(b)) : (a \o b)[i] = IF i <= Len(a) THEN a[i] ELSE b[i - Len(a)]
    BY <1>2, <1>4, ConcatProperties
  <1>6. s \o t \in Seq(S) /\ Len(s \o t) = Len(s) + Len(t)
        /\ \A i \in 1..(Len(s) + Len(t)) : (s \o t)[i] = IF i <= Len(s) THEN s[i] ELSE t[i - Len(s)]
    BY ConcatProperties
  <1>7. Len(a \o b) = Len(s \o t)
    BY <1>1, <1>2, <1>3, <1>4, <1>5, <1>6
  <1>8. \A i \in 1..Len(a \o b) : (a \o b)[i] = (s \o t)[i]
    <2> TAKE i \in 1..Len(a \o b)
    <2>4. i \in Nat /\ i \in 1..(Len(a) + Len(b)) /\ Len(a) = Len(s) + 1
      BY <1>2, <1>5
    <2>1. CASE i <= Len(s)
      BY <1>1, <1>2, <1>3, <1>4, <1>5, <1>6, <2>1
    <2>2. CASE i = Len(s) + 1
      BY <1>1, <1>2, <1>3, <1>4, <1>5, <1>6, <2>2
    <2>3. CASE i > Len(s) + 1
      <3>1. i - Len(a) \in 1..Len(b) /\ (i - Len(a)) + 1 = i - Len(s)
        BY <1>1, <1>2, <1>3, <1>4, <1>5, <2>3
      <3>2. (a \o b)[i] = b[i - Len(a)] /\ b[i - Len(a)] = t[(i - Len(a)) + 1]
        <4>1. ~(i <= Len(a))
          BY <1>3, <2>3, <2>4
        <4> QED
          BY <1>4, <1>5, <2>4, <3>1, <4>1
      <3>3. (s \o t)[i] = t[i - Len(s)]
        BY <1>1, <1>2, <1>3, <1>4, <1>5, <1>6, <2>3
      <3> QED
        BY <3>1, <3>2, <3>3
    <2>5. i <= Len(s) \/ i = Len(s) + 1 \/ i > Len(s) + 1
      BY <1>3, <2>4
    <2> QED
      BY <2>1, <2>2, <2>3, <2>5
  <1>9. a \o b = s \o t
    BY <1>5, <1>6, <1>7, <1>8, SeqEqual
  <1> QED
    BY <1>9 DEF a, b

LEMMA ToTheEnd ==
    ASSUME NEW S, NEW s \in Seq(S), NEW t \in Seq(S), NEW x \in S
    PROVE  s \o Append(t, x) = Append(s \o t, x)
  <1>1. Append(t, x) = t \o <<x>> /\ Append(s \o t, x) = (s \o t) \o <<x>> /\ <<x>> \in Seq(S)
    OBVIOUS
  <1>2. (s \o t) \o <<x>> = s \o (t \o <<x>>)
    BY <1>1, ConcatAssociative
  <1> QED
    BY <1>1, <1>2

\* Frames that were all to come still fit when some are gone from either end.
LEMMA FitsPart ==
    ASSUME NEW c, NEW held, Fits(c, 0, held), NEW e, NEW k \in Nat,
           \A j \in 1..Len(e) : k + j \in 1..Len(c) /\ e[j] = c[k + j]
    PROVE  Fits(e, 0, held)
  <1> SUFFICES ASSUME NEW j \in 1..Len(e), e[j].t = "line"
               PROVE  IF e[j].own
                      THEN /\ e[j].line >= held.lastLine
                           /\ \A i \in 1..(j - 1) : (i > 0 /\ e[i].t = "line") => e[i].line < e[j].line
                      ELSE e[j].line # 0 /\ Opens(e[j].line) => e[j].line \in LinesOf(held.items)
    BY DEF Fits
  <1>1. k + j \in 1..Len(c) /\ k + j > 0 /\ e[j] = c[k + j]
    OBVIOUS
  <1>2. IF c[k + j].own
        THEN /\ c[k + j].line >= held.lastLine
             /\ \A i \in 1..((k + j) - 1) : (i > 0 /\ c[i].t = "line") => c[i].line < c[k + j].line
        ELSE c[k + j].line # 0 /\ Opens(c[k + j].line) => c[k + j].line \in LinesOf(held.items)
    BY <1>1 DEF Fits
  <1>3. \A i \in 1..(j - 1) : k + i \in 1..((k + j) - 1) /\ k + i > 0 /\ e[i] = c[k + i]
    OBVIOUS
  <1> QED
    BY <1>1, <1>2, <1>3

\* Nothing but words.
LEMMA FitsQuiet ==
    ASSUME NEW c, NEW held, \A j \in 1..Len(c) : c[j].t # "line"
    PROVE  Fits(c, 0, held)
  BY DEF Fits

LEMMA FitsAppend ==
    ASSUME NEW S, NEW c \in Seq(S), NEW held, Fits(c, 0, held), NEW frame \in S,
           frame.t = "line" =>
             /\ frame.own /\ frame.line >= held.lastLine
             /\ \A i \in 1..Len(c) : c[i].t = "line" => c[i].line < frame.line
    PROVE  Fits(Append(c, frame), 0, held)
  <1> DEFINE e == Append(c, frame)
  <1>1. Len(c) \in Nat /\ Len(e) = Len(c) + 1 /\ e[Len(c) + 1] = frame /\ \A j \in 1..Len(c) : e[j] = c[j]
    OBVIOUS
  <1> HIDE DEF e
  <1> SUFFICES ASSUME NEW j \in 1..Len(e), e[j].t = "line"
               PROVE  IF e[j].own
                      THEN /\ e[j].line >= held.lastLine
                           /\ \A i \in 1..(j - 1) : (i > 0 /\ e[i].t = "line") => e[i].line < e[j].line
                      ELSE e[j].line # 0 /\ Opens(e[j].line) => e[j].line \in LinesOf(held.items)
    BY DEF Fits, e
  <1>2. CASE j = Len(c) + 1
    <2>1. \A i \in 1..(j - 1) : i \in 1..Len(c) /\ e[i] = c[i]
      BY <1>1, <1>2
    <2> QED
      BY <1>1, <1>2, <2>1
  <1>3. CASE j \in 1..Len(c)
    <2>1. j > 0 /\ e[j] = c[j] /\ \A i \in 1..(j - 1) : e[i] = c[i]
      BY <1>1, <1>3
    <2> QED
      BY <1>3, <2>1 DEF Fits
  <1> QED
    BY <1>1, <1>2, <1>3

\* More on the screen, and no line further than it was.
LEMMA StandsMore ==
    ASSUME NEW p, NEW d, NEW f, NEW held, Stands(p, d, f, held), NEW v, v.waiting = held.waiting,
           v.lastLine = held.lastLine, LinesOf(held.items) \subseteq LinesOf(v.items)
    PROVE  Stands(p, d, f, v)
  <1>1. Coming(p, d, v) = Coming(p, d, held)
    BY DEF Coming
  <1>2. \A c : Fits(c, 0, held) => Fits(c, 0, v)
    BY DEF Fits
  <1> QED
    BY <1>1, <1>2 DEF Stands

\* One queue behind another, and a third behind both.
LEMMA Queued ==
    ASSUME NEW S, NEW w \in Seq(S), NEW rest \in Seq(S)
    PROVE  /\ Len(w) \in Nat
           /\ \A j \in 1..Len(w) : j \in 1..Len(w \o rest) /\ (w \o rest)[j] = w[j]
           /\ \A j \in 1..Len(rest) : Len(w) + j \in 1..Len(w \o rest) /\ (w \o rest)[Len(w) + j] = rest[j]
           /\ \A j \in 1..Len(w \o rest) : j \in 1..Len(w) \/ j - Len(w) \in 1..Len(rest)
  <1> DEFINE c == w \o rest
  <1>1. Len(w) \in Nat /\ Len(rest) \in Nat /\ Len(c) = Len(w) + Len(rest)
        /\ \A i \in 1..(Len(w) + Len(rest)) : c[i] = IF i <= Len(w) THEN w[i] ELSE rest[i - Len(w)]
    BY ConcatProperties, LenProperties
  <1> HIDE DEF c
  <1>2. \A j \in 1..Len(w) : j \in 1..Len(c) /\ c[j] = w[j]
    BY <1>1
  <1>3. \A j \in 1..Len(rest) : Len(w) + j \in 1..Len(c) /\ c[Len(w) + j] = rest[j]
    BY <1>1
  <1>4. \A j \in 1..Len(c) : j \in 1..Len(w) \/ j - Len(w) \in 1..Len(rest)
    BY <1>1
  <1> QED
    BY <1>1, <1>2, <1>3, <1>4 DEF c

LEMMA Regrouped ==
    ASSUME NEW S, NEW w \in Seq(S), NEW d \in Seq(S), NEW todo \in Seq(S)
    PROVE  (w \o d) \o todo = w \o (d \o todo) /\ d \o todo \in Seq(S) /\ <<>> \o d = d
  BY ConcatAssociative, ConcatProperties, ConcatEmptySeq, SMTT(20)

Frames == Spoken(recorded) \cup Words

LEMMA Streams ==
    ASSUME Typing
    PROVE  /\ recorded \in Nat /\ store.waiting \in Seq(Frames) /\ down \in Seq(Frames)
           /\ pump \in Pumps /\ pump.todo \in Seq(Frames)
  <1>1. store.waiting \in Seq(Spoken(recorded)) /\ pump.todo \in Seq(Spoken(recorded))
    BY DEF Typing, HeldTyped, PumpTyped, Pumps
  <1>2. Spoken(recorded) \subseteq Frames
    BY DEF Frames
  <1>3. store.waiting \in Seq(Frames) /\ pump.todo \in Seq(Frames)
    BY <1>1, <1>2, Wider
  <1> QED
    BY <1>3, Recorded DEF Typing, PumpTyped, Frames

\* What waits is folded: nothing on the screen or on its way is disturbed.
LEMMA DrainStands ==
    ASSUME Typing, Followed, Ordered
    PROVE  /\ Stands(pump, down, follower, Drain(store)) /\ Drawing(Drain(store))
           /\ \A b : Edge(b, store.items) => Edge(b, Drain(store).items)
           /\ Drained(Drain(store), store)
  <1> DEFINE v == Drain(store)
             rest == down \o pump.todo
             coming == Coming(pump, down, store)
  <1>1. /\ recorded \in Nat /\ store.waiting \in Seq(Frames) /\ down \in Seq(Frames)
        /\ pump.todo \in Seq(Frames)
    BY Streams
  <1>2. Drained(v, store) /\ HeldTyped(store, recorded) /\ HeldTyped(v, recorded)
    BY WhatIsHeld
  <1>3. Stands(pump, down, follower, store) /\ Drawing(store)
    BY DEF Ordered
  <1>4. CASE store.waiting = <<>>
    <2>1. v = store
      BY <1>2, <1>4 DEF Drained
    <2> QED
      BY <1>2, <1>3, <2>1
  <1>5. CASE store.waiting # <<>>
    <2>1. follower = Following /\ pump.at # "read"
      BY <1>3, <1>5 DEF Followed, Stands
    <2>2. coming = store.waiting \o rest /\ rest \in Seq(Frames) /\ <<>> \o down = down
      <3>1. /\ (store.waiting \o down) \o pump.todo = store.waiting \o (down \o pump.todo)
            /\ down \o pump.todo \in Seq(Frames) /\ <<>> \o down = down
        <4> DEFINE todo == pump.todo
                   w == store.waiting
                   S == Frames
        <4>1. w \in Seq(S) /\ down \in Seq(S) /\ todo \in Seq(S)
          BY <1>1
        <4> HIDE DEF todo, w, S
        <4>2. (w \o down) \o todo = w \o (down \o todo) /\ down \o todo \in Seq(S) /\ <<>> \o down = down
          BY <4>1, Regrouped
        <4> QED
          BY <4>2 DEF todo, w, S
      <3> QED
        BY <3>1 DEF Coming
    <2>3. Fits(store.waiting \o rest, 0, store)
      BY <1>3, <2>1, <2>2 DEF Stands
    <2>4. DrainedInOrder(v, store, rest)
      BY <1>1, <1>2, <1>3, <2>2, <2>3, DrainOrder DEF Frames
    <2>5. Coming(pump, down, v) = rest
      <3>1. v.waiting = <<>>
        BY <1>2 DEF Drained
      <3> QED
        BY <2>2, <3>1 DEF Coming
    <2>6. /\ Len(store.waiting) \in Nat
          /\ \A j \in 1..Len(store.waiting) : j \in 1..Len(coming) /\ coming[j] = store.waiting[j]
          /\ \A j \in 1..Len(rest) : Len(store.waiting) + j \in 1..Len(coming)
                                     /\ coming[Len(store.waiting) + j] = rest[j]
      <3> HIDE DEF coming, rest
      <3> QED
        BY <1>1, <2>2, Queued
    <2>7. \A j \in 1..Len(store.waiting) : store.waiting[j].t = "line"
      <3>1. store.waiting \in Seq(Spoken(recorded))
        BY <1>2 DEF HeldTyped
      <3>2. \A j \in 1..Len(store.waiting) : store.waiting[j] \in Spoken(recorded)
        BY <3>1
      <3> QED
        BY <3>2 DEF Spoken
    <2> HIDE DEF coming, rest, v
    <2>8. ASSUME pump.at = "live"
          PROVE  /\ \A j \in 1..Len(rest) : rest[j].t = "line" => rest[j].line <= pump.replayed
                 /\ \A i \in 1..Len(pump.bus) : pump.bus[i] > pump.replayed => pump.bus[i] >= v.lastLine
      <3>1. /\ \A j \in 1..Len(coming) : coming[j].t = "line" => coming[j].line <= pump.replayed
            /\ \A i \in 1..Len(pump.bus) : pump.bus[i] > pump.replayed => pump.bus[i] >= store.lastLine
        BY <1>3, <2>8 DEF Stands, coming
      <3>2. \A j \in 1..Len(rest) : rest[j].t = "line" => rest[j].line <= pump.replayed
        BY <2>6, <3>1
      <3>3. CASE v.lastLine = store.lastLine
        BY <3>1, <3>2, <3>3
      <3>4. CASE v.lastLine # store.lastLine
        <4>1. PICK j \in 1..Len(store.waiting) : v.lastLine = store.waiting[j].line
          BY <2>4, <3>4 DEF DrainedInOrder
        <4>2. v.lastLine <= pump.replayed
          BY <2>6, <2>7, <3>1, <4>1
        <4>3. v.lastLine \in Nat /\ pump.replayed \in Nat /\ \A i \in 1..Len(pump.bus) : pump.bus[i] \in Nat
          <5>1. pump.bus \in Seq(1..announced) /\ pump.replayed \in 0..recorded
            BY Streams DEF Pumps
          <5>2. v.lastLine \in 0..recorded
            BY <1>2 DEF HeldTyped, v
          <5>3. announced \in Nat /\ \A i \in 1..Len(pump.bus) : pump.bus[i] \in 1..announced
            <6>1. announced \in Nat
              BY Recorded DEF Typing
            <6> QED
              BY <5>1, <6>1
          <5> QED
            BY <1>1, <5>1, <5>2, <5>3
        <4> QED
          BY <3>2, <4>2, <4>3
      <3> QED
        BY <3>3, <3>4
    <2>9. Stands(pump, down, follower, v)
      BY <2>1, <2>4, <2>5, <2>8 DEF Stands, DrainedInOrder
    <2> QED
      BY <1>2, <2>4, <2>9 DEF DrainedInOrder, v
  <1> QED
    BY <1>4, <1>5

-----------------------------------------------------------------------------
(* Order: what every action is shown to keep *)

LEMMA OrderNext ==
    ASSUME UNCHANGED script, Followed',
           Clean' => Stands(pump', down', follower', store') /\ Drawing(store') /\ Edges(store', pages')
    PROVE  Ordering'
  <1>1. Stands(pump', down', follower', store') => Stands(pump, down, follower, store)'
    BY DEF Stands, Fits, Opens
  <1>2. Drawing(store') => Drawing(store)'
    BY DEF Drawing, Opens
  <1>3. Edges(store', pages') => Edges(store, pages)'
    BY DEF Edges, Edge, Opens
  <1> QED
    BY <1>1, <1>2, <1>3 DEF Ordering, Ordered

\* A fault, once it has happened, has happened.
LEMMA StillClean ==
    ASSUME Ordering, fault \subseteq fault', Clean'
    PROVE  Followed /\ Ordered
  BY DEF Ordering, Clean

\* Nobody is followed by halves: whoever does not follow has nothing waiting, and
\* nobody sends for them.
LEMMA NotFollowed ==
    ASSUME Typing, Followed, follower # Following
    PROVE  /\ pump = Off /\ pump.at = "off" /\ store.waiting = <<>> /\ Drain(store) = store
           /\ ~up => down = <<>>
  <1>1. pump = Off /\ pump.at = "off" /\ store.waiting = <<>> /\ (~up => down = <<>>)
    BY DEF Followed
  <1> QED
    BY <1>1, WhatIsHeld DEF Drained

LEMMA FollowerIs ==
    /\ NotFollowing # Following /\ NotFollowing.at = "no" /\ Following.at = "on"
    /\ [at |-> "asked"] # Following /\ [at |-> "asked"].at = "asked"
  BY DEF NotFollowing, Following

\* Nobody follows, or nothing is on its way: there is nothing to fit.
LEMMA OffStands ==
    ASSUME NEW d, NEW f, NEW held, f # Following
    PROVE  Stands(Off, d, f, held)
  BY DEF Stands, Off

LEMMA WatchingStands ==
    ASSUME Typing, NEW d \in Seq(Frames), \A j \in 1..Len(d) : d[j].t # "line", NEW f,
           NEW held, HeldTyped(held, recorded), held.waiting = <<>>
    PROVE  /\ Stands(Watching(held.lastLine), d, f, held)
           /\ Watching(held.lastLine).at = "read"
  <1> DEFINE p == Watching(held.lastLine)
  <1>1. held.lastLine \in 0..recorded
    BY DEF HeldTyped
  <1>2. p.at = "read" /\ p.from = held.lastLine /\ p.todo = <<>> /\ p.bus = <<>>
    BY <1>1, WatchingTyped DEF Typing
  <1> HIDE DEF p
  <1>3. Coming(p, d, held) = d
    <2> DEFINE S == Frames
    <2> HIDE DEF S
    <2>1. d \in Seq(S)
      BY DEF S
    <2>2. <<>> \o d = d /\ d \o <<>> = d
      BY <2>1, ConcatEmptySeq
    <2> QED
      BY <1>2, <2>2 DEF Coming
  <1>4. Fits(d, 0, held)
    BY FitsQuiet
  <1>5. \A i \in 1..Len(p.bus) : p.bus[i] >= held.lastLine
    BY <1>2
  <1>6. Stands(p, d, f, held)
    BY <1>2, <1>3, <1>4, <1>5 DEF Stands
  <1> QED
    BY <1>2, <1>6 DEF p

\* Only words are on their way, if a subscription began without an overlap.
LEMMA NoOverlap ==
    ASSUME NEW coming, Clean', fault' = Overlap(coming)
    PROVE  /\ fault \subseteq fault' /\ \A i \in 1..Len(coming) : coming[i].t # "line"
  BY DEF Clean, Overlap

\* Somebody begins to follow what is held.
LEMMA ListenStands ==
    ASSUME Typing, Followed, follower # Following, NEW held, HeldTyped(held, recorded), held.waiting = <<>>,
           Listen(held), UNCHANGED down
    PROVE  /\ store' = held /\ follower' = Following /\ fault \subseteq fault'
           /\ up => pump' = Watching(held.lastLine) /\ pump'.at = "read"
           /\ ~up => pump' = Off /\ down = <<>>
           /\ Clean' => Stands(pump', down', follower', held)
  <1>1. Drain(held) = held
    <2>1. Drained(Drain(held), held)
      BY WhatIsHeld, DrainFacts
    <2> QED
      BY <2>1 DEF Drained
  <1>2. pump = Off /\ (~up => down = <<>>)
    BY NotFollowed
  <1>3. /\ store' = held /\ follower' = Following
        /\ pump' = (IF up THEN Watching(held.lastLine) ELSE Off)
        /\ fault' = IF up THEN Overlap(down) ELSE fault
    BY <1>1, <1>2 DEF Listen
  <1>4. fault \subseteq fault'
    BY <1>3 DEF Overlap
  <1>5. ASSUME Clean'
        PROVE  Stands(pump', down', follower', held)
    <2>1. CASE up
      <3>1. \A j \in 1..Len(down) : down[j].t # "line"
        BY <1>3, <1>5, <2>1, NoOverlap
      <3>2. down \in Seq(Frames)
        BY Streams
      <3> QED
        BY <1>3, <2>1, <3>1, <3>2, WatchingStands
    <2>2. CASE ~up
      <3>1. Coming(Off, <<>>, held) = <<>>
        BY DEF Coming, Off
      <3>2. Fits(<<>>, 0, held)
        BY FitsQuiet
      <3>3. Stands(Off, <<>>, Following, held)
        BY <3>1, <3>2 DEF Stands, Off
      <3> QED
        BY <1>2, <1>3, <2>2, <3>3
    <2> QED
      BY <2>1, <2>2
  <1>6. up => pump'.at = "read"
    <2>1. held.lastLine \in 0..recorded
      BY DEF HeldTyped
    <2>2. Watching(held.lastLine).at = "read"
      BY <2>1, WatchingTyped DEF Typing
    <2> QED
      BY <1>3, <2>2
  <1> QED
    BY <1>2, <1>3, <1>4, <1>5, <1>6

\* An edge of what was drawn is one of what is drawn now.
LEMMA EdgesStay ==
    ASSUME NEW held, NEW v, NEW reads, NEW fewer, Edges(held, reads), fewer \subseteq reads,
           v.hasMore => held.hasMore, v.firstLine = held.firstLine,
           \A b : Edge(b, held.items) => Edge(b, v.items)
    PROVE  Edges(v, fewer)
  BY DEF Edges

-----------------------------------------------------------------------------
(* Order: the control plane *)

LEMMA RecordOrder ==
    ASSUME Typing, Ordering, Record \/ UNCHANGED vars
    PROVE  Ordering'
  <1>1. UNCHANGED <<script, pump, down, up, store, readers, follower, pages, fault>>
    BY DEF Record, vars, server, client, history
  <1>2. Followed'
    BY <1>1 DEF Ordering, Followed
  <1>3. Clean' => Stands(pump', down', follower', store') /\ Drawing(store') /\ Edges(store', pages')
    BY <1>1, StillClean DEF Ordered
  <1> QED
    BY <1>1, <1>2, <1>3, OrderNext

LEMMA AnnounceOrder ==
    ASSUME Typing, Ordering, Announce
    PROVE  Ordering'
  <1>1. /\ UNCHANGED <<script, down, up, store, readers, follower, pages>>
        /\ fault \subseteq fault' /\ announced' = announced + 1
    BY DEF Announce, client
  <1>2. announced \in Nat /\ recorded = announced + 1 /\ recorded \in Nat
    BY Recorded DEF Typing, LogTyped, Announce
  <1>3. CASE UNCHANGED pump
    <2>1. Followed'
      BY <1>1, <1>3 DEF Ordering, Followed
    <2> QED
      BY <1>1, <1>3, <2>1, StillClean, OrderNext DEF Ordered
  <1>4. CASE pump' # pump
    <2> DEFINE kept == IF Len(pump.bus) = BusDepth THEN Tail(pump.bus) ELSE pump.bus
               bus == Append(kept, announced')
    <2>1. pump.at # "off" /\ pump' = [pump EXCEPT !.bus = bus]
      BY <1>4 DEF Announce
    <2>2. pump.bus \in Seq(1..announced) /\ pump \in Pumps
      BY Streams DEF Pumps
    <2>3. BusDepth \in Nat \ {0} /\ Len(pump.bus) \in Nat
      BY <2>2, BoundsAssumption
    <2>4. /\ kept \in Seq(1..announced)
          /\ \A i \in 1..Len(kept) : \E k \in 1..Len(pump.bus) : kept[i] = pump.bus[k]
      <3>1. CASE Len(pump.bus) = BusDepth
        <4>1. pump.bus # <<>>
          BY <2>3, <3>1
        <4> DEFINE S == 1..announced
                   t == Tail(pump.bus)
        <4>2. pump.bus \in Seq(S)
          BY <2>2
        <4> HIDE DEF S
        <4>3. t \in Seq(S) /\ Len(t) = Len(pump.bus) - 1 /\ \A i \in 1..Len(t) : t[i] = pump.bus[i + 1]
          BY <4>1, <4>2, HeadTailProperties
        <4>4. kept = t
          BY <3>1
        <4> HIDE DEF t, kept
        <4>5. \A i \in 1..Len(t) : i + 1 \in 1..Len(pump.bus) /\ t[i] = pump.bus[i + 1]
          BY <2>3, <4>3
        <4> QED
          BY <4>3, <4>4, <4>5 DEF S
      <3>2. CASE Len(pump.bus) # BusDepth
        BY <2>2, <3>2
      <3> QED
        BY <3>1, <3>2
    <2> HIDE DEF kept
    <2>5. Len(bus) = Len(kept) + 1 /\ bus[Len(kept) + 1] = recorded /\ Len(kept) \in Nat
          /\ \A i \in 1..Len(kept) : bus[i] = kept[i]
      BY <1>1, <1>2, <2>4
    <2> HIDE DEF bus
    <2>6. \A i \in 1..Len(bus) : bus[i] = recorded \/ \E k \in 1..Len(pump.bus) : bus[i] = pump.bus[k]
      <3> TAKE i \in 1..Len(bus)
      <3>1. CASE i = Len(kept) + 1
        BY <2>5, <3>1
      <3>2. CASE i \in 1..Len(kept)
        BY <2>4, <2>5, <3>2
      <3> QED
        BY <2>5, <3>1, <3>2
    <2>7. /\ pump'.at = pump.at /\ pump'.from = pump.from /\ pump'.replayed = pump.replayed
          /\ pump'.todo = pump.todo /\ pump'.bus = bus
      BY <2>1, <2>2 DEF Pumps
    <2>8. Followed'
      BY <1>1, <2>1, <2>7 DEF Ordering, Followed
    <2>9. store.lastLine <= recorded /\ store.lastLine \in Nat
      BY <1>2 DEF Typing, HeldTyped
    <2>10. Coming(pump', down, store) = Coming(pump, down, store)
      BY <2>7 DEF Coming
    <2>11. ASSUME Stands(pump, down, follower, store)
           PROVE  Stands(pump', down, follower, store)
      <3>1. follower = Following => Fits(Coming(pump', down, store), 0, store)
        BY <2>10, <2>11 DEF Stands
      <3>2. ASSUME pump.at = "read"
            PROVE  /\ store.waiting = <<>> /\ pump.todo = <<>> /\ pump.from = store.lastLine
                   /\ \A j \in 1..Len(down) : down[j].t # "line"
                   /\ \A i \in 1..Len(bus) : bus[i] >= store.lastLine
        <4>1. \A i \in 1..Len(pump.bus) : pump.bus[i] >= store.lastLine
          BY <2>11, <3>2 DEF Stands
        <4>2. \A i \in 1..Len(bus) : bus[i] >= store.lastLine
          BY <1>2, <2>6, <2>9, <4>1
        <4> QED
          BY <2>11, <3>2, <4>2 DEF Stands
      <3>3. ASSUME pump.at = "live"
            PROVE  \A i \in 1..Len(bus) : bus[i] > pump.replayed => bus[i] >= store.lastLine
        <4>1. \A i \in 1..Len(pump.bus) : pump.bus[i] > pump.replayed => pump.bus[i] >= store.lastLine
          BY <2>11, <3>3 DEF Stands
        <4> QED
          BY <1>2, <2>6, <2>9, <4>1
      <3>4. pump.at = "live" => \A j \in 1..Len(Coming(pump, down, store)) :
              Coming(pump, down, store)[j].t = "line" => Coming(pump, down, store)[j].line <= pump.replayed
        BY <2>11 DEF Stands
      <3> QED
        BY <2>7, <2>10, <3>1, <3>2, <3>3, <3>4 DEF Stands
    <2> QED
      BY <1>1, <2>8, <2>11, StillClean, OrderNext DEF Ordered
  <1> QED
    BY <1>3, <1>4

LEMMA UnwatchOrder ==
    ASSUME Typing, Ordering, Unwatch
    PROVE  Ordering'
  <1>1. UNCHANGED <<script, down, up, store, readers, follower, pages, fault>>
        /\ pump' = [pump EXCEPT !.closed = TRUE] /\ pump.at # "off"
    BY DEF Unwatch, server, client, history
  <1>2. pump \in Pumps
    BY Streams
  <1>3. /\ pump'.at = pump.at /\ pump'.from = pump.from /\ pump'.replayed = pump.replayed
        /\ pump'.todo = pump.todo /\ pump'.bus = pump.bus
    BY <1>1, <1>2 DEF Pumps
  <1>4. Followed'
    BY <1>1, <1>3 DEF Ordering, Followed
  <1>5. Stands(pump, down, follower, store) => Stands(pump', down, follower, store)
    BY <1>3 DEF Stands, Coming
  <1> QED
    BY <1>1, <1>4, <1>5, StillClean, OrderNext DEF Ordered

\* The log has been read: what was found there follows what is drawn.
LEMMA ReadStands ==
    ASSUME Typing, Stands(pump, down, follower, store), pump.at = "read",
           NEW todo \in Seq(Spoken(recorded)), NEW p, p.at = "live", p.todo = todo, p.bus = pump.bus,
           \A j \in 1..Len(todo) : todo[j].line <= p.replayed,
           \A j \in 1..Len(todo) :
              IF todo[j].own
              THEN /\ todo[j].line >= store.lastLine
                   /\ \A i \in 1..(j - 1) : todo[i].line < todo[j].line
              ELSE todo[j].line # 0 /\ Opens(todo[j].line) => todo[j].line \in LinesOf(store.items)
    PROVE  Stands(p, down, follower, store)
  <1> DEFINE c == down \o todo
  <1>1. /\ store.waiting = <<>>
        /\ \A j \in 1..Len(down) : down[j].t # "line"
        /\ \A i \in 1..Len(pump.bus) : pump.bus[i] >= store.lastLine
    BY DEF Stands
  <1>2. Coming(p, down, store) = c
    <2> DEFINE S == Frames
    <2> HIDE DEF S
    <2>1. down \in Seq(S)
      BY Streams DEF S
    <2>2. <<>> \o down = down
      BY <2>1, ConcatEmptySeq
    <2> QED
      BY <1>1, <2>2 DEF Coming
  <1>3. /\ Len(down) \in Nat
        /\ \A j \in 1..Len(down) : c[j] = down[j]
        /\ \A j \in 1..Len(todo) : c[Len(down) + j] = todo[j]
        /\ \A j \in 1..Len(c) : j \in 1..Len(down) \/ j - Len(down) \in 1..Len(todo)
    <2> DEFINE S == Frames
    <2>1. Spoken(recorded) \subseteq S /\ down \in Seq(S)
      BY Streams DEF Frames
    <2> HIDE DEF S
    <2>2. todo \in Seq(S)
      BY <2>1, Wider
    <2>3. /\ Len(down) \in Nat
          /\ \A j \in 1..Len(down) : j \in 1..Len(down \o todo) /\ (down \o todo)[j] = down[j]
          /\ \A j \in 1..Len(todo) : Len(down) + j \in 1..Len(down \o todo) /\ (down \o todo)[Len(down) + j] = todo[j]
          /\ \A j \in 1..Len(down \o todo) : j \in 1..Len(down) \/ j - Len(down) \in 1..Len(todo)
      BY <2>1, <2>2, Queued
    <2> QED
      BY <2>3
  <1> HIDE DEF c
  <1>4. \A j \in 1..Len(c) : c[j].t = "line" =>
           j - Len(down) \in 1..Len(todo) /\ c[j] = todo[j - Len(down)]
    <2> SUFFICES ASSUME NEW j \in 1..Len(c), c[j].t = "line"
                 PROVE  j - Len(down) \in 1..Len(todo) /\ c[j] = todo[j - Len(down)]
      OBVIOUS
    <2>1. j - Len(down) \in 1..Len(todo)
      BY <1>1, <1>3
    <2>2. Len(down) + (j - Len(down)) = j
      BY <1>3
    <2> QED
      BY <1>3, <2>1, <2>2
  <1>5. Fits(c, 0, store)
    <2> SUFFICES ASSUME NEW j \in 1..Len(c), c[j].t = "line"
                 PROVE  IF c[j].own
                        THEN /\ c[j].line >= store.lastLine
                             /\ \A i \in 1..(j - 1) : (i > 0 /\ c[i].t = "line") => c[i].line < c[j].line
                        ELSE c[j].line # 0 /\ Opens(c[j].line) => c[j].line \in LinesOf(store.items)
      BY DEF Fits
    <2> DEFINE k == j - Len(down)
    <2>1. k \in 1..Len(todo) /\ c[j] = todo[k]
      BY <1>4
    <2>2. \A i \in 1..(j - 1) : i \in 1..Len(c)
      OBVIOUS
    <2>3. \A i \in 1..(j - 1) : c[i].t = "line" => i - Len(down) \in 1..(k - 1) /\ c[i] = todo[i - Len(down)]
      BY <1>3, <1>4, <2>1, <2>2, SMTT(20)
    <2> HIDE DEF k
    <2> QED
      BY <2>1, <2>3
  <1>6. \A j \in 1..Len(c) : c[j].t = "line" => c[j].line <= p.replayed
    BY <1>4
  <1> QED
    BY <1>1, <1>2, <1>5, <1>6 DEF Stands

LEMMA PumpReadOrder ==
    ASSUME Typing, Ordering, PumpRead
    PROVE  Ordering'
  <1> DEFINE todo == pump'.todo
  <1>1. UNCHANGED <<script, recorded, down, up, store, readers, follower, pages, fault>> /\ pump.at = "read"
    BY DEF PumpRead, client, history
  <1>2. /\ recorded \in Nat /\ recorded \in 0..recorded /\ LogTyped /\ PumpTyped /\ HeldTyped(store, recorded)
        /\ pump \in Pumps
    BY Streams DEF Typing
  <1>3. Backlog(todo, pump.from) /\ pump' = [pump EXCEPT !.at = "live", !.replayed = recorded, !.todo = todo]
    BY <1>2, BacklogFacts
  <1>4. todo \in Seq(Spoken(recorded))
    BY <1>3 DEF Backlog
  <1> HIDE DEF todo
  <1>5. /\ pump'.at = "live" /\ pump'.bus = pump.bus /\ pump'.replayed = recorded /\ pump'.todo = todo
    BY <1>2, <1>3, <1>4 DEF Pumps
  <1>6. Followed'
    BY <1>1, <1>5 DEF Ordering, Followed
  <1>7. \A j \in 1..Len(todo) : todo[j].line \in 0..recorded /\ todo[j].own \in BOOLEAN
    <2>1. \A j \in 1..Len(todo) : todo[j] \in Spoken(recorded)
      BY <1>4
    <2> QED
      BY <2>1 DEF Spoken
  <1>8. ASSUME Ordered
        PROVE  Stands(pump', down, follower, store)
    <2>1. Stands(pump, down, follower, store) /\ Drawing(store) /\ pump.from = store.lastLine
      BY <1>1, <1>8 DEF Ordered, Stands
    <2>2. store.lastLine \in 0..recorded
      BY <1>2 DEF HeldTyped
    <2>3. ASSUME NEW j \in 1..Len(todo), todo[j].own
          PROVE  /\ todo[j].line >= store.lastLine
                 /\ \A i \in 1..(j - 1) : todo[i].line < todo[j].line
      BY <1>2, <1>3, <1>7, <2>1, <2>2, <2>3 DEF Backlog
    <2>4. ASSUME NEW j \in 1..Len(todo), ~todo[j].own, Opens(todo[j].line), todo[j].line # 0
          PROVE  todo[j].line \in LinesOf(store.items)
      <3>1. todo[j].line = recorded /\ (recorded = store.lastLine \/ ~Draws(recorded))
        BY <1>3, <2>1, <2>4 DEF Backlog
      <3>2. recorded = store.lastLine
        BY <2>4, <3>1, OpensDraws
      <3> QED
        BY <2>1, <2>4, <3>1, <3>2 DEF Drawing
    <2>5. \A j \in 1..Len(todo) : todo[j].line <= pump'.replayed
      BY <1>2, <1>5, <1>7
    <2> DEFINE p == pump'
    <2>6. p.at = "live" /\ p.bus = pump.bus /\ p.todo = todo /\ \A j \in 1..Len(todo) : todo[j].line <= p.replayed
      BY <1>5, <2>5
    <2> HIDE DEF p
    <2>7. Stands(p, down, follower, store)
      BY <1>1, <1>4, <2>1, <2>3, <2>4, <2>6, ReadStands
    <2> QED
      BY <2>7 DEF p
  <1> QED
    BY <1>1, <1>6, <1>8, StillClean, OrderNext DEF Ordered

LEMMA PumpReadFailsOrder ==
    ASSUME Typing, Ordering, PumpReadFails
    PROVE  Ordering'
  <1> DEFINE todo == IF typed = <<>> THEN <<>> ELSE <<Frame(0, FALSE, typed)>>
  <1>1. /\ UNCHANGED <<script, recorded, down, up, store, readers, follower, pages>>
        /\ fault \subseteq fault' /\ (Clean' => Clean)
        /\ pump.at = "read" /\ pump' = [pump EXCEPT !.at = "live", !.todo = todo]
    BY DEF PumpReadFails, server, client, Clean
  <1>2. recorded \in Nat /\ LogTyped /\ PumpTyped /\ pump \in Pumps
    BY Streams DEF Typing
  <1>3. pump' \in Pumps /\ pump'.todo = todo
    BY <1>2, PumpReadFailsTyped
  <1>4. \A j \in 1..Len(todo) : todo[j].line = 0 /\ ~todo[j].own
    BY DEF Frame
  <1> HIDE DEF todo
  <1>5. /\ pump'.at = "live" /\ pump'.bus = pump.bus /\ todo \in Seq(Spoken(recorded)) /\ pump'.replayed \in Nat
    <2>1. todo \in Seq(Spoken(recorded))
      BY <1>1, <1>3 DEF Pumps
    <2>2. pump' \in Pumps /\ pump'.at = "live" /\ pump'.bus = pump.bus /\ pump'.replayed = pump.replayed
      BY <1>1, <1>2, <2>1 DEF Pumps
    <2>3. pump.replayed \in Nat
      BY <1>2 DEF Pumps
    <2> QED
      BY <2>1, <2>2, <2>3
  <1>6. Followed'
    BY <1>1, <1>5 DEF Ordering, Followed
  <1>7. ASSUME Ordered
        PROVE  Stands(pump', down, follower, store)
    <2> DEFINE p == pump'
    <2>1. /\ p.at = "live" /\ p.bus = pump.bus /\ p.todo = todo
          /\ \A j \in 1..Len(todo) : todo[j].line <= p.replayed
      BY <1>3, <1>4, <1>5
    <2> HIDE DEF p
    <2>2. Stands(pump, down, follower, store)
      BY <1>7 DEF Ordered
    <2>3. Stands(p, down, follower, store)
      BY <1>1, <1>4, <1>5, <2>1, <2>2, ReadStands
    <2> QED
      BY <2>3 DEF p
  <1> QED
    BY <1>1, <1>6, <1>7, StillClean, OrderNext DEF Ordered

LEMMA PumpRefusedOrder ==
    ASSUME Typing, Ordering, PumpRefused
    PROVE  Ordering'
  <1> DEFINE frame == [t |-> "error"]
             d == Append(down, frame)
  <1>1. /\ UNCHANGED <<script, up, store, readers, follower, pages, fault>>
        /\ pump.at = "read" /\ pump' = Off /\ down' = d
    BY DEF PumpRefused, server, client, history
  <1>2. down \in Seq(Frames) /\ frame \in Frames /\ frame.t # "line"
    BY Streams DEF Frames, Words
  <1> HIDE DEF frame
  <1>3. d \in Seq(Frames) /\ Len(d) = Len(down) + 1 /\ d[Len(down) + 1] = frame /\ \A j \in 1..Len(down) : d[j] = down[j]
    BY <1>2
  <1> HIDE DEF d
  <1>4. Followed'
    BY <1>1 DEF Ordering, Followed, Off
  <1>5. ASSUME Ordered
        PROVE  Stands(Off, d, follower, store)
    <2>1. store.waiting = <<>> /\ \A j \in 1..Len(down) : down[j].t # "line"
      BY <1>1, <1>5 DEF Ordered, Stands
    <2>2. \A j \in 1..Len(d) : d[j].t # "line"
      <3>1. Len(down) \in Nat
        BY <1>2
      <3>2. \A j \in 1..Len(d) : j = Len(down) + 1 \/ j \in 1..Len(down)
        BY <1>3, <3>1
      <3> QED
        BY <1>2, <1>3, <2>1, <3>2
    <2>3. Coming(Off, d, store) = d
      <3> DEFINE S == Frames
      <3> HIDE DEF S
      <3>1. d \in Seq(S)
        BY <1>3 DEF S
      <3>2. <<>> \o d = d /\ d \o <<>> = d
        BY <3>1, ConcatEmptySeq
      <3> QED
        BY <2>1, <3>2 DEF Coming, Off
    <2>4. Fits(d, 0, store)
      BY <2>2, FitsQuiet
    <2> QED
      BY <2>3, <2>4 DEF Stands, Off
  <1> QED
    BY <1>1, <1>4, <1>5, StillClean, OrderNext DEF Ordered

LEMMA PumpSendOrder ==
    ASSUME Typing, Ordering, PumpSend
    PROVE  Ordering'
  <1> DEFINE todo == Tail(pump.todo)
             d == Append(down, Head(pump.todo))
  <1>1. /\ UNCHANGED <<script, up, store, readers, follower, pages, fault>>
        /\ pump.todo # <<>> /\ pump' = [pump EXCEPT !.todo = todo] /\ down' = d
    BY DEF PumpSend, server, client, history
  <1>2. pump \in Pumps
    BY Streams
  <1>3. pump'.at = pump.at /\ pump'.from = pump.from /\ pump'.replayed = pump.replayed /\ pump'.bus = pump.bus
        /\ pump'.todo = todo
    <2> HIDE DEF todo
    <2> QED
      BY <1>1, <1>2 DEF Pumps
  <1>4. pump.at # "off"
    BY <1>1 DEF Ordering, Followed, Off
  <1>5. Followed'
    BY <1>1, <1>3, <1>4 DEF Ordering, Followed
  <1>6. Coming(pump', d, store) = Coming(pump, down, store)
    <2> DEFINE S == Frames
               w == store.waiting
               r == pump.todo
    <2>1. w \in Seq(S) /\ down \in Seq(S) /\ r \in Seq(S) /\ r # <<>>
      BY <1>1, Streams
    <2> HIDE DEF S, w, r
    <2>2. w \o down \in Seq(S) /\ Head(r) \in S
      BY <2>1, ConcatProperties, HeadTailProperties
    <2>3. w \o Append(down, Head(r)) = Append(w \o down, Head(r))
      BY <2>1, <2>2, ToTheEnd
    <2>4. Append(w \o down, Head(r)) \o Tail(r) = (w \o down) \o r
      BY <2>1, <2>2, Handed
    <2> QED
      BY <1>3, <2>3, <2>4 DEF Coming, w, r
  <1>7. ASSUME Ordered
        PROVE  Stands(pump', d, follower, store)
    <2>1. Stands(pump, down, follower, store) /\ pump.at # "read"
      BY <1>1, <1>7 DEF Ordered, Stands
    <2> HIDE DEF d
    <2> QED
      BY <1>3, <1>6, <2>1 DEF Stands
  <1> QED
    BY <1>1, <1>5, <1>7, StillClean, OrderNext DEF Ordered

LEMMA PumpLiveOrder ==
    ASSUME Typing, Ordering, PumpLive
    PROVE  Ordering'
  <1> DEFINE n == Head(pump.bus)
             bus == Tail(pump.bus)
             frame == Frame(n, TRUE, <<>>)
             sends == n > pump.replayed /\ Draws(n)
  <1>1. /\ UNCHANGED <<script, up, store, readers, follower, pages, fault>>
        /\ pump.at = "live" /\ pump.todo = <<>> /\ pump.bus # <<>>
        /\ down' = IF sends THEN Append(down, frame) ELSE down
    BY DEF PumpLive, server, client, history
  <1>2. /\ n = pump.bus[1] /\ n \in 1..announced
        /\ pump' = [pump EXCEPT !.bus = bus, !.replayed = pump'.replayed]
        /\ pump'.replayed = IF n > pump.replayed THEN n ELSE pump.replayed
        /\ frame \in Spoken(recorded) /\ pump' \in Pumps
    BY PumpLiveTyped DEF Typing
  <1>3. /\ pump \in Pumps /\ announced \in Nat /\ pump.replayed \in Nat /\ pump.bus \in Seq(1..announced)
        /\ down \in Seq(Frames) /\ store.waiting \in Seq(Frames) /\ recorded \in Nat /\ frame \in Frames
    <2> HIDE DEF frame
    <2>1. frame \in Frames
      BY <1>2 DEF Frames
    <2>2. pump \in Pumps /\ down \in Seq(Frames) /\ store.waiting \in Seq(Frames) /\ recorded \in Nat
      BY Streams
    <2>3. announced \in Nat
      BY Recorded DEF Typing
    <2> QED
      BY <2>1, <2>2, <2>3 DEF Pumps
  <1>4. /\ Len(bus) = Len(pump.bus) - 1 /\ Len(pump.bus) \in Nat /\ Len(pump.bus) >= 1
        /\ \A i \in 1..Len(bus) : bus[i] = pump.bus[i + 1] /\ i + 1 \in 1..Len(pump.bus) /\ bus[i] \in 1..announced
        /\ \A i \in 1..Len(pump.bus) : pump.bus[i] \in Nat
    <2> DEFINE S == 1..announced
    <2>1. pump.bus \in Seq(S) /\ S \subseteq Nat
      BY <1>3
    <2> HIDE DEF S
    <2>2. /\ Len(bus) = Len(pump.bus) - 1 /\ Len(pump.bus) \in Nat /\ Len(pump.bus) >= 1 /\ bus \in Seq(S)
          /\ \A i \in 1..Len(bus) : bus[i] = pump.bus[i + 1]
      BY <1>1, <2>1, HeadTailProperties, EmptySeq
    <2> HIDE DEF bus
    <2>3. \A i \in 1..Len(bus) : i + 1 \in 1..Len(pump.bus) /\ bus[i] \in S
      BY <2>2
    <2>4. \A i \in 1..Len(pump.bus) : pump.bus[i] \in Nat
      <3>1. \A i \in 1..Len(pump.bus) : pump.bus[i] \in S
        BY <2>1, ElementOfSeq
      <3> QED
        BY <2>1, <3>1
    <2> QED
      BY <2>2, <2>3, <2>4 DEF S
  <1>5. frame.t = "line" /\ frame.own /\ frame.line = n
    BY DEF Frame
  <1>6. pump'.at = pump.at /\ pump'.from = pump.from /\ pump'.todo = <<>> /\ pump'.bus = bus
    <2> HIDE DEF bus, n, frame
    <2> DEFINE seen == pump'.replayed
    <2>1. pump' = [pump EXCEPT !.bus = bus, !.replayed = seen]
      BY <1>2
    <2> HIDE DEF seen
    <2> QED
      BY <1>1, <1>3, <2>1 DEF Pumps
  <1> HIDE DEF frame, bus, n
  <1>7. Followed'
    BY <1>1, <1>6 DEF Ordering, Followed
  <1> DEFINE c == Coming(pump, down, store)
             seen == pump'.replayed
             d == IF sends THEN Append(down, frame) ELSE down
             e == Coming(pump', d, store)
  <1>8. /\ c \in Seq(Frames) /\ e = IF sends THEN Append(c, frame) ELSE c
    <2> DEFINE S == Frames
               w == store.waiting
    <2>1. w \in Seq(S) /\ down \in Seq(S) /\ frame \in S
      BY <1>3
    <2> HIDE DEF S, w
    <2>2. w \o down \in Seq(S) /\ (w \o down) \o <<>> = w \o down
      BY <2>1, ConcatProperties, ConcatEmptySeq
    <2>3. w \o Append(down, frame) = Append(w \o down, frame)
      BY <2>1, ToTheEnd
    <2>4. Append(w \o down, frame) \o <<>> = Append(w \o down, frame)
      <3> DEFINE x == w \o down
      <3>1. x \in Seq(S)
        BY <2>2
      <3> HIDE DEF x
      <3>2. Append(x, frame) \in Seq(S)
        BY <2>1, <3>1
      <3>3. Append(x, frame) \o <<>> = Append(x, frame)
        BY <3>2, ConcatEmptySeq
      <3> QED
        BY <3>3 DEF x
    <2>5. c = w \o down
      BY <1>1, <2>2 DEF Coming, w
    <2>6. e = IF sends THEN Append(w \o down, frame) ELSE w \o down
      <3> HIDE DEF sends
      <3>1. CASE sends
        BY <1>6, <2>3, <2>4, <3>1 DEF Coming, w
      <3>2. CASE ~sends
        BY <1>6, <2>2, <3>2 DEF Coming, w
      <3> QED
        BY <3>1, <3>2
    <2> QED
      BY <2>2, <2>5, <2>6 DEF S
  <1>9. seen \in Nat /\ seen >= pump.replayed /\ seen >= n /\ n \in Nat
    BY <1>2, <1>3
  <1> HIDE DEF e, d, seen
  <1>10. ASSUME Ordered
         PROVE  Stands(pump', d, follower, store)
    <2>1. /\ Stands(pump, down, follower, store)
          /\ follower = Following => Fits(c, 0, store)
          /\ \A j \in 1..Len(c) : c[j].t = "line" => c[j].line <= pump.replayed
          /\ \A i \in 1..Len(pump.bus) : pump.bus[i] > pump.replayed => pump.bus[i] >= store.lastLine
      BY <1>1, <1>10 DEF Ordered, Stands
    <2> HIDE DEF c
    <2>2. \A i \in 1..Len(bus) : bus[i] > seen => bus[i] >= store.lastLine
      BY <1>3, <1>4, <1>9, <2>1
    <2>3. ASSUME sends
          PROVE  /\ follower = Following => Fits(e, 0, store)
                 /\ \A j \in 1..Len(e) : e[j].t = "line" => e[j].line <= seen
      <3>1. n >= store.lastLine
        <4>1. 1 \in 1..Len(pump.bus) /\ pump.bus[1] = n
          BY <1>2, <1>4
        <4> QED
          BY <2>1, <2>3, <4>1
      <3>2. \A j \in 1..Len(c) : c[j].t = "line" => c[j].line < n /\ c[j].line <= seen /\ c[j].line \in Nat
        <4>1. \A j \in 1..Len(c) : c[j].t = "line" => c[j].line \in Nat
          <5>1. \A j \in 1..Len(c) : c[j] \in Frames
            BY <1>8
          <5> QED
            BY <1>3, <5>1 DEF Frames, Spoken, Words
        <4> QED
          BY <1>3, <1>9, <2>1, <2>3, <4>1
      <3>3. e = Append(c, frame)
        BY <1>8, <2>3
      <3> DEFINE S == Frames
      <3>4. c \in Seq(S) /\ frame \in S
        BY <1>3, <1>8
      <3> HIDE DEF S
      <3>5. follower = Following => Fits(e, 0, store)
        BY <1>5, <2>1, <3>1, <3>2, <3>3, <3>4, FitsAppend
      <3>6. \A j \in 1..Len(e) : e[j] = frame \/ \E k \in 1..Len(c) : e[j] = c[k]
        <4>1. Len(c) \in Nat /\ Len(e) = Len(c) + 1 /\ e[Len(c) + 1] = frame /\ \A j \in 1..Len(c) : e[j] = c[j]
          BY <3>3, <3>4
        <4>2. \A j \in 1..Len(e) : j = Len(c) + 1 \/ j \in 1..Len(c)
          BY <4>1
        <4> QED
          BY <4>1, <4>2
      <3>7. \A j \in 1..Len(e) : e[j].t = "line" => e[j].line <= seen
        BY <1>5, <1>9, <3>2, <3>6
      <3> QED
        BY <3>5, <3>7
    <2>4. ASSUME ~sends
          PROVE  /\ follower = Following => Fits(e, 0, store)
                 /\ \A j \in 1..Len(e) : e[j].t = "line" => e[j].line <= seen
      <3>1. e = c
        BY <1>8, <2>4
      <3>2. \A j \in 1..Len(c) : c[j].t = "line" => c[j].line \in Nat
        <4>1. \A j \in 1..Len(c) : c[j] \in Frames
          BY <1>8
        <4> QED
          BY <1>3, <4>1 DEF Frames, Spoken, Words
      <3> QED
        BY <1>3, <1>9, <2>1, <3>1, <3>2
    <2> QED
      BY <1>1, <1>6, <2>2, <2>3, <2>4 DEF Stands, e, seen
  <1>11. down' = d
    BY <1>1 DEF d
  <1> QED
    BY <1>1, <1>7, <1>10, <1>11, StillClean, OrderNext DEF Ordered

LEMMA PumpEndsOrder ==
    ASSUME Typing, Ordering, PumpEnds
    PROVE  Ordering'
  <1> DEFINE frame == [t |-> "reset"]
             d == Append(down, frame)
             c == Coming(pump, down, store)
  <1>1. /\ UNCHANGED <<script, up, store, readers, follower, pages, fault>>
        /\ pump.at = "live" /\ pump.todo = <<>> /\ pump' = Off /\ down' = d
    BY DEF PumpEnds, server, client, history
  <1>2. down \in Seq(Frames) /\ store.waiting \in Seq(Frames) /\ frame \in Frames /\ frame.t # "line"
    BY Streams DEF Frames, Words
  <1> HIDE DEF frame
  <1>3. Followed'
    BY <1>1 DEF Ordering, Followed, Off
  <1>4. c \in Seq(Frames) /\ Coming(Off, d, store) = Append(c, frame)
    <2> DEFINE S == Frames
               w == store.waiting
               x == w \o down
    <2>1. w \in Seq(S) /\ down \in Seq(S) /\ frame \in S
      BY <1>2
    <2> HIDE DEF S, w
    <2>2. x \in Seq(S) /\ x \o <<>> = x
      BY <2>1, ConcatProperties, ConcatEmptySeq
    <2>3. w \o Append(down, frame) = Append(x, frame)
      BY <2>1, ToTheEnd
    <2> HIDE DEF x
    <2>4. Append(x, frame) \in Seq(S)
      BY <2>1, <2>2
    <2>5. Append(x, frame) \o <<>> = Append(x, frame)
      BY <2>4, ConcatEmptySeq
    <2>6. c = x \o <<>>
      BY <1>1 DEF Coming, w, x
    <2>7. Coming(Off, d, store) = (w \o Append(down, frame)) \o <<>>
      BY DEF Coming, w, Off
    <2> QED
      BY <2>2, <2>3, <2>5, <2>6, <2>7 DEF S
  <1> HIDE DEF d
  <1>5. ASSUME Ordered
        PROVE  Stands(Off, d, follower, store)
    <2>1. follower = Following => Fits(c, 0, store)
      BY <1>5 DEF Ordered, Stands
    <2> DEFINE S == Frames
    <2>2. c \in Seq(S) /\ frame \in S
      BY <1>2, <1>4
    <2> HIDE DEF c, S
    <2>3. follower = Following => Fits(Append(c, frame), 0, store)
      BY <1>2, <2>1, <2>2, FitsAppend
    <2> QED
      BY <1>4, <2>3 DEF Stands, Off
  <1> QED
    BY <1>1, <1>3, <1>5, StillClean, OrderNext DEF Ordered

-----------------------------------------------------------------------------
(* Order: the socket *)

LEMMA SocketDropsOrder ==
    ASSUME Typing, Ordering, SocketDrops
    PROVE  Ordering'
  <1> DEFINE w == store.waiting
             c == Coming(pump, down, store)
  <1>1. UNCHANGED <<script, store, readers, follower, pages, fault>> /\ pump' = Off /\ down' = <<>> /\ ~up'
    BY DEF SocketDrops, server, client, history
  <1>2. Followed'
    BY <1>1 DEF Ordering, Followed, Off
  <1>3. Coming(Off, <<>>, store) = w /\ Len(w) \in Nat /\ \A j \in 1..Len(w) : 0 + j \in 1..Len(c) /\ w[j] = c[0 + j]
    <2> DEFINE S == Frames
               todo == pump.todo
    <2>1. w \in Seq(S) /\ down \in Seq(S) /\ todo \in Seq(S)
      BY Streams
    <2> HIDE DEF S, w, todo
    <2>2. /\ Len((w \o down) \o todo) = Len(w) + Len(down) + Len(todo)
          /\ \A j \in 1..Len(w) : ((w \o down) \o todo)[j] = w[j]
      BY <2>1, ComingFacts
    <2>3. Len(w) \in Nat /\ Len(down) \in Nat /\ Len(todo) \in Nat
      BY <2>1, LenProperties
    <2>4. w \o <<>> = w
      BY <2>1, ConcatEmptySeq
    <2>5. c = (w \o down) \o todo /\ Coming(Off, <<>>, store) = (w \o <<>>) \o <<>>
      BY DEF Coming, Off, w, todo
    <2> HIDE DEF c
    <2>6. \A j \in 1..Len(w) : 0 + j \in 1..Len(c) /\ w[j] = c[0 + j]
      BY <2>2, <2>3, <2>5
    <2> QED
      BY <2>3, <2>4, <2>5, <2>6 DEF c
  <1> HIDE DEF w, c
  <1>4. ASSUME Ordered
        PROVE  Stands(Off, <<>>, follower, store)
    <2>1. follower = Following => Fits(c, 0, store)
      BY <1>4 DEF Ordered, Stands, c
    <2>2. 0 \in Nat
      OBVIOUS
    <2>3. follower = Following => Fits(w, 0, store)
      BY <1>3, <2>1, <2>2, FitsPart
    <2> QED
      BY <1>3, <2>3 DEF Stands, Off
  <1> QED
    BY <1>1, <1>2, <1>4, StillClean, OrderNext DEF Ordered

LEMMA SocketOpensOrder ==
    ASSUME Typing, Ordering, SocketOpens
    PROVE  Ordering'
  <1> DEFINE held == Drain(store)
  <1>1. UNCHANGED <<script, down, readers, follower, pages, fault>> /\ ~up /\ up'
    BY DEF SocketOpens, server, history
  <1>2. Followed /\ pump = Off /\ down = <<>>
    BY <1>1 DEF Ordering, Followed
  <1>3. Drained(held, store) /\ HeldTyped(held, recorded) /\ held.waiting = <<>>
    BY WhatIsHeld DEF Drained
  <1>4. CASE follower = Following
    <2>1. store' = held /\ pump' = Watching(held.lastLine)
      BY <1>4 DEF SocketOpens
    <2> HIDE DEF held
    <2>2. down \in Seq(Frames) /\ \A j \in 1..Len(down) : down[j].t # "line"
      BY <1>2, Streams
    <2>3. Stands(Watching(held.lastLine), down, follower, held) /\ Watching(held.lastLine).at = "read"
      BY <1>3, <2>2, WatchingStands
    <2>4. Followed'
      BY <1>1, <1>3, <1>4, <2>1, <2>3, FollowerIs DEF Ordering, Followed
    <2>5. ASSUME Ordered
          PROVE  Drawing(held) /\ Edges(held, pages)
      <3>1. Drawing(held) /\ \A b : Edge(b, store.items) => Edge(b, held.items)
        BY <1>2, <2>5, DrainStands DEF held
      <3>2. Edges(held, pages)
        BY <1>3, <2>5, <3>1, EdgesStay DEF Ordered, Drained
      <3> QED
        BY <3>1, <3>2
    <2> QED
      BY <1>1, <2>1, <2>3, <2>4, <2>5, StillClean, OrderNext
  <1>5. CASE follower # Following
    <2>1. UNCHANGED <<store, pump>>
      BY <1>5 DEF SocketOpens
    <2>2. Followed'
      BY <1>1, <2>1 DEF Ordering, Followed
    <2> QED
      BY <1>1, <2>1, <2>2, StillClean, OrderNext DEF Ordered
  <1> QED
    BY <1>4, <1>5

LEMMA ReceiveOrder ==
    ASSUME Typing, Ordering, Receive
    PROVE  Ordering'
  <1> DEFINE held == Drain(store)
             d == Tail(down)
             frame == Head(down)
  <1>1. /\ down # <<>> /\ down' = d /\ up /\ UNCHANGED <<script, up, readers, follower, pages>>
        /\ \/ follower # Following /\ UNCHANGED <<store, pump, fault>>
           \/ /\ follower = Following /\ frame.t = "line"
              /\ store' = [store EXCEPT !.waiting = Append(store.waiting, frame)]
              /\ UNCHANGED <<pump, fault>>
           \/ /\ follower = Following
              /\ store' = [held EXCEPT !.trouble = TRUE]
              /\ UNCHANGED <<pump, fault>>
           \/ /\ follower = Following
              /\ store' = held /\ pump' = Watching(store'.lastLine) /\ fault' = Overlap(d)
    BY Received DEF Typing, server
  <1>2. /\ Followed /\ down \in Seq(Frames) /\ d \in Seq(Frames) /\ frame \in Frames
        /\ HeldTyped(store, recorded) /\ HeldTyped(held, recorded) /\ Drained(held, store)
    <2> DEFINE S == Frames
    <2>1. down \in Seq(S)
      BY Streams
    <2> HIDE DEF S
    <2>2. Tail(down) \in Seq(S) /\ Head(down) \in S
      BY <1>1, <2>1, HeadTailProperties
    <2> QED
      BY <2>1, <2>2, WhatIsHeld DEF S, Ordering
  <1>3. \A j \in 1..Len(d) : j + 1 \in 1..Len(down) /\ d[j] = down[j + 1]
    <2>1. Len(d) = Len(down) - 1 /\ Len(down) \in Nat /\ \A j \in 1..Len(d) : d[j] = down[j + 1]
      BY <1>1, <1>2, HeadTailProperties, LenProperties
    <2> HIDE DEF d
    <2> QED
      BY <2>1
  <1> HIDE DEF held
  <1>4. CASE follower # Following /\ UNCHANGED <<store, pump, fault>>
    <2>1. pump = Off
      BY <1>2, <1>4 DEF Followed
    <2>2. Followed'
      BY <1>1, <1>2, <1>4, <2>1 DEF Followed, Off
    <2>3. Stands(Off, d, follower, store)
      BY <1>4, OffStands
    <2> QED
      BY <1>1, <1>4, <2>1, <2>2, <2>3, StillClean, OrderNext DEF Ordered
  <1>5. CASE /\ follower = Following /\ frame.t = "line"
             /\ store' = [store EXCEPT !.waiting = Append(store.waiting, frame)]
             /\ UNCHANGED <<pump, fault>>
    <2> DEFINE v == store'
               w == store.waiting
    <2>1. /\ v.waiting = Append(w, frame) /\ v.items = store.items /\ v.lastLine = store.lastLine
          /\ v.hasMore = store.hasMore /\ v.firstLine = store.firstLine
      <3> HIDE DEF frame
      <3> QED
        BY <1>2, <1>5 DEF HeldTyped
    <2>2. Followed'
      BY <1>1, <1>2, <1>5, <2>1, FollowerIs DEF Followed
    <2>3. Coming(pump, d, v) = Coming(pump, down, store)
      <3> DEFINE S == Frames
      <3>1. w \in Seq(S) /\ down \in Seq(S)
        BY Streams
      <3> HIDE DEF S, w
      <3>2. Append(w, Head(down)) \o Tail(down) = w \o down
        BY <1>1, <3>1, Handed
      <3> QED
        BY <2>1, <3>2 DEF Coming, w
    <2>4. ASSUME Ordered
          PROVE  Stands(pump, d, follower, v) /\ Drawing(v) /\ Edges(v, pages)
      <3> HIDE DEF v
      <3>1. Stands(pump, down, follower, store) /\ Drawing(store) /\ Edges(store, pages)
        BY <2>4 DEF Ordered
      <3>2. pump.at # "read"
        <4>1. 1 \in 1..Len(down) /\ down[1] = frame
          BY <1>1, <1>2, LenProperties, EmptySeq
        <4> QED
          BY <1>5, <3>1, <4>1 DEF Stands
      <3>3. Fits(Coming(pump, down, store), 0, store) => Fits(Coming(pump, down, store), 0, v)
        BY <2>1 DEF Fits
      <3>4. Stands(pump, d, follower, v)
        <4> HIDE DEF d
        <4> QED
          BY <1>5, <2>1, <2>3, <3>1, <3>2, <3>3 DEF Stands
      <3>5. Drawing(v) /\ Edges(v, pages)
        BY <2>1, <3>1 DEF Drawing, Edges
      <3> QED
        BY <3>4, <3>5
    <2> QED
      BY <1>1, <1>5, <2>2, <2>4, StillClean, OrderNext
  <1>6. CASE /\ follower = Following
             /\ store' = [held EXCEPT !.trouble = TRUE]
             /\ UNCHANGED <<pump, fault>>
    <2> DEFINE v == store'
    <2>1. /\ v.waiting = <<>> /\ v.items = held.items /\ v.lastLine = held.lastLine
          /\ v.hasMore = store.hasMore /\ v.firstLine = store.firstLine
      BY <1>2, <1>6 DEF HeldTyped, Drained
    <2>2. Followed'
      BY <1>1, <1>2, <1>6, <2>1, FollowerIs DEF Followed
    <2> HIDE DEF v
    <2>3. ASSUME Ordered
          PROVE  Stands(pump, d, follower, v) /\ Drawing(v) /\ Edges(v, pages)
      <3>1. /\ Stands(pump, down, follower, held) /\ Drawing(held) /\ held.waiting = <<>>
            /\ \A b : Edge(b, store.items) => Edge(b, held.items)
        BY <1>2, <2>3, DrainStands DEF held, Drained
      <3>2. Stands(pump, down, follower, v)
        BY <2>1, <3>1, StandsMore
      <3> DEFINE c == Coming(pump, down, v)
                 e == Coming(pump, d, v)
      <3>3. \A j \in 1..Len(e) : 1 + j \in 1..Len(c) /\ e[j] = c[1 + j]
        <4> DEFINE S == Frames
                   todo == pump.todo
        <4>1. down \in Seq(S) /\ todo \in Seq(S) /\ d \in Seq(S)
          BY <1>2, Streams
        <4>2. c = (<<>> \o down) \o todo /\ e = (<<>> \o d) \o todo
          BY <2>1 DEF Coming
        <4> HIDE DEF S, todo, c, e
        <4>3. <<>> \o down = down /\ <<>> \o d = d
          BY <4>1, ConcatEmptySeq
        <4>4. /\ Len(d) \in Nat /\ Len(down) = Len(d) + 1
              /\ \A j \in 1..Len(d) : d[j] = down[1 + j]
          <5>1. Len(d) = Len(down) - 1 /\ \A j \in 1..Len(d) : d[j] = down[j + 1]
            BY <1>1, <4>1, HeadTailProperties
          <5>2. Len(d) \in Nat /\ Len(down) \in Nat
            BY <4>1, LenProperties
          <5> HIDE DEF d
          <5>3. \A j \in 1..Len(d) : d[j] = down[1 + j]
            BY <5>1
          <5> QED
            BY <5>1, <5>2, <5>3
        <4> HIDE DEF d
        <4>5. /\ Len(todo) \in Nat /\ Len(c) = Len(down) + Len(todo) /\ Len(e) = Len(d) + Len(todo)
              /\ \A i \in 1..(Len(down) + Len(todo)) : c[i] = IF i <= Len(down) THEN down[i] ELSE todo[i - Len(down)]
              /\ \A i \in 1..(Len(d) + Len(todo)) : e[i] = IF i <= Len(d) THEN d[i] ELSE todo[i - Len(d)]
          BY <4>1, <4>2, <4>3, ConcatProperties, LenProperties
        <4> TAKE j \in 1..Len(e)
        <4>6. 1 + j \in 1..Len(c) /\ j \in 1..(Len(d) + Len(todo)) /\ 1 + j \in 1..(Len(down) + Len(todo))
          BY <4>4, <4>5
        <4>7. CASE j <= Len(d)
          <5>1. 1 + j <= Len(down) /\ j \in 1..Len(d)
            BY <4>4, <4>6, <4>7
          <5>2. e[j] = d[j] /\ c[1 + j] = down[1 + j]
            BY <4>5, <4>6, <4>7, <5>1
          <5> QED
            BY <4>4, <4>6, <5>1, <5>2
        <4>8. CASE ~(j <= Len(d))
          <5>1. ~(1 + j <= Len(down)) /\ (1 + j) - Len(down) = j - Len(d)
            BY <4>4, <4>6, <4>8
          <5>2. e[j] = todo[j - Len(d)] /\ c[1 + j] = todo[(1 + j) - Len(down)]
            BY <4>5, <4>6, <4>8, <5>1
          <5> QED
            BY <4>6, <5>1, <5>2
        <4> QED
          BY <4>7, <4>8
      <3>4. Fits(c, 0, v)
        BY <1>6, <3>2 DEF Stands
      <3> HIDE DEF c, e
      <3>5. Fits(e, 0, v)
        BY <3>3, <3>4, 1 \in Nat, FitsPart
      <3>6. pump.at = "live" => \A j \in 1..Len(e) : e[j].t = "line" => e[j].line <= pump.replayed
        BY <3>2, <3>3 DEF Stands, c
      <3>7. Stands(pump, d, follower, v)
        <4>1. pump.at = "read" => \A j \in 1..Len(d) : d[j].t # "line"
          BY <1>3, <3>2 DEF Stands
        <4> HIDE DEF d
        <4> QED
          BY <3>2, <3>5, <3>6, <4>1 DEF Stands, e
      <3>8. Drawing(v)
        BY <2>1, <3>1 DEF Drawing
      <3>9. Edges(v, pages)
        BY <2>1, <2>3, <3>1, EdgesStay DEF Ordered
      <3> QED
        BY <3>7, <3>8, <3>9
    <2> QED
      BY <1>1, <1>6, <2>2, <2>3, StillClean, OrderNext DEF v
  <1>7. CASE /\ follower = Following
             /\ store' = held /\ pump' = Watching(store'.lastLine) /\ fault' = Overlap(d)
    <2>1. pump' = Watching(held.lastLine) /\ held.waiting = <<>>
      BY <1>2, <1>7 DEF Drained
    <2>2. ASSUME Clean'
          PROVE  /\ fault \subseteq fault' /\ Stands(Watching(held.lastLine), d, follower, held)
      <3>1. fault \subseteq fault' /\ \A i \in 1..Len(d) : d[i].t # "line"
        <4> HIDE DEF d
        <4> QED
          BY <1>7, <2>2, NoOverlap
      <3> HIDE DEF d
      <3> QED
        BY <1>2, <2>1, <3>1, WatchingStands
    <2>3. Watching(held.lastLine).at = "read"
      <3>1. held.lastLine \in 0..recorded
        BY <1>2 DEF HeldTyped
      <3> QED
        BY <3>1, WatchingTyped DEF Typing
    <2>4. Followed'
      BY <1>1, <1>2, <1>7, <2>1, <2>3, FollowerIs DEF Followed
    <2>5. ASSUME Ordered
          PROVE  Drawing(held) /\ Edges(held, pages)
      <3>1. Drawing(held) /\ \A b : Edge(b, store.items) => Edge(b, held.items)
        BY <1>2, <2>5, DrainStands DEF held
      <3>2. Edges(held, pages)
        BY <1>2, <2>5, <3>1, EdgesStay DEF Ordered, Drained
      <3> QED
        BY <3>1, <3>2
    <2> QED
      BY <1>1, <1>7, <2>1, <2>2, <2>4, <2>5, StillClean, OrderNext
  <1> QED
    BY <1>1, <1>4, <1>5, <1>6, <1>7

-----------------------------------------------------------------------------
(* Order: the window *)

\* What waits is folded, and something is noted that no line depends on.
LEMMA FoldedOrder ==
    ASSUME Typing, Ordering, UNCHANGED <<script, pump, down, up, follower, readers>>, fault \subseteq fault',
           NEW v, store' = v, v.waiting = <<>>, v.lastLine = Drain(store).lastLine,
           (Clean' /\ Drawing(Drain(store)) /\ (\A b : Edge(b, store.items) => Edge(b, Drain(store).items))
               /\ Edges(store, pages))
             => /\ LinesOf(Drain(store).items) \subseteq LinesOf(v.items)
                /\ Drawing(v) /\ Edges(v, pages')
    PROVE  Ordering'
  <1>1. (Followed /\ store.waiting # <<>>) \/ Drain(store) = store
    BY WhatIsHeld DEF Drained, Ordering
  <1>2. follower.at \in {"asked", "answered"} => v.lastLine = 0
    <2>1. follower.at \in {"asked", "answered"} => store.waiting = <<>> /\ store.lastLine = 0
      BY FollowerIs DEF Ordering, Followed
    <2> QED
      BY <2>1, WhatIsHeld DEF Drained
  <1>3. Followed'
    BY <1>2 DEF Ordering, Followed
  <1>4. ASSUME Clean'
        PROVE  Stands(pump, down, follower, v) /\ Drawing(v) /\ Edges(v, pages')
    <2>1. Followed /\ Ordered
      BY <1>4, StillClean
    <2>2. /\ Stands(pump, down, follower, Drain(store)) /\ Drawing(Drain(store))
          /\ \A b : Edge(b, store.items) => Edge(b, Drain(store).items)
          /\ Drain(store).waiting = <<>>
      BY <2>1, DrainStands DEF Drained
    <2>3. /\ LinesOf(Drain(store).items) \subseteq LinesOf(v.items)
          /\ Drawing(v) /\ Edges(v, pages')
      BY <1>4, <2>1, <2>2 DEF Ordered
    <2>4. Stands(pump, down, follower, v)
      BY <2>2, <2>3, StandsMore
    <2> QED
      BY <2>3, <2>4
  <1> QED
    BY <1>3, <1>4, OrderNext

LEMMA PaintOrder ==
    ASSUME Typing, Ordering, Paint
    PROVE  Ordering'
  <1> DEFINE v == Drain(store)
  <1>1. UNCHANGED <<script, pump, down, up, follower, readers, pages, fault>> /\ store' = v
    BY DEF Paint, server, history
  <1>2. Drained(v, store)
    BY WhatIsHeld
  <1>3. v.waiting = <<>> /\ v.hasMore = store.hasMore /\ v.firstLine = store.firstLine
    BY <1>2 DEF Drained
  <1>4. ASSUME \A b : Edge(b, store.items) => Edge(b, v.items), Edges(store, pages)
        PROVE  Edges(v, pages)
    BY <1>3, <1>4, EdgesStay
  <1> HIDE DEF v
  <1>5. v = Drain(store)
    BY DEF v
  <1> QED
    BY <1>1, <1>3, <1>4, <1>5, FoldedOrder

\* Nothing that order depends on.
LEMMA BystandersOrder ==
    ASSUME Ordering, UNCHANGED <<script, pump, down, up, store, pages, fault>>, Followed',
           follower' = follower \/ (follower # Following /\ follower' # Following)
    PROVE  Ordering'
  <1>1. Stands(pump, down, follower, store) => Stands(pump, down, follower', store)
    BY DEF Stands
  <1> QED
    BY <1>1, StillClean, OrderNext DEF Ordered

LEMMA MountOrder ==
    ASSUME Typing, Ordering, Mount
    PROVE  Ordering'
  <1>1. UNCHANGED <<script, down, up, pages>> /\ readers' = readers + 1 /\ readers \in Nat
    <2>1. readers \in Nat
      BY BoundsAssumption DEF Typing
    <2> QED
      BY <2>1 DEF Mount, server
  <1>2. CASE readers > 0
    <2>1. UNCHANGED <<store, pump, follower, fault>>
      BY <1>2 DEF Mount
    <2>2. Followed'
      BY <1>1, <2>1 DEF Ordering, Followed
    <2> QED
      BY <1>1, <2>1, <2>2, BystandersOrder
  <1>3. CASE readers = 0
    <2>1. follower # Following /\ Followed
      BY <1>3, FollowerIs DEF Ordering, Followed
    <2>2. store.waiting = <<>> /\ HeldTyped(store, recorded) /\ pump = Off
      BY <2>1, NotFollowed, WhatIsHeld
    <2>3. CASE store.lastLine > 0
      <3>1. Listen(store)
        BY <1>1, <1>3, <2>3 DEF Mount
      <3>2. /\ store' = store /\ follower' = Following /\ fault \subseteq fault'
            /\ up => pump'.at = "read"
            /\ ~up => pump' = Off /\ down = <<>>
            /\ Clean' => Stands(pump', down', follower', store)
        BY <1>1, <2>1, <2>2, <3>1, ListenStands
      <3>3. Followed'
        BY <1>1, <2>1, <2>2, <3>2, FollowerIs DEF Followed, Off
      <3> QED
        BY <1>1, <3>2, <3>3, StillClean, OrderNext DEF Ordered
    <2>4. CASE ~(store.lastLine > 0)
      <3>1. follower' = [at |-> "asked"] /\ UNCHANGED <<store, pump, fault>>
        BY <1>1, <1>3, <2>4 DEF Mount
      <3>2. store.lastLine = 0
        BY <2>2, <2>4 DEF HeldTyped
      <3>3. Followed'
        BY <1>1, <2>1, <2>2, <3>1, <3>2, FollowerIs DEF Followed, Off
      <3>4. Stands(Off, down, follower', store)
        BY <3>1, FollowerIs, OffStands
      <3> QED
        BY <1>1, <2>2, <3>1, <3>3, <3>4, StillClean, OrderNext DEF Ordered
    <2> QED
      BY <2>3, <2>4
  <1> QED
    BY <1>1, <1>2, <1>3

LEMMA UnmountOrder ==
    ASSUME Typing, Ordering, Unmount
    PROVE  Ordering'
  <1> DEFINE v == Drain(store)
  <1>1. UNCHANGED <<script, down, up, pages, fault>> /\ readers' = readers - 1 /\ readers \in Nat /\ readers > 0
    <2>1. readers \in Nat
      BY BoundsAssumption DEF Typing
    <2> QED
      BY <2>1 DEF Unmount, server, history
  <1>2. CASE readers > 1
    <2>1. UNCHANGED <<store, pump, follower>>
      BY <1>2 DEF Unmount
    <2>2. Followed'
      BY <1>1, <1>2, <2>1 DEF Ordering, Followed
    <2> QED
      BY <1>1, <2>1, <2>2, BystandersOrder
  <1>3. CASE ~(readers > 1)
    <2>1. /\ follower' = NotFollowing /\ store' = v
          /\ pump' = IF follower = Following THEN Off ELSE pump
      BY <1>3 DEF Unmount
    <2>2. pump' = Off
      BY <2>1, NotFollowed DEF Ordering
    <2>3. Drained(v, store)
      BY WhatIsHeld
    <2>4. Followed'
      BY <1>1, <2>1, <2>2, <2>3, FollowerIs DEF Ordering, Followed, Drained, Off
    <2>5. ASSUME Ordered
          PROVE  Drawing(v) /\ Edges(v, pages)
      <3>1. Drawing(v) /\ \A b : Edge(b, store.items) => Edge(b, v.items)
        BY <2>5, DrainStands DEF Ordering
      <3>2. Edges(v, pages)
        BY <2>3, <2>5, <3>1, EdgesStay DEF Ordered, Drained
      <3> QED
        BY <3>1, <3>2
    <2>6. Stands(Off, down, NotFollowing, v)
      BY FollowerIs, OffStands
    <2> QED
      BY <1>1, <2>1, <2>2, <2>4, <2>5, <2>6, StillClean, OrderNext
  <1> QED
    BY <1>2, <1>3

LEMMA AnswerSnapshotOrder ==
    ASSUME Typing, Ordering, AnswerSnapshot
    PROVE  Ordering'
  <1>1. /\ UNCHANGED <<script, pump, down, up, store, readers, pages, fault>>
        /\ follower.at = "asked" /\ follower'.at = "answered"
    BY DEF AnswerSnapshot, server, history
  <1>2. follower # Following /\ follower' # Following /\ Followed
    BY <1>1, FollowerIs DEF Ordering
  <1>3. Followed'
    BY <1>1, <1>2, FollowerIs DEF Followed
  <1> QED
    BY <1>1, <1>2, <1>3, BystandersOrder

\* A snapshot is all there is to draw, and its first line is where older pages end.
LEMMA OpenedOrder ==
    ASSUME Typing, Drawing(store), store.lastLine = 0, Edges(store, pages),
           NEW page, PageTyped(page, recorded), page.lastLine = page.to
    PROVE  Drawing(Opened(page)) /\ Edges(Opened(page), pages)
  <1> DEFINE held == Opened(page)
  <1>1. /\ HeldTyped(held, recorded)
        /\ Stretched(held.items, store.items, page.from, page.to)
        /\ held.lastLine = (IF page.lastLine > store.lastLine THEN page.lastLine ELSE store.lastLine)
        /\ held.firstLine = page.firstLine /\ held.hasMore = page.hasMore
    BY OpenedFacts
  <1> HIDE DEF held
  <1>2. page.from \in Nat /\ page.from >= 1 /\ page.to \in Nat
    BY WhatIsHeld DEF PageTyped
  <1>3. LinesOf(store.items) = {}
    BY DEF Drawing
  <1>4. /\ Rising(held.items) /\ LinesOf(held.items) = {k \in page.from..page.to : Opens(k)}
        /\ held.lastLine = page.to
    BY <1>1, <1>2, <1>3 DEF Stretched, Drawing
  <1>5. Drawing(held)
    <2>1. LinesOf(held.items) \subseteq 1..held.lastLine
      BY <1>2, <1>4
    <2>2. ASSUME page.to # 0, Opens(page.to)
          PROVE  page.to \in LinesOf(held.items)
      <3>1. page.from <= page.to
        BY <1>2, <2>2 DEF PageTyped
      <3> QED
        BY <1>2, <1>4, <2>2, <3>1
    <2> QED
      BY <1>4, <2>1, <2>2 DEF Drawing
  <1>6. ASSUME held.hasMore
        PROVE  Edge(held.firstLine, held.items)
    <2>1. held.firstLine = page.from /\ page.from <= page.to /\ Opens(page.from)
      BY <1>1, <1>6 DEF PageTyped
    <2>2. page.from \in LinesOf(held.items)
      BY <1>2, <1>4, <2>1
    <2>3. \A n \in 1..(page.from - 1) : ~(\E m \in LinesOf(held.items) : m <= n)
      BY <1>2, <1>4
    <2> QED
      BY <2>1, <2>2, <2>3 DEF Edge
  <1>7. \A older \in pages : older.late
    BY <1>3 DEF Edges, Edge
  <1>8. Edges(held, pages)
    BY <1>6, <1>7 DEF Edges
  <1> QED
    BY <1>5, <1>8 DEF held

LEMMA TakeSnapshotOrder ==
    ASSUME Typing, Ordering, TakeSnapshot
    PROVE  Ordering'
  <1> DEFINE page == follower.page
             held == Opened(page)
  <1>1. /\ follower.at = "answered" /\ Listen(held)
        /\ UNCHANGED <<server, down, up, readers, pages, sent, left>>
    BY TakeSnapshotIs
  <1>2. PageTyped(page, recorded) /\ page.lastLine = page.to
    BY <1>1, AnsweredPage DEF Typing
  <1>3. follower # Following /\ Followed /\ readers # 0 /\ store.lastLine = 0
    BY <1>1, FollowerIs DEF Ordering, Followed
  <1>4. HeldTyped(held, recorded) /\ held.waiting = store.waiting
    BY <1>2, OpenedFacts
  <1>5. held.waiting = <<>>
    BY <1>3, <1>4, NotFollowed
  <1>6. ASSUME Ordered
        PROVE  Drawing(held) /\ Edges(held, pages)
    BY <1>2, <1>3, <1>6, OpenedOrder DEF Ordered
  <1> HIDE DEF held, page
  <1>7. /\ store' = held /\ follower' = Following /\ fault \subseteq fault'
        /\ up => pump'.at = "read"
        /\ ~up => pump' = Off /\ down = <<>>
        /\ Clean' => Stands(pump', down', follower', held)
    BY <1>1, <1>3, <1>4, <1>5, ListenStands
  <1>8. Followed'
    BY <1>1, <1>3, <1>5, <1>7, FollowerIs DEF Followed, Off
  <1> QED
    BY <1>1, <1>6, <1>7, <1>8, StillClean, OrderNext DEF server

LEMMA SnapshotFailsOrder ==
    ASSUME Typing, Ordering, SnapshotFails
    PROVE  Ordering'
  <1>1. Listen(store) /\ UNCHANGED <<script, down, up, readers, pages>> /\ follower.at = "asked"
    BY DEF SnapshotFails, server
  <1>2. follower # Following /\ Followed /\ readers # 0
    BY <1>1, FollowerIs DEF Ordering, Followed
  <1>3. store.waiting = <<>> /\ HeldTyped(store, recorded)
    BY <1>2, NotFollowed, WhatIsHeld
  <1>4. /\ store' = store /\ follower' = Following /\ fault \subseteq fault'
        /\ up => pump'.at = "read"
        /\ ~up => pump' = Off /\ down = <<>>
        /\ Clean' => Stands(pump', down', follower', store)
    BY <1>1, <1>2, <1>3, ListenStands
  <1>5. Followed'
    BY <1>1, <1>2, <1>3, <1>4, FollowerIs DEF Followed, Off
  <1> QED
    BY <1>1, <1>4, <1>5, StillClean, OrderNext DEF Ordered

LEMMA ScrollBackOrder ==
    ASSUME Typing, Ordering, ScrollBack
    PROVE  Ordering'
  <1> DEFINE held == Drain(store)
             asked == [at |-> "asked", before |-> store.firstLine, late |-> FALSE]
             v == [held EXCEPT !.loadingOlder = TRUE]
  <1>1. /\ UNCHANGED <<script, pump, down, up, readers, follower, fault>>
        /\ store.hasMore /\ store' = v /\ pages' = pages \cup {asked}
    BY DEF ScrollBack, server, history
  <1>2. Drained(held, store) /\ HeldTyped(held, recorded)
    BY WhatIsHeld
  <1>3. GoesOn(asked) = store.firstLine
    BY DEF GoesOn
  <1> HIDE DEF held, asked
  <1>4. /\ v.waiting = <<>> /\ v.items = held.items /\ v.lastLine = held.lastLine
        /\ v.firstLine = store.firstLine /\ v.hasMore = store.hasMore
    BY <1>2 DEF HeldTyped, Drained
  <1> HIDE DEF v
  <1>5. ASSUME Drawing(held), \A b : Edge(b, store.items) => Edge(b, held.items), Edges(store, pages)
        PROVE  /\ LinesOf(held.items) \subseteq LinesOf(v.items)
               /\ Drawing(v) /\ Edges(v, pages')
    <2>1. Drawing(v)
      BY <1>4, <1>5 DEF Drawing
    <2>2. Edge(store.firstLine, held.items)
      BY <1>1, <1>5 DEF Edges
    <2>3. Edges(v, pages')
      BY <1>1, <1>3, <1>4, <1>5, <2>2 DEF Edges
    <2> QED
      BY <1>4, <2>1, <2>3
  <1> QED
    BY <1>1, <1>4, <1>5, FoldedOrder DEF held

LEMMA AnswerPageOrder ==
    ASSUME Typing, Ordering, NEW asked \in pages, AnswerPage(asked)
    PROVE  Ordering'
  <1> DEFINE page == Page(asked.before)
             answered == [at |-> "answered", page |-> page, late |-> asked.late]
  <1>1. /\ UNCHANGED <<script, pump, down, up, store, readers, follower, fault>>
        /\ asked.at = "asked" /\ pages' = (pages \ {asked}) \cup {answered}
    BY DEF AnswerPage, server, history
  <1>2. recorded \in Nat /\ asked.before \in 1..recorded
    <2>1. asked \in Asked
      BY <1>1 DEF Typing, PagesTyped, Answered
    <2> QED
      BY <2>1, WhatIsHeld DEF Asked
  <1>3. page.to = asked.before - 1
    <2>1. asked.before \in 0..recorded /\ asked.before # 0
      BY <1>2
    <2> QED
      BY <1>2, <2>1, PageFacts
  <1> HIDE DEF page
  <1>4. GoesOn(answered) = GoesOn(asked) /\ answered.late = asked.late
    BY <1>1, <1>2, <1>3 DEF GoesOn
  <1> HIDE DEF answered
  <1>5. Edges(store, pages) => Edges(store, pages')
    BY <1>1, <1>4 DEF Edges
  <1>6. Followed'
    BY <1>1 DEF Ordering, Followed
  <1> QED
    BY <1>1, <1>5, <1>6, StillClean, OrderNext DEF Ordered

\* An older page ends where what is drawn goes on, so its lines come before.
LEMMA PrependOrder ==
    ASSUME NEW last \in Nat, NEW held, HeldTyped(held, last), NEW page, PageTyped(page, last),
           NEW v, Prepended(v, held, page), Drawing(held), Edge(page.to + 1, held.items)
    PROVE  /\ Drawing(v) /\ LinesOf(held.items) \subseteq LinesOf(v.items)
           /\ v.hasMore => Edge(v.firstLine, v.items)
           /\ \A b : Edge(b, held.items) => Edge(b, v.items)
  <1> DEFINE old == LinesOf(held.items)
             new == LinesOf(v.items)
  <1>1. page.from \in Nat /\ page.from >= 1 /\ page.to \in Nat
    BY DEF PageTyped
  <1>2. /\ new = old \cup {k \in page.from..page.to : Opens(k)} /\ v.lastLine = held.lastLine
        /\ v.firstLine = page.firstLine /\ v.hasMore = page.hasMore
    BY DEF Prepended
  <1>3. /\ old \subseteq 1..held.lastLine /\ held.lastLine \in Nat /\ page.to + 1 \in old
        /\ \A n \in 1..page.to : Opens(n) /\ (\E m \in old : m <= n) => n \in old
    <2>1. old \subseteq 1..held.lastLine /\ held.lastLine \in Nat
      BY HeldFacts DEF Drawing
    <2>2. (page.to + 1) - 1 = page.to
      BY <1>1
    <2> QED
      BY <2>1, <2>2 DEF Edge
  <1> HIDE DEF old, new
  <1>4. \A k \in page.from..page.to : Opens(k) => k \in old \/ \A m \in old : k < m
    <2> SUFFICES ASSUME NEW k \in page.from..page.to, Opens(k), k \notin old, NEW m \in old
                 PROVE  k < m
      OBVIOUS
    <2>1. k \in 1..page.to /\ m \in Nat
      BY <1>1, <1>3
    <2>2. ~(m <= k)
      BY <1>3, <2>1
    <2> QED
      BY <2>1, <2>2
  <1>5. Rising(v.items)
    BY <1>4 DEF Prepended, Drawing, old
  <1>6. new \subseteq 1..v.lastLine
    <2>1. page.to + 1 <= held.lastLine
      <3>1. page.to + 1 \in 1..held.lastLine
        BY <1>3
      <3> QED
        BY <1>1, <1>3, <3>1
    <2>2. \A k \in page.from..page.to : k \in 1..held.lastLine
      BY <1>1, <1>3, <2>1
    <2> QED
      BY <1>2, <1>3, <2>2
  <1>7. Drawing(v)
    <2>1. v.lastLine # 0 /\ Opens(v.lastLine) => v.lastLine \in new
      BY <1>2 DEF Drawing, old
    <2> QED
      BY <1>5, <1>6, <2>1 DEF Drawing, new
  <1>8. ASSUME v.hasMore
        PROVE  Edge(v.firstLine, v.items)
    <2>1. v.firstLine = page.from /\ page.from <= page.to /\ Opens(page.from)
      BY <1>2, <1>8 DEF PageTyped
    <2>2. page.from \in new
      BY <1>1, <1>2, <2>1
    <2>3. ASSUME NEW n \in 1..(page.from - 1), Opens(n), NEW m \in new, m <= n
          PROVE  n \in new
      <3>1. m \in old /\ n \in 1..page.to
        BY <1>1, <1>2, <2>1, <2>3
      <3> QED
        BY <1>2, <1>3, <2>3, <3>1
    <2> QED
      BY <2>1, <2>2, <2>3 DEF Edge, new
  <1>9. ASSUME NEW b, Edge(b, held.items)
        PROVE  Edge(b, v.items)
    <2>1. b \in old /\ \A n \in 1..(b - 1) : Opens(n) /\ (\E m \in old : m <= n) => n \in old
      BY <1>9 DEF Edge, old
    <2>2. ASSUME NEW n \in 1..(b - 1), Opens(n), NEW m \in new, m <= n
          PROVE  n \in new
      <3>1. CASE m \in old
        BY <1>2, <2>1, <2>2, <3>1
      <3>2. CASE m \notin old
        <4>1. m \in page.from..page.to
          BY <1>2, <3>2
        <4>2. CASE n <= page.to
          <5>1. n \in page.from..page.to
            BY <1>1, <2>2, <4>1, <4>2
          <5> QED
            BY <1>2, <2>2, <5>1
        <4>3. CASE ~(n <= page.to)
          <5>1. page.to + 1 <= n
            BY <1>1, <4>3
          <5> QED
            BY <1>2, <1>3, <2>1, <2>2, <5>1
        <4> QED
          BY <4>2, <4>3
      <3> QED
        BY <3>1, <3>2
    <2> QED
      BY <1>2, <2>1, <2>2 DEF Edge, new
  <1> QED
    BY <1>2, <1>7, <1>8, <1>9 DEF old, new

LEMMA TakePageOrder ==
    ASSUME Typing, Ordering, NEW answered \in pages, TakePage(answered)
    PROVE  Ordering'
  <1> DEFINE held == Drain(store)
             page == answered.page
             v == Prepend(held, page)
  <1>1. /\ UNCHANGED <<script, pump, down, up, readers, follower>>
        /\ answered.at = "answered" /\ store' = v /\ pages' = pages \ {answered}
        /\ fault' = fault \cup (IF answered.late THEN {"late page"} ELSE {})
    BY DEF TakePage, server
  <1>2. Drained(held, store) /\ HeldTyped(held, recorded) /\ recorded \in Nat
    BY WhatIsHeld
  <1>3. PageTyped(page, recorded) /\ answered.late \in BOOLEAN
    BY <1>1, AnsweredIs DEF Typing
  <1> HIDE DEF held
  <1>4. Prepended(v, held, page)
    BY <1>2, <1>3, PrependFacts
  <1> HIDE DEF v
  <1>5. v.waiting = <<>> /\ v.lastLine = held.lastLine
    BY <1>2, <1>4 DEF Prepended, Drained
  <1>6. ASSUME Clean', Drawing(held), \A b : Edge(b, store.items) => Edge(b, held.items), Edges(store, pages)
        PROVE  /\ LinesOf(held.items) \subseteq LinesOf(v.items)
               /\ Drawing(v) /\ Edges(v, pages')
    <2>1. ~answered.late
      BY <1>1, <1>6 DEF Clean
    <2>2. Edge(page.to + 1, held.items)
      BY <1>1, <1>6, <2>1 DEF Edges, GoesOn
    <2>3. /\ Drawing(v) /\ LinesOf(held.items) \subseteq LinesOf(v.items)
          /\ v.hasMore => Edge(v.firstLine, v.items)
          /\ \A b : Edge(b, held.items) => Edge(b, v.items)
      BY <1>2, <1>3, <1>4, <1>6, <2>2, PrependOrder
    <2>4. Edges(v, pages')
      BY <1>1, <1>6, <2>3 DEF Edges
    <2> QED
      BY <2>3, <2>4
  <1>7. fault \subseteq fault'
    BY <1>1
  <1> QED
    BY <1>1, <1>5, <1>6, <1>7, FoldedOrder DEF held

LEMMA PageFailsOrder ==
    ASSUME Typing, Ordering, NEW asked \in pages, PageFails(asked)
    PROVE  Ordering'
  <1> DEFINE held == Drain(store)
             v == [held EXCEPT !.loadingOlder = FALSE]
  <1>1. /\ UNCHANGED <<script, pump, down, up, readers, follower, fault>>
        /\ store' = v /\ pages' = pages \ {asked}
    BY DEF PageFails, server, history
  <1>2. Drained(held, store) /\ HeldTyped(held, recorded)
    BY WhatIsHeld
  <1> HIDE DEF held
  <1>3. /\ v.waiting = <<>> /\ v.items = held.items /\ v.lastLine = held.lastLine
        /\ v.firstLine = store.firstLine /\ v.hasMore = store.hasMore
    BY <1>2 DEF HeldTyped, Drained
  <1> HIDE DEF v
  <1>4. ASSUME Drawing(held), \A b : Edge(b, store.items) => Edge(b, held.items), Edges(store, pages)
        PROVE  /\ LinesOf(held.items) \subseteq LinesOf(v.items)
               /\ Drawing(v) /\ Edges(v, pages')
    <2>1. Drawing(v)
      BY <1>3, <1>4 DEF Drawing
    <2>2. pages' \subseteq pages
      BY <1>1
    <2>3. Edges(v, pages')
      BY <1>3, <1>4, <2>2, EdgesStay
    <2> QED
      BY <1>3, <2>1, <2>3
  <1> QED
    BY <1>1, <1>3, <1>4, FoldedOrder DEF held

LEMMA LetGoOrder ==
    ASSUME Typing, Ordering, LetGo
    PROVE  Ordering'
  <1>1. /\ UNCHANGED <<script, pump, down, up, readers, follower, fault>>
        /\ readers = 0 /\ store' = Nothing /\ pages' = {[page EXCEPT !.late = TRUE] : page \in pages}
    BY DEF LetGo, server, history
  <1>2. Followed /\ follower = NotFollowing /\ follower # Following
    BY <1>1, FollowerIs DEF Ordering, Followed
  <1>3. pump = Off
    BY <1>2, NotFollowed
  <1>4. Followed'
    BY <1>1, <1>2, FollowerIs DEF Followed, Nothing
  <1>5. Stands(Off, down, follower, Nothing)
    BY <1>2, OffStands
  <1>6. Drawing(Nothing)
    BY NoItems DEF Drawing, Nothing
  <1>7. \A page \in pages : [page EXCEPT !.late = TRUE].late = TRUE
    <2> TAKE page \in pages
    <2>1. CASE page \in Asked
      BY <2>1 DEF Asked
    <2>2. CASE Answered(page)
      BY <2>2 DEF Answered
    <2> QED
      BY <2>1, <2>2 DEF Typing, PagesTyped
  <1>8. Edges(Nothing, pages')
    BY <1>1, <1>7 DEF Edges, Nothing
  <1> QED
    BY <1>1, <1>3, <1>4, <1>5, <1>6, <1>8, StillClean, OrderNext

-----------------------------------------------------------------------------
(* Order: somebody says something *)

LEMMA PersonOrder ==
    ASSUME Typing, Ordering, Person
    PROVE  Ordering'
  <1>1. PICK m \in Messages : Say(m) \/ SendNotes(m) \/ Accept(m) \/ NotesTaken(m)
    BY DEF Person
  <1>2. UNCHANGED <<script, pump, down, up, readers, follower, pages, fault>>
    BY <1>1 DEF Say, SendNotes, Accept, NotesTaken, server, history
  <1>3. CASE SendNotes(m) \/ Accept(m)
    <2>1. UNCHANGED store
      BY <1>3 DEF SendNotes, Accept
    <2>2. Followed'
      BY <1>2, <2>1 DEF Ordering, Followed
    <2> QED
      BY <1>2, <2>1, <2>2, BystandersOrder
  <1>4. CASE Say(m) \/ NotesTaken(m)
    <2> DEFINE held == Drain(store)
               v == store'
    <2>1. Echo(m) /\ m \notin TypedOf(store.items)
      BY <1>4 DEF Say, NotesTaken, Typing, ShownOnce
    <2>2. /\ LinesOf(v.items) = LinesOf(held.items)
          /\ Rising(held.items) => Rising(v.items)
          /\ v = [held EXCEPT !.items = v.items]
      BY <2>1, EchoFacts
    <2>3. Drained(held, store) /\ HeldTyped(held, recorded)
      BY WhatIsHeld
    <2> HIDE DEF held
    <2> DEFINE items == v.items
    <2>4. v = [held EXCEPT !.items = items]
      BY <2>2
    <2> HIDE DEF items, v
    <2>5. /\ v.waiting = <<>> /\ v.lastLine = held.lastLine
          /\ v.firstLine = store.firstLine /\ v.hasMore = store.hasMore
      BY <2>3, <2>4 DEF HeldTyped, Drained
    <2>6. ASSUME Drawing(held), \A b : Edge(b, store.items) => Edge(b, held.items), Edges(store, pages)
          PROVE  /\ LinesOf(held.items) \subseteq LinesOf(v.items)
                 /\ Drawing(v) /\ Edges(v, pages)
      <3>1. Drawing(v)
        BY <2>2, <2>5, <2>6 DEF Drawing
      <3>2. \A b : Edge(b, store.items) => Edge(b, v.items)
        BY <2>2, <2>6 DEF Edge
      <3>3. Edges(v, pages)
        BY <2>5, <2>6, <3>2, EdgesStay
      <3> QED
        BY <2>2, <3>1, <3>3
    <2>7. store' = v
      BY DEF v
    <2> QED
      BY <1>2, <2>5, <2>6, <2>7, FoldedOrder DEF held
  <1> QED
    BY <1>1, <1>3, <1>4

-----------------------------------------------------------------------------
(* Order, of every conversation *)

LEMMA InitOrder == Init => Ordering
  <1> SUFFICES ASSUME Init
               PROVE  Ordering
    OBVIOUS
  <1>1. pump = Off /\ down = <<>> /\ store = Nothing /\ follower = NotFollowing /\ pages = {} /\ up
    BY DEF Init
  <1>2. Followed
    BY <1>1, FollowerIs DEF Followed, Off, Nothing
  <1>3. Stands(pump, down, follower, store)
    BY <1>1, FollowerIs, OffStands
  <1>4. Drawing(store) /\ Edges(store, pages)
    BY <1>1, NoItems DEF Drawing, Edges, Nothing
  <1> QED
    BY <1>2, <1>3, <1>4 DEF Ordering, Ordered

LEMMA NextOrder ==
    ASSUME Typing, Ordering, [Next]_vars
    PROVE  Ordering'
  <1>1. CASE ControlPlane
    BY <1>1, RecordOrder, AnnounceOrder, UnwatchOrder, PumpReadOrder, PumpReadFailsOrder, PumpRefusedOrder,
       PumpSendOrder, PumpLiveOrder, PumpEndsOrder DEF ControlPlane
  <1>2. CASE Socket
    BY <1>2, SocketDropsOrder, SocketOpensOrder, ReceiveOrder DEF Socket
  <1>3. CASE Window
    BY <1>3, PaintOrder, MountOrder, UnmountOrder, AnswerSnapshotOrder, TakeSnapshotOrder, SnapshotFailsOrder,
       ScrollBackOrder, AnswerPageOrder, TakePageOrder, PageFailsOrder, LetGoOrder DEF Window
  <1>4. CASE Person
    BY <1>4, PersonOrder
  <1>5. CASE UNCHANGED vars
    BY <1>5, RecordOrder
  <1> QED
    BY <1>1, <1>2, <1>3, <1>4, <1>5 DEF Next

LEMMA SpecInvariant == Spec => []IInv
  <1>1. Init => IInv
    BY InitTyping, InitOrder DEF IInv
  <1>2. IInv /\ [Next]_vars => IInv'
    BY NextTyping, NextOrder DEF IInv
  <1> QED
    BY <1>1, <1>2, PTL DEF Spec

LEMMA OrderGives == IInv => InOrder
  BY DEF IInv, Ordering, Ordered, Clean, Drawing, Rising, InOrder

\* What is drawn stands in the order it was said, for every log, page size and
\* number of readers: however the snapshot, the backlog, the live lines and the
\* older pages come in between one another, and across drops, resets, lost
\* broadcasts and a window that lets go of what it held - unless a subscription
\* was begun again over lines still on their way, or a page outlived what it was
\* asked for (start, drain and prepend of desktop/src/api/conversation.ts;
\* follow_conversation of ft-server/src/api/stream.rs).
THEOREM DrawnInOrder == Spec => []InOrder
  BY SpecInvariant, OrderGives, PTL
=============================================================================
