------------------------------ MODULE QueueProofs ------------------------------
(***************************************************************************)
(* What the operators of Queues return, for every queue and every finite   *)
(* set of numbers.  Induction over the length of a queue is put as a fact  *)
(* about sets of numbers, from the least number of a set.                  *)
(***************************************************************************)
EXTENDS Queues, FiniteSetTheorems, SequenceTheorems, WellFoundedInduction, TLAPS

Below == {pair \in Nat \X Nat : pair[1] < pair[2]}

\* A set of numbers has a least one: Nat is well-founded.
LEMMA LeastNumber ==
    ASSUME NEW T, T \subseteq Nat, T # {}
    PROVE  \E x \in T : \A y \in T : x <= y
  <1>1. OpToRel(<, Nat) = Below
    BY DEF OpToRel, Below
  <1>2. IsWellFoundedOn(Below, Nat)
    BY <1>1, NatLessThanWellFounded
  <1>3. PICK x \in T : \A y \in T : ~(<<y, x>> \in Below)
    BY <1>2, WFMin
  <1>4. ASSUME NEW y \in T
        PROVE  x <= y
    <2> SUFFICES ASSUME y < x
                 PROVE  FALSE
      OBVIOUS
    <2>1. <<y, x>> \in Nat \X Nat
      OBVIOUS
    <2>2. <<y, x>>[1] < <<y, x>>[2]
      OBVIOUS
    <2>3. <<y, x>> \in Below
      BY <2>1, <2>2, Zenon DEF Below
    <2> QED
      BY <1>3, <2>3
  <1> QED
    BY <1>4

\* A set that has zero, and with each number the next, has every number.
LEMMA Inductive ==
    ASSUME NEW S, 0 \in S, \A n \in Nat : n \in S => n + 1 \in S
    PROVE  Nat \subseteq S
  <1> SUFFICES ASSUME Nat \ S # {}
               PROVE  FALSE
    OBVIOUS
  <1>1. PICK x \in Nat \ S : \A y \in Nat \ S : x <= y
    BY LeastNumber, Nat \ S \subseteq Nat
  <1>2. x - 1 \in Nat /\ x - 1 \in S
    BY <1>1
  <1> QED
    BY <1>1, <1>2

\* f is made from base, one step after the other.
Steps(f, S, base, N, F) ==
    f \in [0..N -> S] /\ f[0] = base /\ \A n \in 1..N : f[n] = F[<<f[n - 1], n>>]

LEMMA StepsExist ==
    ASSUME NEW S, NEW base \in S, NEW N \in Nat, NEW F \in [S \X (1..N) -> S]
    PROVE  \E f : Steps(f, S, base, N, F)
  <1> DEFINE Step(f, n) == f[n] = F[<<f[n - 1], n>>]
             Runs(m) == \E f \in [0..m -> S] : f[0] = base /\ \A n \in 1..m : Step(f, n)
             T == {m \in Nat : m <= N => Runs(m)}
  <1>1. Runs(0)
    <2> DEFINE f == [i \in 0..0 |-> base]
    <2>1. f \in [0..0 -> S] /\ f[0] = base /\ 1..0 = {}
      OBVIOUS
    <2> HIDE DEF f, Step
    <2> QED
      BY <2>1
  <1>2. ASSUME NEW m \in Nat, Runs(m), m + 1 <= N
        PROVE  Runs(m + 1)
    <2>1. PICK f \in [0..m -> S] : f[0] = base /\ \A n \in 1..m : Step(f, n)
      BY <1>2
    <2> DEFINE next == F[<<f[m], m + 1>>]
               g == [n \in 0..(m + 1) |-> IF n = m + 1 THEN next ELSE f[n]]
    <2>2. next \in S
      <3>1. f[m] \in S /\ m + 1 \in 1..N
        BY <1>2
      <3> QED
        BY <3>1
    <2>3. g \in [0..(m + 1) -> S] /\ g[0] = base
      <3> HIDE DEF next
      <3> QED
        BY <2>1, <2>2
    <2>4. ASSUME NEW n \in 1..(m + 1)
          PROVE  Step(g, n)
      <3>1. CASE n = m + 1
        <4>1. g[m + 1] = next /\ g[m] = f[m]
          <5> HIDE DEF next
          <5> QED
            OBVIOUS
        <4>2. n - 1 = m /\ g[n] = next /\ g[n - 1] = f[m]
          <5> HIDE DEF g, next
          <5> QED
            BY <3>1, <4>1
        <4> HIDE DEF g
        <4> QED
          BY <3>1, <4>2
      <3>2. CASE n \in 1..m
        <4>1. g[n] = f[n] /\ g[n - 1] = f[n - 1]
          <5> HIDE DEF next
          <5> QED
            BY <3>2
        <4>2. Step(f, n)
          BY <2>1, <3>2
        <4> HIDE DEF g
        <4> QED
          BY <4>1, <4>2
      <3>3. n = m + 1 \/ n \in 1..m
        OBVIOUS
      <3> HIDE DEF g, Step
      <3> QED
        BY <3>1, <3>2, <3>3
    <2> HIDE DEF g, Step
    <2> QED
      BY <2>3, <2>4
  <1>3. Nat \subseteq T
    <2>1. 0 \in T
      BY <1>1
    <2>2. \A m \in Nat : m \in T => m + 1 \in T
      <3> HIDE DEF Runs
      <3> QED
        BY <1>2
    <2> HIDE DEF T
    <2> QED
      BY <2>1, <2>2, Inductive
  <1>4. PICK f \in [0..N -> S] : f[0] = base /\ \A n \in 1..N : Step(f, n)
    <2> HIDE DEF Runs
    <2>1. Runs(N)
      BY <1>3
    <2> QED
      BY <2>1 DEF Runs
  <1> QED
    BY <1>4 DEF Steps

-----------------------------------------------------------------------------
(* Totals *)

\* f is the running total of s.
Totals(s, f) ==
    /\ f \in [0..Len(s) -> Nat]
    /\ f[0] = 0
    /\ \A n \in 1..Len(s) : f[n] = f[n - 1] + s[n]

LEMMA TotalsExist ==
    ASSUME NEW s \in Seq(Nat)
    PROVE  \E f : Totals(s, f)
  <1> DEFINE Runs(m) == \E f \in [0..m -> Nat] : f[0] = 0 /\ \A n \in 1..m : f[n] = f[n - 1] + s[n]
             S == {m \in Nat : m <= Len(s) => Runs(m)}
  <1>1. Runs(0)
    <2> DEFINE f == [i \in 0..0 |-> 0]
    <2>1. f \in [0..0 -> Nat] /\ f[0] = 0 /\ 1..0 = {}
      OBVIOUS
    <2> HIDE DEF f
    <2> QED
      BY <2>1
  <1>2. ASSUME NEW m \in Nat, Runs(m), m + 1 <= Len(s)
        PROVE  Runs(m + 1)
    <2>1. PICK f \in [0..m -> Nat] : f[0] = 0 /\ \A n \in 1..m : f[n] = f[n - 1] + s[n]
      BY <1>2
    <2> DEFINE g == [n \in 0..(m + 1) |-> IF n = m + 1 THEN f[m] + s[m + 1] ELSE f[n]]
    <2>2. s[m + 1] \in Nat
      <3>1. m + 1 \in 1..Len(s)
        BY <1>2
      <3> HIDE DEF Runs
      <3> QED
        BY <3>1
    <2>3. g \in [0..(m + 1) -> Nat] /\ g[0] = 0
      BY <2>1, <2>2
    <2>4. ASSUME NEW n \in 1..(m + 1)
          PROVE  g[n] = g[n - 1] + s[n]
      <3>1. CASE n = m + 1
        BY <3>1
      <3>2. CASE n \in 1..m
        BY <3>2, <2>1
      <3> QED
        BY <3>1, <3>2
    <2> QED
      BY <2>3, <2>4
  <1>3. Nat \subseteq S
    <2>1. 0 \in S
      BY <1>1
    <2>2. \A m \in Nat : m \in S => m + 1 \in S
      <3> HIDE DEF Runs
      <3> QED
        BY <1>2
    <2> HIDE DEF S
    <2> QED
      BY <2>1, <2>2, Inductive
  <1>4. Len(s) \in Nat
    OBVIOUS
  <1>5. Runs(Len(s))
    <2> HIDE DEF Runs
    <2> QED
      BY <1>3, <1>4
  <1> QED
    BY <1>5 DEF Totals

LEMMA TotalsUnique ==
    ASSUME NEW s \in Seq(Nat), NEW f, NEW g, Totals(s, f), Totals(s, g), NEW n \in 0..Len(s)
    PROVE  f[n] = g[n]
  <1> DEFINE S == {m \in Nat : m <= Len(s) => f[m] = g[m]}
  <1>1. 0 \in S
    BY DEF Totals
  <1>2. ASSUME NEW m \in Nat, m \in S
        PROVE  m + 1 \in S
    <2> SUFFICES ASSUME m + 1 <= Len(s)
                 PROVE  f[m + 1] = g[m + 1]
      OBVIOUS
    <2>1. m + 1 \in 1..Len(s) /\ (m + 1) - 1 = m
      OBVIOUS
    <2>2. f[m + 1] = f[m] + s[m + 1] /\ g[m + 1] = g[m] + s[m + 1]
      BY <2>1 DEF Totals
    <2> QED
      BY <1>2, <2>2
  <1>3. Nat \subseteq S
    <2> HIDE DEF S
    <2> QED
      BY <1>1, <1>2, Inductive
  <1> QED
    BY <1>3

\* The total is the last of the running totals, whichever function gives them.
LEMMA TotalIs ==
    ASSUME NEW s \in Seq(Nat), NEW f, Totals(s, f)
    PROVE  Total(s) = f[Len(s)]
  <1> DEFINE Is(g) == g = [n \in 0..Len(s) |-> IF n = 0 THEN 0 ELSE g[n - 1] + s[n]]
             h == CHOOSE g : Is(g)
  <1>1. f = [n \in 0..Len(s) |-> f[n]]
    BY DEF Totals
  <1>2. \A n \in 0..Len(s) : f[n] = IF n = 0 THEN 0 ELSE f[n - 1] + s[n]
    BY DEF Totals
  <1>3. Is(f)
    BY <1>1, <1>2
  <1>4. Is(h)
    <2> HIDE DEF Is
    <2> QED
      BY <1>3
  <1>5. \A n \in 0..Len(s) : h[n] = f[n]
    <2> DEFINE S == {m \in Nat : m <= Len(s) => h[m] = f[m]}
    <2>1. h[0] = 0 /\ f[0] = 0
      <3> HIDE DEF h
      <3> QED
        BY <1>4 DEF Totals
    <2>2. ASSUME NEW m \in Nat, m \in S
          PROVE  m + 1 \in S
      <3> SUFFICES ASSUME m + 1 <= Len(s)
                   PROVE  h[m + 1] = f[m + 1]
        OBVIOUS
      <3> HIDE DEF h
      <3>1. m + 1 \in 0..Len(s) /\ m + 1 # 0 /\ (m + 1) - 1 = m
        OBVIOUS
      <3>2. h[m + 1] = h[m] + s[m + 1]
        BY <1>4, <3>1
      <3>3. f[m + 1] = f[m] + s[m + 1]
        BY <1>2, <3>1
      <3> QED
        BY <2>2, <3>2, <3>3
    <2>3. Nat \subseteq S
      <3>1. 0 \in S
        BY <2>1
      <3> HIDE DEF S
      <3> QED
        BY <3>1, <2>2, Inductive
    <2> QED
      BY <2>3
  <1>6. Total(s) = h[Len(s)]
    BY DEF Total
  <1> QED
    BY <1>5, <1>6

LEMMA TotalNat ==
    ASSUME NEW s \in Seq(Nat)
    PROVE  Total(s) \in Nat
  <1>1. PICK f : Totals(s, f)
    BY TotalsExist
  <1> QED
    BY <1>1, TotalIs DEF Totals

LEMMA TotalEmpty == Total(<<>>) = 0
  <1>1. <<>> \in Seq(Nat) /\ Len(<<>>) = 0
    OBVIOUS
  <1>2. PICK f : Totals(<<>>, f)
    BY <1>1, TotalsExist
  <1> QED
    BY <1>1, <1>2, TotalIs DEF Totals

\* What is put at the end is added.
LEMMA TotalAppend ==
    ASSUME NEW s \in Seq(Nat), NEW x \in Nat
    PROVE  Total(Append(s, x)) = Total(s) + x
  <1> DEFINE t == Append(s, x)
  <1>1. t \in Seq(Nat) /\ Len(t) = Len(s) + 1 /\ t[Len(s) + 1] = x
        /\ \A n \in 1..Len(s) : t[n] = s[n]
    OBVIOUS
  <1>2. PICK f : Totals(t, f)
    BY <1>1, TotalsExist
  <1>3. Total(t) = f[Len(s)] + x
    <2>1. Total(t) = f[Len(t)]
      BY <1>1, <1>2, TotalIs
    <2>2. f[Len(s) + 1] = f[Len(s)] + x
      <3>1. Len(s) + 1 \in 1..Len(t) /\ (Len(s) + 1) - 1 = Len(s)
        BY <1>1
      <3>2. \A n \in 1..Len(t) : f[n] = f[n - 1] + t[n]
        BY <1>2 DEF Totals
      <3> HIDE DEF t
      <3> QED
        BY <1>1, <3>1, <3>2
    <2> QED
      BY <1>1, <2>1, <2>2
  <1> DEFINE g == [n \in 0..Len(s) |-> f[n]]
  <1>4. Totals(s, g)
    BY <1>1, <1>2 DEF Totals
  <1>5. Total(s) = g[Len(s)]
    BY <1>4, TotalIs
  <1> QED
    BY <1>3, <1>5

\* What is taken from the front is taken off.
LEMMA TotalTail ==
    ASSUME NEW s \in Seq(Nat), s # <<>>
    PROVE  Total(s) = Head(s) + Total(Tail(s))
  <1> DEFINE t == Tail(s)
  <1>1. t \in Seq(Nat) /\ Len(t) = Len(s) - 1 /\ Len(s) >= 1 /\ Head(s) = s[1] /\ s[1] \in Nat
        /\ \A n \in 1..Len(t) : t[n] = s[n + 1]
    OBVIOUS
  <1>2. PICK f : Totals(s, f)
    BY TotalsExist
  <1>3. PICK g : Totals(t, g)
    BY <1>1, TotalsExist
  <1>4. f[1] = s[1]
    BY <1>1, <1>2 DEF Totals
  <1>5. \A n \in 0..Len(t) : f[n + 1] = s[1] + g[n]
    <2> DEFINE S == {m \in Nat : m <= Len(t) => f[m + 1] = s[1] + g[m]}
    <2>1. 0 \in S
      BY <1>1, <1>3, <1>4 DEF Totals
    <2>2. ASSUME NEW m \in Nat, m \in S
          PROVE  m + 1 \in S
      <3> SUFFICES ASSUME m + 1 <= Len(t)
                   PROVE  f[(m + 1) + 1] = s[1] + g[m + 1]
        OBVIOUS
      <3>1. m + 1 \in 1..Len(t) /\ (m + 1) - 1 = m /\ m + 2 \in 1..Len(s) /\ (m + 2) - 1 = m + 1
            /\ m \in 0..Len(t)
        BY <1>1
      <3>2. g[m + 1] = g[m] + t[m + 1]
        BY <1>3, <3>1 DEF Totals
      <3>3. f[m + 2] = f[m + 1] + s[m + 2]
        BY <1>2, <3>1 DEF Totals
      <3>4. t[m + 1] = s[m + 2] /\ s[m + 2] \in Nat
        BY <1>1, <3>1
      <3>5. f[m + 1] = s[1] + g[m]
        BY <2>2, <3>1
      <3>6. g[m] \in Nat
        BY <3>1, <1>3 DEF Totals
      <3> QED
        BY <1>1, <3>2, <3>3, <3>4, <3>5, <3>6
    <2>3. Nat \subseteq S
      <3> HIDE DEF S
      <3> QED
        BY <2>1, <2>2, Inductive
    <2> QED
      BY <2>3
  <1>6. Total(s) = f[Len(s)] /\ Total(t) = g[Len(t)]
    BY <1>1, <1>2, <1>3, TotalIs
  <1> QED
    BY <1>1, <1>5, <1>6
-----------------------------------------------------------------------------
(* What is left of a queue *)

Left(m, gone) == IF m \in gone THEN <<>> ELSE <<m>>

Keeps(s, gone, f) ==
    f = [n \in 0..Len(s) |-> IF n = 0 THEN <<>> ELSE f[n - 1] \o Left(s[n], gone)]

LEMMA KeepsExist ==
    ASSUME NEW T, NEW s \in Seq(T), NEW gone
    PROVE  \E f : Keeps(s, gone, f)
  <1> DEFINE Step(f, n) == f[n] = f[n - 1] \o Left(s[n], gone)
             Runs(m) == \E f \in [0..m -> Seq(T)] : f[0] = <<>> /\ \A n \in 1..m : Step(f, n)
             S == {m \in Nat : m <= Len(s) => Runs(m)}
  <1>1. Runs(0)
    <2> DEFINE f == [i \in 0..0 |-> <<>>]
    <2>1. f \in [0..0 -> Seq(T)] /\ f[0] = <<>> /\ 1..0 = {}
      OBVIOUS
    <2> HIDE DEF f, Step
    <2> QED
      BY <2>1
  <1>2. ASSUME NEW m \in Nat, Runs(m), m + 1 <= Len(s)
        PROVE  Runs(m + 1)
    <2>1. PICK f \in [0..m -> Seq(T)] : f[0] = <<>> /\ \A n \in 1..m : Step(f, n)
      BY <1>2
    <2> DEFINE next == f[m] \o Left(s[m + 1], gone)
               g == [n \in 0..(m + 1) |-> IF n = m + 1 THEN next ELSE f[n]]
    <2>2. next \in Seq(T)
      <3>1. s[m + 1] \in T /\ f[m] \in Seq(T)
        BY <1>2
      <3>2. Left(s[m + 1], gone) \in Seq(T)
        BY <3>1 DEF Left
      <3> QED
        BY <3>1, <3>2
    <2>3. g \in [0..(m + 1) -> Seq(T)] /\ g[0] = <<>>
      <3> HIDE DEF next
      <3> QED
        BY <2>1, <2>2
    <2>4. ASSUME NEW n \in 1..(m + 1)
          PROVE  Step(g, n)
      <3>1. CASE n = m + 1
        <4>1. g[m + 1] = next /\ g[m] = f[m]
          <5> HIDE DEF next
          <5> QED
            OBVIOUS
        <4>2. n - 1 = m /\ g[n] = next /\ g[n - 1] = f[m]
          <5> HIDE DEF g, next
          <5> QED
            BY <3>1, <4>1
        <4> HIDE DEF g
        <4> QED
          BY <3>1, <4>2
      <3>2. CASE n \in 1..m
        <4>1. g[n] = f[n] /\ g[n - 1] = f[n - 1]
          <5> HIDE DEF next
          <5> QED
            BY <3>2
        <4>2. Step(f, n)
          BY <2>1, <3>2
        <4> HIDE DEF g
        <4> QED
          BY <4>1, <4>2
      <3>3. n = m + 1 \/ n \in 1..m
        OBVIOUS
      <3> HIDE DEF g, Step
      <3> QED
        BY <3>1, <3>2, <3>3
    <2> HIDE DEF g, Step
    <2> QED
      BY <2>3, <2>4
  <1>3. Nat \subseteq S
    <2>1. 0 \in S
      BY <1>1
    <2>2. \A m \in Nat : m \in S => m + 1 \in S
      <3> HIDE DEF Runs
      <3> QED
        BY <1>2
    <2> HIDE DEF S
    <2> QED
      BY <2>1, <2>2, Inductive
  <1>4. Runs(Len(s))
    <2>1. Len(s) \in Nat
      OBVIOUS
    <2> HIDE DEF Runs
    <2> QED
      BY <1>3, <2>1
  <1>5. PICK f \in [0..Len(s) -> Seq(T)] : f[0] = <<>> /\ \A n \in 1..Len(s) : Step(f, n)
    BY <1>4
  <1>6. f = [n \in 0..Len(s) |-> f[n]]
    OBVIOUS
  <1>7. ASSUME NEW n \in 0..Len(s)
        PROVE  f[n] = IF n = 0 THEN <<>> ELSE f[n - 1] \o Left(s[n], gone)
    <2>1. CASE n = 0
      BY <2>1, <1>5
    <2>2. CASE n # 0
      <3>1. n \in 1..Len(s)
        BY <2>2
      <3>2. Step(f, n)
        BY <1>5, <3>1
      <3> QED
        BY <2>2, <3>2
    <2> QED
      BY <2>1, <2>2
  <1> QED
    BY <1>6, <1>7 DEF Keeps

\* Nothing is left that was to go, and nothing is there that was not before.
LEMMA WithoutType ==
    ASSUME NEW T, NEW s \in Seq(T), NEW gone
    PROVE  Without(s, gone) \in Seq(T \ gone)
  <1> DEFINE h == CHOOSE f : Keeps(s, gone, f)
  <1>1. Keeps(s, gone, h)
    BY KeepsExist
  <1>2. Without(s, gone) = h[Len(s)]
    BY DEF Without, Keeps, Left
  <1> HIDE DEF h
  <1>3. Len(s) \in Nat
    OBVIOUS
  <1> DEFINE S == {m \in Nat : m <= Len(s) => h[m] \in Seq(T \ gone)}
  <1>5. 0 \in S
    <2>1. 0 \in 0..Len(s) /\ <<>> \in Seq(T \ gone)
      BY <1>3
    <2>2. h[0] = <<>>
      BY <1>1, <2>1 DEF Keeps
    <2> QED
      BY <2>1, <2>2
  <1>6. ASSUME NEW m \in Nat, m \in S
        PROVE  m + 1 \in S
    <2> SUFFICES ASSUME m + 1 <= Len(s)
                 PROVE  h[m + 1] \in Seq(T \ gone)
      OBVIOUS
    <2>1. m + 1 \in 0..Len(s) /\ m + 1 # 0 /\ (m + 1) - 1 = m
      OBVIOUS
    <2>2. h[m] \in Seq(T \ gone) /\ s[m + 1] \in T
      BY <1>6, <2>1
    <2>3. h[m + 1] = h[m] \o Left(s[m + 1], gone)
      BY <1>1, <2>1 DEF Keeps
    <2>4. Left(s[m + 1], gone) \in Seq(T \ gone)
      <3>1. CASE s[m + 1] \in gone
        BY <3>1 DEF Left
      <3>2. CASE s[m + 1] \notin gone
        <4>1. s[m + 1] \in T \ gone
          BY <2>2, <3>2
        <4> QED
          BY <3>2, <4>1 DEF Left
      <3> QED
        BY <3>1, <3>2
    <2> QED
      BY <2>2, <2>3, <2>4
  <1>7. Nat \subseteq S
    <2> HIDE DEF S
    <2> QED
      BY <1>5, <1>6, Inductive
  <1> QED
    BY <1>2, <1>3, <1>7

\* What is left stands where it stood: every message that was not to go, in its
\* order.  (`at` says where in s each of them was.)
LeftOf(s, gone, w, at) ==
    /\ at \in [1..Len(w) -> 1..Len(s)]
    /\ \A i \in 1..Len(w) : w[i] = s[at[i]] /\ w[i] \notin gone
    /\ \A i, j \in 1..Len(w) : i < j => at[i] < at[j]
    /\ \A k \in 1..Len(s) : s[k] \notin gone => \E i \in 1..Len(w) : at[i] = k

LEMMA WithoutKeeps ==
    ASSUME NEW T, NEW s \in Seq(T), NEW gone
    PROVE  \E at : LeftOf(s, gone, Without(s, gone), at)
  <1> DEFINE h == CHOOSE f : Keeps(s, gone, f)
  <1>1. Keeps(s, gone, h)
    BY KeepsExist
  <1>2. Without(s, gone) = h[Len(s)]
    BY DEF Without, Keeps, Left
  <1> HIDE DEF h
  <1> DEFINE Part(m, at) ==
               /\ h[m] \in Seq(T) /\ at \in [1..Len(h[m]) -> 1..m]
               /\ \A i \in 1..Len(h[m]) : h[m][i] = s[at[i]] /\ h[m][i] \notin gone
               /\ \A i, j \in 1..Len(h[m]) : i < j => at[i] < at[j]
               /\ \A k \in 1..m : s[k] \notin gone => \E i \in 1..Len(h[m]) : at[i] = k
             S == {m \in Nat : m <= Len(s) => \E at : Part(m, at)}
  <1>3. 0 \in S
    <2>1. h[0] = <<>>
      BY <1>1 DEF Keeps
    <2>2. <<>> \in Seq(T) /\ Len(<<>>) = 0 /\ 1..0 = {}
      OBVIOUS
    <2>3. Part(0, [i \in 1..0 |-> 1])
      BY <2>1, <2>2
    <2> QED
      BY <2>3
  <1>4. ASSUME NEW m \in Nat, m \in S
        PROVE  m + 1 \in S
    <2> SUFFICES ASSUME m + 1 <= Len(s)
                 PROVE  \E at : Part(m + 1, at)
      <3> HIDE DEF Part
      <3> QED
        OBVIOUS
    <2>1. PICK at : Part(m, at)
      BY <1>4
    <2>2. h[m + 1] = h[m] \o Left(s[m + 1], gone) /\ s[m + 1] \in T
      <3>1. m + 1 \in 0..Len(s) /\ m + 1 # 0 /\ (m + 1) - 1 = m
        OBVIOUS
      <3> QED
        BY <1>1, <3>1 DEF Keeps
    <2> DEFINE w == h[m]
               v == h[m + 1]
    <2>3. w \in Seq(T) /\ Len(w) \in Nat
      BY <2>1
    <2>4. CASE s[m + 1] \in gone
      <3>1. v = w
        BY <2>2, <2>3, <2>4 DEF Left
      <3>2. ASSUME NEW k \in 1..(m + 1), s[k] \notin gone
            PROVE  k \in 1..m
        BY <2>4, <3>2
      <3>3. at \in [1..Len(v) -> 1..(m + 1)]
        BY <2>1, <3>1
      <3> HIDE DEF v, w
      <3>4. Part(m + 1, at)
        BY <2>1, <3>1, <3>2, <3>3 DEF v, w
      <3> QED
        BY <3>4
    <2>5. CASE s[m + 1] \notin gone
      <3> DEFINE to == [i \in 1..(Len(w) + 1) |-> IF i = Len(w) + 1 THEN m + 1 ELSE at[i]]
      <3>1. v = Append(w, s[m + 1])
        <4>1. Left(s[m + 1], gone) = <<s[m + 1]>>
          BY <2>5 DEF Left
        <4> QED
          BY <2>2, <2>3, <4>1
      <3>2. /\ v \in Seq(T) /\ Len(v) = Len(w) + 1 /\ v[Len(w) + 1] = s[m + 1]
            /\ \A i \in 1..Len(w) : v[i] = w[i]
        BY <2>2, <2>3, <3>1
      <3>3. \A i \in 1..Len(w) : at[i] \in 1..m /\ w[i] = s[at[i]] /\ w[i] \notin gone
        BY <2>1
      <3> HIDE DEF v
      <3>4. /\ to \in [1..Len(v) -> 1..(m + 1)] /\ to[Len(w) + 1] = m + 1
            /\ \A i \in 1..Len(w) : to[i] = at[i]
        <4> HIDE DEF w
        <4> QED
          BY <2>3, <3>2, <3>3
      <3>5. \A i \in 1..Len(v) : i = Len(w) + 1 \/ i \in 1..Len(w)
        <4> HIDE DEF w
        <4> QED
          BY <2>3, <3>2
      <3> HIDE DEF to
      <3>6. \A i \in 1..Len(v) : v[i] = s[to[i]] /\ v[i] \notin gone
        <4> HIDE DEF w
        <4> QED
          BY <2>5, <3>2, <3>3, <3>4, <3>5
      <3>7. ASSUME NEW i \in 1..Len(v), NEW j \in 1..Len(v), i < j
            PROVE  to[i] < to[j]
        <4>1. i \in 1..Len(w)
          <5> HIDE DEF w
          <5> QED
            BY <2>3, <3>2, <3>7
        <4>2. CASE j = Len(w) + 1
          <5> HIDE DEF w
          <5> QED
            BY <4>1, <4>2, <3>3, <3>4
        <4>3. CASE j \in 1..Len(w)
          BY <2>1, <4>1, <4>3, <3>4, <3>7
        <4> QED
          BY <4>2, <4>3, <3>5
      <3>8. ASSUME NEW k \in 1..(m + 1), s[k] \notin gone
            PROVE  \E i \in 1..Len(v) : to[i] = k
        <4>1. CASE k = m + 1
          <5> HIDE DEF w
          <5> QED
            BY <2>3, <3>2, <3>4, <4>1
        <4>2. CASE k \in 1..m
          <5>1. PICK i \in 1..Len(w) : at[i] = k
            BY <2>1, <4>2, <3>8
          <5> HIDE DEF w
          <5>2. i \in 1..Len(v) /\ to[i] = k
            BY <2>3, <3>2, <3>4, <5>1
          <5> QED
            BY <5>2
        <4> QED
          BY <4>1, <4>2
      <3>9. Part(m + 1, to)
        BY <3>2, <3>4, <3>6, <3>7, <3>8 DEF v
      <3> QED
        BY <3>9
    <2> QED
      BY <2>4, <2>5
  <1>5. Nat \subseteq S
    <2> HIDE DEF S
    <2> QED
      BY <1>3, <1>4, Inductive
  <1>6. Len(s) \in Nat
    OBVIOUS
  <1>7. PICK at : Part(Len(s), at)
    <2> HIDE DEF Part
    <2> QED
      BY <1>5, <1>6
  <1> QED
    BY <1>2, <1>7 DEF LeftOf

LEMMA Wider ==
    ASSUME NEW S, NEW T, S \subseteq T, NEW s \in Seq(S)
    PROVE  s \in Seq(T)
  OBVIOUS

-----------------------------------------------------------------------------
(* Numbers in order *)

LEMMA RankFacts ==
    ASSUME NEW S, S \subseteq Nat, IsFiniteSet(S)
    PROVE  /\ \A n \in S : Rank(S, n) \in 1..Cardinality(S)
           /\ \A m, n \in S : m < n => Rank(S, m) < Rank(S, n)
           /\ \A m, n \in S : Rank(S, m) = Rank(S, n) => m = n
  <1> DEFINE Upto(n) == {m \in S : m <= n}
  <1>1. \A n \in S : IsFiniteSet(Upto(n)) /\ Cardinality(Upto(n)) \in Nat
                     /\ Cardinality(Upto(n)) <= Cardinality(S)
    <2> TAKE n \in S
    <2>1. Upto(n) \in SUBSET S
      OBVIOUS
    <2> HIDE DEF Upto
    <2> QED
      BY <2>1, FS_Subset, FS_CardinalityType
  <1>2. ASSUME NEW n \in S
        PROVE  Rank(S, n) \in 1..Cardinality(S)
    <2>1. n \in Upto(n)
      OBVIOUS
    <2>2. Cardinality(Upto(n)) # 0
      <3> HIDE DEF Upto
      <3> QED
        BY <1>1, <2>1, FS_EmptySet
    <2>3. Cardinality(S) \in Nat
      BY FS_CardinalityType
    <2> QED
      BY <1>1, <2>2, <2>3 DEF Rank
  <1>3. ASSUME NEW m \in S, NEW n \in S, m < n
        PROVE  Rank(S, m) < Rank(S, n)
    <2>1. m \in Nat /\ n \in Nat
      OBVIOUS
    <2>2. \A k \in S : k \in Nat /\ (k <= m => k <= n)
      BY <1>3, <2>1
    <2>3. Upto(m) \in SUBSET Upto(n)
      BY <2>2
    <2>4. n \in Upto(n) /\ n \notin Upto(m)
      BY <1>3, <2>1
    <2>5. Cardinality(Upto(m)) <= Cardinality(Upto(n)) /\ Cardinality(Upto(m)) # Cardinality(Upto(n))
      <3> HIDE DEF Upto
      <3> QED
        BY <1>1, <2>3, <2>4, FS_Subset
    <2> QED
      BY <1>1, <2>5 DEF Rank
  <1>4. ASSUME NEW m \in S, NEW n \in S, Rank(S, m) = Rank(S, n)
        PROVE  m = n
    <2>1. Rank(S, n) \in Nat /\ m \in Nat /\ n \in Nat
      BY <1>2
    <2>2. ~(m < n) /\ ~(n < m)
      BY <1>3, <1>4, <2>1
    <2> QED
      BY <2>1, <2>2
  <1> QED
    BY <1>2, <1>3, <1>4

\* Every number of the set is there once, each after the smaller ones.
LEMMA AscendingFacts ==
    ASSUME NEW S, S \subseteq Nat, IsFiniteSet(S)
    PROVE  /\ Ascending(S) \in Seq(S)
           /\ Len(Ascending(S)) = Cardinality(S)
           /\ \A n \in S : \E i \in 1..Len(Ascending(S)) : Ascending(S)[i] = n
           /\ \A i, j \in 1..Len(Ascending(S)) : i < j => Ascending(S)[i] < Ascending(S)[j]
  <1> DEFINE size == Cardinality(S)
             rank == [n \in S |-> Rank(S, n)]
             a == Ascending(S)
  <1>0. /\ \A n \in S : Rank(S, n) \in 1..size
        /\ \A m, n \in S : m < n => Rank(S, m) < Rank(S, n)
        /\ \A m, n \in S : Rank(S, m) = Rank(S, n) => m = n
    BY RankFacts
  <1>1. size \in Nat
    BY FS_CardinalityType
  <1>2. rank \in Injection(S, 1..size)
    <2>1. rank \in [S -> 1..size]
      BY <1>0
    <2>2. ASSUME NEW m \in S, NEW n \in S, rank[m] = rank[n]
          PROVE  m = n
      BY <1>0, <2>2
    <2> HIDE DEF rank
    <2> QED
      BY <2>1, <2>2 DEF Injection, IsInjective
  <1>3. rank \in Surjection(S, 1..size)
    <2>1. IsFiniteSet(1..size) /\ Cardinality(1..size) = size
      BY <1>1, FS_Interval
    <2> HIDE DEF rank
    <2> QED
      BY <1>2, <2>1, FS_Injection
  <1>4. \A i \in 1..size : \E n \in S : Rank(S, n) = i
    BY <1>3 DEF Surjection
  <1>5. \A i \in 1..size : a[i] \in S /\ Rank(S, a[i]) = i
    BY <1>4 DEF Ascending
  <1>6. a \in Seq(S) /\ Len(a) = size
    <2>1. a \in [1..size -> S]
      BY <1>5 DEF Ascending
    <2> HIDE DEF a
    <2> QED
      BY <1>1, <2>1
  <1>7. ASSUME NEW n \in S
        PROVE  \E i \in 1..size : a[i] = n
    <2>1. Rank(S, n) \in 1..size
      BY <1>0
    <2>2. a[Rank(S, n)] \in S /\ Rank(S, a[Rank(S, n)]) = Rank(S, n)
      BY <1>5, <2>1
    <2>3. a[Rank(S, n)] = n
      BY <1>0, <2>2
    <2> QED
      BY <2>1, <2>3
  <1>8. ASSUME NEW i \in 1..size, NEW j \in 1..size, i < j
        PROVE  a[i] < a[j]
    <2>1. a[i] \in S /\ a[j] \in S /\ Rank(S, a[i]) = i /\ Rank(S, a[j]) = j
      BY <1>5
    <2>2. a[i] \in Nat /\ a[j] \in Nat
      BY <2>1
    <2>3. i \in Nat /\ j \in Nat /\ ~(j < i) /\ i # j
      BY <1>1, <1>8
    <2>4. ~(a[j] < a[i]) /\ a[i] # a[j]
      <3> HIDE DEF a, size
      <3> QED
        BY <1>0, <2>1, <2>3
    <2> QED
      BY <2>2, <2>4
  <1> QED
    BY <1>6, <1>7, <1>8
=============================================================================
