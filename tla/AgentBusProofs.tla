---------------------------- MODULE AgentBusProofs ----------------------------
(***************************************************************************)
(* The agent bus for all teams, agents, page limits and seeds: what is     *)
(* read has been handled, an agent handles the generated messages in the   *)
(* order they were sent, and the store is one of AgentBusContract.  What   *)
(* FlattenSeq and the pages of the bus return is proved first.             *)
(***************************************************************************)
EXTENDS AgentBus, FiniteSetTheorems, SequenceTheorems, WellFoundedInduction, TLAPS

\* A set that holds 0 and the successor of each natural number it holds, holds them
\* all: else the least number it lacks has a predecessor, which it holds.
LEMMA SetInduction ==
  ASSUME NEW S, 0 \in S, \A n \in Nat : n \in S => n + 1 \in S
  PROVE  Nat \subseteq S
<1> SUFFICES ASSUME Nat \ S # {} PROVE FALSE
  OBVIOUS
<1>1. PICK n \in Nat \ S : \A m \in Nat \ S : <<m, n>> \notin OpToRel(<, Nat)
  BY NatLessThanWellFounded, WFMin, Nat \ S \subseteq Nat, Zenon
<1>2. n - 1 \in Nat \ S /\ n - 1 < n /\ (n - 1) + 1 = n
  OBVIOUS
<1> QED BY <1>1, <1>2, Zenon DEF OpToRel

-----------------------------------------------------------------------------
(* FlattenSeq, on a sequence of sequences over X.                          *)

Flattens(f, ss) ==
  \A i \in DOMAIN f : f[i] = IF i = 1 THEN ss[i] ELSE f[i - 1] \o ss[i]

(* The recursive definition of FlattenSeq defines a function.              *)
LEMMA FlatteningExists ==
  ASSUME NEW X, NEW ss \in Seq(Seq(X))
  PROVE  \E f \in [1..Len(ss) -> Seq(X)] : Flattens(f, ss)
<1> DEFINE S == {n \in Nat : n <= Len(ss) => \E f \in [1..n -> Seq(X)] : Flattens(f, ss)}
<1>1. 0 \in S
  <2>1. [i \in 1..0 |-> <<>>] \in [1..0 -> Seq(X)] /\ Flattens([i \in 1..0 |-> <<>>], ss)
    BY DEF Flattens
  <2> QED BY <2>1
<1>2. ASSUME NEW n \in Nat, n \in S PROVE n + 1 \in S
  <2>1. SUFFICES ASSUME n + 1 <= Len(ss)
                 PROVE  \E f \in [1..(n + 1) -> Seq(X)] : Flattens(f, ss)
    OBVIOUS
  <2>2. PICK f \in [1..n -> Seq(X)] : Flattens(f, ss)
    BY <1>2, <2>1
  <2> DEFINE last == IF n = 0 THEN ss[1] ELSE f[n] \o ss[n + 1]
             g    == [i \in 1..(n + 1) |-> IF i = n + 1 THEN last ELSE f[i]]
  <2>3. ss[n + 1] \in Seq(X)
    BY <2>1
  <2>4. last \in Seq(X)
    <3>1. CASE n = 0
      BY <2>3, <3>1
    <3>2. CASE n # 0
      <4>1. f[n] \in Seq(X)
        BY <3>2
      <4> QED BY <2>3, <3>2, <4>1
    <3> QED BY <3>1, <3>2
  <2>5. g \in [1..(n + 1) -> Seq(X)]
    <3> HIDE DEF last
    <3> QED BY <2>4
  <2>6. ASSUME NEW i \in 1..(n + 1) PROVE g[i] = IF i = 1 THEN ss[i] ELSE g[i - 1] \o ss[i]
    <3>1. CASE i # n + 1
      <4>1. i \in 1..n /\ (i # 1 => i - 1 \in 1..n)
        BY <3>1
      <4> HIDE DEF last
      <4>2. g[i] = f[i] /\ (i # 1 => g[i - 1] = f[i - 1])
        BY <4>1
      <4> QED BY <2>2, <4>1, <4>2 DEF Flattens
    <3>2. CASE i = n + 1
      <4>1. g[i] = last
        BY <3>2
      <4>2. n # 0 => g[i - 1] = f[n]
        BY <3>2
      <4> QED BY <3>2, <4>1, <4>2
    <3> QED BY <3>1, <3>2
  <2>7. Flattens(g, ss)
    BY <2>5, <2>6 DEF Flattens
  <2> QED BY <2>5, <2>7
<1>3. Nat \subseteq S
  <2> HIDE DEF S
  <2> QED BY <1>1, <1>2, SetInduction
<1>4. Len(ss) \in S
  <2> HIDE DEF S
  <2> QED BY <1>3
<1> QED BY <1>4

LEMMA FlattenSeqIsLast ==
  ASSUME NEW X, NEW ss \in Seq(Seq(X)), ss # <<>>
  PROVE  \E f \in [1..Len(ss) -> Seq(X)] : Flattens(f, ss) /\ FlattenSeq(ss) = f[Len(ss)]
<1> DEFINE Solves(g) == g = [i \in 1..Len(ss) |-> IF i = 1 THEN ss[i] ELSE g[i - 1] \o ss[i]]
           h == CHOOSE g : Solves(g)
<1>1. PICK f \in [1..Len(ss) -> Seq(X)] : Flattens(f, ss)
  BY FlatteningExists
<1>2. Solves(f)
  BY <1>1 DEF Flattens
<1>3. Solves(h)
  <2> HIDE DEF Solves
  <2> QED BY <1>2
<1>4. FlattenSeq(ss) = h[Len(ss)]
  BY DEF FlattenSeq
<1>5. h = f
  <2> DEFINE S == {n \in Nat : n \in 1..Len(ss) => h[n] = f[n]}
  <2>1. /\ h = [i \in 1..Len(ss) |-> h[i]]
        /\ \A i \in 1..Len(ss) : h[i] = IF i = 1 THEN ss[i] ELSE h[i - 1] \o ss[i]
    <3> HIDE DEF h
    <3> QED BY <1>3
  <2> HIDE DEF h
  <2>2. 0 \in S
    OBVIOUS
  <2>3. ASSUME NEW n \in Nat, n \in S PROVE n + 1 \in S
    <3>1. SUFFICES ASSUME n + 1 \in 1..Len(ss) PROVE h[n + 1] = f[n + 1]
      OBVIOUS
    <3>2. CASE n = 0
      <4>1. n + 1 = 1 /\ 1 \in 1..Len(ss)
        BY <3>1, <3>2
      <4>2. h[1] = ss[1] /\ f[1] = ss[1]
        BY <1>1, <2>1, <4>1 DEF Flattens
      <4> QED BY <4>1, <4>2
    <3>3. CASE n # 0
      <4>1. n \in 1..Len(ss) /\ n + 1 # 1 /\ (n + 1) - 1 = n
        BY <3>1, <3>3
      <4>2. h[n] = f[n]
        BY <2>3, <4>1
      <4>3. h[n + 1] = h[n] \o ss[n + 1]
        BY <2>1, <3>1, <4>1
      <4>4. f[n + 1] = f[n] \o ss[n + 1]
        BY <1>1, <3>1, <4>1 DEF Flattens
      <4> QED BY <4>2, <4>3, <4>4
    <3> QED BY <3>2, <3>3
  <2>4. Nat \subseteq S
    <3> HIDE DEF S
    <3> QED BY <2>2, <2>3, SetInduction
  <2>5. \A n \in 1..Len(ss) : h[n] = f[n]
    BY <2>4
  <2> QED BY <2>1, <2>5
<1> QED BY <1>1, <1>4, <1>5

LEMMA ConcatRange ==
  ASSUME NEW X, NEW s \in Seq(X), NEW t \in Seq(X)
  PROVE  /\ s \o t \in Seq(X)
         /\ Range(s \o t) = Range(s) \cup Range(t)
         /\ IsInjective(s) /\ IsInjective(t) /\ Range(s) \cap Range(t) = {}
              => IsInjective(s \o t)
<1> DEFINE u == s \o t
<1>1. /\ u \in Seq(X) /\ DOMAIN u = 1..(Len(s) + Len(t))
      /\ DOMAIN s = 1..Len(s) /\ DOMAIN t = 1..Len(t)
      /\ \A i \in 1..Len(s) : u[i] = s[i]
      /\ \A i \in 1..Len(t) : u[Len(s) + i] = t[i]
      /\ \A i \in DOMAIN u : i \notin 1..Len(s) => u[i] = t[i - Len(s)] /\ i - Len(s) \in 1..Len(t)
  OBVIOUS
<1>2. \A i \in 1..Len(s) : i \in DOMAIN u
  BY <1>1
<1>3. \A i \in 1..Len(t) : Len(s) + i \in DOMAIN u
  BY <1>1
<1> HIDE DEF u
<1>4. Range(u) = Range(s) \cup Range(t)
  <2>1. ASSUME NEW x \in Range(u) PROVE x \in Range(s) \cup Range(t)
    <3>1. PICK i \in DOMAIN u : x = u[i]
      BY <2>1 DEF Range
    <3> QED BY <1>1, <3>1 DEF Range
  <2>2. Range(s) \subseteq Range(u)
    BY <1>1, <1>2 DEF Range
  <2>3. ASSUME NEW x \in Range(t) PROVE x \in Range(u)
    <3>1. PICK i \in 1..Len(t) : x = t[i]
      BY <1>1 DEF Range
    <3>2. Len(s) + i \in DOMAIN u /\ u[Len(s) + i] = x
      BY <1>1, <1>3, <3>1
    <3> QED BY <3>2 DEF Range
  <2> QED BY <2>1, <2>2, <2>3
<1>5. ASSUME IsInjective(s), IsInjective(t), Range(s) \cap Range(t) = {},
             NEW i \in DOMAIN u, NEW j \in DOMAIN u, u[i] = u[j]
      PROVE  i = j
  <2>1. CASE i \in 1..Len(s) /\ j \in 1..Len(s)
    BY <1>1, <1>5, <2>1 DEF IsInjective
  <2>2. CASE i \notin 1..Len(s) /\ j \notin 1..Len(s)
    <3>1. i - Len(s) = j - Len(s)
      BY <1>1, <1>5, <2>2 DEF IsInjective
    <3> QED BY <1>1, <3>1
  <2>3. \A k \in DOMAIN u : IF k \in 1..Len(s) THEN u[k] \in Range(s) ELSE u[k] \in Range(t)
    BY <1>1 DEF Range
  <2>4. i \in 1..Len(s) <=> j \in 1..Len(s)
    BY <1>5, <2>3
  <2> QED BY <2>1, <2>2, <2>4
<1> QED BY <1>1, <1>4, <1>5 DEF u, IsInjective

(* What FlattenSeq returns holds the elements of all the sequences, and no *)
(* element twice if none of them does and no two share one.                *)
LEMMA FlattenSeqRange ==
  ASSUME NEW X, NEW ss \in Seq(Seq(X))
  PROVE  /\ FlattenSeq(ss) \in Seq(X)
         /\ Range(FlattenSeq(ss)) = UNION {Range(ss[t]) : t \in DOMAIN ss}
         /\ /\ \A t \in DOMAIN ss : IsInjective(ss[t])
            /\ \A t, u \in DOMAIN ss : t # u => Range(ss[t]) \cap Range(ss[u]) = {}
            => IsInjective(FlattenSeq(ss))
<1>1. CASE ss = <<>>
  <2>1. FlattenSeq(ss) = <<>>
    BY <1>1 DEF FlattenSeq
  <2>2. <<>> \in Seq(X) /\ Range(<<>>) = {} /\ IsInjective(<<>>)
    BY DEF Range, IsInjective
  <2>3. DOMAIN ss = {}
    BY <1>1
  <2>4. UNION {Range(ss[t]) : t \in DOMAIN ss} = {}
    BY <2>3, Zenon
  <2> QED BY <2>1, <2>2, <2>4
<1>2. CASE ss # <<>>
  <2>1. PICK f \in [1..Len(ss) -> Seq(X)] : Flattens(f, ss) /\ FlattenSeq(ss) = f[Len(ss)]
    BY <1>2, FlattenSeqIsLast
  <2> DEFINE Apart ==
               /\ \A t \in DOMAIN ss : IsInjective(ss[t])
               /\ \A t, u \in DOMAIN ss : t # u => Range(ss[t]) \cap Range(ss[u]) = {}
             All(n) == UNION {Range(ss[t]) : t \in 1..n}
             S == {n \in Nat : n \in 1..Len(ss) =>
                                 Range(f[n]) = All(n) /\ (Apart => IsInjective(f[n]))}
  <2>2. 0 \in S
    OBVIOUS
  <2>3. ASSUME NEW n \in Nat, n \in S PROVE n + 1 \in S
    <3>1. SUFFICES ASSUME n + 1 \in 1..Len(ss)
                   PROVE  Range(f[n + 1]) = All(n + 1) /\ (Apart => IsInjective(f[n + 1]))
      OBVIOUS
    <3>2. n + 1 \in DOMAIN ss /\ ss[n + 1] \in Seq(X)
      BY <3>1
    <3>3. CASE n = 0
      <4>1. f[n + 1] = ss[n + 1]
        <5>1. n + 1 = 1 /\ 1 \in 1..Len(ss)
          BY <3>1, <3>3
        <5> QED BY <2>1, <5>1 DEF Flattens
      <4>2. All(n + 1) = Range(ss[n + 1])
        <5>1. 1..(n + 1) = {n + 1}
          BY <3>3
        <5> QED BY <5>1, Zenon
      <4> QED BY <3>2, <4>1, <4>2
    <3>4. CASE n # 0
      <4>1. n \in 1..Len(ss) /\ n + 1 # 1 /\ (n + 1) - 1 = n
        BY <3>1, <3>4
      <4>2. f[n + 1] = f[n] \o ss[n + 1]
        BY <2>1, <3>1, <4>1 DEF Flattens
      <4>3. f[n] \in Seq(X) /\ Range(f[n]) = All(n) /\ (Apart => IsInjective(f[n]))
        BY <2>3, <4>1
      <4>4. All(n + 1) = All(n) \cup Range(ss[n + 1])
        <5>1. 1..(n + 1) = 1..n \cup {n + 1}
          BY <4>1
        <5> QED BY <5>1, Zenon
      <4>5. Apart => All(n) \cap Range(ss[n + 1]) = {}
        <5>1. \A t \in 1..n : t \in DOMAIN ss /\ t # n + 1
          BY <4>1
        <5> QED BY <3>2, <5>1, Zenon
      <4>6. Apart => IsInjective(ss[n + 1])
        BY <3>2
      <4>7. /\ Range(f[n] \o ss[n + 1]) = Range(f[n]) \cup Range(ss[n + 1])
            /\ IsInjective(f[n]) /\ IsInjective(ss[n + 1])
                 /\ Range(f[n]) \cap Range(ss[n + 1]) = {}
                 => IsInjective(f[n] \o ss[n + 1])
        BY <3>2, <4>3, ConcatRange
      <4> HIDE DEF Apart, All
      <4> QED BY <4>2, <4>3, <4>4, <4>5, <4>6, <4>7
    <3> QED BY <3>3, <3>4
  <2>4. Nat \subseteq S
    <3> HIDE DEF S
    <3> QED BY <2>2, <2>3, SetInduction
  <2>5. Len(ss) \in Nat /\ Len(ss) \in 1..Len(ss) /\ DOMAIN ss = 1..Len(ss)
    BY <1>2
  <2>6. Range(f[Len(ss)]) = All(Len(ss)) /\ (Apart => IsInjective(f[Len(ss)]))
    BY <2>4, <2>5
  <2> QED BY <2>1, <2>5, <2>6
<1> QED BY <1>1, <1>2

-----------------------------------------------------------------------------
(* OldestFirst.                                                            *)

Stored == messages \in Seq(Message)

LEMMA MessageFields ==
  ASSUME NEW ms \in Seq(Message), NEW i \in DOMAIN ms
  PROVE  /\ ms[i] \in Message /\ ms[i].id \in Ids /\ ms[i].at \in Nat
         /\ ms[i].id.n \in Nat /\ ms[i].id.kind \in {"message", "seed"}
         /\ Generated(ms[i].id) \in Nat
         /\ ms[i].team \in Range(Teams) /\ ms[i].to \in Agents \cup {None}
<1>1. ms[i] \in Message
  OBVIOUS
<1>2. ms[i].id \in Ids /\ ms[i].at \in Nat /\ ms[i].team \in Range(Teams)
      /\ ms[i].to \in Agents \cup {None}
  BY <1>1 DEF Message
<1>3. ms[i].id.n \in Nat /\ ms[i].id.kind \in {"message", "seed"}
  BY <1>2 DEF Ids
<1> QED BY <1>1, <1>2, <1>3 DEF Generated

LEMMA EarlierOrder ==
  ASSUME NEW l \in Message, NEW m \in Message, NEW n \in Message
  PROVE  /\ ~ (Earlier(l, m) /\ Earlier(m, l))
         /\ Earlier(l, m) /\ Earlier(m, n) => Earlier(l, n)
         /\ ~ Earlier(l, m) /\ ~ Earlier(m, n) => ~ Earlier(l, n)
<1>1. /\ l.at \in Nat /\ m.at \in Nat /\ n.at \in Nat
      /\ l.id.n \in Nat /\ m.id.n \in Nat /\ n.id.n \in Nat
      /\ l.id.kind \in {"message", "seed"} /\ m.id.kind \in {"message", "seed"}
      /\ n.id.kind \in {"message", "seed"}
  BY DEF Message, Ids
<1> QED BY <1>1 DEF Earlier

LEMMA PrecedesOrder ==
  ASSUME Stored, NEW i \in DOMAIN messages, NEW j \in DOMAIN messages,
         NEW k \in DOMAIN messages
  PROVE  /\ ~ Precedes(i, i)
         /\ i # j => Precedes(i, j) \/ Precedes(j, i)
         /\ Precedes(i, j) /\ Precedes(j, k) => Precedes(i, k)
<1>1. messages[i] \in Message /\ messages[j] \in Message /\ messages[k] \in Message
  BY DEF Stored
<1>2. i \in Nat /\ j \in Nat /\ k \in Nat
  BY DEF Stored
<1>3. ~ Precedes(i, i)
  BY <1>2 , <1>1, EarlierOrder DEF Precedes
<1>4. i # j => Precedes(i, j) \/ Precedes(j, i)
  BY <1>1, <1>2, EarlierOrder DEF Precedes
<1>5. ASSUME Precedes(i, j), Precedes(j, k) PROVE Precedes(i, k)
  <2> DEFINE E(x, y) == Earlier(messages[x], messages[y])
  <2>1. ~ E(j, i) /\ ~ E(k, j)
    BY <1>1, <1>5, EarlierOrder DEF Precedes
  <2>2. ~ E(k, i)
    BY <1>1, <2>1, EarlierOrder
  <2>3. (E(i, j) \/ i < j) /\ (E(j, k) \/ j < k)
    BY <1>5 DEF Precedes
  <2>4. CASE E(i, j)
    <3>1. E(i, k)
      <4>1. E(i, j) /\ ~ E(k, j) /\ ~ E(i, k) => FALSE
        BY <1>1, EarlierOrder
      <4> QED BY <2>1, <2>4, <4>1
    <3> QED BY <3>1 DEF Precedes
  <2>5. CASE E(j, k)
    <3>1. E(i, k)
      <4>1. E(j, k) /\ ~ E(j, i) /\ ~ E(i, k) => FALSE
        BY <1>1, EarlierOrder
      <4> QED BY <2>1, <2>5, <4>1
    <3> QED BY <3>1 DEF Precedes
  <2>6. CASE i < j /\ j < k
    BY <1>2, <2>2, <2>6 DEF Precedes
  <2> QED BY <2>3, <2>4, <2>5, <2>6
<1> QED BY <1>3, <1>4, <1>5

Rank(places, i) == Cardinality({j \in places : Precedes(j, i)})

LEMMA PlacesFinite ==
  ASSUME Stored, NEW places \in SUBSET DOMAIN messages
  PROVE  IsFiniteSet(places) /\ Cardinality(places) \in Nat
<1>1. IsFiniteSet(DOMAIN messages)
  <2>1. Len(messages) \in Int /\ DOMAIN messages = 1..Len(messages)
    BY DEF Stored
  <2> QED BY <2>1, FS_Interval
<1> QED BY <1>1, FS_Subset, FS_CardinalityType

LEMMA RankOrder ==
  ASSUME Stored, NEW places \in SUBSET DOMAIN messages, NEW i \in places
  PROVE  /\ Rank(places, i) \in 0..(Cardinality(places) - 1)
         /\ \A j \in places : Precedes(i, j) => Rank(places, i) < Rank(places, j)
<1> DEFINE Before(j) == {k \in places : Precedes(k, j)}
<1>1. /\ IsFiniteSet(places) /\ Cardinality(places) \in Nat
      /\ \A j \in places : IsFiniteSet(Before(j)) /\ Cardinality(Before(j)) \in Nat
  <2>1. \A j \in places : Before(j) \in SUBSET DOMAIN messages
    OBVIOUS
  <2> QED BY <2>1, PlacesFinite
<1>2. i \notin Before(i)
  BY PrecedesOrder
<1>3. Cardinality(Before(i)) < Cardinality(places)
  <2>1. Before(i) \in SUBSET places
    OBVIOUS
  <2> HIDE DEF Before
  <2>2. Cardinality(Before(i)) <= Cardinality(places)
        /\ (Cardinality(places) = Cardinality(Before(i)) => places = Before(i))
    BY <1>1, <2>1, FS_Subset
  <2> QED BY <1>1, <1>2, <2>2
<1>4. ASSUME NEW j \in places, Precedes(i, j)
      PROVE  Cardinality(Before(i)) < Cardinality(Before(j))
  <2>1. Before(i) \in SUBSET Before(j)
    <3>1. \A k \in places : Precedes(k, i) => Precedes(k, j)
      BY <1>4, PrecedesOrder
    <3> QED BY <3>1
  <2>2. i \in Before(j)
    BY <1>4
  <2> HIDE DEF Before
  <2>3. Cardinality(Before(i)) <= Cardinality(Before(j))
        /\ (Cardinality(Before(j)) = Cardinality(Before(i)) => Before(j) = Before(i))
    BY <1>1, <2>1, FS_Subset
  <2> QED BY <1>1, <1>2, <2>2, <2>3
<1> QED BY <1>1, <1>3, <1>4 DEF Rank

(* Each rank below the number of places is taken, by one place.            *)
LEMMA RankOnto ==
  ASSUME Stored, NEW places \in SUBSET DOMAIN messages, NEW k \in 0..(Cardinality(places) - 1)
  PROVE  \E i \in places : Rank(places, i) = k
<1> DEFINE ranks == 0..(Cardinality(places) - 1)
           f     == [i \in places |-> Rank(places, i)]
<1>1. IsFiniteSet(places) /\ Cardinality(places) \in Nat
  BY PlacesFinite
<1>2. f \in [places -> ranks]
  BY RankOrder
<1>3. ASSUME NEW i \in places, NEW j \in places, f[i] = f[j] PROVE i = j
  <2>1. Rank(places, i) = Rank(places, j)
    BY <1>3
  <2>2. Rank(places, i) \in Nat /\ Rank(places, j) \in Nat
    BY <1>1, RankOrder
  <2>3. ~ Precedes(i, j) /\ ~ Precedes(j, i)
    BY <2>1, <2>2, RankOrder
  <2> QED BY <2>3, PrecedesOrder
<1>4. f \in Injection(places, ranks)
  BY <1>2, <1>3 DEF Injection, IsInjective
<1>5. IsFiniteSet(ranks) /\ Cardinality(ranks) = Cardinality(places)
  <2>1. Cardinality(places) - 1 \in Int
    BY <1>1
  <2> QED BY <1>1, <2>1, FS_Interval
<1>6. f \in Surjection(places, ranks)
  <2> HIDE DEF f, ranks
  <2> QED BY <1>4, <1>5, FS_Injection
<1>7. \E i \in places : f[i] = k
  BY <1>6 DEF Surjection
<1> QED BY <1>7

(* A page: what OldestFirst returns are the messages at distinct places,   *)
(* each before the next and before every place left out.                   *)
IsPicked(pick, places, limit) ==
  LET most == IF Cardinality(places) < limit THEN Cardinality(places) ELSE limit
  IN  /\ pick \in [1..most -> places]
      /\ OldestFirst(places, limit) = [k \in 1..most |-> messages[pick[k]]]
      /\ \A k, l \in 1..most : k < l => Precedes(pick[k], pick[l])
      /\ \A k, l \in 1..most : pick[k] = pick[l] => k = l
      /\ \A i \in places : i \in Range(pick) \/ \A k \in 1..most : Precedes(pick[k], i)

LEMMA OldestFirstPicks ==
  ASSUME Stored, NEW places \in SUBSET DOMAIN messages, NEW limit \in Nat
  PROVE  \E pick : IsPicked(pick, places, limit)
<1> DEFINE size == Cardinality(places)
           most == IF size < limit THEN size ELSE limit
           pick == [k \in 1..most |-> CHOOSE i \in places : Rank(places, i) = k - 1]
<1>1. size \in Nat /\ most \in Nat /\ most <= size
  BY PlacesFinite
<1>2. ASSUME NEW k \in 1..most
      PROVE  pick[k] \in places /\ Rank(places, pick[k]) = k - 1
  <2>1. k - 1 \in 0..(size - 1)
    BY <1>1
  <2>2. \E i \in places : Rank(places, i) = k - 1
    BY <2>1, RankOnto
  <2> QED BY <2>2
<1>3. pick \in [1..most -> places]
  BY <1>2
<1>4. OldestFirst(places, limit) = [k \in 1..most |-> messages[pick[k]]]
  BY DEF OldestFirst, Rank
<1> HIDE DEF pick
<1>5. ASSUME NEW i \in places, NEW j \in places, Rank(places, i) < Rank(places, j)
      PROVE  Precedes(i, j)
  <2>1. Rank(places, i) \in Nat /\ Rank(places, j) \in Nat
    BY <1>1, RankOrder
  <2>2. ~ Precedes(j, i)
    <3>1. Precedes(j, i) => Rank(places, j) < Rank(places, i)
      BY RankOrder
    <3> QED BY <1>5, <2>1, <3>1
  <2>3. i # j
    BY <1>5, <2>1
  <2> QED BY <2>2, <2>3, PrecedesOrder
<1>6. \A k, l \in 1..most : k < l => Precedes(pick[k], pick[l])
  BY <1>1, <1>2, <1>5
<1>7. \A k, l \in 1..most : pick[k] = pick[l] => k = l
  <2>1. \A k, l \in 1..most : pick[k] = pick[l] => k - 1 = l - 1
    BY <1>2
  <2> QED BY <1>1, <2>1
<1>8. ASSUME NEW i \in places, i \notin Range(pick), NEW k \in 1..most
      PROVE  Precedes(pick[k], i)
  <2>1. Rank(places, i) \in Nat
    BY <1>1, RankOrder
  <2>2. Rank(places, i) >= most
    <3>1. SUFFICES ASSUME Rank(places, i) < most PROVE FALSE
      BY <1>1, <2>1
    <3>2. Rank(places, i) + 1 \in 1..most
      BY <1>1, <2>1, <3>1
    <3> DEFINE p == pick[Rank(places, i) + 1]
    <3>3. p \in places /\ Rank(places, p) = Rank(places, i)
      BY <1>2, <2>1, <3>2
    <3>4. p = i
      <4>1. ~ Precedes(p, i) /\ ~ Precedes(i, p)
        BY <2>1, <3>3, RankOrder
      <4> QED BY <3>3, <4>1, PrecedesOrder
    <3> QED BY <1>3, <1>8, <3>2, <3>4 DEF Range
  <2> QED BY <1>1, <1>2, <1>5, <2>1, <2>2
<1> QED BY <1>3, <1>4, <1>6, <1>7, <1>8 DEF IsPicked

-----------------------------------------------------------------------------
(* The inductive invariant.                                                *)

(* An id is of one message, and no id is generated twice.                  *)
Identified ==
  /\ \A i, j \in DOMAIN messages : messages[i].id = messages[j].id => i = j
  /\ \A i \in DOMAIN messages : Generated(messages[i].id) <= sequence
  /\ \A i \in DOMAIN messages :
       messages[i].id.kind = "message" => messages[i].at = messages[i].id.n

(* A page that an agent has not worked off holds unread messages of its    *)
(* own, each of them once.                                                 *)
PageIsUnread ==
  \A a \in Agents :
    /\ \A k \in DOMAIN inbox[a] : \E i \in UnreadBy(a) : messages[i].id = inbox[a][k]
    /\ \A k, l \in DOMAIN inbox[a] : inbox[a][k] = inbox[a][l] => k = l

Older(id, other) == id.kind = "message" /\ other.kind = "message" => id.n < other.n

(* It is in order, and what it left out comes after it.                    *)
PageIsOldest ==
  \A a \in Agents : \A k \in DOMAIN inbox[a] :
    /\ \A l \in DOMAIN inbox[a] : k < l => Older(inbox[a][k], inbox[a][l])
    /\ \A i \in UnreadBy(a) : messages[i].id \notin Range(inbox[a]) =>
                                Older(inbox[a][k], messages[i].id)

(* What an agent has marked comes before all that it has not read.         *)
HandledIsOlder ==
  \A a \in Agents : \A k \in DOMAIN handled[a] : \A i \in UnreadBy(a) :
    Older(handled[a][k], messages[i].id)

(* The store keeps every message, so a marked id is never generated again. *)
HandledIsKept ==
  \A a \in Agents : \A k \in DOMAIN handled[a] :
    \E i \in DOMAIN messages : messages[i].id = handled[a][k]

BusInv ==
  /\ TypeOK /\ Identified /\ HandledIsKept
  /\ PageIsUnread /\ PageIsOldest /\ HandledIsOlder
  /\ ReadIsHandled /\ HandledInOrder

-----------------------------------------------------------------------------
(* A finite set of naturals that is not empty has a greatest element.      *)
LEMMA GreatestExists ==
  ASSUME NEW T, T \subseteq Nat, IsFiniteSet(T), T # {}
  PROVE  MaxOf(T) \in T /\ \A m \in T : m <= MaxOf(T)
<1> DEFINE HasMax(U) == \E n \in U : \A m \in U : m <= n
           S == {n \in Nat : \A U \in SUBSET T :
                   Cardinality(U) = n /\ U # {} => HasMax(U)}
<1>1. 0 \in S
  <2>1. \A U \in SUBSET T : Cardinality(U) = 0 => U = {}
    BY FS_Subset, FS_EmptySet
  <2> QED BY <2>1
<1>2. ASSUME NEW n \in Nat, n \in S PROVE n + 1 \in S
  <2>1. SUFFICES ASSUME NEW U \in SUBSET T, Cardinality(U) = n + 1, U # {}
                 PROVE  HasMax(U)
    <3> HIDE DEF HasMax
    <3> QED OBVIOUS
  <2>2. PICK x \in U : TRUE
    BY <2>1
  <2>3. U \ {x} \in SUBSET T /\ Cardinality(U \ {x}) = n
    <3>1. IsFiniteSet(U)
      BY FS_Subset
    <3>2. Cardinality(U \ {x}) = Cardinality(U) - 1
      BY <3>1, <2>2, FS_RemoveElement
    <3> QED BY <2>1, <3>2
  <2>4. CASE U \ {x} = {}
    <3>1. x \in Nat
      BY <2>2
    <3>2. \A m \in U : m = x
      BY <2>4
    <3> QED BY <2>2, <3>1, <3>2
  <2>5. CASE U \ {x} # {}
    <3>1. HasMax(U \ {x})
      BY <1>2, <2>3, <2>5
    <3>2. PICK y \in U \ {x} : \A m \in U \ {x} : m <= y
      BY <3>1
    <3>3. x \in Nat /\ y \in Nat /\ U \subseteq Nat
      BY <2>2
    <3>4. CASE x <= y
      <4>1. \A m \in U : m <= y
        BY <3>2, <3>4
      <4> QED BY <4>1
    <3>5. CASE y <= x
      <4>1. \A m \in U : m <= x
        BY <3>2, <3>3, <3>5
      <4> QED BY <2>2, <4>1
    <3> QED BY <3>3, <3>4, <3>5
  <2> QED BY <2>4, <2>5
<1>3. Nat \subseteq S
  <2> HIDE DEF S
  <2> QED BY <1>1, <1>2, SetInduction
<1>4. HasMax(T)
  <2>1. Cardinality(T) \in Nat
    BY FS_CardinalityType
  <2> QED BY <1>3, <2>1
<1> QED BY <1>4 DEF MaxOf

(* The sequence of a new store is no less than any number generated.       *)
LEMMA HighestBounds ==
  ASSUME NEW ms \in Seq(Message), NEW es \in SUBSET (1..MaxSequence)
  PROVE  /\ Highest(ms, es) \in Nat
         /\ \A i \in DOMAIN ms : Generated(ms[i].id) <= Highest(ms, es)
<1> DEFINE G == {Generated(ms[i].id) : i \in DOMAIN ms}
           f == [i \in DOMAIN ms |-> Generated(ms[i].id)]
           T == {0} \cup G \cup es
<1>1. G \subseteq Nat
  <2>1. \A i \in DOMAIN ms : Generated(ms[i].id) \in Nat
    BY MessageFields
  <2> QED BY <2>1
<1>2. IsFiniteSet(G)
  <2>1. IsFiniteSet(DOMAIN ms)
    <3>1. Len(ms) \in Int /\ DOMAIN ms = 1..Len(ms)
      OBVIOUS
    <3> QED BY <3>1, FS_Interval
  <2>2. f \in Surjection(DOMAIN ms, G)
    BY DEF Surjection
  <2> HIDE DEF f, G
  <2> QED BY <2>1, <2>2, FS_Surjection
<1>3. IsFiniteSet(es)
  <2>1. IsFiniteSet(1..MaxSequence)
    BY BusAssumption, FS_Interval
  <2> QED BY <2>1, FS_Subset
<1>4. IsFiniteSet(T)
  <2> HIDE DEF G
  <2>1. IsFiniteSet({0})
    BY FS_Singleton
  <2>2. IsFiniteSet({0} \cup G)
    BY <1>2, <2>1, FS_Union
  <2> QED BY <1>3, <2>2, FS_Union
<1>5. T \subseteq Nat /\ T # {}
  <2>1. 1..MaxSequence \subseteq Nat
    BY BusAssumption
  <2> HIDE DEF G
  <2> QED BY <1>1, <2>1
<1>6. MaxOf(T) \in T /\ \A m \in T : m <= MaxOf(T)
  <2> HIDE DEF T
  <2> QED BY <1>4, <1>5, GreatestExists
<1>7. \A i \in DOMAIN ms : Generated(ms[i].id) \in T
  OBVIOUS
<1>8. Highest(ms, es) = MaxOf(T)
  BY DEF Highest
<1> HIDE DEF T
<1> QED BY <1>5, <1>6, <1>7, <1>8

LEMMA InitInv == Init => BusInv
<1> SUFFICES ASSUME Init PROVE BusInv
  OBVIOUS
<1>1. /\ messages \in Seq(Message)
      /\ \A i, j \in DOMAIN messages : messages[i].id = messages[j].id => i = j
      /\ \A i \in DOMAIN messages : messages[i].read = NotRead
      /\ \A i \in DOMAIN messages :
           messages[i].id.kind = "message" => messages[i].at = messages[i].id.n
  BY SeedsAssumption DEF Init
<1>2. sequence \in Nat /\ \A i \in DOMAIN messages : Generated(messages[i].id) <= sequence
  BY <1>1, HighestBounds DEF Init
<1>3. \A a \in Agents : inbox[a] = <<>> /\ handled[a] = <<>>
  BY DEF Init
<1>4. TypeOK
  BY <1>1, <1>2, BusAssumption DEF Init, TypeOK
<1>5. Identified
  BY <1>1, <1>2 DEF Identified
<1>6. PageIsUnread /\ PageIsOldest /\ HandledIsOlder /\ HandledIsKept /\ HandledInOrder
  BY <1>3 DEF PageIsUnread, PageIsOldest, HandledIsOlder, HandledIsKept, HandledInOrder
<1>7. ReadIsHandled
  BY <1>1 DEF ReadIsHandled
<1> QED BY <1>4, <1>5, <1>6, <1>7 DEF BusInv

-----------------------------------------------------------------------------
(* sendMessage: the new message is younger than all that is stored.        *)
LEMMA SendMessageInv ==
  ASSUME BusInv, NEW in \in Sends, SendMessage(in)
  PROVE  BusInv'
<1> DEFINE m   == [id |-> [kind |-> "message", n |-> sequence'], team |-> in.team,
                   run |-> in.run, from |-> in.from, to |-> in.to, type |-> in.type,
                   at |-> sequence', read |-> NotRead]
           new == Len(messages) + 1
<1>1. sequence \in Nat /\ sequence' = sequence + 1 /\ messages' = Append(messages, m)
  BY DEF SendMessage, BusInv, TypeOK
<1>2. m \in Message
  <2>1. /\ in.team \in Range(Teams) /\ in.run \in Runs \cup {None} /\ in.from \in Agents
        /\ in.to \in Agents \cup {None} /\ in.type \in Types
    BY DEF SendMessage, Accepts, Known, InTeam, RunInTeam
  <2>2. m.id \in Ids /\ sequence' \in Nat
    BY <1>1 DEF Ids
  <2> QED BY <2>1, <2>2 DEF Message
<1>3. /\ messages \in Seq(Message) /\ messages' \in Seq(Message)
      /\ new \notin DOMAIN messages /\ DOMAIN messages' = DOMAIN messages \cup {new}
      /\ messages'[new] = m
      /\ \A i \in DOMAIN messages : messages'[i] = messages[i]
  BY <1>1, <1>2 DEF BusInv, TypeOK
<1>4. m.id = [kind |-> "message", n |-> sequence + 1] /\ m.read = NotRead /\ m.at = sequence + 1
  BY <1>1
<1> HIDE DEF m, new
<1>5. UNCHANGED <<events, inbox, handled, faults>>
  BY DEF SendMessage
<1>6. \A i \in DOMAIN messages : messages[i].id # m.id /\ Older(messages[i].id, m.id)
  <2>1. \A i \in DOMAIN messages : messages[i].id.n \in Nat /\ Generated(messages[i].id) <= sequence
    BY <1>3, MessageFields DEF BusInv, Identified
  <2>2. m.id.kind = "message" /\ m.id.n = sequence + 1
    BY <1>4
  <2> QED BY <1>1, <2>1, <2>2 DEF Generated, Older
<1>7. \A a \in Agents : UnreadBy(a) \subseteq UnreadBy(a)' /\ UnreadBy(a)' \subseteq UnreadBy(a) \cup {new}
  BY <1>3 DEF UnreadBy
<1>8. TypeOK'
  BY <1>1, <1>3, <1>5 DEF BusInv, TypeOK
<1>9. Identified'
  <2>1. \A i, j \in DOMAIN messages' : messages'[i].id = messages'[j].id => i = j
    BY <1>3, <1>6 DEF BusInv, Identified
  <2>2. \A i \in DOMAIN messages' : Generated(messages'[i].id) <= sequence'
    <3>1. \A i \in DOMAIN messages : Generated(messages[i].id) \in Nat
                                     /\ Generated(messages[i].id) <= sequence
      BY <1>3, MessageFields DEF BusInv, Identified
    <3>2. Generated(m.id) = sequence + 1
      BY <1>4 DEF Generated
    <3> QED BY <1>1, <1>3, <3>1, <3>2
  <2>3. \A i \in DOMAIN messages' :
          messages'[i].id.kind = "message" => messages'[i].at = messages'[i].id.n
    BY <1>3, <1>4 DEF BusInv, Identified
  <2> QED BY <2>1, <2>2, <2>3 DEF Identified
<1>10. HandledIsKept'
  BY <1>3, <1>5 DEF BusInv, HandledIsKept
<1>11. PageIsUnread'
  <2>1. \A a \in Agents : \A i \in UnreadBy(a) : i \in UnreadBy(a)' /\ messages'[i] = messages[i]
    BY <1>3, <1>7 DEF UnreadBy
  <2> QED BY <1>5, <2>1 DEF BusInv, PageIsUnread
<1>12. PageIsOldest'
  <2> SUFFICES ASSUME NEW a \in Agents, NEW k \in DOMAIN inbox[a]
               PROVE  /\ \A l \in DOMAIN inbox[a] : k < l => Older(inbox[a][k], inbox[a][l])
                      /\ \A i \in UnreadBy(a)' : messages'[i].id \notin Range(inbox[a]) =>
                                                   Older(inbox[a][k], messages'[i].id)
    BY <1>5 DEF PageIsOldest
  <2>1. PICK j \in DOMAIN messages : messages[j].id = inbox[a][k]
    BY DEF BusInv, PageIsUnread, UnreadBy
  <2>2. Older(inbox[a][k], m.id)
    BY <1>6, <2>1
  <2>3. \A i \in UnreadBy(a)' : i # new => i \in UnreadBy(a) /\ messages'[i] = messages[i]
    BY <1>3, <1>7 DEF UnreadBy
  <2> QED BY <1>3, <2>2, <2>3 DEF BusInv, PageIsOldest
<1>13. HandledIsOlder'
  <2> SUFFICES ASSUME NEW a \in Agents, NEW k \in DOMAIN handled[a], NEW i \in UnreadBy(a)'
               PROVE  Older(handled[a][k], messages'[i].id)
    BY <1>5 DEF HandledIsOlder
  <2>1. PICK j \in DOMAIN messages : messages[j].id = handled[a][k]
    BY DEF BusInv, HandledIsKept
  <2>2. Older(handled[a][k], m.id)
    BY <1>6, <2>1
  <2>3. i # new => i \in UnreadBy(a) /\ messages'[i] = messages[i]
    BY <1>3, <1>7 DEF UnreadBy
  <2> QED BY <1>3, <2>2, <2>3 DEF BusInv, HandledIsOlder
<1>14. ReadIsHandled'
  BY <1>3, <1>4, <1>5 DEF BusInv, ReadIsHandled
<1>15. HandledInOrder'
  BY <1>5 DEF BusInv, HandledInOrder
<1> QED BY <1>8, <1>9, <1>10, <1>11, <1>12, <1>13, <1>14, <1>15 DEF BusInv

(* recordEvent takes a number of the same sequence.                        *)
LEMMA RecordEventInv ==
  ASSUME BusInv, NEW in \in EventInputs, RecordEvent(in)
  PROVE  BusInv'
<1>1. /\ UNCHANGED <<messages, inbox, handled, faults>>
      /\ sequence \in Nat /\ sequence' = sequence + 1
  BY DEF RecordEvent, BusInv, TypeOK
<1>2. TypeOK'
  <2>1. sequence' \in 1..MaxSequence /\ events' = events \cup {sequence'}
    BY <1>1, BusAssumption DEF RecordEvent
  <2> QED BY <1>1, <2>1 DEF BusInv, TypeOK
<1>3. Identified'
  <2>1. \A i \in DOMAIN messages : Generated(messages[i].id) \in Nat
    BY MessageFields DEF BusInv, TypeOK
  <2> QED BY <1>1, <2>1 DEF BusInv, Identified
<1>4. \A a \in Agents : UnreadBy(a)' = UnreadBy(a)
  BY <1>1 DEF UnreadBy
<1>5. (HandledIsKept /\ ReadIsHandled /\ HandledInOrder)'
  BY <1>1 DEF BusInv, HandledIsKept, ReadIsHandled, HandledInOrder
<1>6. (PageIsUnread /\ PageIsOldest /\ HandledIsOlder)'
  BY <1>1, <1>4 DEF BusInv, PageIsUnread, PageIsOldest, HandledIsOlder
<1> QED BY <1>2, <1>3, <1>5, <1>6 DEF BusInv

LEMMA UnreadByPlaces ==
  ASSUME NEW a \in Agents
  PROVE  UnreadBy(a) \in SUBSET DOMAIN messages
  BY DEF UnreadBy

LEMMA PageLimit ==
  ASSUME NEW a \in Agents
  PROVE  BoundedLimit(Limit[a], UnreadDefault, UnreadMax) \in Nat \ {0}
<1>1. Limit[a] \in Int /\ UnreadDefault \in 1..UnreadMax /\ UnreadMax \in Nat
  BY BusAssumption, TeamsAssumption
<1> QED BY <1>1 DEF BoundedLimit

(* The order of places is the order of the numbers generated.              *)
LEMMA PrecedesOlder ==
  ASSUME BusInv, NEW i \in DOMAIN messages, NEW j \in DOMAIN messages, Precedes(i, j)
  PROVE  Older(messages[i].id, messages[j].id)
<1> SUFFICES ASSUME messages[i].id.kind = "message", messages[j].id.kind = "message"
             PROVE  messages[i].id.n < messages[j].id.n
  BY DEF Older
<1>1. messages[i].id.n \in Nat /\ messages[j].id.n \in Nat
  BY MessageFields DEF BusInv, TypeOK
<1>2. messages[i].at = messages[i].id.n /\ messages[j].at = messages[j].id.n
  BY DEF BusInv, Identified
<1>3. Earlier(messages[i], messages[j]) => messages[i].id.n < messages[j].id.n
  BY <1>1, <1>2 DEF Earlier
<1>4. messages[i].id.n < messages[j].id.n \/ messages[j].id.n < messages[i].id.n
      \/ messages[i].id.n = messages[j].id.n
  BY <1>1
<1>5. messages[j].id.n < messages[i].id.n => Earlier(messages[j], messages[i])
  BY <1>2 DEF Earlier
<1>6. messages[i].id.n = messages[j].id.n => i = j
  <2>1. messages[i].id \in Ids /\ messages[j].id \in Ids
    BY MessageFields DEF BusInv, TypeOK
  <2>2. messages[i].id.n = messages[j].id.n => messages[i].id = messages[j].id
    BY <2>1 DEF Ids
  <2> QED BY <2>2 DEF BusInv, Identified
<1>7. i # j /\ ~ Precedes(j, i)
  BY PrecedesOrder DEF BusInv, TypeOK, Stored
<1> QED BY <1>3, <1>4, <1>5, <1>6, <1>7 DEF Precedes

(* unread: the page that an agent gets.                                    *)
LEMMA PageFacts ==
  ASSUME BusInv, NEW a \in Agents
  PROVE  LET page == [i \in DOMAIN Unread(a) |-> Unread(a)[i].id] IN
         /\ page \in Seq(Ids)
         /\ \A k \in DOMAIN page : \E i \in UnreadBy(a) : messages[i].id = page[k]
         /\ \A k, l \in DOMAIN page : page[k] = page[l] => k = l
         /\ \A k, l \in DOMAIN page : k < l => Older(page[k], page[l])
         /\ \A k \in DOMAIN page : \A i \in UnreadBy(a) :
              messages[i].id \notin Range(page) => Older(page[k], messages[i].id)
<1> DEFINE page  == [i \in DOMAIN Unread(a) |-> Unread(a)[i].id]
           limit == BoundedLimit(Limit[a], UnreadDefault, UnreadMax)
           most  == IF Cardinality(UnreadBy(a)) < limit THEN Cardinality(UnreadBy(a)) ELSE limit
<1>1. Stored /\ UnreadBy(a) \in SUBSET DOMAIN messages /\ limit \in Nat
  BY UnreadByPlaces, PageLimit DEF BusInv, TypeOK, Stored
<1>2. PICK pick : IsPicked(pick, UnreadBy(a), limit)
  <2> HIDE DEF limit
  <2> QED BY <1>1, OldestFirstPicks
<1>3. most \in Nat
  BY <1>1, PlacesFinite
<1>4. /\ pick \in [1..most -> UnreadBy(a)]
      /\ Unread(a) = [k \in 1..most |-> messages[pick[k]]]
      /\ \A k, l \in 1..most : k < l => Precedes(pick[k], pick[l])
      /\ \A k, l \in 1..most : pick[k] = pick[l] => k = l
      /\ \A i \in UnreadBy(a) : i \in Range(pick) \/ \A k \in 1..most : Precedes(pick[k], i)
  BY <1>2 DEF IsPicked, Unread
<1> HIDE DEF most, limit
<1>5. page = [k \in 1..most |-> messages[pick[k]].id]
  BY <1>4
<1> HIDE DEF page
<1>6. \A k \in 1..most : pick[k] \in UnreadBy(a) /\ pick[k] \in DOMAIN messages
                         /\ page[k] = messages[pick[k]].id
  BY <1>1, <1>4, <1>5
<1>7. page \in Seq(Ids)
  <2>1. \A k \in 1..most : messages[pick[k]].id \in Ids
    BY <1>6, MessageFields DEF BusInv, TypeOK
  <2> QED BY <1>3, <1>5, <2>1
<1>8. \A k, l \in 1..most : page[k] = page[l] => k = l
  BY <1>4, <1>6 DEF BusInv, Identified
<1>9. \A k, l \in 1..most : k < l => Older(page[k], page[l])
  BY <1>4, <1>6, PrecedesOlder
<1>10. ASSUME NEW k \in 1..most, NEW i \in UnreadBy(a), messages[i].id \notin Range(page)
       PROVE  Older(page[k], messages[i].id)
  <2>1. i \notin Range(pick)
    BY <1>4, <1>5, <1>6, <1>10 DEF Range
  <2>2. Precedes(pick[k], i) /\ i \in DOMAIN messages
    BY <1>1, <1>4, <2>1
  <2> QED BY <1>6, <2>2, PrecedesOlder
<1>11. DOMAIN page = 1..most
  BY <1>5
<1> QED BY <1>6, <1>7, <1>8, <1>9, <1>10, <1>11 DEF page

LEMMA PollInv ==
  ASSUME BusInv, NEW a \in Agents, Poll(a)
  PROVE  BusInv'
<1> DEFINE page == [i \in DOMAIN Unread(a) |-> Unread(a)[i].id]
<1>1. /\ inbox' = [inbox EXCEPT ![a] = page]
      /\ UNCHANGED <<messages, events, sequence, handled, faults>>
  BY DEF Poll
<1>2. /\ page \in Seq(Ids)
      /\ \A k \in DOMAIN page : \E i \in UnreadBy(a) : messages[i].id = page[k]
      /\ \A k, l \in DOMAIN page : page[k] = page[l] => k = l
      /\ \A k, l \in DOMAIN page : k < l => Older(page[k], page[l])
      /\ \A k \in DOMAIN page : \A i \in UnreadBy(a) :
           messages[i].id \notin Range(page) => Older(page[k], messages[i].id)
  BY PageFacts
<1> HIDE DEF page
<1>3. \A b \in Agents : UnreadBy(b)' = UnreadBy(b)
  BY <1>1 DEF UnreadBy
<1>4. TypeOK'
  BY <1>1, <1>2 DEF BusInv, TypeOK
<1>5. \A b \in Agents : inbox'[b] = IF b = a THEN page ELSE inbox[b]
  BY <1>1 DEF BusInv, TypeOK
<1>6. (Identified /\ HandledIsKept /\ ReadIsHandled /\ HandledInOrder)'
  BY <1>1 DEF BusInv, Identified, HandledIsKept, ReadIsHandled, HandledInOrder
<1>7. HandledIsOlder'
  BY <1>1, <1>3 DEF BusInv, HandledIsOlder
<1>8. PageIsUnread'
  BY <1>1, <1>2, <1>3, <1>5 DEF BusInv, PageIsUnread
<1>9. PageIsOldest'
  BY <1>1, <1>2, <1>3, <1>5 DEF BusInv, PageIsOldest
<1> QED BY <1>4, <1>6, <1>7, <1>8, <1>9 DEF BusInv

-----------------------------------------------------------------------------
(* markRead: the message found is the unread one whose id was in the page. *)
LEMMA MarkReadFacts ==
  ASSUME BusInv, NEW a \in Agents, MarkRead(a)
  PROVE  \E i \in UnreadBy(a) :
           /\ messages[i].id = inbox[a][1]
           /\ messages' = [messages EXCEPT ![i].read = sequence]
<1>1. inbox[a] \in Seq(Ids) /\ inbox[a] # <<>> /\ Head(inbox[a]) = inbox[a][1]
      /\ 1 \in DOMAIN inbox[a]
  BY DEF BusInv, TypeOK, MarkRead
<1>2. PICK i \in DOMAIN messages :
        /\ Holds(i, Head(inbox[a]))
        /\ messages' = [messages EXCEPT ![i].read = IF @ = NotRead THEN sequence ELSE @]
  BY DEF MarkRead
<1>3. PICK j \in UnreadBy(a) : messages[j].id = inbox[a][1]
  BY <1>1 DEF BusInv, PageIsUnread
<1>4. i = j
  BY <1>1, <1>2, <1>3, UnreadByPlaces DEF Holds, BusInv, Identified
<1>5. messages[i].read = NotRead
  BY <1>3, <1>4 DEF UnreadBy
<1> QED BY <1>2, <1>3, <1>4, <1>5

LEMMA MarkReadInv ==
  ASSUME BusInv, NEW a \in Agents, MarkRead(a)
  PROVE  BusInv'
<1> DEFINE page == inbox[a]
           done == handled[a]
<1>1. PICK i \in UnreadBy(a) :
        /\ messages[i].id = page[1]
        /\ messages' = [messages EXCEPT ![i].read = sequence]
  BY MarkReadFacts
<1>2. i \in DOMAIN messages /\ messages[i].to = a /\ messages[i].read = NotRead
  BY <1>1 DEF UnreadBy
<1>3. /\ inbox' = [inbox EXCEPT ![a] = Tail(page)]
      /\ handled' = [handled EXCEPT ![a] = Append(done, page[1])]
      /\ UNCHANGED <<events, sequence, faults>>
      /\ page # <<>>
  BY DEF MarkRead, BusInv, TypeOK
<1>4. /\ page \in Seq(Ids) /\ done \in Seq(Ids) /\ sequence \in Nat
      /\ messages \in Seq(Message)
      /\ inbox \in [Agents -> Seq(Ids)] /\ handled \in [Agents -> Seq(Ids)]
  BY DEF BusInv, TypeOK
<1> HIDE DEF page, done
<1>5. /\ Tail(page) \in Seq(Ids) /\ page[1] \in Ids /\ Append(done, page[1]) \in Seq(Ids)
      /\ \A k \in DOMAIN Tail(page) : k + 1 \in DOMAIN page /\ k + 1 # 1
                                      /\ k \in Nat /\ Tail(page)[k] = page[k + 1]
      /\ \A k \in DOMAIN page : k # 1 => k - 1 \in DOMAIN Tail(page) /\ (k - 1) + 1 = k
      /\ 1 \in DOMAIN page
  BY <1>3, <1>4
<1>6. /\ DOMAIN messages' = DOMAIN messages
      /\ messages'[i] = [messages[i] EXCEPT !.read = sequence]
      /\ \A j \in DOMAIN messages : j # i => messages'[j] = messages[j]
  BY <1>1, <1>2
<1>7. messages'[i] \in Message /\ messages'[i].id = messages[i].id
      /\ messages'[i].to = a /\ messages'[i].at = messages[i].at
      /\ messages'[i].read = sequence
      /\ messages'[i].team = messages[i].team
  <2>1. messages[i] \in Message
    BY <1>2, <1>4
  <2> QED BY <1>2, <1>4, <1>6, <2>1 DEF Message
<1>8. \A j \in DOMAIN messages : messages'[j].id = messages[j].id /\ messages'[j].at = messages[j].at
  BY <1>6, <1>7
<1>9. sequence # NotRead
  BY <1>4, TeamsAssumption
<1>10. /\ \A b \in Agents : b # a => UnreadBy(b)' = UnreadBy(b)
       /\ UnreadBy(a)' = UnreadBy(a) \ {i}
  <2>1. ASSUME NEW b \in Agents, NEW j \in DOMAIN messages, j # i
        PROVE  j \in UnreadBy(b)' <=> j \in UnreadBy(b)
    BY <1>6, <2>1 DEF UnreadBy
  <2>2. \A b \in Agents : i \notin UnreadBy(b)'
    BY <1>7, <1>9 DEF UnreadBy
  <2>3. \A b \in Agents : b # a => i \notin UnreadBy(b)
    BY <1>2 DEF UnreadBy
  <2>4. \A b \in Agents : UnreadBy(b)' \subseteq DOMAIN messages
                            /\ UnreadBy(b) \subseteq DOMAIN messages
    BY <1>6 DEF UnreadBy
  <2> QED BY <2>1, <2>2, <2>3, <2>4
<1>11. \A b \in Agents : inbox'[b] = IF b = a THEN Tail(page) ELSE inbox[b]
  BY <1>3, <1>4
<1>12. \A b \in Agents : handled'[b] = IF b = a THEN Append(done, page[1]) ELSE handled[b]
  BY <1>3, <1>4
<1>13. /\ DOMAIN Append(done, page[1]) = DOMAIN done \cup {Len(done) + 1}
       /\ \A k \in DOMAIN done : Append(done, page[1])[k] = done[k] /\ k < Len(done) + 1
       /\ Append(done, page[1])[Len(done) + 1] = page[1]
  BY <1>4
<1>14. TypeOK'
  <2>1. messages' \in Seq(Message)
    <3> DEFINE marked == [messages[i] EXCEPT !.read = sequence]
    <3>1. marked \in Message /\ messages' = [messages EXCEPT ![i] = marked]
      BY <1>1, <1>6, <1>7
    <3> HIDE DEF marked
    <3> QED BY <1>2, <1>4, <3>1
  <2> QED BY <1>3, <1>4, <1>5, <2>1 DEF BusInv, TypeOK
<1>15. Identified'
  <2>1. \A j, k \in DOMAIN messages : messages[j].id = messages[k].id => j = k
    BY DEF BusInv, Identified
  <2>2. \A j \in DOMAIN messages : Generated(messages[j].id) <= sequence
    BY DEF BusInv, Identified
  <2>3. \A j \in DOMAIN messages :
          messages[j].id.kind = "message" => messages[j].at = messages[j].id.n
    BY DEF BusInv, Identified
  <2> QED BY <1>3, <1>6, <1>8, <2>1, <2>2, <2>3 DEF Identified
<1>16. HandledIsKept'
  <2> SUFFICES ASSUME NEW b \in Agents, NEW k \in DOMAIN handled'[b]
               PROVE  \E j \in DOMAIN messages : messages[j].id = handled'[b][k]
    BY <1>6, <1>8 DEF HandledIsKept
  <2>1. CASE b = a /\ k = Len(done) + 1
    BY <1>1, <1>2, <1>12, <1>13, <2>1
  <2>2. CASE b # a \/ k # Len(done) + 1
    <3>1. k \in DOMAIN handled[b] /\ handled'[b][k] = handled[b][k]
      BY <1>12, <1>13, <2>2 DEF done
    <3> QED BY <3>1 DEF BusInv, HandledIsKept
  <2> QED BY <2>1, <2>2
<1>17. PageIsUnread'
  <2> SUFFICES ASSUME NEW b \in Agents
               PROVE  /\ \A k \in DOMAIN inbox'[b] :
                           \E j \in UnreadBy(b)' : messages'[j].id = inbox'[b][k]
                      /\ \A k, l \in DOMAIN inbox'[b] : inbox'[b][k] = inbox'[b][l] => k = l
    BY DEF PageIsUnread
  <2>1. /\ \A k \in DOMAIN inbox[b] : \E j \in UnreadBy(b) : messages[j].id = inbox[b][k]
        /\ \A k, l \in DOMAIN inbox[b] : inbox[b][k] = inbox[b][l] => k = l
    BY DEF BusInv, PageIsUnread
  <2>2. CASE b # a
    BY <1>8, <1>10, <1>11, <2>1, <2>2, UnreadByPlaces
  <2>3. CASE b = a
    <3>1. \A k \in DOMAIN Tail(page) : page[k + 1] # messages[i].id
      BY <1>1, <1>5, <2>1, <2>3 DEF page
    <3>2. ASSUME NEW k \in DOMAIN Tail(page)
          PROVE  \E j \in UnreadBy(a)' : messages'[j].id = Tail(page)[k]
      <4>1. PICK j \in UnreadBy(a) : messages[j].id = page[k + 1]
        BY <1>5, <2>1, <2>3, <3>2 DEF page
      <4>2. j # i /\ j \in DOMAIN messages
        BY <3>1, <3>2, <4>1, UnreadByPlaces
      <4> QED BY <1>5, <1>8, <1>10, <3>2, <4>1, <4>2
    <3>3. ASSUME NEW k \in DOMAIN Tail(page), NEW l \in DOMAIN Tail(page),
                 Tail(page)[k] = Tail(page)[l]
          PROVE  k = l
      <4>1. k + 1 = l + 1
        BY <1>5, <2>1, <2>3, <3>3 DEF page
      <4> QED BY <1>5, <3>3, <4>1
    <3> QED BY <1>11, <2>3, <3>2, <3>3
  <2> QED BY <2>2, <2>3
<1>18. PageIsOldest'
  <2> SUFFICES ASSUME NEW b \in Agents, NEW k \in DOMAIN inbox'[b]
               PROVE  /\ \A l \in DOMAIN inbox'[b] : k < l => Older(inbox'[b][k], inbox'[b][l])
                      /\ \A j \in UnreadBy(b)' : messages'[j].id \notin Range(inbox'[b]) =>
                                                   Older(inbox'[b][k], messages'[j].id)
    BY DEF PageIsOldest
  <2>1. ASSUME NEW h \in DOMAIN inbox[b]
        PROVE  /\ \A l \in DOMAIN inbox[b] : h < l => Older(inbox[b][h], inbox[b][l])
               /\ \A j \in UnreadBy(b) : messages[j].id \notin Range(inbox[b]) =>
                                           Older(inbox[b][h], messages[j].id)
    BY DEF BusInv, PageIsOldest
  <2>2. CASE b # a
    BY <1>8, <1>10, <1>11, <2>1, <2>2, UnreadByPlaces
  <2>3. CASE b = a
    <3>1. k \in DOMAIN Tail(page) /\ k + 1 \in DOMAIN page /\ inbox'[b][k] = page[k + 1]
      BY <1>5, <1>11, <2>3
    <3>2. \A l \in DOMAIN Tail(page) : k < l => Older(page[k + 1], page[l + 1])
      BY <1>5, <2>1, <2>3, <3>1 DEF page
    <3>3. ASSUME NEW j \in UnreadBy(a)', messages'[j].id \notin Range(Tail(page))
          PROVE  Older(page[k + 1], messages'[j].id)
      <4>1. j \in UnreadBy(a) /\ j # i /\ j \in DOMAIN messages /\ messages'[j].id = messages[j].id
        BY <1>8, <1>10, <3>3, UnreadByPlaces
      <4>2. messages[j].id # page[1]
        BY <1>1, <1>2, <4>1 DEF BusInv, Identified
      <4>3. messages[j].id \notin Range(page)
        <5>1. SUFFICES ASSUME NEW l \in DOMAIN page, messages[j].id = page[l] PROVE FALSE
          BY DEF Range
        <5>2. l - 1 \in DOMAIN Tail(page) /\ Tail(page)[l - 1] = page[l]
          BY <1>5, <4>2, <5>1
        <5> QED BY <3>3, <4>1, <5>1, <5>2 DEF Range
      <4> QED BY <2>1, <2>3, <3>1, <4>1, <4>3 DEF page
    <3>4. inbox'[b] = Tail(page)
      BY <1>11, <2>3
    <3>5. \A l \in DOMAIN Tail(page) : Tail(page)[l] = page[l + 1]
      BY <1>5
    <3> QED BY <2>3, <3>1, <3>2, <3>3, <3>4, <3>5
  <2> QED BY <2>2, <2>3
<1>19. \A j \in UnreadBy(a) : j # i => Older(page[1], messages[j].id)
  <2> SUFFICES ASSUME NEW j \in UnreadBy(a), j # i PROVE Older(page[1], messages[j].id)
    OBVIOUS
  <2>1. messages[j].id # page[1]
    BY <1>1, <1>2, UnreadByPlaces DEF BusInv, Identified
  <2>2. CASE messages[j].id \in Range(page)
    <3>1. PICK l \in DOMAIN page : messages[j].id = page[l]
      BY <2>2 DEF Range
    <3>2. 1 < l
      BY <1>4, <2>1, <3>1
    <3> QED BY <1>5, <3>1, <3>2 DEF BusInv, PageIsOldest, page
  <2>3. CASE messages[j].id \notin Range(page)
    BY <1>5, <2>3 DEF BusInv, PageIsOldest, page
  <2> QED BY <2>2, <2>3
<1>20. HandledIsOlder'
  <2> SUFFICES ASSUME NEW b \in Agents, NEW k \in DOMAIN handled'[b], NEW j \in UnreadBy(b)'
               PROVE  Older(handled'[b][k], messages'[j].id)
    BY DEF HandledIsOlder
  <2>1. j \in UnreadBy(b) /\ j \in DOMAIN messages /\ messages'[j].id = messages[j].id
        /\ (b = a => j # i)
    BY <1>8, <1>10, UnreadByPlaces
  <2>2. CASE b = a /\ k = Len(done) + 1
    BY <1>12, <1>13, <1>19, <2>1, <2>2
  <2>3. CASE b # a \/ k # Len(done) + 1
    <3>1. k \in DOMAIN handled[b] /\ handled'[b][k] = handled[b][k]
      BY <1>12, <1>13, <2>3 DEF done
    <3> QED BY <2>1, <3>1 DEF BusInv, HandledIsOlder
  <2> QED BY <2>2, <2>3
<1>21. ReadIsHandled'
  <2> SUFFICES ASSUME NEW j \in DOMAIN messages, messages'[j].read # NotRead
               PROVE  /\ messages'[j].to # None
                      /\ messages'[j].id \in Range(handled'[messages'[j].to])
    BY <1>6 DEF ReadIsHandled
  <2>1. ASSUME NEW b \in Agents, NEW x \in Range(handled[b])
        PROVE  x \in Range(handled'[b])
    <3>1. PICK k \in DOMAIN handled[b] : x = handled[b][k]
      BY <2>1 DEF Range
    <3>2. k \in DOMAIN handled'[b] /\ handled'[b][k] = x
      BY <1>12, <1>13, <3>1 DEF done
    <3> QED BY <3>2 DEF Range
  <2>2. CASE j = i
    <3>1. Len(done) + 1 \in DOMAIN handled'[a] /\ handled'[a][Len(done) + 1] = page[1]
      BY <1>12, <1>13
    <3>2. page[1] \in Range(handled'[a])
      BY <3>1 DEF Range
    <3> QED BY <1>1, <1>7, <2>2, <3>2, TeamsAssumption
  <2>3. CASE j # i
    <3>1. messages[j].to # None /\ messages[j].id \in Range(handled[messages[j].to])
      BY <1>6, <2>3 DEF BusInv, ReadIsHandled
    <3>2. messages[j].to \in Agents
      BY <1>4, <3>1, MessageFields
    <3> QED BY <1>6, <2>1, <2>3, <3>1, <3>2
  <2> QED BY <2>2, <2>3
<1>22. HandledInOrder'
  <2> SUFFICES ASSUME NEW b \in Agents, NEW k \in DOMAIN handled'[b], NEW l \in DOMAIN handled'[b],
                      k < l
               PROVE  Older(handled'[b][k], handled'[b][l])
    BY DEF HandledInOrder, Older
  <2>1. CASE b # a
    BY <1>12, <2>1 DEF BusInv, HandledInOrder, Older
  <2>2. CASE b = a
    <3>1. k \in DOMAIN done /\ handled'[b][k] = done[k]
      <4>1. k \in DOMAIN done \cup {Len(done) + 1} /\ l \in DOMAIN done \cup {Len(done) + 1}
        BY <1>12, <1>13, <2>2
      <4>2. k # Len(done) + 1
        <5>1. DOMAIN done = 1..Len(done) /\ Len(done) \in Nat
          BY <1>4
        <5> QED BY <4>1, <5>1
      <4> QED BY <1>12, <1>13, <2>2, <4>1, <4>2
    <3>2. CASE l = Len(done) + 1
      <4>1. Older(done[k], messages[i].id)
        BY <1>1, <3>1 DEF BusInv, HandledIsOlder, done
      <4> QED BY <1>1, <1>12, <1>13, <2>2, <3>1, <3>2, <4>1
    <3>3. CASE l # Len(done) + 1
      <4>1. l \in DOMAIN done /\ handled'[b][l] = done[l]
        BY <1>12, <1>13, <2>2, <3>3
      <4> QED BY <2>2, <3>1, <4>1 DEF BusInv, HandledInOrder, Older, done
    <3> QED BY <3>2, <3>3
  <2> QED BY <2>1, <2>2
<1> QED BY <1>14, <1>15, <1>16, <1>17, <1>18, <1>20, <1>21, <1>22 DEF BusInv

-----------------------------------------------------------------------------
(* Restarts.                                                               *)
LEMMA AgentRestartsInv ==
  ASSUME BusInv, NEW a \in Agents, AgentRestarts(a)
  PROVE  BusInv'
<1>1. /\ inbox' = [inbox EXCEPT ![a] = <<>>]
      /\ UNCHANGED <<messages, events, sequence, handled>>
      /\ faults' = faults + 1 /\ faults < MaxFaults
  BY DEF AgentRestarts
<1>2. \A b \in Agents : UnreadBy(b)' = UnreadBy(b)
  BY <1>1 DEF UnreadBy
<1>3. TypeOK'
  <2>1. faults' \in 0..MaxFaults
    BY <1>1, BusAssumption DEF BusInv, TypeOK
  <2>2. inbox' \in [Agents -> Seq(Ids)]
    BY <1>1 DEF BusInv, TypeOK
  <2> QED BY <1>1, <2>1, <2>2 DEF BusInv, TypeOK
<1>4. \A b \in Agents : inbox'[b] = IF b = a THEN <<>> ELSE inbox[b]
  BY <1>1 DEF BusInv, TypeOK
<1>5. (Identified /\ HandledIsKept /\ ReadIsHandled /\ HandledInOrder)'
  BY <1>1 DEF BusInv, Identified, HandledIsKept, ReadIsHandled, HandledInOrder
<1>6. HandledIsOlder'
  BY <1>1, <1>2 DEF BusInv, HandledIsOlder
<1>7. PageIsUnread'
  <2> SUFFICES ASSUME NEW b \in Agents
               PROVE  /\ \A k \in DOMAIN inbox'[b] :
                           \E j \in UnreadBy(b) : messages[j].id = inbox'[b][k]
                      /\ \A k, l \in DOMAIN inbox'[b] : inbox'[b][k] = inbox'[b][l] => k = l
    BY <1>1, <1>2 DEF PageIsUnread
  <2>1. CASE b = a
    BY <1>4, <2>1
  <2>2. CASE b # a
    BY <1>4, <2>2 DEF BusInv, PageIsUnread
  <2> QED BY <2>1, <2>2
<1>8. PageIsOldest'
  <2> SUFFICES ASSUME NEW b \in Agents, NEW k \in DOMAIN inbox'[b]
               PROVE  /\ \A l \in DOMAIN inbox'[b] : k < l => Older(inbox'[b][k], inbox'[b][l])
                      /\ \A j \in UnreadBy(b) : messages[j].id \notin Range(inbox'[b]) =>
                                                   Older(inbox'[b][k], messages[j].id)
    BY <1>1, <1>2 DEF PageIsOldest
  <2>1. CASE b = a
    BY <1>4, <2>1
  <2>2. CASE b # a
    BY <1>4, <2>2 DEF BusInv, PageIsOldest
  <2> QED BY <2>1, <2>2
<1> QED BY <1>3, <1>5, <1>6, <1>7, <1>8 DEF BusInv

(* history returns all messages of a team, each once, if they are no more  *)
(* than one call returns.                                                  *)
LEMMA HistoryIsComplete ==
  ASSUME BusInv, NEW t \in Range(Teams), Cardinality(OfTeam(t)) <= HistoryMax
  PROVE  /\ History(t) \in Seq(Message)
         /\ IsInjective(History(t))
         /\ Range(History(t)) = {messages[i] : i \in OfTeam(t)}
<1> DEFINE places == OfTeam(t)
           size   == Cardinality(places)
<1>1. Stored /\ places \in SUBSET DOMAIN messages /\ messages \in Seq(Message)
  BY DEF BusInv, TypeOK, Stored, OfTeam
<1>2. IsFiniteSet(places) /\ size \in Nat
  <2> HIDE DEF places
  <2> QED BY <1>1, PlacesFinite
<1>3. PICK pick : IsPicked(pick, places, HistoryMax)
  <2> HIDE DEF places
  <2> QED BY <1>1, BusAssumption, OldestFirstPicks
<1>4. (IF size < HistoryMax THEN size ELSE HistoryMax) = size
  BY <1>2, BusAssumption
<1>5. /\ pick \in [1..size -> places]
      /\ History(t) = [k \in 1..size |-> messages[pick[k]]]
      /\ \A k, l \in 1..size : pick[k] = pick[l] => k = l
  BY <1>3, <1>4 DEF IsPicked, History
<1> HIDE DEF places, size
<1>6. \A i \in places : \E k \in 1..size : pick[k] = i
  <2>1. pick \in Injection(1..size, places)
    BY <1>5 DEF Injection, IsInjective
  <2>2. Cardinality(1..size) = size
    BY <1>2, FS_Interval
  <2>3. pick \in Surjection(1..size, places)
    BY <1>2, <2>1, <2>2, FS_Injection DEF size
  <2> QED BY <2>3 DEF Surjection
<1>7. History(t) \in Seq(Message)
  <2>1. \A k \in 1..size : messages[pick[k]] \in Message
    BY <1>1, <1>5
  <2> QED BY <1>2, <1>5, <2>1
<1>8. IsInjective(History(t))
  <2> SUFFICES ASSUME NEW k \in 1..size, NEW l \in 1..size, messages[pick[k]] = messages[pick[l]]
               PROVE  k = l
    BY <1>5 DEF IsInjective
  <2>1. pick[k] \in DOMAIN messages /\ pick[l] \in DOMAIN messages
    BY <1>1, <1>5
  <2>2. pick[k] = pick[l]
    BY <2>1 DEF BusInv, Identified
  <2> QED BY <1>5, <2>2
<1>9. Range(History(t)) = {messages[i] : i \in places}
  <2>1. ASSUME NEW x \in Range(History(t)) PROVE x \in {messages[i] : i \in places}
    BY <1>5, <2>1 DEF Range
  <2>2. ASSUME NEW i \in places PROVE messages[i] \in Range(History(t))
    <3>1. PICK k \in 1..size : pick[k] = i
      BY <1>6
    <3> QED BY <1>5, <3>1 DEF Range
  <2> QED BY <2>1, <2>2
<1> QED BY <1>7, <1>8, <1>9 DEF places

(* A new store holds the messages of the old one, each once.               *)
LEMMA StoreRestartsFacts ==
  ASSUME BusInv, StoreRestarts
  PROVE  /\ messages' \in Seq(Message)
         /\ IsInjective(messages')
         /\ Range(messages') = Range(messages)
<1> DEFINE hs == [t \in DOMAIN Teams |-> History(Teams[t])]
<1>1. messages' = FlattenSeq(hs)
  BY DEF StoreRestarts
<1>2. Teams \in Seq(Range(Teams)) /\ IsInjective(Teams)
      /\ \A t \in DOMAIN Teams : Teams[t] \in Range(Teams)
  BY TeamsAssumption DEF Range
<1>3. \A t \in DOMAIN Teams :
        /\ hs[t] \in Seq(Message) /\ IsInjective(hs[t])
        /\ Range(hs[t]) = {messages[i] : i \in OfTeam(Teams[t])}
  <2> SUFFICES ASSUME NEW t \in DOMAIN Teams
               PROVE  /\ hs[t] \in Seq(Message) /\ IsInjective(hs[t])
                      /\ Range(hs[t]) = {messages[i] : i \in OfTeam(Teams[t])}
    OBVIOUS
  <2>1. Cardinality(OfTeam(Teams[t])) <= HistoryMax
    BY DEF StoreRestarts
  <2>2. hs[t] = History(Teams[t]) /\ Teams[t] \in Range(Teams)
    BY <1>2
  <2> QED BY <2>1, <2>2, HistoryIsComplete
<1>4. hs \in Seq(Seq(Message)) /\ DOMAIN hs = DOMAIN Teams
  <2>1. hs = [t \in 1..Len(Teams) |-> hs[t]] /\ Len(Teams) \in Nat
    BY <1>2
  <2>2. \A t \in 1..Len(Teams) : hs[t] \in Seq(Message)
    BY <1>2, <1>3
  <2> HIDE DEF hs
  <2> QED BY <1>2, <2>1, <2>2
<1> HIDE DEF hs
<1>5. \A t, u \in DOMAIN hs : t # u => Range(hs[t]) \cap Range(hs[u]) = {}
  <2> SUFFICES ASSUME NEW t \in DOMAIN Teams, NEW u \in DOMAIN Teams, t # u,
                      NEW i \in OfTeam(Teams[t]), NEW j \in OfTeam(Teams[u]),
                      messages[i] = messages[j]
               PROVE  FALSE
    BY <1>3, <1>4
  <2>1. messages[i].team = Teams[t] /\ messages[j].team = Teams[u]
    BY DEF OfTeam
  <2> QED BY <1>2, <2>1 DEF IsInjective
<1>6. /\ messages' \in Seq(Message)
      /\ Range(messages') = UNION {Range(hs[t]) : t \in DOMAIN hs}
      /\ IsInjective(messages')
  BY <1>1, <1>3, <1>4, <1>5, FlattenSeqRange
<1>7. Range(messages') \subseteq Range(messages)
  <2> SUFFICES ASSUME NEW t \in DOMAIN hs, NEW i \in OfTeam(Teams[t])
               PROVE  messages[i] \in Range(messages)
    BY <1>3, <1>4, <1>6
  <2> QED BY DEF OfTeam, Range
<1>8. ASSUME NEW i \in DOMAIN messages PROVE messages[i] \in Range(messages')
  <2>1. messages[i].team \in Range(Teams)
    BY MessageFields DEF BusInv, TypeOK
  <2>2. PICK t \in DOMAIN Teams : messages[i].team = Teams[t]
    BY <2>1 DEF Range
  <2>3. i \in OfTeam(Teams[t])
    BY <2>2 DEF OfTeam
  <2>4. messages[i] \in Range(hs[t])
    BY <1>3, <2>3
  <2> QED BY <1>4, <1>6, <2>4
<1>9. Range(messages) \subseteq Range(messages')
  BY <1>8 DEF Range
<1> QED BY <1>6, <1>7, <1>9

LEMMA StoreRestartsInv ==
  ASSUME BusInv, StoreRestarts
  PROVE  BusInv'
<1>1. messages' \in Seq(Message) /\ IsInjective(messages') /\ Range(messages') = Range(messages)
  BY StoreRestartsFacts
<1>2. /\ events' \in {events, {}} /\ sequence' = Highest(messages', events')
      /\ faults' = faults + 1 /\ faults < MaxFaults
      /\ UNCHANGED <<inbox, handled>>
  BY DEF StoreRestarts
<1>3. \A i \in DOMAIN messages' : \E j \in DOMAIN messages : messages'[i] = messages[j]
  <2>1. \A i \in DOMAIN messages' : messages'[i] \in Range(messages)
    BY <1>1 DEF Range
  <2> QED BY <2>1 DEF Range
<1>4. \A j \in DOMAIN messages : \E i \in DOMAIN messages' : messages'[i] = messages[j]
  <2>1. \A j \in DOMAIN messages : messages[j] \in Range(messages')
    BY <1>1 DEF Range
  <2> QED BY <2>1 DEF Range
<1>5. \A a \in Agents : \A i \in UnreadBy(a)' : \E j \in UnreadBy(a) : messages'[i] = messages[j]
  BY <1>3 DEF UnreadBy
<1>6. \A a \in Agents : \A j \in UnreadBy(a) : \E i \in UnreadBy(a)' : messages'[i] = messages[j]
  BY <1>4 DEF UnreadBy
<1>7. events' \in SUBSET (1..MaxSequence)
  BY <1>2 DEF BusInv, TypeOK
<1>8. sequence' \in Nat /\ \A i \in DOMAIN messages' : Generated(messages'[i].id) <= sequence'
  BY <1>1, <1>2, <1>7, HighestBounds
<1>9. TypeOK'
  <2>1. faults' \in 0..MaxFaults
    BY <1>2, BusAssumption DEF BusInv, TypeOK
  <2> QED BY <1>1, <1>2, <1>7, <1>8, <2>1 DEF BusInv, TypeOK
<1>10. Identified'
  <2>1. \A i, j \in DOMAIN messages' : messages'[i].id = messages'[j].id => i = j
    <3> SUFFICES ASSUME NEW i \in DOMAIN messages', NEW j \in DOMAIN messages',
                        messages'[i].id = messages'[j].id
                 PROVE  i = j
      OBVIOUS
    <3>1. messages'[i] = messages'[j]
      <4>1. PICK k \in DOMAIN messages : messages'[i] = messages[k]
        BY <1>3
      <4>2. PICK l \in DOMAIN messages : messages'[j] = messages[l]
        BY <1>3
      <4> QED BY <4>1, <4>2 DEF BusInv, Identified
    <3> QED BY <1>1, <3>1 DEF IsInjective
  <2>2. \A i \in DOMAIN messages' :
          messages'[i].id.kind = "message" => messages'[i].at = messages'[i].id.n
    BY <1>3 DEF BusInv, Identified
  <2> QED BY <1>8, <2>1, <2>2 DEF Identified
<1>11. HandledIsKept'
  BY <1>2, <1>4 DEF BusInv, HandledIsKept
<1>12. PageIsUnread'
  BY <1>2, <1>6 DEF BusInv, PageIsUnread
<1>13. PageIsOldest'
  BY <1>2, <1>5 DEF BusInv, PageIsOldest
<1>14. HandledIsOlder'
  BY <1>2, <1>5 DEF BusInv, HandledIsOlder
<1>15. ReadIsHandled'
  BY <1>2, <1>3 DEF BusInv, ReadIsHandled
<1>16. HandledInOrder'
  BY <1>2 DEF BusInv, HandledInOrder
<1> QED BY <1>9, <1>10, <1>11, <1>12, <1>13, <1>14, <1>15, <1>16 DEF BusInv

LEMMA StutterInv ==
  ASSUME BusInv, UNCHANGED vars
  PROVE  BusInv'
<1> USE DEF vars
<1>1. \A b \in Agents : UnreadBy(b)' = UnreadBy(b)
  BY DEF UnreadBy
<1>2. (TypeOK /\ Identified /\ HandledIsKept /\ ReadIsHandled /\ HandledInOrder)'
  BY DEF BusInv, TypeOK, Identified, HandledIsKept, ReadIsHandled, HandledInOrder
<1>3. (PageIsUnread /\ PageIsOldest /\ HandledIsOlder)'
  BY <1>1 DEF BusInv, PageIsUnread, PageIsOldest, HandledIsOlder
<1> QED BY <1>2, <1>3 DEF BusInv

LEMMA StepInv == BusInv /\ [Next]_vars => BusInv'
<1> SUFFICES ASSUME BusInv, [Next]_vars PROVE BusInv'
  OBVIOUS
<1>1. ASSUME NEW in \in Sends, SendMessage(in) PROVE BusInv'
  BY <1>1, SendMessageInv
<1>2. ASSUME NEW in \in EventInputs, RecordEvent(in) PROVE BusInv'
  BY <1>2, RecordEventInv
<1>3. ASSUME NEW a \in Agents, Poll(a) PROVE BusInv'
  BY <1>3, PollInv
<1>4. ASSUME NEW a \in Agents, MarkRead(a) PROVE BusInv'
  BY <1>4, MarkReadInv
<1>5. ASSUME NEW a \in Agents, AgentRestarts(a) PROVE BusInv'
  BY <1>5, AgentRestartsInv
<1>6. CASE StoreRestarts
  BY <1>6, StoreRestartsInv
<1>7. CASE UNCHANGED vars
  BY <1>7, StutterInv
<1> QED BY <1>1, <1>2, <1>3, <1>4, <1>5, <1>6, <1>7 DEF Next

LEMMA SpecInv == Spec => []BusInv
<1>1. Init => BusInv
  BY InitInv
<1>2. BusInv /\ [Next]_vars => BusInv'
  BY StepInv
<1> QED BY <1>1, <1>2, PTL DEF Spec

(* The stores and the agents keep to their types: a sequence of messages   *)
(* of known teams, pages and marks of ids (InMemoryAgentBusStore).         *)
THEOREM BusTypeCorrect == Spec => []TypeOK
<1>1. BusInv => TypeOK
  BY DEF BusInv
<1> QED BY <1>1, SpecInv, PTL

(* Only its recipient's own mark makes a message read: no restart of the   *)
(* store makes two messages share an id (nextId, markRead).                *)
THEOREM ReadIsHandledCorrect == Spec => []ReadIsHandled
<1>1. BusInv => ReadIsHandled
  BY DEF BusInv
<1> QED BY <1>1, SpecInv, PTL

(* An agent marks the messages generated for it in the order they were     *)
(* sent, whatever its page size and across restarts (unread, markRead).    *)
THEOREM HandledInOrderCorrect == Spec => []HandledInOrder
<1>1. BusInv => HandledInOrder
  BY DEF BusInv
<1> QED BY <1>1, SpecInv, PTL

-----------------------------------------------------------------------------
(* The durable contract: the rows are the messages of the store.           *)

LEMMA SameCardinality ==
  \A S : Contract!Cardinality(S) = Cardinality(S)
  BY Zenon DEF Cardinality, Contract!Cardinality

LEMMA InitRefines == BusInv /\ Init => Contract!Init
<1> SUFFICES ASSUME BusInv, Init PROVE Contract!Init
  OBVIOUS
<1>1. ASSUME NEW r \in Range(messages), NEW q \in Range(messages), r.id = q.id PROVE r = q
  BY <1>1 DEF BusInv, Identified, Range
<1> QED BY <1>1 DEF Init, Contract!Init

(* sendMessage inserts what the database would accept, with a new key.     *)
LEMMA SendMessageRefines ==
  ASSUME BusInv, NEW in \in Sends, SendMessage(in)
  PROVE  Contract!Send
<1> DEFINE m == [id |-> [kind |-> "message", n |-> sequence'], team |-> in.team,
                 run |-> in.run, from |-> in.from, to |-> in.to, type |-> in.type,
                 at |-> sequence', read |-> NotRead]
           rows == Range(messages)
<1>1. /\ sequence \in Nat /\ sequence' = sequence + 1 /\ messages' = Append(messages, m)
      /\ messages \in Seq(Message) /\ inbox' = inbox
  BY DEF SendMessage, BusInv, TypeOK
<1>2. /\ DOMAIN messages' = DOMAIN messages \cup {Len(messages) + 1}
      /\ messages'[Len(messages) + 1] = m
      /\ \A i \in DOMAIN messages : messages'[i] = messages[i]
  BY <1>1
<1>3. Range(messages') = rows \cup {m}
  <2> HIDE DEF m
  <2> QED BY <1>2 DEF Range
<1>4. \A q \in rows : q.id # m.id
  <2> SUFFICES ASSUME NEW i \in DOMAIN messages, messages[i].id = m.id PROVE FALSE
    BY DEF Range
  <2>1. Generated(messages[i].id) <= sequence
    BY DEF BusInv, Identified
  <2>2. Generated(messages[i].id) = sequence + 1
    BY <1>1 DEF Generated
  <2> QED BY <1>1, <2>1, <2>2
<1>5. m \notin rows
  BY <1>4
<1>6. Contract!Insertable(m)
  <2>1. /\ in.team \in Range(Teams) /\ in.type \in Types /\ in.from # None
        /\ InTeam(in.from, in.team) /\ (in.to # None => InTeam(in.to, in.team))
        /\ (in.run # None => RunInTeam(in.run, in.team))
    BY DEF SendMessage, Accepts, Known
  <2>2. Contract!IsTeamOperator(in.team)
    BY <2>1, OperatorsAssumption DEF Contract!IsTeamOperator
  <2>3. Contract!RunInTeam(in.run, in.team)
    BY <2>1 DEF RunInTeam, Contract!RunInTeam
  <2>4. Contract!IdentityInTeam(in.from, in.team) /\ Contract!IdentityInTeam(in.to, in.team)
    BY <2>1 DEF InTeam, Contract!IdentityInTeam
  <2> QED BY <2>1, <2>2, <2>3, <2>4 DEF Contract!Insertable
<1> HIDE DEF m
<1>7. m \in Range(messages') \ rows
  BY <1>3, <1>5
<1>8. m.id \notin {q.id : q \in rows}
  BY <1>4
<1> QED BY <1>1, <1>3, <1>6, <1>7, <1>8 DEF Contract!Send

LEMMA PrecedesLater ==
  ASSUME BusInv, NEW i \in DOMAIN messages, NEW j \in DOMAIN messages, Precedes(i, j)
  PROVE  messages[i].at <= messages[j].at
<1>1. messages[i].at \in Nat /\ messages[j].at \in Nat
  BY MessageFields DEF BusInv, TypeOK
<1>2. messages[j].at < messages[i].at => Earlier(messages[j], messages[i])
  BY DEF Earlier
<1>3. Earlier(messages[i], messages[j]) => messages[i].at <= messages[j].at
  BY <1>1 DEF Earlier
<1> QED BY <1>1, <1>2, <1>3 DEF Precedes

LEMMA PageSizes ==
  ASSUME NEW a \in Agents
  PROVE  Contract!PageSize(a) = BoundedLimit(Limit[a], UnreadDefault, UnreadMax)
<1>1. Limit[a] \in Int /\ UnreadDefault \in 1..UnreadMax /\ UnreadMax \in Nat
  BY BusAssumption, TeamsAssumption
<1> QED BY <1>1 DEF BoundedLimit, Contract!PageSize

(* The messages waiting for an agent are its unread rows.                  *)
LEMMA UnreadRowsAre ==
  ASSUME BusInv, NEW a \in Agents
  PROVE  /\ Contract!UnreadRows(a) = {messages[i] : i \in UnreadBy(a)}
         /\ Cardinality(Contract!UnreadRows(a)) = Cardinality(UnreadBy(a))
<1> DEFINE waiting == {messages[i] : i \in UnreadBy(a)}
           f       == [i \in UnreadBy(a) |-> messages[i]]
<1>1. Contract!UnreadRows(a) = waiting
  BY DEF Contract!UnreadRows, UnreadBy, Range
<1>2. f \in Surjection(UnreadBy(a), waiting)
  BY DEF Surjection
<1>3. f \in Injection(UnreadBy(a), waiting)
  <2>1. \A i, j \in UnreadBy(a) : f[i] = f[j] => i = j
    BY UnreadByPlaces DEF BusInv, Identified
  <2> QED BY <2>1 DEF Injection, IsInjective
<1>4. IsFiniteSet(UnreadBy(a))
  BY UnreadByPlaces, PlacesFinite DEF BusInv, TypeOK, Stored
<1>5. Cardinality(waiting) = Cardinality(UnreadBy(a))
  <2> HIDE DEF f, waiting
  <2> QED BY <1>2, <1>3, <1>4, FS_Surjection
<1> QED BY <1>1, <1>5

(* unread returns a page of the contract.                                  *)
LEMMA PageIsContractPage ==
  ASSUME BusInv, NEW a \in Agents
  PROVE  Contract!IsPage([i \in DOMAIN Unread(a) |-> Unread(a)[i].id], a)
<1> DEFINE p       == [i \in DOMAIN Unread(a) |-> Unread(a)[i].id]
           places  == UnreadBy(a)
           limit   == BoundedLimit(Limit[a], UnreadDefault, UnreadMax)
           most    == IF Cardinality(places) < limit THEN Cardinality(places) ELSE limit
           waiting == Contract!UnreadRows(a)
           at(id)  == (CHOOSE r \in waiting : r.id = id).at
           paged   == {p[i] : i \in DOMAIN p}
<1>1. Stored /\ places \in SUBSET DOMAIN messages /\ limit \in Nat
  BY UnreadByPlaces, PageLimit DEF BusInv, TypeOK, Stored
<1>2. PICK pick : IsPicked(pick, places, limit)
  <2> HIDE DEF limit, places
  <2> QED BY <1>1, OldestFirstPicks
<1>3. most \in Nat
  BY <1>1, PlacesFinite
<1>4. waiting = {messages[i] : i \in places} /\ Cardinality(waiting) = Cardinality(places)
  BY UnreadRowsAre
<1>5. Contract!PageSize(a) = limit
  BY PageSizes
<1>6. /\ pick \in [1..most -> places]
      /\ Unread(a) = [k \in 1..most |-> messages[pick[k]]]
      /\ \A k, l \in 1..most : k < l => Precedes(pick[k], pick[l])
      /\ \A k, l \in 1..most : pick[k] = pick[l] => k = l
      /\ \A i \in places : i \in Range(pick) \/ \A k \in 1..most : Precedes(pick[k], i)
  BY <1>2 DEF IsPicked, Unread
<1> HIDE DEF most
<1>7. p = [k \in 1..most |-> messages[pick[k]].id]
  BY <1>6
<1> HIDE DEF p
<1>8. p \in Seq({messages[i].id : i \in places}) /\ Len(p) = most /\ DOMAIN p = 1..most
  <2>1. \A k \in 1..most : messages[pick[k]].id \in {messages[i].id : i \in places}
    BY <1>6
  <2> QED BY <1>3, <1>7, <2>1
<1>9. \A i, j \in places : messages[i].id = messages[j].id => i = j
  BY <1>1 DEF BusInv, Identified
<1>10. \A i \in places : at(messages[i].id) = messages[i].at
  <2> SUFFICES ASSUME NEW i \in places PROVE at(messages[i].id) = messages[i].at
    OBVIOUS
  <2>1. \A r \in waiting : r.id = messages[i].id => r = messages[i]
    BY <1>4, <1>9
  <2>2. messages[i] \in waiting
    BY <1>4
  <2> HIDE DEF waiting
  <2> QED BY <2>1, <2>2
<1>11. \A k \in 1..most : p[k] = messages[pick[k]].id /\ pick[k] \in places
                          /\ pick[k] \in DOMAIN messages /\ at(p[k]) = messages[pick[k]].at
  BY <1>1, <1>6, <1>7, <1>10
<1> HIDE DEF at
<1>12. paged \subseteq {r.id : r \in waiting}
  BY <1>4, <1>8, <1>11
<1>13. Cardinality(paged) = Len(p)
  <2>1. p \in Surjection(1..most, paged) /\ p \in Injection(1..most, paged)
    <3>1. p \in [1..most -> paged]
      BY <1>7, <1>8
    <3>2. \A k, l \in 1..most : p[k] = p[l] => k = l
      BY <1>6, <1>9, <1>11
    <3> QED BY <1>8, <3>1, <3>2 DEF Surjection, Injection, IsInjective
  <2>2. IsFiniteSet(1..most) /\ Cardinality(1..most) = most
    BY <1>3, FS_Interval
  <2> HIDE DEF paged
  <2> QED BY <1>8, <2>1, <2>2, FS_Surjection
<1>14. Len(p) = IF Cardinality(waiting) < Contract!PageSize(a)
                THEN Cardinality(waiting) ELSE Contract!PageSize(a)
  BY <1>4, <1>5, <1>8 DEF most
<1>15. \A k, l \in 1..most : k < l => at(p[k]) <= at(p[l])
  BY <1>6, <1>11, PrecedesLater
<1>16. ASSUME NEW r \in waiting, NEW k \in 1..most, r.id \notin paged
       PROVE  at(p[k]) <= r.at
  <2>1. PICK i \in places : r = messages[i]
    BY <1>4
  <2>2. i \notin Range(pick)
    BY <1>6, <1>8, <1>11, <1>16, <2>1 DEF Range
  <2>3. Precedes(pick[k], i) /\ i \in DOMAIN messages
    BY <1>1, <1>6, <2>1, <2>2
  <2> QED BY <1>11, <2>1, <2>3, PrecedesLater
<1>17. \A k, l \in DOMAIN p : k < l => at(p[k]) <= at(p[l])
  BY <1>8, <1>15
<1>18. \A r \in waiting, k \in DOMAIN p : r.id \in paged \/ at(p[k]) <= r.at
  BY <1>8, <1>16
<1>19. Contract!IsPage(p, a)
  BY <1>12, <1>13, <1>14, <1>17, <1>18, SameCardinality, Zenon DEF Contract!IsPage, at
<1> QED BY <1>19 DEF p

LEMMA PollRefines ==
  ASSUME BusInv, NEW a \in Agents, Poll(a)
  PROVE  Contract!Poll(a)
<1> DEFINE page == [i \in DOMAIN Unread(a) |-> Unread(a)[i].id]
<1>1. Contract!IsPage(page, a)
  BY PageIsContractPage
<1> HIDE DEF page
<1>2. inbox' = [inbox EXCEPT ![a] = page] /\ messages' = messages /\ inbox[a] = <<>>
  BY DEF Poll, page
<1>3. inbox'[a] = page
  BY <1>2 DEF BusInv, TypeOK
<1>4. Contract!IsTeamMember(TeamOf[a])
  BY TeamsAssumption, OperatorsAssumption DEF Contract!IsTeamMember
<1> QED BY <1>1, <1>2, <1>3, <1>4 DEF Contract!Poll

(* markRead sets the time of one row, which was unread.                    *)
LEMMA MarkReadRefines ==
  ASSUME BusInv, NEW a \in Agents, MarkRead(a)
  PROVE  Contract!MarkRead(a)
<1> DEFINE rows == Range(messages)
<1>1. PICK i \in UnreadBy(a) :
        /\ messages[i].id = inbox[a][1]
        /\ messages' = [messages EXCEPT ![i].read = sequence]
  BY MarkReadFacts
<1> DEFINE r == messages[i]
           q == [r EXCEPT !.read = sequence]
<1>2. /\ i \in DOMAIN messages /\ r.read = NotRead /\ r.team = TeamOf[a]
      /\ r \in Message /\ sequence \in Nat
  <2>1. i \in DOMAIN messages /\ r.read = NotRead /\ r.team = TeamOf[a]
    BY <1>1 DEF UnreadBy
  <2> QED BY <2>1, MessageFields DEF BusInv, TypeOK
<1>3. inbox[a] # <<>> /\ inbox[a][1] = Head(inbox[a]) /\ inbox' = [inbox EXCEPT ![a] = Tail(@)]
  BY DEF MarkRead, BusInv, TypeOK
<1>4. q.read = sequence /\ q.read # NotRead /\ q = [r EXCEPT !.read = q.read]
  BY <1>2, TeamsAssumption DEF Message
<1>5. /\ DOMAIN messages' = DOMAIN messages /\ messages'[i] = q
      /\ \A j \in DOMAIN messages : j # i => messages'[j] = messages[j] /\ messages[j] # r
  <2>1. /\ DOMAIN messages' = DOMAIN messages /\ messages'[i] = q
        /\ \A j \in DOMAIN messages : j # i => messages'[j] = messages[j]
    BY <1>1, <1>2
  <2>2. \A j \in DOMAIN messages : j # i => messages[j] # r
    BY <1>2 DEF BusInv, Identified
  <2> QED BY <2>1, <2>2
<1> HIDE DEF q, r
<1>6. r \in rows
  BY <1>2 DEF Range, r
<1>7. Range(messages') = (rows \ {r}) \cup {q}
  <2>1. ASSUME NEW x \in Range(messages') PROVE x \in (rows \ {r}) \cup {q}
    <3>1. PICK j \in DOMAIN messages : x = messages'[j]
      BY <1>5, <2>1 DEF Range
    <3> QED BY <1>5, <3>1 DEF Range
  <2>2. ASSUME NEW x \in rows \ {r} PROVE x \in Range(messages')
    <3>1. PICK j \in DOMAIN messages : x = messages[j] /\ j # i
      BY <2>2 DEF Range, r
    <3> QED BY <1>5, <3>1 DEF Range
  <2>3. q \in Range(messages')
    BY <1>2, <1>5 DEF Range
  <2> QED BY <2>1, <2>2, <2>3
<1>8. r.id = Head(inbox[a]) /\ r.read = NotRead
  BY <1>1, <1>2, <1>3 DEF r
<1>9. Contract!IsTeamMember(r.team)
  BY <1>2, TeamsAssumption, OperatorsAssumption DEF Contract!IsTeamMember, r
<1>10. q \in Range(messages')
  BY <1>7
<1> QED BY <1>3, <1>4, <1>6, <1>7, <1>8, <1>9, <1>10 DEF Contract!MarkRead

LEMMA StepRefines == BusInv /\ [Next]_vars => [Contract!Next]_Contract!vars
<1> SUFFICES ASSUME BusInv, [Next]_vars PROVE [Contract!Next]_Contract!vars
  OBVIOUS
<1> USE DEF Contract!Next, Contract!vars
<1>1. ASSUME NEW in \in Sends, SendMessage(in) PROVE Contract!Next
  BY <1>1, SendMessageRefines
<1>2. ASSUME NEW in \in EventInputs, RecordEvent(in) PROVE UNCHANGED Contract!vars
  BY <1>2 DEF RecordEvent
<1>3. ASSUME NEW a \in Agents, Poll(a) PROVE Contract!Next
  BY <1>3, PollRefines
<1>4. ASSUME NEW a \in Agents, MarkRead(a) PROVE Contract!Next
  BY <1>4, MarkReadRefines
<1>5. ASSUME NEW a \in Agents, AgentRestarts(a) PROVE Contract!Next
  BY <1>5 DEF AgentRestarts, Contract!Forget
<1>6. CASE StoreRestarts
  BY <1>6, StoreRestartsFacts DEF StoreRestarts
<1>7. CASE UNCHANGED vars
  BY <1>7 DEF vars
<1> QED BY <1>1, <1>2, <1>3, <1>4, <1>5, <1>6, <1>7 DEF Next

(* The in-memory store does what the SQL functions of the durable bus      *)
(* would: what it accepts, returns as a page and marks, and a restart of   *)
(* the store from its complete histories is no step of the contract.       *)
THEOREM ImplementsContractCorrect == Spec => ImplementsContract
<1>1. BusInv /\ Init => Contract!Init
  BY InitRefines
<1>2. BusInv /\ [Next]_vars => [Contract!Next]_Contract!vars
  BY StepRefines
<1> QED BY <1>1, <1>2, SpecInv, PTL DEF Spec, ImplementsContract, Contract!Spec

=============================================================================
