---------------------------- MODULE CatanProofs -----------------------------
(* The accounts of the example application are in order whatever the        *)
(* recipes and however many cards the drivers make.                        *)
EXTENDS Catan, SequenceTheorems, TLAPS

-----------------------------------------------------------------------------
(* The routines, seen through the facts about them that the accounts need. *)

LEMMA BuildersAreNamed ==
  /\ RoadBuilder.makes = "road" /\ SettlementBuilder.makes = "settlement"
  /\ CityBuilder.makes = "city" /\ DevelopmentCardBuilder.makes = "developmentCard"
BY DEF RoadBuilder, SettlementBuilder, CityBuilder, DevelopmentCardBuilder, Routine

LEMMA DriversAreNamed ==
  /\ Hills.makes = "brick" /\ Forest.makes = "lumber" /\ Pasture.makes = "wool"
  /\ Fields.makes = "grain" /\ Mountains.makes = "ore"
BY DEF Hills, Forest, Pasture, Fields, Mountains, Routine

\* No topic has two publishers.
LEMMA OneMaker ==
  ASSUME NEW r \in Routines, NEW q \in Routines, r.makes = q.makes
  PROVE  r = q
BY BuildersAreNamed, DriversAreNamed DEF Routines, Drivers, Builders

LEMMA Apart == Drivers \cap Builders = {}
BY BuildersAreNamed, DriversAreNamed DEF Drivers, Builders

LEMMA Makers ==
  /\ \A r \in Routines : r.makes \in Topics
  /\ Builders \subseteq Routines /\ Drivers \subseteq Routines
  /\ \A r \in Routines : r \in Drivers \/ r \in Builders
BY DEF Topics, Routines

LEMMA TopicsAreNamed ==
  {"road", "settlement", "city", "developmentCard",
   "brick", "lumber", "wool", "grain", "ore"} \subseteq Topics
<1>1. \A r \in Builders \cup Drivers : r.makes \in Topics
  BY Makers
<1> QED
  BY <1>1, BuildersAreNamed, DriversAreNamed DEF Drivers, Builders

\* A builder takes topics of the game, its own product not among them.
LEMMA Takers ==
  ASSUME NEW b \in Builders
  PROVE  b.takes \subseteq Topics /\ b.makes \notin b.takes
<1>1. /\ RoadBuilder.takes = {"brick", "lumber"}
      /\ SettlementBuilder.takes = {"road", "brick", "lumber", "wool", "grain"}
      /\ CityBuilder.takes = {"settlement", "ore", "grain"}
      /\ DevelopmentCardBuilder.takes = {"ore", "wool", "grain"}
  BY DEF RoadBuilder, SettlementBuilder, CityBuilder, DevelopmentCardBuilder, Routine
<1> QED
  BY <1>1, BuildersAreNamed, TopicsAreNamed DEF Builders

LEMMA Recipe ==
  ASSUME NEW b \in Builders
  PROVE  /\ \A t \in b.takes : PerPiece[b.makes][t] \in Nat
         /\ \E t \in b.takes : PerPiece[b.makes][t] > 0
BY CatanAssumption

-----------------------------------------------------------------------------
(* A sum over the builders moves with the one term that moves.              *)

Total(f) ==
  f[RoadBuilder] + f[SettlementBuilder] + f[CityBuilder] + f[DevelopmentCardBuilder]

LEMMA TotalMoves ==
  ASSUME NEW f, NEW g, NEW b \in Builders, NEW k \in Int,
         \A a \in Builders : f[a] \in Int,
         \A a \in Builders : g[a] = IF a = b THEN f[a] + k ELSE f[a]
  PROVE  Total(g) = Total(f) + k
<1>1. /\ RoadBuilder # SettlementBuilder /\ RoadBuilder # CityBuilder
      /\ RoadBuilder # DevelopmentCardBuilder /\ SettlementBuilder # CityBuilder
      /\ SettlementBuilder # DevelopmentCardBuilder /\ CityBuilder # DevelopmentCardBuilder
  BY BuildersAreNamed
<1>2. /\ RoadBuilder \in Builders /\ SettlementBuilder \in Builders
      /\ CityBuilder \in Builders /\ DevelopmentCardBuilder \in Builders
  BY DEF Builders
<1>3. b \in {RoadBuilder, SettlementBuilder, CityBuilder, DevelopmentCardBuilder}
  BY DEF Builders
<1> QED
  BY <1>1, <1>2, <1>3 DEF Total

LEMMA TotalSame ==
  ASSUME NEW f, NEW g, \A a \in Builders : g[a] = f[a]
  PROVE  Total(g) = Total(f)
BY DEF Total, Builders

LEMMA TotalPositive ==
  ASSUME NEW f, NEW b \in Builders, \A a \in Builders : f[a] \in Nat
  PROVE  Total(f) \in Nat /\ (Total(f) = 0 => f[b] = 0)
<1>2. /\ RoadBuilder \in Builders /\ SettlementBuilder \in Builders
      /\ CityBuilder \in Builders /\ DevelopmentCardBuilder \in Builders
  BY DEF Builders
<1>3. b \in {RoadBuilder, SettlementBuilder, CityBuilder, DevelopmentCardBuilder}
  BY DEF Builders
<1> QED
  BY <1>2, <1>3, SMTT(30) DEF Total

-----------------------------------------------------------------------------
(* The invariant.                                                          *)

Card == [topic : Topics, id : Nat]

TypeOK ==
  /\ made \in [Topics -> Nat]
  /\ outbox \in [Routines -> SUBSET Builders]
  /\ inbox \in [Builders -> Seq(Card)]
  /\ handling \in [Builders -> BOOLEAN]
  /\ DOMAIN stock = Builders
  /\ \A b \in Builders : stock[b] \in [b.takes -> Nat]
  /\ inFlight \in Int
  /\ stopped \subseteq Drivers
  /\ closed \in BOOLEAN

\* Nobody gets what it did not subscribe to.
Addressed ==
  /\ \A r \in Routines : outbox[r] \subseteq Subscribers(r.makes)
  /\ \A b \in Builders : \A i \in DOMAIN inbox[b] : inbox[b][i].topic \in b.takes

\* Only a routine that is at work has something to deliver.
AtWork ==
  /\ \A b \in Builders : outbox[b] # {} => handling[b]
  /\ \A d \in stopped : outbox[d] = {}

\* A builder that left its callback could not go on.
Exhausted == \A b \in Builders : ~handling[b] => ~Affordable(b)

\* The consignments of the port are the cards in the inboxes and in the hands
\* of the callbacks.
Held == [b \in Builders |-> Len(inbox[b]) + (IF handling[b] THEN 1 ELSE 0)]
Counted == inFlight = Total(Held)

Cleared ==
  closed => stopped = Drivers /\ \A b \in Builders : inbox[b] = <<>> /\ ~handling[b]

CInv == TypeOK /\ Addressed /\ AtWork /\ Exhausted /\ Counted /\ Cleared /\ CardsAddUp

LEMMA HeldBy ==
  ASSUME TypeOK, NEW b \in Builders
  PROVE  /\ Len(inbox[b]) \in Nat /\ Held[b] \in Nat
         /\ handling[b] => Held[b] = Len(inbox[b]) + 1
         /\ ~handling[b] => Held[b] = Len(inbox[b])
<1>1. Len(inbox[b]) \in Nat
  BY LenProperties DEF TypeOK
<1>2. handling[b] => Held[b] = Len(inbox[b]) + 1
  BY DEF Held
<1>3. ~handling[b] => Held[b] = Len(inbox[b]) + 0
  BY DEF Held
<1>4. Held[b] \in Nat
  BY <1>1, <1>2, <1>3
<1> QED
  BY <1>1, <1>2, <1>3, <1>4

-----------------------------------------------------------------------------
(* The cards of a topic in an inbox: the numbers from first to last, in     *)
(* their order.                                                            *)

Queued(q, t) == {i \in DOMAIN q : q[i].topic = t}
InOrder(q, t, first, last) ==
  /\ {q[i].id : i \in Queued(q, t)} = first .. last
  /\ \A i, j \in Queued(q, t) : i < j => q[i].id < q[j].id

LEMMA NoneInOrder ==
  ASSUME NEW t, NEW n \in Int
  PROVE  InOrder(<<>>, t, n + 1, n)
<1>1. Queued(<<>>, t) = {}
  BY DEF Queued
<1>2. (n + 1) .. n = {}
  OBVIOUS
<1> QED
  BY <1>1, <1>2 DEF InOrder

LEMMA QueuedAppend ==
  ASSUME NEW q \in Seq(Card), NEW card \in Card, NEW t
  PROVE  LET r == Append(q, card)
         IN  /\ Queued(r, t) = Queued(q, t) \cup (IF card.topic = t THEN {Len(q) + 1} ELSE {})
             /\ \A i \in Queued(q, t) : r[i] = q[i] /\ i \in 1 .. Len(q)
             /\ r[Len(q) + 1] = card
<1> DEFINE r == Append(q, card)
<1>1. /\ Len(r) = Len(q) + 1 /\ r \in Seq(Card)
      /\ \A i \in 1 .. Len(q) : r[i] = q[i]
      /\ r[Len(q) + 1] = card
  BY AppendProperties
<1>2. DOMAIN q = 1 .. Len(q) /\ DOMAIN r = 1 .. Len(q) + 1 /\ Len(q) \in Nat
  BY <1>1, LenProperties
<1> HIDE DEF r
<1>3. \A i : i \in 1 .. Len(q) + 1 <=> i \in 1 .. Len(q) \/ i = Len(q) + 1
  BY <1>2
<1>4. Len(q) + 1 \notin 1 .. Len(q)
  BY <1>2
<1>5. \A i : i \in Queued(r, t) <=> i \in Queued(q, t) \/ (i = Len(q) + 1 /\ card.topic = t)
  BY <1>1, <1>2, <1>3, <1>4 DEF Queued
<1>6. Queued(r, t) = Queued(q, t) \cup (IF card.topic = t THEN {Len(q) + 1} ELSE {})
  BY <1>5
<1>7. \A i \in Queued(q, t) : i \in 1 .. Len(q)
  BY <1>2 DEF Queued
<1> QED
  BY <1>1, <1>6, <1>7 DEF r

\* The next card goes behind the ones that wait.
LEMMA NextIsQueued ==
  ASSUME NEW q \in Seq(Card), NEW card \in Card, NEW t, NEW m \in Int, NEW n \in Int,
         InOrder(q, t, m, n), m <= n + 1, card.topic = t, card.id = n + 1
  PROVE  InOrder(Append(q, card), t, m, n + 1)
<1> DEFINE r == Append(q, card)
<1>1. /\ Queued(r, t) = Queued(q, t) \cup {Len(q) + 1}
      /\ \A i \in Queued(q, t) : r[i] = q[i] /\ i \in 1 .. Len(q)
      /\ r[Len(q) + 1] = card
  BY QueuedAppend
<1>2. Len(q) \in Nat
  BY LenProperties
<1> HIDE DEF r
<1>3. \A i \in Queued(q, t) : q[i].id \in m .. n
  BY DEF InOrder
<1>4. {r[i].id : i \in Queued(r, t)} = {q[i].id : i \in Queued(q, t)} \cup {n + 1}
  BY <1>1
<1>5. m .. n + 1 = (m .. n) \cup {n + 1}
  OBVIOUS
<1>6. {r[i].id : i \in Queued(r, t)} = m .. n + 1
  BY <1>4, <1>5 DEF InOrder
<1>7. ASSUME NEW i \in Queued(r, t), NEW j \in Queued(r, t), i < j
      PROVE  r[i].id < r[j].id
  <2>1. i \in Queued(q, t)
    BY <1>1, <1>2, <1>7
  <2>2. CASE j \in Queued(q, t)
    BY <1>1, <1>7, <2>1, <2>2 DEF InOrder
  <2>3. CASE j = Len(q) + 1
    <3>1. r[j].id = n + 1 /\ r[i].id \in m .. n
      BY <1>1, <1>3, <2>1, <2>3
    <3> QED
      BY <3>1
  <2> QED
    BY <1>1, <2>2, <2>3
<1> QED
  BY <1>6, <1>7 DEF InOrder, r

LEMMA OtherIsQueued ==
  ASSUME NEW q \in Seq(Card), NEW card \in Card, NEW t, NEW m \in Int, NEW n \in Int,
         InOrder(q, t, m, n), card.topic # t
  PROVE  InOrder(Append(q, card), t, m, n)
<1> DEFINE r == Append(q, card)
<1>0. /\ Queued(r, t) = Queued(q, t) \cup (IF card.topic = t THEN {Len(q) + 1} ELSE {})
      /\ \A i \in Queued(q, t) : r[i] = q[i] /\ i \in 1 .. Len(q)
  BY QueuedAppend
<1> HIDE DEF r
<1>1. /\ Queued(r, t) = Queued(q, t)
      /\ \A i \in Queued(q, t) : r[i] = q[i]
  BY <1>0
<1>2. {r[i].id : i \in Queued(r, t)} = {q[i].id : i \in Queued(q, t)}
  BY <1>1
<1>3. InOrder(r, t, m, n)
  BY <1>1, <1>2 DEF InOrder
<1> QED
  BY <1>3 DEF r

LEMMA QueuedTail ==
  ASSUME NEW q \in Seq(Card), q # <<>>, NEW t
  PROVE  LET r == Tail(q)
         IN  /\ \A i : i \in Queued(r, t) <=> i \in Nat \ {0} /\ i + 1 \in Queued(q, t)
             /\ \A i \in Queued(r, t) : r[i] = q[i + 1]
             /\ \A i \in Queued(q, t) : i = 1 \/ (i \in Nat /\ i > 1)
             /\ 1 \in Queued(q, t) <=> Head(q).topic = t
             /\ Head(q) = q[1]
<1> DEFINE r == Tail(q)
<1>1. /\ Len(r) = Len(q) - 1 /\ r \in Seq(Card) /\ Head(q) = q[1]
      /\ \A i \in 1 .. Len(r) : r[i] = q[i + 1]
  BY HeadTailProperties
<1>2. DOMAIN q = 1 .. Len(q) /\ DOMAIN r = 1 .. Len(r) /\ Len(q) \in Nat /\ Len(q) > 0
  BY <1>1, LenProperties, EmptySeq
<1> HIDE DEF r
<1>3. \A i : i \in DOMAIN r <=> i \in Nat \ {0} /\ i + 1 \in DOMAIN q
  BY <1>1, <1>2
<1>4. \A i \in DOMAIN r : r[i] = q[i + 1]
  BY <1>1, <1>2
<1>5. \A i : i \in Queued(r, t) <=> i \in Nat \ {0} /\ i + 1 \in Queued(q, t)
  BY <1>3, <1>4 DEF Queued
<1>6. \A i \in DOMAIN q : i = 1 \/ (i \in Nat /\ i > 1)
  BY <1>2
<1>7. 1 \in DOMAIN q
  BY <1>2
<1> QED
  BY <1>1, <1>4, <1>5, <1>6, <1>7 DEF r, Queued

\* The first of a topic to be taken has the first number.
LEMMA FirstIsTaken ==
  ASSUME NEW q \in Seq(Card), q # <<>>, NEW t, NEW m \in Int, NEW n \in Int,
         InOrder(q, t, m, n), Head(q).topic = t
  PROVE  m <= n /\ InOrder(Tail(q), t, m + 1, n)
<1> DEFINE r == Tail(q)
<1>1. /\ \A i : i \in Queued(r, t) <=> i \in Nat \ {0} /\ i + 1 \in Queued(q, t)
      /\ \A i \in Queued(r, t) : r[i] = q[i + 1]
      /\ \A i \in Queued(q, t) : i = 1 \/ (i \in Nat /\ i > 1)
      /\ 1 \in Queued(q, t)
  BY QueuedTail
<1> HIDE DEF r
<1>2. {q[i].id : i \in Queued(q, t)} = m .. n
  BY DEF InOrder
<1>3. \A i \in Queued(q, t) : i # 1 => q[1].id < q[i].id
  <2>1. \A i \in Queued(q, t) : i # 1 => 1 < i
    BY <1>1
  <2> QED
    BY <1>1, <2>1 DEF InOrder
<1>4. q[1].id \in m .. n /\ \A k \in m .. n : \E i \in Queued(q, t) : k = q[i].id
  BY <1>1, <1>2
<1>5. \A i \in Queued(q, t) : q[i].id \in m .. n
  BY <1>2
<1>6. m <= n /\ q[1].id \in Int /\ m \in m .. n
  BY <1>4
<1>7. q[1].id = m
  <2>1. PICK i \in Queued(q, t) : q[i].id = m
    BY <1>4, <1>6
  <2>2. m <= q[1].id
    BY <1>4
  <2> QED
    BY <1>3, <1>6, <2>1, <2>2
<1>8. {r[i].id : i \in Queued(r, t)} = m + 1 .. n
  <2>1. ASSUME NEW i \in Queued(r, t)
        PROVE  r[i].id \in m + 1 .. n
    <3>1. i + 1 \in Queued(q, t) /\ i + 1 # 1 /\ r[i] = q[i + 1]
      BY <1>1, <2>1
    <3>2. q[1].id < q[i + 1].id /\ q[i + 1].id \in m .. n
      BY <1>3, <1>5, <3>1
    <3> QED
      BY <1>7, <3>1, <3>2
  <2>2. ASSUME NEW k \in m + 1 .. n
        PROVE  \E i \in Queued(r, t) : k = r[i].id
    <3>1. k \in m .. n /\ k # m
      OBVIOUS
    <3>2. PICK i \in Queued(q, t) : q[i].id = k
      BY <1>4, <3>1
    <3>3. i \in Nat /\ i > 1
      BY <1>1, <1>7, <3>1, <3>2
    <3>4. i - 1 \in Nat \ {0} /\ (i - 1) + 1 = i
      BY <3>3
    <3>5. i - 1 \in Queued(r, t) /\ r[i - 1] = q[i]
      BY <1>1, <3>4
    <3> QED
      BY <3>2, <3>5
  <2> QED
    BY <2>1, <2>2
<1>9. ASSUME NEW i \in Queued(r, t), NEW j \in Queued(r, t), i < j
      PROVE  r[i].id < r[j].id
  <2>1. i + 1 \in Queued(q, t) /\ j + 1 \in Queued(q, t) /\ i + 1 < j + 1
    BY <1>1, <1>9
  <2> QED
    BY <1>1, <2>1 DEF InOrder
<1> QED
  BY <1>6, <1>8, <1>9 DEF InOrder, r

LEMMA OtherIsTaken ==
  ASSUME NEW q \in Seq(Card), q # <<>>, NEW t, NEW m \in Int, NEW n \in Int,
         InOrder(q, t, m, n), Head(q).topic # t
  PROVE  InOrder(Tail(q), t, m, n)
<1> DEFINE r == Tail(q)
<1>1. /\ \A i : i \in Queued(r, t) <=> i \in Nat \ {0} /\ i + 1 \in Queued(q, t)
      /\ \A i \in Queued(r, t) : r[i] = q[i + 1]
      /\ \A i \in Queued(q, t) : i = 1 \/ (i \in Nat /\ i > 1)
      /\ 1 \notin Queued(q, t)
  BY QueuedTail
<1> HIDE DEF r
<1>2. ASSUME NEW i \in Queued(q, t)
      PROVE  i - 1 \in Queued(r, t) /\ r[i - 1] = q[i]
  <2>0. i \in Nat /\ i > 1
    BY <1>1
  <2>1. i - 1 \in Nat \ {0} /\ (i - 1) + 1 = i
    BY <2>0
  <2> QED
    BY <1>1, <2>1
<1>3. {r[i].id : i \in Queued(r, t)} = {q[i].id : i \in Queued(q, t)}
  BY <1>1, <1>2, ZenonT(30)
<1>4. ASSUME NEW i \in Queued(r, t), NEW j \in Queued(r, t), i < j
      PROVE  r[i].id < r[j].id
  <2>1. i + 1 \in Queued(q, t) /\ j + 1 \in Queued(q, t) /\ i + 1 < j + 1
    BY <1>1, <1>4
  <2> QED
    BY <1>1, <2>1 DEF InOrder
<1> QED
  BY <1>3, <1>4 DEF InOrder, r

-----------------------------------------------------------------------------
(* The accounts of a builder for a topic: what it took, and the last card   *)
(* that reached it.                                                        *)

Taken(b, t) == stock[b][t] + Spent(b, t)
Last(b, t) == IF OnItsWay(b, t) THEN made[t] - 1 ELSE made[t]
Account(b, t) ==
  Taken(b, t) <= Last(b, t) /\ InOrder(inbox[b], t, Taken(b, t) + 1, Last(b, t))

LEMMA Accounts == CardsAddUp <=> \A b \in Builders : \A t \in b.takes : Account(b, t)
BY DEF CardsAddUp, Account, InOrder, Queued, Taken, Last

LEMMA AccountsOfNumbers ==
  ASSUME TypeOK, NEW b \in Builders, NEW t \in b.takes
  PROVE  /\ t \in Topics /\ made[t] \in Nat /\ b.makes \in Topics
         /\ stock[b][t] \in Nat /\ Spent(b, t) \in Nat
         /\ Taken(b, t) \in Nat /\ Last(b, t) \in Int /\ inbox[b] \in Seq(Card)
<1>1. t \in Topics /\ b.makes \in Topics
  BY Takers, Makers
<1>2. made[t] \in Nat /\ made[b.makes] \in Nat /\ stock[b][t] \in Nat /\ inbox[b] \in Seq(Card)
  BY <1>1 DEF TypeOK
<1>3. PerPiece[b.makes][t] \in Nat
  BY Recipe
<1>4. Spent(b, t) \in Nat
  BY <1>2, <1>3 DEF Spent
<1> QED
  BY <1>1, <1>2, <1>4 DEF Taken, Last

-----------------------------------------------------------------------------
(* At the start nobody has anything, and that buys no piece.                *)

LEMMA InitHolds == Init => CInv
<1> SUFFICES ASSUME Init PROVE CInv
  OBVIOUS
<1> USE DEF Init
<1>1. TypeOK
  <2>1. inbox \in [Builders -> Seq(Card)]
    OBVIOUS
  <2>2. \A b \in Builders : stock[b] \in [b.takes -> Nat]
    OBVIOUS
  <2>3. made \in [Topics -> Nat] /\ handling \in [Builders -> BOOLEAN]
    OBVIOUS
  <2>4. outbox \in [Routines -> SUBSET Builders]
    OBVIOUS
  <2>5. DOMAIN stock = Builders /\ inFlight \in Int /\ stopped \subseteq Drivers
    OBVIOUS
  <2> QED
    BY <2>1, <2>2, <2>3, <2>4, <2>5 DEF TypeOK
<1>2. Addressed
  <2>1. \A r \in Routines : outbox[r] = {}
    OBVIOUS
  <2>2. \A b \in Builders : DOMAIN inbox[b] = {}
    OBVIOUS
  <2> QED
    BY <2>1, <2>2 DEF Addressed
<1>3. AtWork
  BY Makers DEF AtWork
<1>4. Exhausted
  <2>1. ASSUME NEW b \in Builders
        PROVE  ~Affordable(b)
    <3>1. PICK t \in b.takes : PerPiece[b.makes][t] > 0 /\ PerPiece[b.makes][t] \in Nat
      BY Recipe
    <3>2. stock[b][t] = 0
      BY <3>1
    <3> QED
      BY <3>1, <3>2 DEF Affordable
  <2> QED
    BY <2>1 DEF Exhausted
<1>5. Counted
  <2>1. \A b \in Builders : Held[b] = 0
    BY DEF Held
  <2>2. Total(Held) = 0
    BY <2>1 DEF Total, Builders
  <2> QED
    BY <2>2 DEF Counted
<1>6. Cleared
  BY DEF Cleared
<1>7. CardsAddUp
  <2>1. ASSUME NEW b \in Builders, NEW t \in b.takes
        PROVE  Account(b, t)
    <3>1. /\ t \in Topics /\ made[t] = 0 /\ made[b.makes] = 0
          /\ stock[b][t] = 0 /\ inbox[b] = <<>>
      BY Takers, Makers
    <3>2. PerPiece[b.makes][t] \in Nat
      BY Recipe
    <3>3. Taken(b, t) = 0
      BY <3>1, <3>2 DEF Taken, Spent
    <3>4. Last(b, t) = 0
      BY <3>1, Makers DEF Last, OnItsWay
    <3>5. \A n \in Int : InOrder(<<>>, t, n + 1, n)
      BY NoneInOrder
    <3>6. InOrder(<<>>, t, 0 + 1, 0)
      BY <3>5
    <3> QED
      BY <3>1, <3>3, <3>4, <3>6 DEF Account
  <2> QED
    BY <2>1, Accounts
<1> QED
  BY <1>1, <1>2, <1>3, <1>4, <1>5, <1>6, <1>7 DEF CInv

-----------------------------------------------------------------------------
(* A publication: the number of the last card goes up, and with it the one  *)
(* that every subscriber has yet to get. Nobody's account moves.            *)

LEMMA PublishedTyped ==
  ASSUME TypeOK, NEW r \in Routines, Publish(r)
  PROVE  /\ made' \in [Topics -> Nat] /\ outbox' \in [Routines -> SUBSET Builders]
         /\ \A t \in Topics : made'[t] = IF t = r.makes THEN made[t] + 1 ELSE made[t]
         /\ \A q \in Routines : outbox'[q] = IF q = r THEN Subscribers(r.makes) ELSE outbox[q]
<1>1. r.makes \in Topics /\ made[r.makes] + 1 \in Nat
  BY Makers DEF TypeOK
<1>2. Subscribers(r.makes) \subseteq Builders
  BY DEF Subscribers
<1> QED
  BY <1>1, <1>2 DEF TypeOK, Publish

LEMMA PublishedLast ==
  ASSUME TypeOK, NEW r \in Routines, outbox[r] = {}, Publish(r),
         NEW b \in Builders, NEW t \in b.takes
  PROVE  Last(b, t)' = Last(b, t)
<1>1. t \in Topics /\ made[t] \in Nat
  BY AccountsOfNumbers
<1>2. /\ made'[t] = IF t = r.makes THEN made[t] + 1 ELSE made[t]
      /\ \A q \in Routines : outbox'[q] = IF q = r THEN Subscribers(r.makes) ELSE outbox[q]
  BY <1>1, PublishedTyped
<1>3. CASE t = r.makes
  <2>1. ~OnItsWay(b, t)
    BY <1>3, OneMaker DEF OnItsWay
  <2>2. b \in Subscribers(r.makes)
    BY <1>3 DEF Subscribers
  <2>3. OnItsWay(b, t)'
    BY <1>2, <1>3, <2>2 DEF OnItsWay
  <2> QED
    BY <1>1, <1>2, <1>3, <2>1, <2>3 DEF Last
<1>4. CASE t # r.makes
  <2>1. OnItsWay(b, t)' <=> OnItsWay(b, t)
    BY <1>2, <1>4 DEF OnItsWay
  <2> QED
    BY <1>2, <1>4, <2>1 DEF Last
<1> QED
  BY <1>3, <1>4

LEMMA PublishedAddressed ==
  ASSUME TypeOK, Addressed, NEW r \in Routines, Publish(r), UNCHANGED inbox
  PROVE  Addressed'
BY PublishedTyped DEF Addressed

LEMMA ProduceKeeps ==
  ASSUME CInv, NEW d \in Drivers, Produce(d)
  PROVE  CInv'
<1> USE DEF Produce
<1>0. d \in Routines /\ TypeOK /\ Publish(d) /\ outbox[d] = {} /\ d \notin Builders
  BY Makers, Apart DEF CInv
<1>1. TypeOK'
  BY <1>0, PublishedTyped DEF TypeOK
<1>2. Addressed'
  BY <1>0, PublishedAddressed DEF CInv
<1>3. \A q \in Routines : q # d => outbox'[q] = outbox[q]
  BY <1>0, PublishedTyped
<1>4. AtWork'
  <2>1. \A b \in Builders : b # d /\ b \in Routines
    BY <1>0, Makers
  <2>2. \A e \in stopped : e # d /\ e \in Routines
    BY <1>0, Makers DEF TypeOK
  <2> QED
    BY <1>3, <2>1, <2>2 DEF CInv, AtWork
<1>5. Exhausted'
  BY DEF CInv, Exhausted, Affordable
<1>6. Counted' /\ Cleared'
  BY DEF CInv, Counted, Cleared, Held, Total
<1>7. CardsAddUp'
  <2>1. ASSUME NEW b \in Builders, NEW t \in b.takes
        PROVE  Account(b, t)'
    <3>1. Last(b, t)' = Last(b, t)
      BY <1>0, PublishedLast
    <3>2. b.makes # d.makes /\ b.makes \in Topics
      BY <1>0, OneMaker, Makers
    <3>3. made'[b.makes] = made[b.makes]
      BY <1>0, <3>2, PublishedTyped
    <3>4. Taken(b, t)' = Taken(b, t)
      BY <3>3 DEF Taken, Spent
    <3> QED
      BY <3>1, <3>4, Accounts DEF CInv, Account
  <2> QED
    BY <2>1, Accounts DEF CardsAddUp, Account, InOrder, Queued, Taken, Last
<1> QED
  BY <1>1, <1>2, <1>4, <1>5, <1>6, <1>7 DEF CInv

LEMMA StopKeeps ==
  ASSUME CInv, NEW d \in Drivers, Stop(d)
  PROVE  CInv'
<1> USE DEF Stop
<1>1. TypeOK' /\ Addressed'
  BY DEF CInv, TypeOK, Addressed
<1>2. AtWork' /\ Exhausted'
  BY DEF CInv, AtWork, Exhausted, Affordable
<1>3. Counted' /\ Cleared'
  BY DEF CInv, Counted, Cleared, Held, Total, TypeOK
<1>4. CardsAddUp'
  BY DEF CInv, CardsAddUp, Spent, OnItsWay
<1> QED
  BY <1>1, <1>2, <1>3, <1>4 DEF CInv

-----------------------------------------------------------------------------
(* A card that reaches an inbox is the last of its topic, and one            *)
(* consignment more.                                                        *)

LEMMA DeliverKeeps ==
  ASSUME CInv, NEW r \in Routines, Deliver(r)
  PROVE  CInv'
<1> DEFINE card == [topic |-> r.makes, id |-> made[r.makes]]
<1>0. PICK to \in outbox[r] :
        /\ inbox' = [inbox EXCEPT ![to] = Append(@, card)]
        /\ outbox' = [outbox EXCEPT ![r] = @ \ {to}]
  BY DEF Deliver
<1>u. /\ inFlight' = inFlight + 1
      /\ UNCHANGED <<made, handling, stock, stopped, closed>>
  BY DEF Deliver
<1>t. TypeOK
  BY DEF CInv
<1>a. /\ r.makes \in Topics /\ made[r.makes] \in Nat /\ card \in Card
      /\ card.topic = r.makes /\ card.id = made[r.makes]
  BY <1>t, Makers DEF TypeOK, Card
<1>b. to \in Builders /\ r.makes \in to.takes
  BY DEF CInv, Addressed, Subscribers
<1> HIDE DEF card
<1>c. /\ inbox' \in [Builders -> Seq(Card)] /\ outbox' \in [Routines -> SUBSET Builders]
      /\ inbox'[to] = Append(inbox[to], card) /\ inbox[to] \in Seq(Card)
      /\ \A b \in Builders : b # to => inbox'[b] = inbox[b]
      /\ outbox'[r] = outbox[r] \ {to}
      /\ \A q \in Routines : q # r => outbox'[q] = outbox[q]
  BY <1>0, <1>a, <1>b, <1>t, AppendProperties DEF TypeOK
<1>1. TypeOK'
  BY <1>t, <1>u, <1>c DEF TypeOK
<1>2. Addressed'
  <2>1. \A q \in Routines : outbox'[q] \subseteq Subscribers(q.makes)
    BY <1>c DEF CInv, Addressed
  <2>2. ASSUME NEW b \in Builders, NEW i \in DOMAIN inbox'[b]
        PROVE  inbox'[b][i].topic \in b.takes
    <3>1. CASE b # to
      BY <1>c, <2>2, <3>1 DEF CInv, Addressed
    <3>2. CASE b = to
      <4>1. /\ Len(inbox'[to]) = Len(inbox[to]) + 1 /\ inbox'[to] \in Seq(Card)
            /\ \A j \in 1 .. Len(inbox[to]) : inbox'[to][j] = inbox[to][j]
            /\ inbox'[to][Len(inbox[to]) + 1] = card
        BY <1>a, <1>c, AppendProperties
      <4>2. /\ i \in 1 .. Len(inbox[to]) + 1 /\ Len(inbox[to]) \in Nat
            /\ DOMAIN inbox[to] = 1 .. Len(inbox[to])
        BY <1>c, <2>2, <3>2, <4>1, LenProperties
      <4>3. CASE i = Len(inbox[to]) + 1
        BY <1>a, <1>b, <3>2, <4>1, <4>3
      <4>4. CASE i \in 1 .. Len(inbox[to])
        BY <3>2, <4>1, <4>2, <4>4 DEF CInv, Addressed
      <4> QED
        BY <4>2, <4>3, <4>4
    <3> QED
      BY <3>1, <3>2
  <2> QED
    BY <2>1, <2>2 DEF Addressed
<1>w. /\ r \in Builders => handling[r]
      /\ r \notin stopped
  BY DEF CInv, AtWork
<1>3. AtWork'
  <2>1. ASSUME NEW b \in Builders, outbox'[b] # {}
        PROVE  handling'[b]
    <3>1. b \in Routines
      BY Makers
    <3>2. outbox[b] # {}
      BY <1>c, <2>1, <3>1
    <3> QED
      BY <1>u, <3>2 DEF CInv, AtWork
  <2>2. ASSUME NEW d \in stopped'
        PROVE  outbox'[d] = {}
    <3>1. d \in Routines /\ d # r /\ d \in stopped
      BY <1>u, <1>t, <1>w, Makers DEF TypeOK
    <3> QED
      BY <1>c, <3>1 DEF CInv, AtWork
  <2> QED
    BY <2>1, <2>2 DEF AtWork
<1>4. Exhausted'
  BY <1>u DEF CInv, Exhausted, Affordable
<1>5. Counted'
  <2>1. \A b \in Builders : Held[b] \in Int
    BY <1>t, HeldBy
  <2>2. Len(inbox'[to]) = Len(inbox[to]) + 1 /\ Len(inbox[to]) \in Nat
    BY <1>a, <1>c, AppendProperties, LenProperties
  <2>h. \A b \in Builders :
          /\ Held[b] = Len(inbox[b]) + (IF handling[b] THEN 1 ELSE 0)
          /\ Held'[b] = Len(inbox'[b]) + (IF handling[b] THEN 1 ELSE 0)
    BY <1>u DEF Held
  <2>3. ASSUME NEW b \in Builders
        PROVE  Held'[b] = IF b = to THEN Held[b] + 1 ELSE Held[b]
    <3>1. CASE b = to
      <4>1. PICK k \in Int : k = IF handling[b] THEN 1 ELSE 0
        OBVIOUS
      <4>2. Held[b] = Len(inbox[to]) + k /\ Held'[b] = Len(inbox[to]) + 1 + k
        BY <2>h, <2>2, <3>1, <4>1
      <4>3. Held'[b] = Held[b] + 1
        BY <2>2, <4>2
      <4> QED
        BY <3>1, <4>3
    <3>2. CASE b # to
      BY <1>c, <2>h, <3>2
    <3> QED
      BY <3>1, <3>2
  <2>4. Total(Held)' = Total(Held) + 1
    <3>1. Total(Held') = Total(Held) + 1
      BY <1>b, <2>1, <2>3, TotalMoves
    <3> QED
      BY <3>1 DEF Total
  <2> QED
    BY <1>u, <2>4 DEF CInv, Counted
<1>6. Cleared'
  <2>1. ~closed
    BY <1>w, Makers DEF CInv, Cleared
  <2> QED
    BY <1>u, <2>1 DEF Cleared
<1>7. CardsAddUp'
  <2>1. ASSUME NEW b \in Builders, NEW t \in b.takes
        PROVE  Account(b, t)'
    <3>0. /\ t \in Topics /\ made[t] \in Nat /\ Taken(b, t) \in Nat /\ Last(b, t) \in Int
          /\ inbox[b] \in Seq(Card)
      BY <1>t, AccountsOfNumbers
    <3>1. Account(b, t)
      BY Accounts DEF CInv
    <3>2. Taken(b, t)' = Taken(b, t)
      BY <1>u DEF Taken, Spent
    <3>3. CASE b = to /\ t = r.makes
      <4>1. OnItsWay(b, t)
        BY <3>3 DEF OnItsWay
      <4>2. ~OnItsWay(b, t)'
        BY <1>c, <3>3, OneMaker DEF OnItsWay
      <4>3. Last(b, t) = made[t] - 1 /\ Last(b, t)' = made[t]
        BY <1>u, <4>1, <4>2 DEF Last
      <4>4. Last(b, t)' = Last(b, t) + 1 /\ card.id = Last(b, t) + 1
        BY <1>a, <3>0, <3>3, <4>3
      <4>5. Taken(b, t) <= Last(b, t) /\ InOrder(inbox[b], t, Taken(b, t) + 1, Last(b, t))
        BY <3>1 DEF Account
      <4>6. InOrder(Append(inbox[b], card), t, Taken(b, t) + 1, Last(b, t) + 1)
        <5>1. Taken(b, t) + 1 \in Int /\ Taken(b, t) + 1 <= Last(b, t) + 1
          BY <3>0, <4>5
        <5>2. card.topic = t
          BY <1>a, <3>3
        <5> QED
          BY <1>a, <3>0, <4>4, <4>5, <5>1, <5>2, NextIsQueued
      <4>7. InOrder(inbox'[b], t, Taken(b, t)' + 1, Last(b, t)')
        BY <1>c, <3>2, <3>3, <4>4, <4>6
      <4>8. Taken(b, t)' <= Last(b, t)'
        BY <3>0, <3>2, <4>4, <4>5
      <4> QED
        BY <4>7, <4>8 DEF Account, InOrder, Queued
    <3>4. ASSUME ~(b = to /\ t = r.makes)
          PROVE  Last(b, t)' = Last(b, t)
      <4>1. OnItsWay(b, t)' <=> OnItsWay(b, t)
        BY <1>c, <3>4 DEF OnItsWay
      <4> QED
        BY <1>u, <4>1 DEF Last
    <3>5. CASE b # to
      <4>1. inbox'[b] = inbox[b]
        BY <1>c, <3>5
      <4> QED
        BY <3>1, <3>2, <3>4, <3>5, <4>1 DEF Account, InOrder, Queued
    <3>6. CASE b = to /\ t # r.makes
      <4>1. card.topic # t
        BY <1>a, <3>6
      <4>2. Taken(b, t) <= Last(b, t) /\ InOrder(inbox[b], t, Taken(b, t) + 1, Last(b, t))
        BY <3>1 DEF Account
      <4>3. InOrder(Append(inbox[b], card), t, Taken(b, t) + 1, Last(b, t))
        <5>1. Taken(b, t) + 1 \in Int
          BY <3>0
        <5> QED
          BY <1>a, <3>0, <4>1, <4>2, <5>1, OtherIsQueued
      <4>4. InOrder(inbox'[b], t, Taken(b, t)' + 1, Last(b, t)')
        BY <1>c, <3>2, <3>4, <3>6, <4>3
      <4> QED
        BY <3>2, <3>4, <3>6, <4>2, <4>4 DEF Account, InOrder, Queued
    <3> QED
      BY <3>3, <3>5, <3>6
  <2> QED
    BY <2>1, Accounts DEF CardsAddUp, Account, InOrder, Queued, Taken, Last
<1> QED
  BY <1>1, <1>2, <1>3, <1>4, <1>5, <1>6, <1>7 DEF CInv

-----------------------------------------------------------------------------
(* The first card of the inbox goes into stock: the account of its topic     *)
(* moves by one, and its consignment is still held.                         *)

LEMMA TakeKeeps ==
  ASSUME CInv, NEW b \in Builders, Take(b)
  PROVE  CInv'
<1> DEFINE q == inbox[b]
           s == Head(q).topic
<1>0. /\ ~closed /\ ~handling[b] /\ q # <<>>
      /\ stock' = [stock EXCEPT ![b][s] = @ + 1]
      /\ inbox' = [inbox EXCEPT ![b] = Tail(@)]
      /\ handling' = [handling EXCEPT ![b] = TRUE]
      /\ UNCHANGED <<made, outbox, inFlight, stopped, closed>>
  BY DEF Take
<1>t. TypeOK
  BY DEF CInv
<1>a. /\ q \in Seq(Card) /\ Tail(q) \in Seq(Card) /\ Len(Tail(q)) = Len(q) - 1
      /\ \A i \in 1 .. Len(Tail(q)) : Tail(q)[i] = q[i + 1]
      /\ Len(q) \in Nat /\ Len(q) > 0 /\ DOMAIN q = 1 .. Len(q)
      /\ DOMAIN Tail(q) = 1 .. Len(Tail(q)) /\ Head(q) = q[1]
  <2>1. q \in Seq(Card)
    BY <1>t DEF TypeOK
  <2> HIDE DEF q
  <2> QED
    BY <1>0, <2>1, HeadTailProperties, LenProperties, EmptySeq
<1>b. s \in b.takes /\ stock[b][s] \in Nat
  <2>1. s = q[1].topic /\ 1 \in DOMAIN q
    BY <1>a
  <2>2. s \in b.takes
    BY <2>1 DEF CInv, Addressed
  <2> QED
    BY <1>t, <2>2 DEF TypeOK
<1> HIDE DEF s
<1>c. /\ DOMAIN stock' = Builders
      /\ \A a \in Builders : a # b => stock'[a] = stock[a]
      /\ stock'[b] = [stock[b] EXCEPT ![s] = @ + 1]
      /\ \A t \in b.takes : stock'[b][t] = IF t = s THEN stock[b][t] + 1 ELSE stock[b][t]
      /\ inbox'[b] = Tail(q)
      /\ \A a \in Builders : a # b => inbox'[a] = inbox[a]
      /\ \A a \in Builders : handling'[a] <=> a = b \/ handling[a]
  BY <1>0, <1>b, <1>t DEF TypeOK
<1>1. TypeOK'
  <2>1. inbox' \in [Builders -> Seq(Card)]
    BY <1>0, <1>a, <1>t DEF TypeOK
  <2>2. \A a \in Builders : stock'[a] \in [a.takes -> Nat]
    <3>1. stock'[b] \in [b.takes -> Nat]
      BY <1>b, <1>c, <1>t DEF TypeOK
    <3> QED
      BY <1>c, <1>t, <3>1 DEF TypeOK
  <2>3. handling' \in [Builders -> BOOLEAN]
    BY <1>0, <1>t DEF TypeOK
  <2> QED
    BY <1>0, <1>c, <1>t, <2>1, <2>2, <2>3 DEF TypeOK
<1>2. Addressed'
  <2>1. ASSUME NEW a \in Builders, NEW i \in DOMAIN inbox'[a]
        PROVE  inbox'[a][i].topic \in a.takes
    <3>1. CASE a # b
      BY <1>c, <2>1, <3>1 DEF CInv, Addressed
    <3>2. CASE a = b
      <4>1. i \in 1 .. Len(Tail(q)) /\ inbox'[a][i] = q[i + 1]
        BY <1>a, <1>c, <2>1, <3>2
      <4>2. i + 1 \in DOMAIN q
        BY <1>a, <4>1
      <4> QED
        BY <3>2, <4>1, <4>2 DEF CInv, Addressed
    <3> QED
      BY <3>1, <3>2
  <2> QED
    BY <1>0, <2>1 DEF CInv, Addressed
<1>3. AtWork'
  BY <1>0, <1>c DEF CInv, AtWork
<1>4. Exhausted'
  <2>1. ASSUME NEW a \in Builders, ~handling'[a]
        PROVE  ~Affordable(a)'
    <3>1. a # b /\ ~handling[a]
      BY <1>c, <2>1
    <3>2. ~Affordable(a) /\ stock'[a] = stock[a]
      BY <1>c, <3>1 DEF CInv, Exhausted
    <3> QED
      BY <3>2 DEF Affordable
  <2> QED
    BY <2>1 DEF Exhausted
<1>5. Counted'
  <2>h. \A a \in Builders :
          /\ Held[a] = Len(inbox[a]) + (IF handling[a] THEN 1 ELSE 0)
          /\ Held'[a] = Len(inbox'[a]) + (IF handling'[a] THEN 1 ELSE 0)
    BY DEF Held
  <2>1. ASSUME NEW a \in Builders
        PROVE  Held'[a] = Held[a]
    <3>1. CASE a = b
      <4>1. ~handling[b] /\ handling'[b]
        BY <1>0, <1>c
      <4>2. Held[b] = Len(inbox[b]) + 0 /\ Held'[b] = Len(inbox'[b]) + 1
        BY <2>h, <4>1
      <4>3. Len(inbox'[b]) = Len(inbox[b]) - 1 /\ Len(inbox[b]) \in Nat
        BY <1>a, <1>c
      <4> QED
        BY <3>1, <4>2, <4>3
    <3>2. CASE a # b
      <4>1. inbox'[a] = inbox[a] /\ (handling'[a] <=> handling[a])
        BY <1>c, <3>2
      <4> QED
        BY <2>h, <4>1
    <3> QED
      BY <3>1, <3>2
  <2>2. Total(Held)' = Total(Held)
    <3>1. Total(Held') = Total(Held)
      BY <2>1, TotalSame
    <3> QED
      BY <3>1 DEF Total
  <2> QED
    BY <1>0, <2>2 DEF CInv, Counted
<1>6. Cleared'
  BY <1>0 DEF Cleared
<1>7. CardsAddUp'
  <2>1. ASSUME NEW a \in Builders, NEW t \in a.takes
        PROVE  Account(a, t)'
    <3>0. /\ Taken(a, t) \in Nat /\ Last(a, t) \in Int /\ Spent(a, t) \in Nat
          /\ stock[a][t] \in Nat
      BY <1>t, AccountsOfNumbers
    <3>1. Taken(a, t) <= Last(a, t) /\ InOrder(inbox[a], t, Taken(a, t) + 1, Last(a, t))
      BY Accounts DEF CInv, Account
    <3>2. Last(a, t)' = Last(a, t) /\ Spent(a, t)' = Spent(a, t)
      BY <1>0 DEF Last, OnItsWay, Spent
    <3>3. CASE a # b
      <4>1. inbox'[a] = inbox[a] /\ Taken(a, t)' = Taken(a, t)
        BY <1>c, <3>2, <3>3 DEF Taken
      <4> QED
        BY <3>1, <3>2, <4>1 DEF Account, InOrder, Queued
    <3>4. CASE a = b /\ t = s
      <4>1. stock'[a][t] = stock[a][t] + 1
        BY <1>c, <3>4
      <4>2. Taken(a, t)' = Taken(a, t) + 1
        BY <3>0, <3>2, <4>1 DEF Taken
      <4>3. /\ Taken(a, t) + 1 <= Last(a, t)
            /\ InOrder(Tail(inbox[a]), t, Taken(a, t) + 1 + 1, Last(a, t))
        <5>1. Taken(a, t) + 1 \in Int
          BY <3>0
        <5>2. Head(inbox[a]).topic = t
          BY <3>4 DEF s
        <5> QED
          BY <1>0, <1>a, <3>0, <3>1, <3>4, <5>1, <5>2, FirstIsTaken
      <4>4. InOrder(inbox'[a], t, Taken(a, t)' + 1, Last(a, t)')
        BY <1>c, <3>2, <3>4, <4>2, <4>3
      <4> QED
        BY <3>2, <4>2, <4>3, <4>4 DEF Account, InOrder, Queued
    <3>5. CASE a = b /\ t # s
      <4>1. stock'[a][t] = stock[a][t]
        BY <1>c, <3>5
      <4>2. Taken(a, t)' = Taken(a, t)
        BY <3>2, <4>1 DEF Taken
      <4>3. InOrder(Tail(inbox[a]), t, Taken(a, t) + 1, Last(a, t))
        <5>1. Taken(a, t) + 1 \in Int
          BY <3>0
        <5>2. Head(inbox[a]).topic # t
          BY <3>5 DEF s
        <5> QED
          BY <1>0, <1>a, <3>0, <3>1, <3>5, <5>1, <5>2, OtherIsTaken
      <4>4. InOrder(inbox'[a], t, Taken(a, t)' + 1, Last(a, t)')
        BY <1>c, <3>2, <3>5, <4>2, <4>3
      <4> QED
        BY <3>1, <3>2, <4>2, <4>4 DEF Account, InOrder, Queued
    <3> QED
      BY <3>3, <3>4, <3>5
  <2> QED
    BY <2>1, Accounts DEF CardsAddUp, Account, InOrder, Queued, Taken, Last
<1> QED
  BY <1>1, <1>2, <1>3, <1>4, <1>5, <1>6, <1>7 DEF CInv

-----------------------------------------------------------------------------
(* What leaves the stock for a piece is what the piece spent.                *)

LEMMA BuildKeeps ==
  ASSUME CInv, NEW b \in Builders, Build(b)
  PROVE  CInv'
<1>0. /\ handling[b] /\ outbox[b] = {} /\ Affordable(b) /\ Publish(b)
      /\ stock' = [stock EXCEPT ![b] = [t \in b.takes |-> @[t] - PerPiece[b.makes][t]]]
      /\ UNCHANGED <<inbox, handling, inFlight, stopped, closed>>
  BY DEF Build
<1>t. TypeOK
  BY DEF CInv
<1>r. b \in Routines
  BY Makers
<1>c. /\ DOMAIN stock' = Builders
      /\ \A a \in Builders : a # b => stock'[a] = stock[a]
      /\ stock'[b] = [t \in b.takes |-> stock[b][t] - PerPiece[b.makes][t]]
  BY <1>0, <1>t DEF TypeOK
<1>p. \A t \in b.takes :
        /\ PerPiece[b.makes][t] \in Nat /\ stock[b][t] \in Nat
        /\ stock[b][t] >= PerPiece[b.makes][t]
  BY <1>0, <1>t, Recipe DEF Affordable, TypeOK
<1>1. TypeOK'
  <2>1. stock'[b] \in [b.takes -> Nat]
    BY <1>c, <1>p
  <2>2. \A a \in Builders : stock'[a] \in [a.takes -> Nat]
    BY <1>c, <1>t, <2>1 DEF TypeOK
  <2> QED
    BY <1>0, <1>r, <1>c, <1>t, <2>2, PublishedTyped DEF TypeOK
<1>2. Addressed'
  BY <1>0, <1>r, <1>t, PublishedAddressed DEF CInv
<1>q. \A q \in Routines : q # b => outbox'[q] = outbox[q]
  BY <1>0, <1>r, <1>t, PublishedTyped
<1>3. AtWork'
  <2>1. ASSUME NEW a \in Builders, outbox'[a] # {}
        PROVE  handling'[a]
    BY <1>0, <1>q, <2>1, Makers DEF CInv, AtWork
  <2>2. ASSUME NEW d \in stopped'
        PROVE  outbox'[d] = {}
    <3>1. d \in Routines /\ d # b /\ d \in stopped
      BY <1>0, <1>t, Makers, Apart DEF TypeOK
    <3> QED
      BY <1>q, <3>1 DEF CInv, AtWork
  <2> QED
    BY <2>1, <2>2 DEF AtWork
<1>4. Exhausted'
  <2>1. ASSUME NEW a \in Builders, ~handling'[a]
        PROVE  ~Affordable(a)'
    <3>1. a # b /\ ~handling[a]
      BY <1>0, <2>1
    <3>2. ~Affordable(a) /\ stock'[a] = stock[a]
      BY <1>c, <3>1 DEF CInv, Exhausted
    <3> QED
      BY <3>2 DEF Affordable
  <2> QED
    BY <2>1 DEF Exhausted
<1>5. Counted'
  BY <1>0 DEF CInv, Counted, Held, Total
<1>6. Cleared'
  BY <1>0 DEF CInv, Cleared
<1>7. CardsAddUp'
  <2>1. ASSUME NEW a \in Builders, NEW t \in a.takes
        PROVE  Account(a, t)'
    <3>1. Account(a, t)
      BY Accounts DEF CInv
    <3>2. Last(a, t)' = Last(a, t)
      BY <1>0, <1>r, <1>t, PublishedLast
    <3>3. Taken(a, t)' = Taken(a, t)
      <4>1. CASE a # b
        <5>1. a.makes # b.makes /\ a.makes \in Topics
          BY <1>r, <4>1, OneMaker, Makers
        <5>2. made'[a.makes] = made[a.makes]
          BY <1>0, <1>r, <1>t, <5>1, PublishedTyped
        <5> QED
          BY <1>c, <4>1, <5>2 DEF Taken, Spent
      <4>2. CASE a = b
        <5>1. /\ PerPiece[a.makes][t] \in Nat /\ stock[a][t] \in Nat
              /\ stock'[a][t] = stock[a][t] - PerPiece[a.makes][t]
          BY <1>c, <1>p, <4>2
        <5>2. made[a.makes] \in Nat /\ made'[a.makes] = made[a.makes] + 1
          BY <1>0, <1>r, <1>t, <4>2, PublishedTyped, Makers DEF TypeOK
        <5>3. \A n, m \in Nat : n * (m + 1) = n * m + n /\ n * m \in Nat
          OBVIOUS
        <5>4. /\ Spent(a, t) \in Nat
              /\ Spent(a, t)' = Spent(a, t) + PerPiece[a.makes][t]
          BY <5>1, <5>2, <5>3 DEF Spent
        <5> QED
          BY <5>1, <5>4 DEF Taken
      <4> QED
        BY <4>1, <4>2
    <3> QED
      BY <1>0, <3>1, <3>2, <3>3 DEF Account, InOrder, Queued
  <2> QED
    BY <2>1, Accounts DEF CardsAddUp, Account, InOrder, Queued, Taken, Last
<1> QED
  BY <1>1, <1>2, <1>3, <1>4, <1>5, <1>6, <1>7 DEF CInv

LEMMA ReturnKeeps ==
  ASSUME CInv, NEW b \in Builders, Return(b)
  PROVE  CInv'
<1>0. /\ handling[b] /\ outbox[b] = {} /\ ~Affordable(b)
      /\ handling' = [handling EXCEPT ![b] = FALSE]
      /\ inFlight' = inFlight - 1
      /\ UNCHANGED <<made, outbox, inbox, stock, stopped, closed>>
  BY DEF Return
<1>t. TypeOK
  BY DEF CInv
<1>c. \A a \in Builders : handling'[a] <=> a # b /\ handling[a]
  BY <1>0, <1>t DEF TypeOK
<1>1. TypeOK' /\ Addressed'
  BY <1>0 DEF CInv, TypeOK, Addressed
<1>3. AtWork'
  BY <1>0, <1>c DEF CInv, AtWork
<1>4. Exhausted'
  BY <1>0, <1>c DEF CInv, Exhausted, Affordable
<1>5. Counted'
  <2>1. \A a \in Builders :
          /\ Held[a] = Len(inbox[a]) + (IF handling[a] THEN 1 ELSE 0)
          /\ Held'[a] = Len(inbox[a]) + (IF handling'[a] THEN 1 ELSE 0)
    BY <1>0 DEF Held
  <2>2. \A a \in Builders : Len(inbox[a]) \in Nat /\ Held[a] \in Nat
    BY <1>t, HeldBy
  <2>3. \A a \in Builders : Held[a] \in Int
    BY <2>2
  <2>4. Held[b] = Len(inbox[b]) + 1 /\ Held'[b] = Len(inbox[b]) + 0
    BY <1>0, <1>c, <2>1
  <2>5. Held'[b] = Held[b] + (-1)
    BY <2>2, <2>4
  <2>6. \A a \in Builders : a # b => Held'[a] = Held[a]
    BY <1>c, <2>1
  <2>7. Total(Held)' = Total(Held) + (-1)
    <3>1. -1 \in Int /\ \A a \in Builders : Held'[a] = IF a = b THEN Held[a] + (-1) ELSE Held[a]
      BY <2>5, <2>6
    <3>2. Total(Held') = Total(Held) + (-1)
      BY <2>3, <3>1, TotalMoves
    <3> QED
      BY <3>2 DEF Total
  <2>8. inFlight = Total(Held) /\ inFlight \in Int
    BY <1>t DEF CInv, Counted, TypeOK
  <2>9. inFlight' = Total(Held)'
    BY <1>0, <2>7, <2>8
  <2> QED
    BY <2>9 DEF Counted
<1>6. Cleared'
  BY <1>0, <1>c DEF CInv, Cleared
<1>7. CardsAddUp'
  BY <1>0, SMTT(30) DEF CInv, CardsAddUp, Spent, OnItsWay
<1> QED
  BY <1>1, <1>3, <1>4, <1>5, <1>6, <1>7 DEF CInv

\* Nothing is in flight when the destructor gets past its wait.
LEMMA TearDownKeeps == CInv /\ TearDown => CInv'
<1> SUFFICES ASSUME CInv, TearDown PROVE CInv'
  OBVIOUS
<1> USE DEF TearDown
<1>1. TypeOK' /\ Addressed'
  BY DEF CInv, TypeOK, Addressed
<1>2. AtWork' /\ Exhausted'
  BY DEF CInv, AtWork, Exhausted, Affordable
<1>3. Counted'
  BY DEF CInv, Counted, Held, Total
<1>4. Cleared'
  <2>1. ASSUME NEW b \in Builders
        PROVE  inbox[b] = <<>> /\ ~handling[b]
    <3>3. \A a \in Builders : Held[a] \in Nat
      BY HeldBy DEF CInv
    <3>4. Total(Held) = 0
      BY DEF CInv, Counted, Quiescent
    <3>5. Held[b] = 0
      BY <3>3, <3>4, TotalPositive
    <3>6. Len(inbox[b]) = 0 /\ ~handling[b]
      BY <3>5, HeldBy DEF CInv
    <3> QED
      BY <3>6, EmptySeq DEF CInv, TypeOK
  <2> QED
    BY <2>1 DEF Cleared, Quiescent
<1>5. CardsAddUp'
  BY DEF CInv, CardsAddUp, Spent, OnItsWay
<1> QED
  BY <1>1, <1>2, <1>3, <1>4, <1>5 DEF CInv

LEMMA StutterKeeps == CInv /\ UNCHANGED vars => CInv'
<1> SUFFICES ASSUME CInv, UNCHANGED vars PROVE CInv'
  OBVIOUS
<1> USE DEF vars
<1>1. TypeOK' /\ Addressed'
  BY DEF CInv, TypeOK, Addressed
<1>2. AtWork' /\ Exhausted'
  BY DEF CInv, AtWork, Exhausted, Affordable
<1>3. Counted' /\ Cleared'
  BY DEF CInv, Counted, Held, Total, Cleared
<1>4. CardsAddUp'
  BY DEF CInv, CardsAddUp, Spent, OnItsWay
<1> QED
  BY <1>1, <1>2, <1>3, <1>4 DEF CInv

LEMMA NextKeeps == CInv /\ [Next]_vars => CInv'
<1> SUFFICES ASSUME CInv, [Next]_vars PROVE CInv'
  OBVIOUS
<1>1. ASSUME NEW r \in Routines, Act(r) PROVE CInv'
  BY <1>1, DeliverKeeps, ProduceKeeps, StopKeeps, TakeKeeps, BuildKeeps, ReturnKeeps DEF Act
<1> QED
  BY <1>1, TearDownKeeps, StutterKeeps DEF Next

THEOREM Invariant == Spec => []CInv
<1> QED
  BY InitHolds, NextKeeps, PTL DEF Spec

-----------------------------------------------------------------------------
(* What a builder took from a topic are its first cards, the next ones wait *)
(* in its inbox in their order and without a gap, and at most the very last *)
(* is on its way: no card is lost, doubled or overtaken on its way through  *)
(* the drivers' and builders' threads, for every recipe                     *)
(* (settlementBuilder.cpp:104, hills.hpp:73).                               *)
THEOREM EveryCardIsAccountedFor == Spec => []CardsAddUp
<1>1. CInv => CardsAddUp
  BY DEF CInv
<1> QED
  BY <1>1, Invariant, PTL

(* The destructor of the port clears the components only when no card is    *)
(* in an inbox or on its way, no callback is running and no piece could     *)
(* still be bought (port.cpp:138).                                          *)
THEOREM GameIsOver == Spec => []NothingLeftBehind
<1>1. CInv => NothingLeftBehind
  BY DEF CInv, Cleared, AtWork, Exhausted, NothingLeftBehind
<1> QED
  BY <1>1, Invariant, PTL
=============================================================================
