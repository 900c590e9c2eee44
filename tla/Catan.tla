------------------------------- MODULE Catan --------------------------------
(***************************************************************************)
(* The example application: five drivers publish numbered cards, four      *)
(* builders take them into stock and turn them into numbered pieces, some  *)
(* of which are another builder's cards, over the topics of one port that  *)
(* is torn down once nothing is in flight.                                 *)
(*                                                                         *)
(* A publication reaches its subscribers one after the other (Port::       *)
(* deliver), and every routine runs on a thread of its own.                *)
(***************************************************************************)
EXTENDS Integers, Sequences

CONSTANTS
  PerPiece,  \* builder -> card -> how many a piece takes, from the config
  Cards      \* topic -> how many its driver may make before the shutdown

-----------------------------------------------------------------------------
(* The routines: what each makes and which topics it subscribes to.        *)

Routine(topic, inputs) == [makes |-> topic, takes |-> inputs]

Hills == Routine("brick", {})
Forest == Routine("lumber", {})
Pasture == Routine("wool", {})
Fields == Routine("grain", {})
Mountains == Routine("ore", {})

RoadBuilder == Routine("road", {"brick", "lumber"})
SettlementBuilder == Routine("settlement", {"road", "brick", "lumber", "wool", "grain"})
CityBuilder == Routine("city", {"settlement", "ore", "grain"})
DevelopmentCardBuilder == Routine("developmentCard", {"ore", "wool", "grain"})

Drivers == {Hills, Forest, Pasture, Fields, Mountains}
Builders == {RoadBuilder, SettlementBuilder, CityBuilder, DevelopmentCardBuilder}
Routines == Drivers \cup Builders
Topics == {r.makes : r \in Routines}

Subscribers(topic) == {b \in Builders : topic \in b.takes}

\* A topic's subscribers are served in the order they subscribed in, the one of
\* their construction.
Constructed == <<RoadBuilder, SettlementBuilder, CityBuilder, DevelopmentCardBuilder>>
Before(a, b) ==
  \E i, j \in DOMAIN Constructed : i < j /\ Constructed[i] = a /\ Constructed[j] = b

ASSUME CatanAssumption ==
  /\ \A b \in Builders : PerPiece[b.makes] \in [b.takes -> Nat]
  \* With a recipe of nothing build() never ends.
  /\ \A b \in Builders : \E t \in b.takes : PerPiece[b.makes][t] > 0
  /\ Cards \in [{d.makes : d \in Drivers} -> Nat]

-----------------------------------------------------------------------------
VARIABLES
  made,      \* topic -> the number of the last card or piece
  outbox,    \* routine -> the subscribers its publication has yet to reach
  inbox,     \* builder -> the cards waiting, as [topic, id]
  handling,  \* builder -> whether it is inside a callback
  stock,     \* builder -> topic -> cards available
  inFlight,  \* mPendingConsignments of the port
  stopped,   \* the drivers that returned Done
  closed     \* the destructor of the port has cleared the components

vars == <<made, outbox, inbox, handling, stock, inFlight, stopped, closed>>

\* catanMain: components are constructed, and so subscribed, before the
\* first driver is.
Init ==
  /\ made = [t \in Topics |-> 0]
  /\ outbox = [r \in Routines |-> {}]
  /\ inbox = [b \in Builders |-> <<>>]
  /\ handling = [b \in Builders |-> FALSE]
  /\ stock = [b \in Builders |-> [t \in b.takes |-> 0]]
  /\ inFlight = 0
  /\ stopped = {}
  /\ closed = FALSE

\* publish: a new number, addressed to every subscriber of the topic.
Publish(r) ==
  /\ made' = [made EXCEPT ![r.makes] = @ + 1]
  /\ outbox' = [outbox EXCEPT ![r] = Subscribers(r.makes)]

\* Port::deliver, for the next subscriber: a consignment in its inbox.
Deliver(r) ==
  /\ \E to \in outbox[r] :
       /\ \A other \in outbox[r] : ~Before(other, to)
       /\ inbox' = [inbox EXCEPT ![to] = Append(@, [topic |-> r.makes, id |-> made[r.makes]])]
       /\ outbox' = [outbox EXCEPT ![r] = @ \ {to}]
  /\ inFlight' = inFlight + 1
  /\ UNCHANGED <<made, handling, stock, stopped, closed>>

\* A driver's run(): the pause ran its course, and one card is published.
Produce(d) ==
  /\ d \notin stopped /\ outbox[d] = {}
  /\ made[d.makes] < Cards[d.makes]
  /\ Publish(d)
  /\ UNCHANGED <<inbox, handling, stock, inFlight, stopped, closed>>

\* sleepFor: the shutdown token ended the pause, and run() returns Done.
Stop(d) ==
  /\ d \notin stopped /\ outbox[d] = {}
  /\ stopped' = stopped \cup {d}
  /\ UNCHANGED <<made, outbox, inbox, handling, stock, inFlight, closed>>

\* The consignment is gone before the callback is done with its card.
TakeReleasing(b) ==
  /\ ~closed /\ ~handling[b] /\ inbox[b] # <<>>
  /\ stock' = [stock EXCEPT ![b][Head(inbox[b]).topic] = @ + 1]
  /\ inbox' = [inbox EXCEPT ![b] = Tail(@)]
  /\ handling' = [handling EXCEPT ![b] = TRUE]
  /\ inFlight' = inFlight - 1
  /\ UNCHANGED <<made, outbox, stopped, closed>>
\* process(): the card goes into stock. Its consignment lives until the
\* callback returns.
Take(b) ==
  /\ ~closed /\ ~handling[b] /\ inbox[b] # <<>>
  /\ stock' = [stock EXCEPT ![b][Head(inbox[b]).topic] = @ + 1]
  /\ inbox' = [inbox EXCEPT ![b] = Tail(@)]
  /\ handling' = [handling EXCEPT ![b] = TRUE]
  /\ UNCHANGED <<made, outbox, inFlight, stopped, closed>>

Affordable(b) == \A t \in b.takes : stock[b][t] >= PerPiece[b.makes][t]

\* A turn that spends one of each card whatever the recipe says.
BuildCheaply(b) ==
  /\ handling[b] /\ outbox[b] = {} /\ Affordable(b)
  /\ stock' = [stock EXCEPT ![b] = [t \in b.takes |-> @[t] - 1]]
  /\ Publish(b)
  /\ UNCHANGED <<inbox, handling, inFlight, stopped, closed>>
\* One turn of build()'s loop: spend a recipe, publish the piece.
Build(b) ==
  /\ handling[b] /\ outbox[b] = {} /\ Affordable(b)
  /\ stock' = [stock EXCEPT ![b] = [t \in b.takes |-> @[t] - PerPiece[b.makes][t]]]
  /\ Publish(b)
  /\ UNCHANGED <<inbox, handling, inFlight, stopped, closed>>
\* A consignment that stays counted.
ReturnKeeping(b) ==
  /\ handling[b] /\ outbox[b] = {} /\ ~Affordable(b)
  /\ handling' = [handling EXCEPT ![b] = FALSE]
  /\ UNCHANGED <<made, outbox, inbox, stock, inFlight, stopped, closed>>
\* The callback returns and the consignment is destroyed.
Return(b) ==
  /\ handling[b] /\ outbox[b] = {} /\ ~Affordable(b)
  /\ handling' = [handling EXCEPT ![b] = FALSE]
  /\ inFlight' = inFlight - 1
  /\ UNCHANGED <<made, outbox, inbox, stock, stopped, closed>>

\* ~Port: awaitQuiescence, then the components are cleared.
Quiescent == stopped = Drivers /\ inFlight = 0
TearDown ==
  /\ ~closed /\ Quiescent
  /\ closed' = TRUE
  /\ UNCHANGED <<made, outbox, inbox, handling, stock, inFlight, stopped>>

Act(r) ==
  \/ Deliver(r)
  \/ r \in Drivers /\ (Produce(r) \/ Stop(r))
  \/ r \in Builders /\ (Take(r) \/ Build(r) \/ Return(r))
Next == (\E r \in Routines : Act(r)) \/ TearDown

\* Some thread that can run does. No routine can run for ever, so a shutdown
\* comes to all drivers even under this weak fairness.
Spec == Init /\ [][Next]_vars /\ WF_vars(Next)

-----------------------------------------------------------------------------
OnItsWay(b, t) == \E r \in Routines : r.makes = t /\ b \in outbox[r]
Spent(b, t) == PerPiece[b.makes][t] * made[b.makes]

\* Every subscriber gets a card of its own of everything published, in the
\* order of the numbers: what a builder has in stock and has spent on pieces
\* are the first cards of a topic, the next ones wait in its inbox without a
\* gap, and the last is on its way, for every builder and across the chain of
\* builders (settlementBuilder.cpp:104, hills.hpp:73).
CardsAddUp ==
  \A b \in Builders : \A t \in b.takes :
    LET taken == stock[b][t] + Spent(b, t)
        last == IF OnItsWay(b, t) THEN made[t] - 1 ELSE made[t]
        queued == {i \in DOMAIN inbox[b] : inbox[b][i].topic = t}
    IN  /\ taken <= last
        /\ {inbox[b][i].id : i \in queued} = (taken + 1) .. last
        /\ \A i, j \in queued : i < j => inbox[b][i].id < inbox[b][j].id

\* Once the port has cleared the components nothing was left half done: no
\* card in an inbox or on its way, no builder inside its callback, and no
\* piece that the cards would still have bought (port.cpp:138).
NothingLeftBehind ==
  closed => \A b \in Builders :
    /\ inbox[b] = <<>> /\ outbox[b] = {} /\ ~handling[b]
    /\ ~Affordable(b)

\* The run comes to its end: the last card goes through every builder that
\* can use it, and the destructor gets past its wait (catanMain.cpp:104).
GameEnds == <>closed
=============================================================================
