----------------------------- MODULE PortProofs -----------------------------
(***************************************************************************)
(* The port and the signals that shut it down. The count of consignments   *)
(* in flight is exact and the graph is taken apart on a quiet bus, for any *)
(* number of drivers and components, any subscriptions and any capacity of *)
(* the inboxes; the watcher of signals acts only on a living catcher, and  *)
(* aborts only on a repetition.                                            *)
(***************************************************************************)
EXTENDS Port, MCSignalCatcher, SequenceTheorems, FiniteSetTheorems, TLAPS

Stances == {"loop", "running", "push", "evict", "notifyEvicted", "notify", "store", "exited"}
Holding == {"running", "push", "evict", "notifyEvicted"}
Carrying == {"push", "evict"}

-----------------------------------------------------------------------------
(* What a step of one thread, or of one inbox, does to the count.          *)

\* The three kinds of consignments can be counted, before a step and after it.
LEMMA Countable ==
  /\ IsFiniteSet(Queued) /\ Cardinality(Queued) \in Nat
  /\ IsFiniteSet(Handlers) /\ Cardinality(Handlers) \in Nat
  /\ IsFiniteSet(Carriers) /\ Cardinality(Carriers) \in Nat
  /\ Cardinality(Queued') \in Nat
  /\ Cardinality(Handlers') \in Nat
  /\ Cardinality(Carriers') \in Nat
<1>1. IsFiniteSet(Components) /\ IsFiniteSet(Routines)
  <2>1. Components \in SUBSET Routines
    BY DEF Routines
  <2> QED BY <2>1, PortAssumption, FS_Subset
<1>2. IsFiniteSet(Components \X (1 .. InboxCapacity))
  <2>1. IsFiniteSet(1 .. InboxCapacity)
    BY PortAssumption, FS_Interval
  <2> QED BY <1>1, <2>1, FS_Product
<1>3. /\ Queued \in SUBSET (Components \X (1 .. InboxCapacity))
      /\ Handlers \in SUBSET Components
      /\ Carriers \in SUBSET Routines
      /\ Queued' \in SUBSET (Components \X (1 .. InboxCapacity))
      /\ Handlers' \in SUBSET Components
      /\ Carriers' \in SUBSET Routines
  BY DEF Queued, Handlers, Carriers
<1>4. /\ IsFiniteSet(Queued) /\ IsFiniteSet(Handlers) /\ IsFiniteSet(Carriers)
      /\ IsFiniteSet(Queued') /\ IsFiniteSet(Handlers') /\ IsFiniteSet(Carriers')
  BY <1>1, <1>2, <1>3, FS_Subset
<1> QED BY <1>4, FS_CardinalityType

\* One thread goes from one place to another.
LEMMA ThreadMoves ==
  ASSUME TypeOK, NEW r \in Routines, NEW v \in Stances, thread' = [thread EXCEPT ![r] = v]
  PROVE  /\ (r \in Components => (thread[r] \in Holding <=> v \in Holding)) => Handlers' = Handlers
         /\ r \in Components /\ thread[r] \notin Holding /\ v \in Holding =>
              Cardinality(Handlers') = Cardinality(Handlers) + 1
         /\ r \in Components /\ thread[r] \in Holding /\ v \notin Holding =>
              Cardinality(Handlers') = Cardinality(Handlers) - 1
         /\ (thread[r] \in Carrying <=> v \in Carrying) => Carriers' = Carriers
         /\ thread[r] \notin Carrying /\ v \in Carrying =>
              Cardinality(Carriers') = Cardinality(Carriers) + 1
         /\ thread[r] \in Carrying /\ v \notin Carrying =>
              Cardinality(Carriers') = Cardinality(Carriers) - 1
<1>1. \A s \in Routines : thread'[s] = IF s = r THEN v ELSE thread[s]
  BY DEF TypeOK
<1>2. Components \subseteq Routines
  BY DEF Routines
<1>3. /\ Handlers = {c \in Components : thread[c] \in Holding}
      /\ Handlers' = {c \in Components : thread'[c] \in Holding}
      /\ Carriers = {s \in Routines : thread[s] \in Carrying}
      /\ Carriers' = {s \in Routines : thread'[s] \in Carrying}
  BY DEF Handlers, Carriers, Handling, Holding, Carrying
<1>4. (r \in Components => (thread[r] \in Holding <=> v \in Holding)) => Handlers' = Handlers
  BY <1>1, <1>2, <1>3
<1>5. (thread[r] \in Carrying <=> v \in Carrying) => Carriers' = Carriers
  BY <1>1, <1>3
<1>6. ASSUME r \in Components, thread[r] \notin Holding, v \in Holding
      PROVE  Cardinality(Handlers') = Cardinality(Handlers) + 1
  <2>1. Handlers' = Handlers \cup {r} /\ r \notin Handlers
    BY <1>1, <1>2, <1>3, <1>6
  <2> QED BY <2>1, Countable, FS_AddElement
<1>7. ASSUME r \in Components, thread[r] \in Holding, v \notin Holding
      PROVE  Cardinality(Handlers') = Cardinality(Handlers) - 1
  <2>1. Handlers' = Handlers \ {r} /\ r \in Handlers
    BY <1>1, <1>2, <1>3, <1>7
  <2> QED BY <2>1, Countable, FS_RemoveElement
<1>8. ASSUME thread[r] \notin Carrying, v \in Carrying
      PROVE  Cardinality(Carriers') = Cardinality(Carriers) + 1
  <2>1. Carriers' = Carriers \cup {r} /\ r \notin Carriers
    BY <1>1, <1>3, <1>8
  <2> QED BY <2>1, Countable, FS_AddElement
<1>9. ASSUME thread[r] \in Carrying, v \notin Carrying
      PROVE  Cardinality(Carriers') = Cardinality(Carriers) - 1
  <2>1. Carriers' = Carriers \ {r} /\ r \in Carriers
    BY <1>1, <1>3, <1>9
  <2> QED BY <2>1, Countable, FS_RemoveElement
<1> QED BY <1>4, <1>5, <1>6, <1>7, <1>8, <1>9

\* One inbox takes a consignment in, gives one out, or is emptied.
LEMMA InboxMoves ==
  ASSUME TypeOK, NEW c \in Components, NEW n \in 0 .. InboxCapacity,
         inbox' = [inbox EXCEPT ![c] = n]
  PROVE  /\ n = inbox[c] + 1 => Cardinality(Queued') = Cardinality(Queued) + 1
         /\ n = inbox[c] - 1 => Cardinality(Queued') = Cardinality(Queued) - 1
         /\ n = 0 => Cardinality(Queued') = Cardinality(Queued) - inbox[c]
<1> DEFINE k == inbox[c]
<1>1. /\ \A d \in Components : inbox'[d] = IF d = c THEN n ELSE inbox[d]
      /\ \A d \in Components : inbox[d] \in 0 .. InboxCapacity
      /\ k \in 0 .. InboxCapacity
      /\ InboxCapacity \in Nat
  BY PortAssumption DEF TypeOK
<1>2. \A d \in Components, i \in 1 .. InboxCapacity :
        /\ <<d, i>> \in Queued <=> i <= inbox[d]
        /\ <<d, i>> \in Queued' <=> i <= inbox'[d]
  BY DEF Queued
<1>3. /\ Queued \subseteq Components \X (1 .. InboxCapacity)
      /\ Queued' \subseteq Components \X (1 .. InboxCapacity)
  BY DEF Queued
<1>4. ASSUME n = k + 1
      PROVE  Cardinality(Queued') = Cardinality(Queued) + 1
  <2>1. n \in 1 .. InboxCapacity /\ \A i \in 1 .. InboxCapacity : i <= n <=> i <= k \/ i = n
    BY <1>1, <1>4
  <2>2. ~ (n <= k)
    BY <1>1, <1>4
  <2> HIDE DEF k
  <2>3. \A d \in Components, i \in 1 .. InboxCapacity :
          <<d, i>> \in Queued' <=> <<d, i>> \in Queued \cup {<<c, n>>}
    <3> SUFFICES ASSUME NEW d \in Components, NEW i \in 1 .. InboxCapacity
                 PROVE  <<d, i>> \in Queued' <=> <<d, i>> \in Queued \/ (d = c /\ i = n)
      OBVIOUS
    <3>1. CASE d = c
      BY <1>1, <1>2, <2>1, <3>1 DEF k
    <3>2. CASE d # c
      BY <1>1, <1>2, <3>2
    <3> QED BY <3>1, <3>2
  <2>4. Queued' = Queued \cup {<<c, n>>}
    BY <1>3, <2>1, <2>3
  <2>5. <<c, n>> \notin Queued
    BY <1>2, <2>1, <2>2 DEF k
  <2> QED BY <2>4, <2>5, Countable, FS_AddElement
<1>5. ASSUME n = k - 1
      PROVE  Cardinality(Queued') = Cardinality(Queued) - 1
  <2>1. k \in 1 .. InboxCapacity /\ \A i \in 1 .. InboxCapacity : i <= n <=> i <= k /\ i # k
    BY <1>1, <1>5
  <2>2. k <= k
    BY <2>1
  <2> HIDE DEF k
  <2>3. \A d \in Components, i \in 1 .. InboxCapacity :
          <<d, i>> \in Queued' <=> <<d, i>> \in Queued \ {<<c, k>>}
    <3> SUFFICES ASSUME NEW d \in Components, NEW i \in 1 .. InboxCapacity
                 PROVE  <<d, i>> \in Queued' <=> <<d, i>> \in Queued /\ ~(d = c /\ i = k)
      OBVIOUS
    <3>1. CASE d = c
      BY <1>1, <1>2, <2>1, <3>1 DEF k
    <3>2. CASE d # c
      BY <1>1, <1>2, <3>2
    <3> QED BY <3>1, <3>2
  <2>4. Queued' = Queued \ {<<c, k>>}
    BY <1>3, <2>1, <2>3
  <2>5. <<c, k>> \in Queued
    BY <1>2, <2>1, <2>2 DEF k
  <2> QED BY <2>4, <2>5, Countable, FS_RemoveElement
<1>6. ASSUME n = 0
      PROVE  Cardinality(Queued') = Cardinality(Queued) - k
  <2> DEFINE own == {c} \X (1 .. k)
  <2>1. \A i \in 1 .. InboxCapacity : ~(i <= n) /\ (i \in 1 .. k <=> i <= k)
    BY <1>1, <1>6
  <2>2. \A i \in 1 .. k : i \in 1 .. InboxCapacity
    BY <1>1
  <2>3. IsFiniteSet(own) /\ Cardinality(own) = k
    <3>1. IsFiniteSet(1 .. k) /\ Cardinality(1 .. k) = k
      <4> DEFINE size == Cardinality(1 .. k)
      <4>1. 1 \in Int /\ k \in Int
        BY <1>1
      <4>2. IsFiniteSet(1 .. k) /\ size = IF 1 > k THEN 0 ELSE k - 1 + 1
        BY <4>1, FS_Interval
      <4> HIDE DEF size
      <4>3. size = k
        BY <1>1, <4>2
      <4> QED BY <4>2, <4>3 DEF size
    <3>2. IsFiniteSet({c}) /\ Cardinality({c}) = 1
      BY FS_Singleton
    <3>3. IsFiniteSet(own) /\ Cardinality(own) = Cardinality({c}) * Cardinality(1 .. k)
      BY <3>1, <3>2, FS_Product
    <3>4. Cardinality(own) = 1 * k
      BY <3>1, <3>2, <3>3
    <3> QED BY <1>1, <3>3, <3>4
  <2> HIDE DEF k
  <2>4. \A d \in Components, i \in 1 .. InboxCapacity :
          <<d, i>> \in Queued' <=> <<d, i>> \in Queued \ own
    <3> SUFFICES ASSUME NEW d \in Components, NEW i \in 1 .. InboxCapacity
                 PROVE  <<d, i>> \in Queued' <=> <<d, i>> \in Queued /\ ~(d = c /\ i \in 1 .. k)
      OBVIOUS
    <3>1. CASE d = c
      BY <1>1, <1>2, <2>1, <3>1 DEF k
    <3>2. CASE d # c
      BY <1>1, <1>2, <3>2
    <3> QED BY <3>1, <3>2
  <2>5. own \subseteq Queued
    <3> SUFFICES ASSUME NEW i \in 1 .. k PROVE <<c, i>> \in Queued
      OBVIOUS
    <3> QED BY <1>2, <2>1, <2>2 DEF k
  <2> HIDE DEF own
  <2>6. Queued' = Queued \ own /\ Queued \cap own = own
    BY <1>3, <2>4, <2>5
  <2> QED BY <2>3, <2>6, Countable, FS_Difference
<1> QED BY <1>4, <1>5, <1>6

\* What does not move is counted as before.
LEMMA Unmoved ==
  /\ inbox' = inbox => Queued' = Queued
  /\ thread' = thread => Handlers' = Handlers /\ Carriers' = Carriers
  BY DEF Queued, Handlers, Carriers, Handling

-----------------------------------------------------------------------------
(* The invariant.                                                          *)

\* A publishing thread has a subscriber to serve.
Carried == \A r \in Routines : thread[r] = "push" => todo[r] # <<>>

\* Nothing is destroyed before the bus was found quiet ...
Whole ==
  main \in {"poll", "load", "check", "wait", "blocked", "clearDrivers"} =>
    owned = Routines /\ alive = Routines

\* ... which is not looked at before the drivers have ended.
DriversEnd ==
  /\ \A d \in Drivers : state[d] = "Done" => thread[d] = "exited"
  /\ main # "poll" => \A d \in Drivers : thread[d] = "exited"

\* Without drivers, a bus that is quiet stays quiet.
Quiet ==
  /\ \A c \in Components : inbox[c] = 0 /\ ~Handling(c)
  /\ \A r \in Routines : thread[r] \notin {"push", "evict"}

FoundQuiet ==
  \/ main = "check" /\ seen = [count |-> 0, abort |-> FALSE]
  \/ main \in {"clearDrivers", "clearComponents", "clearRunners", "finished"}

Drained == FoundQuiet => Quiet \/ abortRequested

IInv ==
  /\ TypeOK /\ Carried /\ CountsLiveConsignments
  /\ Whole /\ DriversEnd /\ Drained /\ NoDeliveryToDestroyed

\* A routine is a driver or a component, and never both.
LEMMA RoutinesApart ==
  /\ \A r \in Routines : r \in Drivers \/ r \in Components
  /\ \A d \in Drivers : d \in Routines /\ d \notin Components
  /\ \A c \in Components : c \in Routines
  BY PortAssumption DEF Routines

-----------------------------------------------------------------------------
(* The count, step by step.                                                *)

\* What a publishing thread does.
LEMMA DeliveringCounted ==
  ASSUME IInv, NEW r \in Routines, Delivering(r)
  PROVE  CountsLiveConsignments'
<1>1. TypeOK /\ CountsLiveConsignments /\ pending \in Nat
  BY DEF IInv, TypeOK
<1>2. CASE Construct(r)
  <2>1. /\ thread[r] = "running" /\ thread' = [thread EXCEPT ![r] = "push"]
        /\ pending' = pending + 1 /\ inbox' = inbox
    BY <1>2 DEF Construct
  <2>2. Handlers' = Handlers /\ Cardinality(Carriers') = Cardinality(Carriers) + 1
    BY <1>1, <2>1, ThreadMoves DEF Stances, Holding, Carrying
  <2> QED BY <1>1, <2>1, <2>2, Unmoved, Countable DEF CountsLiveConsignments
<1>3. CASE Push(r)
  <2> DEFINE c == Head(todo[r])
  <2>1. /\ thread[r] = "push" /\ c \in Components /\ pending' = pending
        /\ inbox' = [inbox EXCEPT ![c] = IF inbox[c] = InboxCapacity THEN @ ELSE @ + 1]
        /\ thread' = [thread EXCEPT ![r] = IF inbox[c] = InboxCapacity THEN "evict" ELSE "running"]
    <3>1. todo[r] \in Seq(Components) /\ todo[r] # <<>> /\ thread[r] = "push"
      BY <1>3 DEF Push, IInv, TypeOK, Carried
    <3> QED BY <1>3, <3>1 DEF Push
  <2> HIDE DEF c
  <2>2. CASE inbox[c] = InboxCapacity
    <3>1. inbox' = inbox /\ thread' = [thread EXCEPT ![r] = "evict"]
      BY <1>1, <2>1, <2>2 DEF TypeOK
    <3>2. Handlers' = Handlers /\ Carriers' = Carriers
      BY <1>1, <2>1, <3>1, ThreadMoves DEF Stances, Holding, Carrying
    <3> QED BY <1>1, <2>1, <3>1, <3>2, Unmoved DEF CountsLiveConsignments
  <2>3. CASE inbox[c] # InboxCapacity
    <3> DEFINE n == inbox[c] + 1
    <3>1. inbox' = [inbox EXCEPT ![c] = n] /\ thread' = [thread EXCEPT ![r] = "running"]
      BY <1>1, <2>1, <2>3 DEF TypeOK
    <3>2. n \in 0 .. InboxCapacity
      BY <1>1, <2>1, <2>3, PortAssumption DEF TypeOK
    <3>3. Cardinality(Queued') = Cardinality(Queued) + 1
      BY <1>1, <2>1, <3>1, <3>2, InboxMoves
    <3>4. Handlers' = Handlers /\ Cardinality(Carriers') = Cardinality(Carriers) - 1
      BY <1>1, <2>1, <3>1, ThreadMoves DEF Stances, Holding, Carrying
    <3> QED BY <1>1, <2>1, <3>3, <3>4, Countable DEF CountsLiveConsignments
  <2> QED BY <2>2, <2>3
<1>4. CASE PushIntoDestroyed(r)
  <2>1. inbox' = inbox /\ thread' = thread /\ pending' = pending
    BY <1>4 DEF PushIntoDestroyed
  <2> QED BY <1>1, <2>1, Unmoved DEF CountsLiveConsignments
<1>5. CASE Evict(r)
  <2>1. /\ thread[r] = "evict" /\ pending' = pending - 1 /\ inbox' = inbox
        /\ thread' = [thread EXCEPT ![r] = IF LastInFlight THEN "notifyEvicted" ELSE "running"]
    BY <1>5 DEF Evict
  <2>2. Handlers' = Handlers /\ Cardinality(Carriers') = Cardinality(Carriers) - 1
    <3>1. CASE LastInFlight
      BY <1>1, <2>1, <3>1, ThreadMoves DEF Stances, Holding, Carrying
    <3>2. CASE ~LastInFlight
      BY <1>1, <2>1, <3>2, ThreadMoves DEF Stances, Holding, Carrying
    <3> QED BY <3>1, <3>2
  <2> QED BY <1>1, <2>1, <2>2, Unmoved, Countable DEF CountsLiveConsignments
<1>6. CASE NotifyEvicted(r)
  <2>1. /\ thread[r] = "notifyEvicted" /\ thread' = [thread EXCEPT ![r] = "running"]
        /\ inbox' = inbox /\ pending' = pending
    BY <1>6 DEF NotifyEvicted
  <2>2. Handlers' = Handlers /\ Carriers' = Carriers
    BY <1>1, <2>1, ThreadMoves DEF Stances, Holding, Carrying
  <2> QED BY <1>1, <2>1, <2>2, Unmoved DEF CountsLiveConsignments
<1> QED BY <1>2, <1>3, <1>4, <1>5, <1>6 DEF Delivering

\* What a driver's thread does besides.
LEMMA DriverCounted ==
  ASSUME IInv, NEW d \in Drivers,
         EndOfRun(d) \/ Done(d) \/ Publish(d)
  PROVE  CountsLiveConsignments'
<1>1. TypeOK /\ CountsLiveConsignments /\ d \in Routines /\ d \notin Components
  BY RoutinesApart DEF IInv
<1>2. PICK v \in {"loop", "exited", "running"} : thread' = [thread EXCEPT ![d] = v]
  BY DEF EndOfRun, Done, Publish
<1>3. thread[d] \in {"loop", "running"} /\ inbox' = inbox /\ pending' = pending
  BY DEF EndOfRun, Done, Publish
<1>4. Handlers' = Handlers /\ Carriers' = Carriers
  BY <1>1, <1>2, <1>3, ThreadMoves DEF Stances, Carrying
<1> QED BY <1>1, <1>3, <1>4, Unmoved DEF CountsLiveConsignments

\* A runner leaves its loop.
LEMMA LeaveCounted ==
  ASSUME IInv, NEW r \in Routines, Leave(r)
  PROVE  CountsLiveConsignments'
<1>1. TypeOK /\ CountsLiveConsignments
  BY DEF IInv
<1>2. /\ thread[r] = "loop" /\ thread' = [thread EXCEPT ![r] = "exited"]
      /\ inbox' = inbox /\ pending' = pending
  BY DEF Leave
<1>3. Handlers' = Handlers /\ Carriers' = Carriers
  BY <1>1, <1>2, ThreadMoves DEF Stances, Holding, Carrying
<1> QED BY <1>1, <1>2, <1>3, Unmoved DEF CountsLiveConsignments

\* What a component's thread does besides.
LEMMA ComponentCounted ==
  ASSUME IInv, NEW c \in Components,
         Dispatch(c) \/ Release(c) \/ NotifyZero(c) \/ Store(c)
  PROVE  CountsLiveConsignments'
<1>1. TypeOK /\ CountsLiveConsignments /\ c \in Routines /\ pending \in Nat
  BY RoutinesApart DEF IInv, TypeOK
<1>2. CASE Dispatch(c)
  <2> DEFINE n == inbox[c] - 1
  <2>1. /\ thread[c] = "loop" /\ thread' = [thread EXCEPT ![c] = "running"]
        /\ inbox' = [inbox EXCEPT ![c] = n] /\ pending' = pending
        /\ inbox[c] > 0
    BY <1>2 DEF Dispatch
  <2>2. n \in 0 .. InboxCapacity
    BY <1>1, <2>1, PortAssumption DEF TypeOK
  <2>3. Cardinality(Queued') = Cardinality(Queued) - 1
    BY <1>1, <2>1, <2>2, InboxMoves
  <2>4. Cardinality(Handlers') = Cardinality(Handlers) + 1 /\ Carriers' = Carriers
    BY <1>1, <2>1, ThreadMoves DEF Stances, Holding, Carrying
  <2> QED BY <1>1, <2>1, <2>3, <2>4, Countable DEF CountsLiveConsignments
<1>3. CASE Release(c)
  <2>1. /\ thread[c] = "running" /\ pending' = pending - 1 /\ inbox' = inbox
        /\ thread' = [thread EXCEPT ![c] = IF LastInFlight THEN "notify" ELSE "store"]
    BY <1>3 DEF Release
  <2>2. Cardinality(Handlers') = Cardinality(Handlers) - 1 /\ Carriers' = Carriers
    <3>1. CASE LastInFlight
      BY <1>1, <2>1, <3>1, ThreadMoves DEF Stances, Holding, Carrying
    <3>2. CASE ~LastInFlight
      BY <1>1, <2>1, <3>2, ThreadMoves DEF Stances, Holding, Carrying
    <3> QED BY <3>1, <3>2
  <2> QED BY <1>1, <2>1, <2>2, Unmoved, Countable DEF CountsLiveConsignments
<1>4. CASE NotifyZero(c)
  <2>1. /\ thread[c] = "notify" /\ thread' = [thread EXCEPT ![c] = "store"]
        /\ inbox' = inbox /\ pending' = pending
    BY <1>4 DEF NotifyZero
  <2>2. Handlers' = Handlers /\ Carriers' = Carriers
    BY <1>1, <2>1, ThreadMoves DEF Stances, Holding, Carrying
  <2> QED BY <1>1, <2>1, <2>2, Unmoved DEF CountsLiveConsignments
<1>5. CASE Store(c)
  <2>1. PICK v \in {"loop", "exited"} : thread' = [thread EXCEPT ![c] = v]
    BY <1>5 DEF Store
  <2>2. thread[c] = "store"
    BY <1>5 DEF Store
  <2>3. Handlers' = Handlers /\ Carriers' = Carriers
    BY <1>1, <2>1, <2>2, ThreadMoves DEF Stances, Holding, Carrying
  <2>4. CASE c \in owned
    <3>1. inbox' = inbox /\ pending' = pending
      BY <1>5, <2>4 DEF Store
    <3> QED BY <1>1, <2>3, <3>1, Unmoved DEF CountsLiveConsignments
  <2>5. CASE c \notin owned
    <3>1. inbox' = [inbox EXCEPT ![c] = 0] /\ pending' = pending - inbox[c]
      BY <1>5, <2>5 DEF Store
    <3>2. 0 \in 0 .. InboxCapacity /\ inbox[c] \in Nat
      BY <1>1, PortAssumption DEF TypeOK
    <3>3. Cardinality(Queued') = Cardinality(Queued) - inbox[c]
      BY <1>1, <3>1, <3>2, InboxMoves
    <3> QED BY <1>1, <2>3, <3>1, <3>2, <3>3, Countable DEF CountsLiveConsignments
  <2> QED BY <2>4, <2>5
<1> QED BY <1>2, <1>3, <1>4, <1>5

\* What happens outside the threads of the routines: only a component that is
\* destroyed takes consignments with it.
LEMMA OthersCounted ==
  ASSUME IInv, RequestShutdown \/ RequestAbort \/ AbortStep \/ MainStep
  PROVE  CountsLiveConsignments'
<1>1. TypeOK /\ CountsLiveConsignments /\ pending \in Nat
  BY DEF IInv, TypeOK
<1>2. ASSUME NEW c \in Components, ClearComponent(c), thread[c] \in {"loop", "exited"}
      PROVE  CountsLiveConsignments'
  <2>1. inbox' = [inbox EXCEPT ![c] = 0] /\ pending' = pending - inbox[c] /\ thread' = thread
    BY <1>2 DEF ClearComponent
  <2>2. 0 \in 0 .. InboxCapacity /\ inbox[c] \in Nat
    BY <1>1, PortAssumption DEF TypeOK
  <2>3. Cardinality(Queued') = Cardinality(Queued) - inbox[c]
    BY <1>1, <2>1, <2>2, InboxMoves
  <2> QED BY <1>1, <2>1, <2>2, <2>3, Unmoved, Countable DEF CountsLiveConsignments
<1>3. CASE inbox' = inbox /\ thread' = thread /\ pending' = pending
  BY <1>1, <1>3, Unmoved DEF CountsLiveConsignments
<1>4. \/ inbox' = inbox /\ thread' = thread /\ pending' = pending
      \/ \E c \in Components : ClearComponent(c) /\ thread[c] \in {"loop", "exited"}
  BY DEF RequestShutdown, RequestAbort, AbortStep, SetAbortBit, NotifyAbort, MainStep,
     StopPolling, Load, Check, Wait, ClearDrivers, ClearComponent, StopRunner, Finish, graph
<1> QED BY <1>2, <1>3, <1>4

\* No step loses count.
LEMMA CountKept ==
  ASSUME IInv, [Next]_vars
  PROVE  CountsLiveConsignments'
<1>1. CASE \E d \in Drivers : DriverStep(d) \/ Publish(d) \/ Exhausted(d)
  <2>1. PICK d \in Drivers : DriverStep(d) \/ Publish(d) \/ Exhausted(d)
    BY <1>1
  <2>2. d \in Routines
    BY RoutinesApart
  <2>3. Delivering(d) \/ EndOfRun(d) \/ Done(d) \/ Leave(d) \/ Publish(d)
    BY <2>1 DEF DriverStep, ObserveShutdown, Exhausted
  <2> QED BY <2>2, <2>3, DeliveringCounted, DriverCounted, LeaveCounted
<1>2. CASE \E c \in Components : ComponentStep(c)
  <2>1. PICK c \in Components : ComponentStep(c)
    BY <1>2
  <2>2. c \in Routines
    BY RoutinesApart
  <2> QED BY <2>1, <2>2, DeliveringCounted, ComponentCounted, LeaveCounted DEF ComponentStep
<1>3. CASE RequestShutdown \/ RequestAbort \/ AbortStep \/ MainStep
  BY <1>3, OthersCounted
<1>4. CASE UNCHANGED vars
  <2>1. inbox' = inbox /\ thread' = thread /\ pending' = pending
    BY <1>4 DEF vars
  <2> QED BY <2>1, Unmoved DEF IInv, CountsLiveConsignments
<1> QED BY <1>1, <1>2, <1>3, <1>4 DEF Next

-----------------------------------------------------------------------------
(* Types.                                                                  *)

\* The tail of what is left to serve.
LEMMA TailTyped ==
  ASSUME NEW S, NEW s \in Seq(S), s # <<>>
  PROVE  Tail(s) \in Seq(S)
  OBVIOUS

\* The values of every variable stay what they are meant to be.
LEMMA TypeKept ==
  ASSUME IInv, [Next]_vars
  PROVE  TypeOK' /\ Carried'
<1>1. pending' \in Nat
  BY CountKept, Countable DEF CountsLiveConsignments
<1>2. TypeOK /\ Carried
  BY DEF IInv
<1>3. ASSUME NEW r \in Routines, Delivering(r)
      PROVE  TypeOK' /\ Carried'
  <2>1. CASE Construct(r)
    BY <1>1, <1>2, <2>1 DEF Construct, signals, graph, TypeOK, Carried
  <2>2. CASE Push(r)
    <3>1. todo[r] \in Seq(Components) /\ todo[r] # <<>>
      BY <1>2, <2>2 DEF Push, TypeOK, Carried
    <3>2. Head(todo[r]) \in Components /\ Tail(todo[r]) \in Seq(Components)
      BY <3>1, TailTyped
    <3>3. inbox' \in [Components -> 0 .. InboxCapacity]
      <4> DEFINE c == Head(todo[r])
                 n == IF inbox[c] = InboxCapacity THEN inbox[c] ELSE inbox[c] + 1
      <4>1. inbox' = [inbox EXCEPT ![c] = n]
        BY <2>2 DEF Push
      <4>2. n \in 0 .. InboxCapacity
        BY <1>2, <3>2, PortAssumption DEF TypeOK
      <4> HIDE DEF n, c
      <4> QED BY <1>2, <4>1, <4>2 DEF TypeOK
    <3>4. /\ thread' \in [Routines -> Stances]
          /\ \A s \in Routines : thread'[s] = "push" => s # r /\ thread[s] = "push"
          /\ todo' \in [Routines -> Seq(Components)]
          /\ \A s \in Routines : s # r => todo'[s] = todo[s]
      BY <1>2, <2>2, <3>2 DEF Push, TypeOK, Stances
    <3>5. Carried'
      BY <1>2, <3>4 DEF Carried
    <3> QED BY <1>1, <1>2, <2>2, <3>3, <3>4, <3>5 DEF Push, signals, graph, TypeOK, Stances
  <2>3. CASE PushIntoDestroyed(r)
    BY <1>1, <1>2, <2>3 DEF PushIntoDestroyed, signals, graph, TypeOK, Carried
  <2>4. CASE Evict(r)
    BY <1>1, <1>2, <2>4 DEF Evict, signals, graph, TypeOK, Carried
  <2>5. CASE NotifyEvicted(r)
    BY <1>1, <1>2, <2>5 DEF NotifyEvicted, Awoken, signals, graph, TypeOK, Carried
  <2> QED BY <1>3, <2>1, <2>2, <2>3, <2>4, <2>5 DEF Delivering
<1>4. ASSUME NEW r \in Routines, Leave(r)
      PROVE  TypeOK' /\ Carried'
  BY <1>1, <1>2, <1>4 DEF Leave, signals, graph, TypeOK, Carried
<1>5. ASSUME NEW d \in Drivers, EndOfRun(d) \/ Done(d) \/ Publish(d)
      PROVE  TypeOK' /\ Carried'
  <2>1. d \in Routines
    BY RoutinesApart
  <2>2. CASE EndOfRun(d)
    BY <1>1, <1>2, <2>1, <2>2 DEF EndOfRun, signals, graph, TypeOK, Carried
  <2>3. CASE Done(d)
    BY <1>1, <1>2, <2>1, <2>3 DEF Done, signals, graph, TypeOK, Carried
  <2>4. CASE Publish(d)
    <3>1. Subscribers[d] \in Seq(Components) /\ published[d] + 1 \in 0 .. MaxMessages
      <4>1. Subscribers[d] \in Seq(Components)
        BY <2>1, PortAssumption
      <4>2. published[d] \in 0 .. MaxMessages /\ published[d] < MaxMessages /\ MaxMessages \in Nat
        BY <1>2, <2>4, PortAssumption DEF Publish, TypeOK
      <4> QED BY <4>1, <4>2
    <3>2. published' \in [Drivers -> 0 .. MaxMessages]
      BY <1>2, <2>4, <3>1 DEF Publish, TypeOK
    <3>3. /\ thread' \in [Routines -> Stances]
          /\ \A s \in Routines : thread'[s] = "push" => s # d /\ thread[s] = "push"
          /\ todo' \in [Routines -> Seq(Components)]
          /\ \A s \in Routines : s # d => todo'[s] = todo[s]
      BY <1>2, <2>1, <2>4, <3>1 DEF Publish, TypeOK, Stances
    <3>4. Carried'
      BY <1>2, <3>3 DEF Carried
    <3> QED BY <1>1, <1>2, <2>4, <3>2, <3>3, <3>4 DEF Publish, signals, graph, TypeOK, Stances
  <2> QED BY <1>5, <2>2, <2>3, <2>4
<1>6. ASSUME NEW c \in Components, Dispatch(c) \/ Release(c) \/ NotifyZero(c) \/ Store(c)
      PROVE  TypeOK' /\ Carried'
  <2>1. c \in Routines
    BY RoutinesApart
  <2>2. CASE Dispatch(c)
    <3>1. inbox[c] - 1 \in 0 .. InboxCapacity
      BY <1>2, <2>2, PortAssumption DEF Dispatch, TypeOK
    <3>2. inbox' \in [Components -> 0 .. InboxCapacity]
      BY <1>2, <2>2, <3>1 DEF Dispatch, TypeOK
    <3>3. PICK targets \in {<<>>, Subscribers[c]} : todo' = [todo EXCEPT ![c] = targets]
      BY <2>2 DEF Dispatch
    <3>4. targets \in Seq(Components)
      <4>1. Subscribers[c] \in Seq(Components)
        BY <2>1, PortAssumption
      <4>2. <<>> \in Seq(Components)
        OBVIOUS
      <4> QED BY <3>3, <4>1, <4>2
    <3>5. /\ thread' \in [Routines -> Stances]
          /\ \A s \in Routines : thread'[s] = "push" => s # c /\ thread[s] = "push"
          /\ todo' \in [Routines -> Seq(Components)]
          /\ \A s \in Routines : s # c => todo'[s] = todo[s]
      BY <1>2, <2>1, <2>2, <3>3, <3>4 DEF Dispatch, TypeOK, Stances
    <3>6. Carried'
      BY <1>2, <3>5 DEF Carried
    <3> QED BY <1>1, <1>2, <2>2, <3>2, <3>5, <3>6 DEF Dispatch, signals, graph, TypeOK, Stances
  <2>3. CASE Release(c)
    BY <1>1, <1>2, <2>1, <2>3 DEF Release, signals, graph, TypeOK, Carried
  <2>4. CASE NotifyZero(c)
    BY <1>1, <1>2, <2>1, <2>4 DEF NotifyZero, Awoken, signals, graph, TypeOK, Carried
  <2>5. CASE Store(c)
    <3>1. PICK outcome \in HandlerOutcomes :
            /\ state' = [state EXCEPT ![c] = outcome]
            /\ thread' = [thread EXCEPT ![c] = IF outcome = "Done" THEN "exited" ELSE "loop"]
      BY <2>5 DEF Store
    <3>2. state' \in [Routines -> {"Continue", "Done"}]
      BY <1>2, <2>1, <3>1, PortAssumption DEF TypeOK
    <3>3. /\ thread' \in [Routines -> Stances]
          /\ \A s \in Routines : thread'[s] = "push" => thread[s] = "push"
      BY <1>2, <2>1, <3>1 DEF TypeOK, Stances
    <3>4. inbox' \in [Components -> 0 .. InboxCapacity] /\ alive' \subseteq Routines
      <4>1. 0 \in 0 .. InboxCapacity
        BY PortAssumption
      <4> QED BY <1>2, <2>5, <4>1 DEF Store, TypeOK
    <3>5. Carried'
      BY <1>2, <2>5, <3>3 DEF Store, Carried
    <3> QED BY <1>1, <1>2, <2>5, <3>2, <3>3, <3>4, <3>5 DEF Store, signals, TypeOK, Stances
  <2> QED BY <1>6, <2>2, <2>3, <2>4, <2>5
<1>7. CASE RequestShutdown \/ RequestAbort \/ AbortStep
  BY <1>1, <1>2, <1>7, ZenonT(30)
     DEF RequestShutdown, RequestAbort, AbortStep, SetAbortBit, NotifyAbort, Awoken, graph, TypeOK, Carried
<1>8. CASE MainStep
  <2>1. CASE StopPolling \/ Check \/ Wait \/ Finish
    BY <1>1, <1>2, <2>1 DEF StopPolling, Check, Wait, Finish, signals, graph, TypeOK, Carried
  <2>2. CASE Load
    <3>1. seen' \in [count : Nat, abort : BOOLEAN]
      BY <1>2, <2>2 DEF Load, Word, TypeOK
    <3> QED BY <1>1, <1>2, <2>2, <3>1 DEF Load, signals, graph, TypeOK, Carried
  <2>3. CASE ClearDrivers
    BY <1>1, <1>2, <2>3 DEF ClearDrivers, signals, TypeOK, Carried
  <2>4. ASSUME NEW c \in Components, ClearComponent(c)
        PROVE  TypeOK' /\ Carried'
    <3>1. 0 \in 0 .. InboxCapacity
      BY PortAssumption
    <3>2. /\ inbox' = inbox \/ inbox' = [inbox EXCEPT ![c] = 0]
          /\ alive' = alive \/ alive' = alive \ {c}
          /\ owned' = owned \ {c}
          /\ main' \in {main, "clearRunners"}
          /\ UNCHANGED <<abortBit, signals, seen, published, thread, todo, state, stopping, corrupted>>
      BY <2>4 DEF ClearComponent
    <3>3. inbox' \in [Components -> 0 .. InboxCapacity] /\ alive' \subseteq Routines
      BY <1>2, <3>1, <3>2 DEF TypeOK
    <3> QED BY <1>1, <1>2, <3>2, <3>3 DEF signals, TypeOK, Carried
  <2>5. ASSUME NEW r \in Routines, StopRunner(r)
        PROVE  TypeOK' /\ Carried'
    BY <1>1, <1>2, <2>5 DEF StopRunner, signals, TypeOK, Carried
  <2> QED BY <1>8, <2>1, <2>4, <2>5, <2>2, <2>3 DEF MainStep
<1>9. CASE UNCHANGED vars
  BY <1>1, <1>2, <1>9 DEF vars, TypeOK, Carried
<1>10. CASE \E d \in Drivers : DriverStep(d) \/ Publish(d) \/ Exhausted(d)
  BY <1>3, <1>4, <1>5, <1>10, RoutinesApart DEF DriverStep, ObserveShutdown, Exhausted
<1>11. CASE \E c \in Components : ComponentStep(c)
  BY <1>3, <1>4, <1>6, <1>11, RoutinesApart DEF ComponentStep
<1> QED BY <1>7, <1>8, <1>9, <1>10, <1>11 DEF Next

-----------------------------------------------------------------------------
(* The order of the teardown.                                              *)

\* With nothing counted nothing is in flight.
LEMMA NothingInFlight ==
  ASSUME TypeOK, CountsLiveConsignments, pending = 0
  PROVE  Quiet
<1>1. Cardinality(Queued) = 0 /\ Cardinality(Handlers) = 0 /\ Cardinality(Carriers) = 0
  BY Countable DEF CountsLiveConsignments
<1>2. Queued = {} /\ Handlers = {} /\ Carriers = {}
  BY <1>1, Countable, FS_EmptySet
<1>3. ASSUME NEW c \in Components PROVE inbox[c] = 0
  <2>1. inbox[c] \in 0 .. InboxCapacity /\ 1 \in 1 .. InboxCapacity
    BY PortAssumption DEF TypeOK
  <2>2. <<c, 1>> \in Queued <=> 1 <= inbox[c]
    BY <2>1 DEF Queued
  <2> QED BY <1>2, <2>1, <2>2
<1>4. \A c \in Components : ~Handling(c)
  BY <1>2 DEF Handlers
<1>5. \A r \in Routines : thread[r] \notin {"push", "evict"}
  BY <1>2 DEF Carriers
<1> QED BY <1>3, <1>4, <1>5 DEF Quiet

\* The drivers have ended by the time anyone looks, the graph stands until the
\* bus was found quiet, and a bus found quiet stays so.
LEMMA OrderKept ==
  ASSUME IInv, [Next]_vars
  PROVE  Whole' /\ DriversEnd' /\ Drained' /\ NoDeliveryToDestroyed'
<1> USE DEF signals, graph
<1>1. TypeOK /\ Carried /\ CountsLiveConsignments /\ Whole /\ DriversEnd /\ Drained /\ NoDeliveryToDestroyed
  BY DEF IInv
<1>2. /\ \A d \in Drivers : d \in Routines /\ d \notin Components
      /\ \A c \in Components : c \in Routines /\ c \notin Drivers
      /\ \A r \in Routines : r \in Drivers \/ r \in Components
  BY RoutinesApart, PortAssumption
<1>3. ASSUME NEW r \in Routines, Delivering(r)
      PROVE  Whole' /\ DriversEnd' /\ Drained' /\ NoDeliveryToDestroyed'
  <2>1. thread[r] \in Holding
    BY <1>3 DEF Delivering, Construct, Push, PushIntoDestroyed, Evict, NotifyEvicted, Holding
  <2>2. Quiet => r \in Drivers
    BY <1>2, <2>1 DEF Quiet, Handling, Holding
  <2>3. main # "poll" => r \notin Drivers
    BY <1>1, <2>1 DEF DriversEnd, Holding
  <2>4. FoundQuiet => abortRequested
    BY <1>1, <2>2, <2>3 DEF Drained, FoundQuiet
  <2>5. /\ UNCHANGED <<abortRequested, seen, state, owned, alive>>
        /\ main' = main \/ (main = "blocked" /\ main' = "wait")
    BY <1>3 DEF Delivering, Construct, Push, PushIntoDestroyed, Evict, NotifyEvicted, Awoken
  <2>6. Whole'
    BY <1>1, <2>5 DEF Whole
  <2>7. DriversEnd'
    <3>1. \A s \in Routines : s # r => thread'[s] = thread[s]
      BY <1>1, <1>3 DEF Delivering, Construct, Push, PushIntoDestroyed, Evict, NotifyEvicted, TypeOK
    <3>2. r \in Drivers => state[r] # "Done"
      BY <1>1, <2>1 DEF DriversEnd, Holding
    <3>3. main' # "poll" <=> main # "poll"
      BY <2>5
    <3> QED BY <1>1, <1>2, <2>3, <2>5, <3>1, <3>2, <3>3 DEF DriversEnd
  <2>8. FoundQuiet' => FoundQuiet
    BY <2>5 DEF FoundQuiet
  <2>9. Drained'
    BY <2>4, <2>5, <2>8 DEF Drained
  <2>10. NoDeliveryToDestroyed'
    <3>1. CASE PushIntoDestroyed(r)
      <4>1. thread[r] = "push" /\ Head(todo[r]) \notin alive /\ todo[r] \in Seq(Components) /\ todo[r] # <<>>
        BY <1>1, <3>1 DEF PushIntoDestroyed, TypeOK, Carried
      <4>2. alive # Routines
        BY <1>2, <4>1
      <4>3. FoundQuiet
        BY <1>1, <4>2 DEF Whole, TypeOK, FoundQuiet
      <4> QED BY <2>4, <2>5, <4>3 DEF NoDeliveryToDestroyed
    <3>2. CASE ~PushIntoDestroyed(r)
      BY <1>1, <1>3, <2>5, <3>2
         DEF Delivering, Construct, Push, Evict, NotifyEvicted, NoDeliveryToDestroyed
    <3> QED BY <3>1, <3>2
  <2> QED BY <2>6, <2>7, <2>9, <2>10
<1>4. ASSUME NEW d \in Drivers, EndOfRun(d) \/ Done(d) \/ Publish(d)
      PROVE  Whole' /\ DriversEnd' /\ Drained' /\ NoDeliveryToDestroyed'
  <2>1. /\ thread[d] # "exited" /\ d \in Routines
        /\ UNCHANGED <<main, seen, abortRequested, owned, alive, corrupted>>
    BY <1>2, <1>4 DEF EndOfRun, Done, Publish
  <2>2. main = "poll"
    BY <1>1, <2>1 DEF DriversEnd
  <2>3. /\ \A e \in Drivers : e # d => thread'[e] = thread[e] /\ state'[e] = state[e]
        /\ state'[d] = "Done" => thread'[d] = "exited"
    BY <1>1, <1>2, <1>4, <2>1 DEF EndOfRun, Done, Publish, TypeOK, DriversEnd
  <2>4. DriversEnd'
    BY <1>1, <2>1, <2>2, <2>3 DEF DriversEnd
  <2>5. ~FoundQuiet'
    BY <2>1, <2>2 DEF FoundQuiet
  <2> QED BY <1>1, <2>1, <2>4, <2>5 DEF Whole, Drained, NoDeliveryToDestroyed
<1>5. ASSUME NEW r \in Routines, Leave(r)
      PROVE  Whole' /\ DriversEnd' /\ Drained' /\ NoDeliveryToDestroyed'
  <2>1. /\ UNCHANGED <<main, seen, abortRequested, owned, alive, corrupted, state, inbox>>
        /\ thread' = [thread EXCEPT ![r] = "exited"]
    BY <1>5 DEF Leave
  <2>2. \A s \in Routines : thread'[s] = "exited" \/ thread'[s] = thread[s]
    BY <1>1, <2>1 DEF TypeOK
  <2>3. DriversEnd'
    BY <1>1, <1>2, <2>1, <2>2 DEF DriversEnd
  <2>4. Quiet => Quiet'
    BY <1>2, <2>1, <2>2 DEF Quiet, Handling
  <2> QED BY <1>1, <2>1, <2>3, <2>4 DEF Whole, Drained, FoundQuiet, NoDeliveryToDestroyed
<1>6. ASSUME NEW c \in Components, Dispatch(c) \/ Release(c)
      PROVE  Whole' /\ DriversEnd' /\ Drained' /\ NoDeliveryToDestroyed'
  <2>1. ~Quiet
    BY <1>1, <1>6 DEF Dispatch, Release, Quiet, Handling, TypeOK
  <2>2. /\ UNCHANGED <<main, seen, abortRequested, owned, alive, corrupted, state>>
        /\ \A d \in Drivers : thread'[d] = thread[d]
    BY <1>1, <1>2, <1>6 DEF Dispatch, Release, TypeOK
  <2>3. DriversEnd'
    BY <1>1, <2>2 DEF DriversEnd
  <2> QED BY <1>1, <2>1, <2>2, <2>3 DEF Whole, Drained, FoundQuiet, NoDeliveryToDestroyed
<1>7. ASSUME NEW c \in Components, NotifyZero(c)
      PROVE  Whole' /\ DriversEnd' /\ Drained' /\ NoDeliveryToDestroyed'
  <2>1. /\ UNCHANGED <<seen, abortRequested, owned, alive, corrupted, state, inbox>>
        /\ thread[c] = "notify" /\ thread' = [thread EXCEPT ![c] = "store"]
        /\ main' = main \/ (main = "blocked" /\ main' = "wait")
    BY <1>7 DEF NotifyZero, Awoken
  <2>2. \A s \in Routines : thread'[s] = thread[s] \/ (s = c /\ thread'[s] = "store")
    BY <1>1, <2>1 DEF TypeOK
  <2>3. DriversEnd'
    BY <1>1, <1>2, <2>1, <2>2 DEF DriversEnd
  <2>4. Quiet => Quiet'
    BY <1>2, <2>1, <2>2 DEF Quiet, Handling
  <2> QED BY <1>1, <2>1, <2>3, <2>4 DEF Whole, Drained, FoundQuiet, NoDeliveryToDestroyed
<1>8. ASSUME NEW c \in Components, Store(c)
      PROVE  Whole' /\ DriversEnd' /\ Drained' /\ NoDeliveryToDestroyed'
  <2>1. /\ UNCHANGED <<main, seen, abortRequested, owned, corrupted>>
        /\ c \in owned => UNCHANGED <<alive, inbox>>
        /\ c \notin owned => inbox' = [inbox EXCEPT ![c] = 0]
    BY <1>8 DEF Store
  <2>2. /\ \A s \in Routines : thread'[s] = thread[s] \/ (s = c /\ thread'[s] \in {"loop", "exited"})
        /\ \A d \in Drivers : state'[d] = state[d] /\ thread'[d] = thread[d]
    BY <1>1, <1>2, <1>8 DEF Store, TypeOK
  <2>3. DriversEnd'
    BY <1>1, <2>1, <2>2 DEF DriversEnd
  <2>4. \A e \in Components : inbox'[e] = inbox[e] \/ inbox'[e] = 0
    BY <1>1, <2>1 DEF TypeOK
  <2>5. Quiet => Quiet'
    BY <1>2, <2>2, <2>4 DEF Quiet, Handling
  <2>6. Whole'
    BY <1>1, <1>2, <2>1 DEF Whole
  <2> QED BY <1>1, <2>1, <2>3, <2>5, <2>6 DEF Drained, FoundQuiet, NoDeliveryToDestroyed
<1>9. CASE RequestShutdown \/ RequestAbort \/ AbortStep
  <2>1. /\ UNCHANGED <<seen, owned, alive, corrupted, state, inbox, thread>>
        /\ abortRequested => abortRequested'
        /\ main' = main \/ (main = "blocked" /\ main' = "wait")
    BY <1>9 DEF RequestShutdown, RequestAbort, AbortStep, SetAbortBit, NotifyAbort, Awoken
  <2>2. Quiet => Quiet'
    BY <2>1 DEF Quiet, Handling
  <2> QED BY <1>1, <2>1, <2>2 DEF Whole, DriversEnd, Drained, FoundQuiet, NoDeliveryToDestroyed
<1>10. CASE StopPolling \/ Wait
  <2>1. /\ UNCHANGED <<abortRequested, seen, owned, alive, corrupted, state, inbox, thread>>
        /\ main \in {"poll", "wait"} /\ main' \in {"load", "blocked"}
        /\ main = "poll" => \A d \in Drivers : state[d] = "Done"
    BY <1>10 DEF StopPolling, Wait
  <2> QED BY <1>1, <2>1 DEF Whole, DriversEnd, Drained, FoundQuiet, NoDeliveryToDestroyed
<1>11. CASE Load
  <2>1. /\ UNCHANGED <<abortRequested, owned, alive, corrupted, state, inbox, thread>>
        /\ main = "load" /\ main' = "check" /\ seen' = [count |-> pending, abort |-> abortBit]
    BY <1>11 DEF Load, Word
  <2>2. FoundQuiet' => pending = 0
    BY <2>1 DEF FoundQuiet
  <2>3. pending = 0 => Quiet'
    BY <1>1, <2>1, NothingInFlight DEF Quiet, Handling
  <2> QED BY <1>1, <2>1, <2>2, <2>3 DEF Whole, DriversEnd, Drained, NoDeliveryToDestroyed
<1>12. CASE Check
  <2>1. /\ UNCHANGED <<abortRequested, seen, owned, alive, corrupted, state, inbox, thread>>
        /\ main = "check"
        /\ main' = IF seen = [count |-> 0, abort |-> FALSE] \/ abortRequested
                     THEN "clearDrivers" ELSE "wait"
    BY <1>12 DEF Check
  <2>2. FoundQuiet' => FoundQuiet \/ abortRequested
    BY <2>1 DEF FoundQuiet
  <2>3. Quiet => Quiet'
    BY <2>1 DEF Quiet, Handling
  <2> QED BY <1>1, <2>1, <2>2, <2>3 DEF Whole, DriversEnd, Drained, NoDeliveryToDestroyed
<1>13. CASE ClearDrivers \/ Finish \/ \E r \in Routines : StopRunner(r)
  <2>1. /\ UNCHANGED <<abortRequested, seen, corrupted, state, inbox, thread>>
        /\ main \in {"clearDrivers", "clearRunners"}
        /\ main' \in {"clearComponents", "clearRunners", "finished"}
    BY <1>13 DEF ClearDrivers, Finish, StopRunner
  <2>2. Quiet => Quiet'
    BY <2>1 DEF Quiet, Handling
  <2> QED BY <1>1, <2>1, <2>2 DEF Whole, DriversEnd, Drained, FoundQuiet, NoDeliveryToDestroyed
<1>14. ASSUME NEW c \in Components, ClearComponent(c)
       PROVE  Whole' /\ DriversEnd' /\ Drained' /\ NoDeliveryToDestroyed'
  <2>1. /\ UNCHANGED <<abortRequested, seen, corrupted, state, thread>>
        /\ main = "clearComponents" /\ main' \in {"clearComponents", "clearRunners"}
        /\ inbox' = inbox \/ inbox' = [inbox EXCEPT ![c] = 0]
    BY <1>14 DEF ClearComponent
  <2>2. \A e \in Components : inbox'[e] = inbox[e] \/ inbox'[e] = 0
    BY <1>1, <2>1 DEF TypeOK
  <2>3. Quiet => Quiet'
    BY <2>1, <2>2 DEF Quiet, Handling
  <2> QED BY <1>1, <2>1, <2>3 DEF Whole, DriversEnd, Drained, FoundQuiet, NoDeliveryToDestroyed
<1>15. CASE UNCHANGED vars
  <2>1. UNCHANGED <<main, abortRequested, seen, owned, alive, corrupted, state, inbox, thread>>
    BY <1>15 DEF vars
  <2>2. Quiet => Quiet'
    BY <2>1 DEF Quiet, Handling
  <2> QED BY <1>1, <2>1, <2>2 DEF Whole, DriversEnd, Drained, FoundQuiet, NoDeliveryToDestroyed
<1>16. CASE \E d \in Drivers : DriverStep(d) \/ Publish(d) \/ Exhausted(d)
  BY <1>2, <1>3, <1>4, <1>5, <1>16 DEF DriverStep, ObserveShutdown, Exhausted
<1>17. CASE \E c \in Components : ComponentStep(c)
  BY <1>2, <1>3, <1>5, <1>6, <1>7, <1>8, <1>17 DEF ComponentStep
<1>18. CASE MainStep
  BY <1>10, <1>11, <1>12, <1>13, <1>14, <1>18 DEF MainStep
<1> QED BY <1>9, <1>15, <1>16, <1>17, <1>18 DEF Next

-----------------------------------------------------------------------------
(* The theorems.                                                           *)

\* Nothing is in flight when the port starts.
LEMMA InitKept == Init => IInv
<1> SUFFICES ASSUME Init PROVE IInv
  OBVIOUS
<1>1. TypeOK
  <2>1. 0 \in 0 .. InboxCapacity /\ 0 \in 0 .. MaxMessages /\ <<>> \in Seq(Components)
    BY PortAssumption
  <2> QED BY <2>1 DEF Init, TypeOK
<1>2. CountsLiveConsignments
  <2>1. Queued = {}
    <3>1. \A i \in 1 .. InboxCapacity : ~(i <= 0)
      BY PortAssumption
    <3> QED BY <3>1 DEF Queued, Init
  <2>2. Handlers = {} /\ Carriers = {}
    <3>1. Components \subseteq Routines
      BY DEF Routines
    <3> QED BY <3>1 DEF Handlers, Carriers, Handling, Init
  <2>3. pending = 0
    BY DEF Init
  <2> QED BY <2>1, <2>2, <2>3, FS_EmptySet DEF CountsLiveConsignments
<1>3. Carried /\ Whole /\ DriversEnd /\ Drained /\ NoDeliveryToDestroyed
  <2>1. \A d \in Drivers : d \in Routines
    BY RoutinesApart
  <2> QED BY <2>1 DEF Init, Carried, Whole, DriversEnd, Drained, FoundQuiet, NoDeliveryToDestroyed
<1> QED BY <1>1, <1>2, <1>3 DEF IInv

\* The invariant holds throughout.
LEMMA Invariance == Spec => []IInv
<1>1. Init => IInv
  BY InitKept
<1>2. IInv /\ [Next]_vars => IInv'
  BY CountKept, TypeKept, OrderKept DEF IInv
<1> QED BY <1>1, <1>2, PTL DEF Spec

\* The count that the destructor waits for is the number of consignments alive,
\* whichever threads publish, evict, handle and destroy them.
THEOREM CountIsExact == Spec => []CountsLiveConsignments
<1>1. IInv => CountsLiveConsignments
  BY DEF IInv
<1> QED BY <1>1, Invariance, PTL

\* Unless somebody aborts, no consignment is delivered to a component that is
\* gone: the graph is taken apart after the count was zero with no driver left.
THEOREM DeliveriesReachTheLiving == Spec => []NoDeliveryToDestroyed
<1>1. IInv => NoDeliveryToDestroyed
  BY DEF IInv
<1> QED BY <1>1, Invariance, PTL

-----------------------------------------------------------------------------
(* The signals. Where the kernel runs the handler on the thread that owns  *)
(* the catcher, as Linux does for a signal sent to a process whose main    *)
(* thread does not block it, every signal delivered is in one place at a   *)
(* time: in a handler, the cell, the watcher's hands or the counter, or it *)
(* was lost.                                                               *)

\* The marks in the cell are no signals.
LEMMA SignalsDiffer ==
  /\ Escalating \cap Immediate = {}
  /\ NoSignal \notin Catch!Signals
  /\ Stop \notin Catch!Signals
  /\ Stop # NoSignal
  /\ Owner \in Threads
  /\ MaxRaises \in Nat
  /\ MaxCatchers \in Nat
BY SignalsAssumption DEF Catch!CatcherAssumption

Handler == [signal : Catch!Signals, stored : BOOLEAN]
Unstored(h, s) == \E i \in DOMAIN h : h[i].signal = s /\ ~h[i].stored
Unhandled(h, s) == \A i \in DOMAIN h : h[i].signal # s
Nested(h, s) == <<[signal |-> s, stored |-> FALSE]>> \o h
NoneTwice(h) == \A i \in DOMAIN h, j \in DOMAIN h : h[i].signal = h[j].signal => i = j

\* Outside these states of its owner there is no handler to be run.
Uninstalled ==
  /\ owner \in {"none", "starting", "notifying", "joining"} => installed = {}
  /\ installed = {} => handling[Owner] = <<>>

\* What the cell, the watcher and the owner know of one another.
Handshake ==
  /\ owner = "none" => watcher = "exited" /\ cache = NoSignal
  /\ owner = "starting" => watcher \in {"look", "blocked"} /\ cache = NoSignal
  /\ watcher = "exited" => owner \in {"none", "notifying", "joining"} /\ cache = NoSignal
  /\ cache = Stop => owner \in {"notifying", "joining"}
  /\ watcher = "take" => cache # NoSignal
  /\ watcher \in {"count", "act"} => caught \in Catch!Signals

Alive == Catch!TypeOK /\ Uninstalled /\ Handshake

One(condition) == IF condition THEN 1 ELSE 0
Counted ==
  owner \notin {"none", "starting"} =>
    \A s \in Catch!Signals :
      counter[s] + One(watcher = "count" /\ caught = s) + One(cache = s)
                 + One(Unstored(handling[Owner], s)) <= raised[s]

CInv ==
  /\ Alive
  /\ NoneTwice(handling[Owner])
  /\ Counted
  /\ watcher = "act" => counter[caught] >= 1
  /\ Catch!AbortsOnRepeat

-----------------------------------------------------------------------------
(* The handlers nested on one thread.                                      *)

\* A handler is started on top of those it interrupts.
LEMMA HandlerDelivered ==
  ASSUME NEW h \in Seq(Handler), NEW s \in Catch!Signals, Unhandled(h, s),
         NEW g, g = Nested(h, s)
  PROVE  /\ g \in Seq(Handler)
         /\ g # <<>>
         /\ NoneTwice(h) => NoneTwice(g)
         /\ \A u : Unstored(g, u) <=> u = s \/ Unstored(h, u)
         /\ ~Unstored(h, s)
<1> DEFINE x == [signal |-> s, stored |-> FALSE]
<1>1. x \in Handler /\ x.signal = s /\ ~x.stored
  BY DEF Handler
<1> HIDE DEF x
<1> DEFINE p == <<x>>
<1>2. p \in Seq(Handler) /\ Len(p) = 1 /\ p[1] = x
  BY <1>1
<1>3. g = p \o h
  BY DEF x, Nested
<1> HIDE DEF p
<1>4. /\ g \in Seq(Handler)
      /\ Len(g) = Len(h) + 1
      /\ \A i \in 1 .. Len(h) + 1 : g[i] = IF i <= 1 THEN p[i] ELSE h[i - 1]
  <2>1. /\ p \o h \in Seq(Handler)
        /\ Len(p \o h) = Len(p) + Len(h)
        /\ \A i \in 1 .. Len(p) + Len(h) : (p \o h)[i] =
                     IF i <= Len(p) THEN p[i] ELSE h[i - Len(p)]
    BY <1>2, ConcatProperties
  <2>2. Len(p) + Len(h) = Len(h) + 1
    BY <1>2, LenProperties
  <2> QED BY <1>2, <1>3, <2>1, <2>2
<1>5. /\ Len(h) \in Nat
      /\ DOMAIN h = 1 .. Len(h)
      /\ DOMAIN g = 1 .. Len(h) + 1
  BY <1>4, LenProperties
<1>6. g[1] = x
  BY <1>2, <1>4, <1>5
<1>7. \A i \in DOMAIN h : i + 1 \in DOMAIN g /\ g[i + 1] = h[i]
  BY <1>4, <1>5
<1>8. \A j \in DOMAIN g : j # 1 => j - 1 \in DOMAIN h /\ g[j] = h[j - 1]
  BY <1>4, <1>5
<1>9. g # <<>>
  BY <1>5
<1>10. ASSUME NoneTwice(h) PROVE NoneTwice(g)
  <2> SUFFICES ASSUME NEW i \in DOMAIN g, NEW j \in DOMAIN g, g[i].signal = g[j].signal
               PROVE  i = j
    BY DEF NoneTwice
  <2>1. CASE i = 1 \/ j = 1
    BY <1>1, <1>6, <1>8, <2>1 DEF Unhandled
  <2>2. CASE i # 1 /\ j # 1
    <3>1. i - 1 = j - 1
      BY <1>8, <1>10, <2>2 DEF NoneTwice
    <3> QED BY <1>5, <3>1
  <2> QED BY <2>1, <2>2
<1>11. ASSUME NEW u PROVE Unstored(g, u) <=> u = s \/ Unstored(h, u)
  <2>1. 1 \in DOMAIN g
    BY <1>5
  <2>2. u = s => Unstored(g, u)
    BY <1>1, <1>6, <2>1 DEF Unstored
  <2>3. Unstored(h, u) => Unstored(g, u)
    BY <1>7 DEF Unstored
  <2>4. Unstored(g, u) => u = s \/ Unstored(h, u)
    BY <1>1, <1>6, <1>8 DEF Unstored
  <2> QED BY <2>2, <2>3, <2>4
<1>12. ~Unstored(h, s)
  BY DEF Unstored, Unhandled
<1> QED BY <1>4, <1>9, <1>10, <1>11, <1>12

\* The innermost handler has left its signal in the cell.
LEMMA HandlerStored ==
  ASSUME NEW h \in Seq(Handler), h # <<>>, ~h[1].stored, NoneTwice(h),
         NEW g, g = [h EXCEPT ![1].stored = TRUE]
  PROVE  /\ h[1].signal \in Catch!Signals
         /\ g \in Seq(Handler)
         /\ g # <<>>
         /\ NoneTwice(g)
         /\ Unstored(h, h[1].signal)
         /\ \A u : Unstored(g, u) <=> Unstored(h, u) /\ u # h[1].signal
<1> DEFINE x == [h[1] EXCEPT !.stored = TRUE]
<1>1. /\ Len(h) \in Nat
      /\ DOMAIN h = 1 .. Len(h)
      /\ 1 \in DOMAIN h
  <2>1. Len(h) \in Nat /\ DOMAIN h = 1 .. Len(h) /\ Len(h) # 0
    BY LenProperties, EmptySeq
  <2> QED BY <2>1
<1>2. h[1] \in Handler
  BY <1>1, ElementOfSeq
<1>3. x \in Handler /\ x.stored /\ x.signal = h[1].signal
  BY <1>2 DEF Handler
<1> HIDE DEF x
<1>4. g = [h EXCEPT ![1] = x]
  BY DEF x
<1>5. g \in Seq(Handler)
  <2>1. 1 \in 1 .. Len(h)
    BY <1>1
  <2>2. [h EXCEPT ![1] = x] \in Seq(Handler)
    BY <1>3, <2>1, ExceptSeq
  <2> QED BY <1>4, <2>2
<1>6. /\ DOMAIN g = DOMAIN h
      /\ \A i \in DOMAIN h : g[i] = IF i = 1 THEN x ELSE h[i]
  BY <1>4
<1>7. g # <<>>
  BY <1>1, <1>6
<1>8. NoneTwice(g)
  BY <1>3, <1>6 DEF NoneTwice
<1>9. Unstored(h, h[1].signal)
  BY <1>1 DEF Unstored
<1>10. ASSUME NEW u PROVE Unstored(g, u) <=> Unstored(h, u) /\ u # h[1].signal
  <2>1. Unstored(g, u) => Unstored(h, u) /\ u # h[1].signal
    BY <1>1, <1>3, <1>6 DEF Unstored, NoneTwice
  <2>2. Unstored(h, u) /\ u # h[1].signal => Unstored(g, u)
    BY <1>1, <1>3, <1>6 DEF Unstored
  <2> QED BY <2>1, <2>2
<1>11. h[1].signal \in Catch!Signals
  BY <1>2 DEF Handler
<1> QED BY <1>5, <1>7, <1>8, <1>9, <1>10, <1>11

\* The innermost handler has returned.
LEMMA HandlerReturned ==
  ASSUME NEW h \in Seq(Handler), h # <<>>, NoneTwice(h)
  PROVE  /\ Tail(h) \in Seq(Handler)
         /\ NoneTwice(Tail(h))
         /\ \A u : Unstored(Tail(h), u) => Unstored(h, u)
<1>1. /\ Tail(h) \in Seq(Handler)
      /\ Len(Tail(h)) = Len(h) - 1
      /\ \A i \in 1 .. Len(Tail(h)) : Tail(h)[i] = h[i + 1]
  BY HeadTailProperties
<1>2. /\ Len(h) \in Nat
      /\ DOMAIN h = 1 .. Len(h)
      /\ DOMAIN Tail(h) = 1 .. Len(h) - 1
  BY <1>1, LenProperties
<1>3. \A i \in DOMAIN Tail(h) : i \in Int /\ i + 1 \in DOMAIN h /\ Tail(h)[i] = h[i + 1]
  BY <1>1, <1>2
<1>4. ASSUME NEW i \in DOMAIN Tail(h), NEW j \in DOMAIN Tail(h),
             Tail(h)[i].signal = Tail(h)[j].signal
      PROVE  i = j
  <2>1. i + 1 = j + 1
    BY <1>3, <1>4 DEF NoneTwice
  <2> QED BY <1>3, <2>1
<1>5. NoneTwice(Tail(h))
  BY <1>4 DEF NoneTwice
<1>6. \A u : Unstored(Tail(h), u) => Unstored(h, u)
  BY <1>3 DEF Unstored
<1> QED BY <1>1, <1>5, <1>6

-----------------------------------------------------------------------------
(* Initiation and consecution.                                             *)

\* Nothing is installed and nothing runs at first.
LEMMA InitCaught == Threads = {Owner} /\ Catch!Init => CInv
<1> SUFFICES ASSUME Threads = {Owner}, Catch!Init PROVE CInv
  OBVIOUS
<1>1. handling[Owner] = <<>>
  BY SignalsDiffer DEF Catch!Init
<1>2. Catch!TypeOK
  <2>1. handling \in [Threads -> Seq([signal : Catch!Signals, stored : BOOLEAN])]
    BY EmptySeq DEF Catch!Init
  <2>2. raised \in [Catch!Signals -> 0 .. MaxRaises] /\ catchers \in 0 .. MaxCatchers
    BY SignalsDiffer DEF Catch!Init
  <2>3. counter \in [Catch!Signals -> Nat] /\ installed \subseteq Catch!Signals
    BY DEF Catch!Init
  <2> QED BY <2>1, <2>2, <2>3 DEF Catch!Init, Catch!TypeOK
<1>3. Uninstalled
  BY <1>1 DEF Catch!Init, Uninstalled
<1>4. Handshake
  BY SignalsDiffer DEF Catch!Init, Handshake
<1>5. NoneTwice(handling[Owner])
  BY <1>1 DEF NoneTwice
<1>6. Counted /\ watcher # "act" /\ Catch!AbortsOnRepeat
  BY DEF Catch!Init, Counted, Catch!AbortsOnRepeat
<1> QED BY <1>2, <1>3, <1>4, <1>5, <1>6 DEF CInv, Alive

\* The kernel starts a handler: the signal is in the handler's hands.
LEMMA DeliverCaught ==
  ASSUME Threads = {Owner}, CInv, NEW s \in Catch!Signals, Catch!Deliver(Owner, s)
  PROVE  CInv'
<1> DEFINE h == handling[Owner]
           g == handling'[Owner]
<1>1. /\ h \in Seq(Handler)
      /\ Owner \in Threads
      /\ s \in installed
      /\ raised[s] < MaxRaises
      /\ Unhandled(h, s)
      /\ UNCHANGED <<cache, installed, owner, watcher, caught, counter, catchers, Catch!port>>
  BY SignalsDiffer DEF Catch!Deliver, CInv, Alive, Catch!TypeOK, Handler, Unhandled
<1>2. g = Nested(h, s)
  BY <1>1 DEF Catch!Deliver, CInv, Alive, Catch!TypeOK, Nested
<1>3. raised' = [raised EXCEPT ![s] = @ + 1]
  BY DEF Catch!Deliver
<1> HIDE DEF h, g
<1>4. /\ g \in Seq(Handler)
      /\ NoneTwice(h) => NoneTwice(g)
      /\ \A u : Unstored(g, u) <=> u = s \/ Unstored(h, u)
      /\ ~Unstored(h, s)
  BY <1>1, <1>2, HandlerDelivered
<1>5. Catch!TypeOK'
  <2>1. handling' \in [Threads -> Seq([signal : Catch!Signals, stored : BOOLEAN])]
    BY <1>4 DEF Catch!Deliver, CInv, Alive, Catch!TypeOK, Handler, g
  <2>2. raised' \in [Catch!Signals -> 0 .. MaxRaises]
    BY <1>1, <1>3, SignalsDiffer DEF CInv, Alive, Catch!TypeOK
  <2> QED BY <1>1, <2>1, <2>2 DEF CInv, Alive, Catch!TypeOK, Catch!port
<1>6. Uninstalled' /\ Handshake'
  BY <1>1 DEF CInv, Alive, Uninstalled, Handshake
<1>7. NoneTwice(g)
  BY <1>4 DEF CInv, h
<1>8. Counted'
  <2> SUFFICES ASSUME owner \notin {"none", "starting"}, NEW u \in Catch!Signals
               PROVE  counter[u] + One(watcher = "count" /\ caught = u) + One(cache = u)
                        + One(Unstored(g, u)) <= raised'[u]
    BY <1>1 DEF Counted, g
  <2>1. counter[u] + One(watcher = "count" /\ caught = u) + One(cache = u)
          + One(Unstored(h, u)) <= raised[u]
    BY DEF CInv, Counted, h
  <2>2. /\ counter[u] \in Nat
        /\ raised[u] \in Nat
        /\ raised'[u] = IF u = s THEN raised[u] + 1 ELSE raised[u]
    BY <1>3, SignalsDiffer DEF CInv, Alive, Catch!TypeOK
  <2>3. Unstored(g, u) <=> u = s \/ Unstored(h, u)
    BY <1>4
  <2>4. u = s => ~Unstored(h, u)
    BY <1>4
  <2> HIDE DEF g
  <2> QED BY <2>1, <2>2, <2>3, <2>4 DEF One
<1>9. (watcher = "act" => counter[caught] >= 1)' /\ Catch!AbortsOnRepeat'
  <2>1. \A u \in Catch!Signals : raised[u] \in Nat /\ raised'[u] >= raised[u]
    BY <1>3, SignalsDiffer DEF CInv, Alive, Catch!TypeOK
  <2>2. \A u \in Catch!Signals : raised'[u] \in Nat
    BY <1>5, SignalsDiffer DEF Catch!TypeOK
  <2> QED BY <1>1, <2>1, <2>2 DEF CInv, Catch!AbortsOnRepeat, Catch!port, Catch!Signals
<1> QED BY <1>5, <1>6, <1>7, <1>8, <1>9 DEF CInv, Alive, g

\* ... then it is in the cell, in place of whatever was there.
LEMMA StoreSignalCaught ==
  ASSUME Threads = {Owner}, CInv, Catch!StoreSignal(Owner)
  PROVE  CInv'
<1> DEFINE h == handling[Owner]
           g == handling'[Owner]
           s == h[1].signal
<1>1. /\ h \in Seq(Handler)
      /\ Owner \in Threads
      /\ h # <<>>
      /\ ~h[1].stored
      /\ NoneTwice(h)
      /\ cache' = s
      /\ UNCHANGED <<installed, owner, watcher, caught, counter, raised, catchers, Catch!port>>
  BY SignalsDiffer DEF Catch!StoreSignal, CInv, Alive, Catch!TypeOK, Handler
<1>2. g = [h EXCEPT ![1].stored = TRUE]
  BY <1>1 DEF Catch!StoreSignal, CInv, Alive, Catch!TypeOK
<1> HIDE DEF h, g
<1>3. /\ s \in Catch!Signals
      /\ g \in Seq(Handler)
      /\ NoneTwice(g)
      /\ Unstored(h, s)
      /\ \A u : Unstored(g, u) <=> Unstored(h, u) /\ u # s
  BY <1>1, <1>2, HandlerStored
<1>4. Catch!TypeOK'
  <2>1. handling' \in [Threads -> Seq([signal : Catch!Signals, stored : BOOLEAN])]
    BY <1>1, <1>3 DEF Catch!StoreSignal, CInv, Alive, Catch!TypeOK, Handler, g
  <2> QED BY <1>1, <1>3, <2>1 DEF CInv, Alive, Catch!TypeOK, Catch!port
<1>5. owner \notin {"none", "starting", "notifying", "joining"} /\ installed # {}
  BY <1>1 DEF CInv, Alive, Uninstalled, h
<1>6. Uninstalled' /\ Handshake'
  BY <1>1, <1>3, <1>5, SignalsDiffer DEF CInv, Alive, Uninstalled, Handshake
<1>7. Counted'
  <2> SUFFICES ASSUME NEW u \in Catch!Signals
               PROVE  counter[u] + One(watcher = "count" /\ caught = u) + One(s = u)
                        + One(Unstored(g, u)) <= raised[u]
    BY <1>1 DEF Counted, g
  <2>1. counter[u] + One(watcher = "count" /\ caught = u) + One(cache = u)
          + One(Unstored(h, u)) <= raised[u]
    BY <1>5 DEF CInv, Counted, h
  <2>2. counter[u] \in Nat /\ raised[u] \in Nat
    BY SignalsDiffer DEF CInv, Alive, Catch!TypeOK
  <2>3. Unstored(g, u) <=> Unstored(h, u) /\ u # s
    BY <1>3
  <2>4. u = s => Unstored(h, u)
    BY <1>3
  <2> HIDE DEF s
  <2> QED BY <2>1, <2>2, <2>3, <2>4 DEF One
<1>8. (watcher = "act" => counter[caught] >= 1)' /\ Catch!AbortsOnRepeat'
  BY <1>1 DEF CInv, Catch!AbortsOnRepeat, Catch!port
<1> QED BY <1>3, <1>4, <1>6, <1>7, <1>8 DEF CInv, Alive, g

\* ... and the watcher, if it sleeps, looks.
LEMMA NotifySignalCaught ==
  ASSUME Threads = {Owner}, CInv, Catch!NotifySignal(Owner)
  PROVE  CInv'
<1> DEFINE h == handling[Owner]
           g == handling'[Owner]
<1>1. /\ h \in Seq(Handler)
      /\ Owner \in Threads
      /\ h # <<>>
      /\ NoneTwice(h)
      /\ watcher' = Catch!Woken
      /\ UNCHANGED <<cache, installed, owner, caught, counter, raised, catchers, Catch!port>>
  BY SignalsDiffer DEF Catch!NotifySignal, CInv, Alive, Catch!TypeOK, Handler
<1>2. g = Tail(h)
  BY <1>1 DEF Catch!NotifySignal, CInv, Alive, Catch!TypeOK
<1> HIDE DEF h, g
<1>3. /\ g \in Seq(Handler)
      /\ NoneTwice(g)
      /\ \A u : Unstored(g, u) => Unstored(h, u)
  BY <1>1, <1>2, HandlerReturned
<1>4. /\ \A stance \in {"take", "count", "act", "exited"} : watcher' = stance <=> watcher = stance
      /\ watcher' \in {"look", "blocked", "take", "count", "act", "exited"}
      /\ watcher \in {"look", "blocked"} => watcher' \in {"look", "blocked"}
  BY <1>1 DEF Catch!Woken, CInv, Alive, Catch!TypeOK
<1>5. Catch!TypeOK'
  <2>1. handling' \in [Threads -> Seq([signal : Catch!Signals, stored : BOOLEAN])]
    BY <1>1, <1>3 DEF Catch!NotifySignal, CInv, Alive, Catch!TypeOK, Handler, g
  <2> QED BY <1>1, <1>4, <2>1 DEF CInv, Alive, Catch!TypeOK, Catch!port
<1>6. Uninstalled' /\ Handshake'
  BY <1>1, <1>4 DEF CInv, Alive, Uninstalled, Handshake, h
<1>7. Counted'
  <2> SUFFICES ASSUME owner \notin {"none", "starting"}, NEW u \in Catch!Signals
               PROVE  counter[u] + One(watcher = "count" /\ caught = u) + One(cache = u)
                        + One(Unstored(g, u)) <= raised[u]
    BY <1>1, <1>4 DEF Counted, g
  <2>1. counter[u] + One(watcher = "count" /\ caught = u) + One(cache = u)
          + One(Unstored(h, u)) <= raised[u]
    BY DEF CInv, Counted, h
  <2>2. counter[u] \in Nat /\ raised[u] \in Nat
    BY SignalsDiffer DEF CInv, Alive, Catch!TypeOK
  <2>3. Unstored(g, u) => Unstored(h, u)
    BY <1>3
  <2> QED BY <2>1, <2>2, <2>3 DEF One
<1>8. (watcher = "act" => counter[caught] >= 1)' /\ Catch!AbortsOnRepeat'
  BY <1>1, <1>4 DEF CInv, Catch!AbortsOnRepeat, Catch!port
<1> QED BY <1>3, <1>5, <1>6, <1>7, <1>8 DEF CInv, Alive, g

\* The owner builds a catcher: a cell that a former one left is empty.
LEMMA OwnerBuilds ==
  ASSUME Threads = {Owner}, CInv, Catch!StartWatcher \/ Catch!ConstructCounter \/ Catch!SetupHandler
  PROVE  CInv'
<1>1. CASE Catch!StartWatcher
  <2>1. Catch!TypeOK'
    <3>1. raised' \in [Catch!Signals -> 0 .. MaxRaises] /\ catchers' \in 0 .. MaxCatchers
      BY <1>1, SignalsDiffer DEF Catch!StartWatcher, CInv, Alive, Catch!TypeOK
    <3> QED BY <1>1, <3>1 DEF Catch!StartWatcher, CInv, Alive, Catch!TypeOK
  <2>2. Uninstalled' /\ Handshake'
    BY <1>1, SignalsDiffer DEF Catch!StartWatcher, CInv, Alive, Uninstalled, Handshake
  <2>3. Counted' /\ ~abort' /\ watcher' # "act"
    BY <1>1 DEF Catch!StartWatcher, Counted
  <2> QED BY <1>1, <2>1, <2>2, <2>3 DEF Catch!StartWatcher, CInv, Alive, Catch!AbortsOnRepeat
<1>2. CASE Catch!ConstructCounter
  <2>1. /\ owner = "starting"
        /\ watcher \in {"look", "blocked"}
        /\ cache = NoSignal
        /\ handling[Owner] = <<>>
        /\ counter' = [s \in Catch!Signals |-> 0]
        /\ owner' = "installing"
        /\ UNCHANGED <<cache, handling, installed, watcher, caught, raised, catchers, Catch!port>>
    BY <1>2 DEF Catch!ConstructCounter, Catch!OwnerRuns, CInv, Alive, Handshake
  <2>2. Catch!TypeOK'
    BY <2>1 DEF CInv, Alive, Catch!TypeOK, Catch!port
  <2>3. Uninstalled' /\ Handshake'
    BY <2>1, SignalsDiffer DEF CInv, Alive, Uninstalled, Handshake
  <2>4. ASSUME NEW s \in Catch!Signals
        PROVE  /\ ~Unstored(handling[Owner], s)
               /\ cache # s
               /\ raised[s] \in Nat
    BY <2>1, SignalsDiffer DEF Unstored, CInv, Alive, Catch!TypeOK
  <2>5. Counted'
    <3> SUFFICES ASSUME NEW s \in Catch!Signals
                 PROVE  0 + One(watcher = "count" /\ caught = s) + One(cache = s)
                          + One(Unstored(handling[Owner], s)) <= raised[s]
      BY <2>1 DEF Counted
    <3>1. /\ ~(watcher = "count" /\ caught = s)
          /\ ~(cache = s)
      BY <2>1, <2>4
    <3> QED BY <2>4, <3>1 DEF One
  <2> QED BY <2>1, <2>2, <2>3, <2>5 DEF CInv, Alive, Catch!AbortsOnRepeat, Catch!port
<1>3. CASE Catch!SetupHandler
  <2>1. /\ owner = "installing"
        /\ owner' \in {"installing", "running"}
        /\ installed' # {}
        /\ UNCHANGED <<cache, handling, watcher, caught, counter, raised, catchers, Catch!port>>
    BY <1>3 DEF Catch!SetupHandler
  <2>2. installed' \subseteq Catch!Signals
    BY <1>3 DEF Catch!SetupHandler, CInv, Alive, Catch!TypeOK
  <2>3. Catch!TypeOK'
    BY <2>1, <2>2 DEF CInv, Alive, Catch!TypeOK, Catch!port
  <2>4. Uninstalled' /\ Handshake'
    BY <2>1 DEF CInv, Alive, Uninstalled, Handshake
  <2>5. Counted'
    BY <2>1 DEF CInv, Counted
  <2> QED BY <2>1, <2>3, <2>4, <2>5 DEF CInv, Alive, Catch!AbortsOnRepeat, Catch!port
<1> QED BY <1>1, <1>2, <1>3

\* The owner destroys the catcher: with the dispositions restored no handler
\* can come between the stop mark and the watcher that takes it.
LEMMA OwnerDestroys ==
  ASSUME Threads = {Owner}, CInv, Catch!RestoreDefault \/ Catch!StoreStop \/ Catch!NotifyStop \/ Catch!Join
  PROVE  CInv'
<1>1. CASE Catch!RestoreDefault
  <2>1. /\ owner \in {"running", "restoring"}
        /\ owner' = "restoring"
        /\ handling[Owner] = <<>>
        /\ UNCHANGED <<cache, handling, watcher, caught, counter, raised, catchers, Catch!port>>
    BY <1>1 DEF Catch!RestoreDefault, Catch!OwnerRuns
  <2>2. installed' \subseteq Catch!Signals
    BY <1>1 DEF Catch!RestoreDefault, CInv, Alive, Catch!TypeOK
  <2>3. Catch!TypeOK' /\ Uninstalled' /\ Handshake'
    BY <2>1, <2>2 DEF CInv, Alive, Catch!TypeOK, Uninstalled, Handshake, Catch!port
  <2>4. Counted'
    BY <2>1 DEF CInv, Counted
  <2> QED BY <2>1, <2>3, <2>4 DEF CInv, Alive, Catch!AbortsOnRepeat, Catch!port
<1>2. CASE Catch!StoreStop
  <2>1. /\ owner = "restoring"
        /\ owner' = "notifying"
        /\ handling[Owner] = <<>>
        /\ installed = {}
        /\ cache' = Stop
        /\ UNCHANGED <<handling, installed, watcher, caught, counter, raised, catchers, Catch!port>>
    BY <1>2 DEF Catch!StoreStop, Catch!OwnerRuns
  <2>2. Catch!TypeOK' /\ Uninstalled' /\ Handshake'
    BY <2>1, SignalsDiffer DEF CInv, Alive, Catch!TypeOK, Uninstalled, Handshake, Catch!port
  <2>3. Counted'
    <3> SUFFICES ASSUME NEW u \in Catch!Signals
                 PROVE  counter[u] + One(watcher = "count" /\ caught = u) + One(Stop = u)
                          + One(Unstored(handling[Owner], u)) <= raised[u]
      BY <2>1 DEF Counted
    <3>1. counter[u] + One(watcher = "count" /\ caught = u) + One(cache = u)
            + One(Unstored(handling[Owner], u)) <= raised[u]
      BY <2>1 DEF CInv, Counted
    <3>2. counter[u] \in Nat /\ raised[u] \in Nat /\ Stop # u
      BY SignalsDiffer DEF CInv, Alive, Catch!TypeOK
    <3> QED BY <3>1, <3>2 DEF One
  <2> QED BY <2>1, <2>2, <2>3 DEF CInv, Alive, Catch!AbortsOnRepeat, Catch!port
<1>3. CASE Catch!NotifyStop
  <2>1. /\ owner = "notifying"
        /\ owner' = "joining"
        /\ watcher' = Catch!Woken
        /\ UNCHANGED <<cache, handling, installed, caught, counter, raised, catchers, Catch!port>>
    BY <1>3 DEF Catch!NotifyStop
  <2>2. /\ \A stance \in {"take", "count", "act", "exited"} : watcher' = stance <=> watcher = stance
        /\ watcher' \in {"look", "blocked", "take", "count", "act", "exited"}
    BY <2>1 DEF Catch!Woken, CInv, Alive, Catch!TypeOK
  <2>3. Catch!TypeOK' /\ Uninstalled' /\ Handshake'
    BY <2>1, <2>2 DEF CInv, Alive, Catch!TypeOK, Uninstalled, Handshake, Catch!port
  <2>4. Counted'
    BY <2>1, <2>2 DEF CInv, Counted
  <2> QED BY <2>1, <2>2, <2>3, <2>4 DEF CInv, Alive, Catch!AbortsOnRepeat, Catch!port
<1>4. CASE Catch!Join
  <2>1. /\ owner = "joining"
        /\ owner' = "none"
        /\ watcher = "exited"
        /\ UNCHANGED <<cache, handling, installed, watcher, caught, counter, raised, catchers,
                       Catch!port>>
    BY <1>4 DEF Catch!Join
  <2>2. cache = NoSignal
    BY <2>1 DEF CInv, Alive, Handshake
  <2>3. Catch!TypeOK' /\ Uninstalled' /\ Handshake'
    BY <2>1, <2>2, SignalsDiffer DEF CInv, Alive, Catch!TypeOK, Uninstalled, Handshake, Catch!port
  <2>4. Counted'
    BY <2>1 DEF Counted
  <2> QED BY <2>1, <2>3, <2>4 DEF CInv, Alive, Catch!AbortsOnRepeat, Catch!port
<1> QED BY <1>1, <1>2, <1>3, <1>4

\* The watcher takes the signal from the cell, counts it, and acts on the count.
LEMMA WatcherCounts ==
  ASSUME Threads = {Owner}, CInv, Catch!WatcherStep
  PROVE  CInv'
<1> DEFINE h == handling[Owner]
<1>1. /\ UNCHANGED <<handling, installed, owner, raised, catchers>>
      /\ NoneTwice(h)'
      /\ Uninstalled'
  BY DEF Catch!WatcherStep, Catch!Look, Catch!Take, Catch!Count, Catch!Act, CInv, Alive, Uninstalled, Catch!port
<1>2. ASSUME NEW u \in Catch!Signals
      PROVE  counter[u] \in Nat /\ raised[u] \in Nat
  BY SignalsDiffer DEF CInv, Alive, Catch!TypeOK
<1>3. ASSUME owner \notin {"none", "starting"}, NEW u \in Catch!Signals
      PROVE  counter[u] + One(watcher = "count" /\ caught = u) + One(cache = u)
               + One(Unstored(h, u)) <= raised[u]
  BY <1>3 DEF CInv, Counted
<1>4. watcher \in {"take", "count", "act"} => owner \notin {"none", "starting"}
  BY DEF CInv, Alive, Handshake
<1>5. CASE Catch!Look
  <2>1. /\ watcher' = IF cache = NoSignal THEN "blocked" ELSE "take"
        /\ watcher = "look"
        /\ UNCHANGED <<cache, handling, installed, owner, caught, counter, raised, catchers,
                       Catch!port>>
    BY <1>5 DEF Catch!Look
  <2>2. Catch!TypeOK' /\ Handshake'
    BY <2>1 DEF CInv, Alive, Catch!TypeOK, Handshake, Catch!port
  <2>3. Counted'
    <3>1. ~(watcher' = "count") /\ ~(watcher = "count")
      BY <2>1
    <3> QED BY <2>1, <3>1 DEF CInv, Counted, One
  <2> QED BY <1>1, <2>1, <2>2, <2>3 DEF CInv, Alive, Catch!AbortsOnRepeat, Catch!port
<1>6. CASE Catch!Take
  <2>1. /\ watcher = "take"
        /\ cache' = NoSignal
        /\ IF cache = Stop THEN watcher' = "exited" /\ caught' = caught
           ELSE watcher' = "count" /\ caught' = cache
        /\ UNCHANGED <<handling, installed, owner, counter, raised, catchers, Catch!port>>
    BY <1>6 DEF Catch!Take
  <2>2. cache # NoSignal /\ (cache = Stop \/ cache \in Catch!Signals)
    BY <2>1 DEF CInv, Alive, Catch!TypeOK, Handshake
  <2>3. Catch!TypeOK' /\ Handshake'
    BY <1>4, <2>1, <2>2, SignalsDiffer DEF CInv, Alive, Catch!TypeOK, Handshake, Catch!port
  <2>4. Counted'
    <3> SUFFICES ASSUME NEW u \in Catch!Signals
                 PROVE  counter[u] + One(watcher' = "count" /\ caught' = u) + One(cache' = u)
                          + One(Unstored(h, u)) <= raised[u]
      BY <2>1 DEF Counted
    <3>1. counter[u] + One(watcher = "count" /\ caught = u) + One(cache = u)
            + One(Unstored(h, u)) <= raised[u]
      BY <1>3, <1>4, <2>1
    <3>2. /\ ~(cache' = u)
          /\ ~(watcher = "count" /\ caught = u)
          /\ watcher' = "count" /\ caught' = u => cache = u
      BY <2>1, SignalsDiffer
    <3> HIDE DEF h
    <3> QED BY <1>2, <3>1, <3>2 DEF One
  <2>5. watcher' # "act"
    BY <2>1
  <2> QED BY <1>1, <2>1, <2>3, <2>4, <2>5 DEF CInv, Alive, Catch!AbortsOnRepeat, Catch!port
<1>7. CASE Catch!Count
  <2>1. /\ watcher = "count"
        /\ counter' = [counter EXCEPT ![caught] = @ + 1]
        /\ watcher' = "act"
        /\ caught \in Catch!Signals
        /\ UNCHANGED <<cache, handling, installed, owner, caught, raised, catchers, Catch!port>>
    BY <1>7 DEF Catch!Count, CInv, Alive, Handshake
  <2>2. /\ \A u \in Catch!Signals : counter'[u] = IF u = caught THEN counter[u] + 1 ELSE counter[u]
        /\ counter' \in [Catch!Signals -> Nat]
    BY <1>2, <2>1 DEF CInv, Alive, Catch!TypeOK
  <2>3. Catch!TypeOK' /\ Handshake'
    BY <1>4, <2>1, <2>2 DEF CInv, Alive, Catch!TypeOK, Handshake, Catch!port
  <2>4. Counted'
    <3> SUFFICES ASSUME NEW u \in Catch!Signals
                 PROVE  counter'[u] + One(watcher' = "count" /\ caught' = u) + One(cache = u)
                          + One(Unstored(h, u)) <= raised[u]
      BY <2>1 DEF Counted
    <3>1. counter[u] + One(watcher = "count" /\ caught = u) + One(cache = u)
            + One(Unstored(h, u)) <= raised[u]
      BY <1>3, <1>4, <2>1
    <3>2. /\ ~(watcher' = "count" /\ caught' = u)
          /\ watcher = "count" /\ caught = u <=> u = caught
      BY <2>1
    <3> HIDE DEF h
    <3> QED BY <1>2, <2>2, <3>1, <3>2 DEF One
  <2>5. counter'[caught'] >= 1
    BY <1>2, <2>1, <2>2
  <2> QED BY <1>1, <2>1, <2>3, <2>4, <2>5 DEF CInv, Alive, Catch!AbortsOnRepeat, Catch!port
<1>8. CASE Catch!Act
  <2>1. /\ watcher = "act"
        /\ abort' = (abort \/ caught \in Immediate \/ counter[caught] >= 2)
        /\ watcher' = "look"
        /\ caught \in Catch!Signals
        /\ counter[caught] >= 1
        /\ UNCHANGED <<cache, handling, installed, owner, caught, counter, raised, catchers>>
    BY <1>8 DEF Catch!Act, CInv, Alive, Handshake
  <2>2. Catch!TypeOK' /\ Handshake'
    <3>1. shutdown' \in BOOLEAN /\ abort' \in BOOLEAN
      BY <1>8 DEF Catch!Act
    <3> QED BY <1>4, <2>1, <3>1 DEF CInv, Alive, Catch!TypeOK, Handshake
  <2>3. Counted'
    <3>1. ~(watcher' = "count") /\ ~(watcher = "count")
      BY <2>1
    <3> QED BY <2>1, <3>1 DEF CInv, Counted, One
  <2>4. raised[caught] >= counter[caught]
    <3>1. counter[caught] + One(watcher = "count") + One(cache = caught)
            + One(Unstored(h, caught)) <= raised[caught]
      BY <1>3, <1>4, <2>1 DEF One
    <3> HIDE DEF h
    <3> QED BY <1>2, <2>1, <3>1 DEF One
  <2>5. Catch!AbortsOnRepeat'
    <3>1. CASE caught \in Immediate
      BY <1>2, <2>1, <2>4, <3>1 DEF Catch!AbortsOnRepeat
    <3>2. CASE caught \in Escalating /\ counter[caught] >= 2
      BY <1>2, <2>1, <2>4, <3>2 DEF Catch!AbortsOnRepeat
    <3>3. CASE abort
      BY <2>1, <3>3 DEF CInv, Catch!AbortsOnRepeat
    <3> QED BY <2>1, <3>1, <3>2, <3>3 DEF Catch!Signals, Catch!AbortsOnRepeat
  <2> QED BY <1>1, <2>1, <2>2, <2>3, <2>5 DEF CInv, Alive
<1> QED BY <1>5, <1>6, <1>7, <1>8 DEF Catch!WatcherStep

\* Every step keeps the invariant.
LEMMA StepCaught == Threads = {Owner} /\ CInv /\ [Catch!Next]_(Catch!vars) => CInv'
<1> SUFFICES ASSUME Threads = {Owner}, CInv, [Catch!Next]_(Catch!vars) PROVE CInv'
  OBVIOUS
<1>1. ASSUME NEW s \in Catch!Signals, Catch!Deliver(Owner, s) PROVE CInv'
  BY <1>1, DeliverCaught
<1>2. CASE Catch!StoreSignal(Owner)
  BY <1>2, StoreSignalCaught
<1>3. CASE Catch!NotifySignal(Owner)
  BY <1>3, NotifySignalCaught
<1>4. CASE Catch!StartWatcher \/ Catch!ConstructCounter \/ Catch!SetupHandler
  BY <1>4, OwnerBuilds
<1>5. CASE Catch!RestoreDefault \/ Catch!StoreStop \/ Catch!NotifyStop \/ Catch!Join
  BY <1>5, OwnerDestroys
<1>6. CASE Catch!WatcherStep
  BY <1>6, WatcherCounts
<1>7. CASE UNCHANGED Catch!vars
  <2>1. Alive'
    BY <1>7 DEF Catch!vars, CInv, Alive, Catch!TypeOK, Uninstalled, Handshake
  <2>2. Counted'
    BY <1>7 DEF Catch!vars, CInv, Counted
  <2> QED BY <1>7, <2>1, <2>2 DEF Catch!vars, CInv, Catch!AbortsOnRepeat
<1> QED BY <1>1, <1>2, <1>3, <1>4, <1>5, <1>6, <1>7 DEF Catch!Next, Catch!HandlerStep, Catch!OwnerStep

\* The invariant of the proof holds throughout.
LEMMA Caught == Threads = {Owner} => (Catch!Spec => []CInv)
<1> SUFFICES ASSUME Threads = {Owner} PROVE Catch!Spec => []CInv
  OBVIOUS
<1>1. Catch!Init => CInv
  BY InitCaught
<1>2. CInv /\ [Catch!Next]_(Catch!vars) => CInv'
  BY StepCaught
<1> QED BY <1>1, <1>2, PTL DEF Catch!Spec

\* However signals, a destructor and the next constructor interleave, and for
\* any number of signals and of catchers, the watcher neither counts nor acts
\* before the counter is constructed or after the destructor has returned
\* (signalCatcher.cpp: watchForSignals, ~SignalCatcher).
THEOREM NoActionOnTheDead == Threads = {Owner} => (CatcherSpec => []ActsWhileAlive)
<1> SUFFICES ASSUME Threads = {Owner} PROVE CatcherSpec => []ActsWhileAlive
  OBVIOUS
<1>1. CInv => ActsWhileAlive
  BY DEF CInv, Alive, Handshake, ActsWhileAlive, Catch!ActsWhileAlive
<1>2. CatcherSpec => []CInv
  BY Caught DEF CatcherSpec
<1> QED BY <1>1, <1>2, PTL

\* A catcher aborts only when an immediate signal was delivered to it, or an
\* escalating one twice: deliveries of different signals, deliveries to an
\* earlier catcher and those that overwrite one another in the cell never add
\* up to an abort (defaultSignalCatcher.hpp).
THEOREM OnlyRepetitionAborts == Threads = {Owner} => (CatcherSpec => []AbortsOnRepeat)
<1> SUFFICES ASSUME Threads = {Owner} PROVE CatcherSpec => []AbortsOnRepeat
  OBVIOUS
<1>1. CInv => AbortsOnRepeat
  BY DEF CInv, AbortsOnRepeat
<1>2. CatcherSpec => []CInv
  BY Caught DEF CatcherSpec
<1> QED BY <1>1, <1>2, PTL
=============================================================================
