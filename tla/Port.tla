-------------------------------- MODULE Port --------------------------------
(***************************************************************************)
(* terminus::Port: the count of consignments in flight, the graceful       *)
(* shutdown, the abort, and the destructor that takes the routine graph    *)
(* apart.  Drivers and components each run on a runner's thread; a         *)
(* publisher delivers on its own thread to every subscriber of its topic;  *)
(* the main thread polls the drivers, then waits for the bus to drain and  *)
(* destroys drivers, components and runners in that order.                 *)
(*                                                                         *)
(* A runner is taken at its word (InboxRunner): a component with a value   *)
(* in its inbox is ticked.  What is in a consignment does not matter here, *)
(* so an inbox is the number of consignments it holds.                     *)
(***************************************************************************)
EXTENDS Integers, Sequences, FiniteSets

CONSTANTS
  Drivers,
  Components,
  Subscribers,      \* the components subscribed to each routine's topic, in order
  InboxCapacity,    \* of a component's overwriting inbox
  HandlerOutcomes,  \* what a message handler may return: "Continue", "Done"
  MayAbort,         \* whether anyone calls abort()
  MaxMessages       \* bound: messages one driver publishes

Routines == Drivers \cup Components

ASSUME PortAssumption ==
  /\ IsFiniteSet(Routines)
  /\ Drivers \cap Components = {}
  /\ Subscribers \in [Routines -> Seq(Components)]
  /\ InboxCapacity \in Nat \ {0}
  /\ HandlerOutcomes \subseteq {"Continue", "Done"}
  /\ MayAbort \in BOOLEAN
  /\ MaxMessages \in Nat

VARIABLES
  pending,            \* mPendingConsignments without its top bit
  abortBit,           \* the top bit of mPendingConsignments
  shutdownRequested,  \* mShutdownSource
  abortRequested,     \* mAbortSource
  aborter,            \* where the thread inside abort() stands
  main,               \* where the main thread stands
  seen,               \* the value awaitQuiescence() loaded last
  published,          \* messages each driver has published
  thread,             \* where each routine's runner thread stands
  todo,               \* the subscribers a publishing thread has yet to serve
  state,              \* Routine::mState
  inbox,              \* consignments queued at each component
  owned,              \* the routines mDrivers and mComponents still hold
  alive,              \* the routines not destroyed
  stopping,           \* the runners told to stop
  corrupted           \* whether a destroyed component was delivered to

vars == <<pending, abortBit, shutdownRequested, abortRequested, aborter, main, seen,
          published, thread, todo, state, inbox, owned, alive, stopping, corrupted>>

\* The atomic word.
Word == [count |-> pending, abort |-> abortBit]

\* In the middle of run() or of a handler, which holds the consignment it was given.
Handling(r) == thread[r] \in {"running", "push", "evict", "notifyEvicted"}

TypeOK ==
  /\ pending \in Nat
  /\ abortBit \in BOOLEAN
  /\ shutdownRequested \in BOOLEAN
  /\ abortRequested \in BOOLEAN
  /\ aborter \in {"idle", "setBit", "notify", "done"}
  /\ main \in {"poll", "load", "check", "wait", "blocked", "clearDrivers",
               "clearComponents", "clearRunners", "finished"}
  /\ seen \in [count : Nat, abort : BOOLEAN]
  /\ published \in [Drivers -> 0 .. MaxMessages]
  /\ thread \in [Routines -> {"loop", "running", "push", "evict", "notifyEvicted",
                              "notify", "store", "exited"}]
  /\ todo \in [Routines -> Seq(Components)]
  /\ state \in [Routines -> {"Continue", "Done"}]
  /\ inbox \in [Components -> 0 .. InboxCapacity]
  /\ owned \subseteq Routines
  /\ alive \subseteq Routines
  /\ stopping \subseteq Routines
  /\ corrupted \in BOOLEAN

Init ==
  /\ pending = 0
  /\ abortBit = FALSE
  /\ shutdownRequested = FALSE
  /\ abortRequested = FALSE
  /\ aborter = "idle"
  /\ main = "poll"
  /\ seen = [count |-> 0, abort |-> FALSE]
  /\ published = [d \in Drivers |-> 0]
  /\ thread = [r \in Routines |-> "loop"]
  /\ todo = [r \in Routines |-> <<>>]
  /\ state = [r \in Routines |-> "Continue"]
  /\ inbox = [c \in Components |-> 0]
  /\ owned = Routines
  /\ alive = Routines
  /\ stopping = {}
  /\ corrupted = FALSE

\* fetch_sub(1) == 1 on the whole word.
LastInFlight == Word = [count |-> 1, abort |-> FALSE]

\* notify_all() on the word.
Awoken == IF main = "blocked" THEN "wait" ELSE main

signals == <<shutdownRequested, abortRequested, aborter>>
graph == <<owned, alive, stopping>>

-----------------------------------------------------------------------------
(* Publishing: Port::deliver on the publisher's own thread.                 *)

\* A consignment is made for the next subscriber: the count goes up ...
Construct(r) ==
  /\ thread[r] = "running"
  /\ todo[r] # <<>>
  /\ pending' = pending + 1
  /\ thread' = [thread EXCEPT ![r] = "push"]
  /\ UNCHANGED <<abortBit, signals, main, seen, published, todo, state, inbox,
                 graph, corrupted>>

\* ... and the subscriber's callback pushes it into the inbox.  A full ring hands
\* its oldest consignment back to this thread ...
Push(r) ==
  /\ thread[r] = "push"
  /\ Head(todo[r]) \in alive
  /\ LET c == Head(todo[r])
         full == inbox[c] = InboxCapacity
     IN  /\ inbox' = [inbox EXCEPT ![c] = IF full THEN @ ELSE @ + 1]
         /\ thread' = [thread EXCEPT ![r] = IF full THEN "evict" ELSE "running"]
  /\ todo' = [todo EXCEPT ![r] = Tail(@)]
  /\ UNCHANGED <<pending, abortBit, signals, main, seen, published, state, graph,
                 corrupted>>

\* Bug: the consignment that a full ring gives up is not counted off.
EvictUncounted(r) ==
  /\ thread[r] = "evict"
  /\ thread' = [thread EXCEPT ![r] = "running"]
  /\ UNCHANGED <<pending, abortBit, signals, main, seen, published, todo, state, inbox,
                 graph, corrupted>>

\* ... which destroys it once push() has returned, and may be the one that takes
\* the count to zero.
Evict(r) ==
  /\ thread[r] = "evict"
  /\ pending' = pending - 1
  /\ thread' = [thread EXCEPT ![r] = IF LastInFlight THEN "notifyEvicted" ELSE "running"]
  /\ UNCHANGED <<abortBit, signals, main, seen, published, todo, state, inbox, graph,
                 corrupted>>

NotifyEvicted(r) ==
  /\ thread[r] = "notifyEvicted"
  /\ main' = Awoken
  /\ thread' = [thread EXCEPT ![r] = "running"]
  /\ UNCHANGED <<pending, abortBit, signals, seen, published, todo, state, inbox,
                 graph, corrupted>>

\* The callback's "this" points to a component that is gone.  What follows is
\* undefined: the thread goes no further here, and the properties promise nothing.
PushIntoDestroyed(r) ==
  /\ thread[r] = "push"
  /\ Head(todo[r]) \notin alive
  /\ ~corrupted
  /\ corrupted' = TRUE
  /\ UNCHANGED <<pending, abortBit, signals, main, seen, published, thread, todo,
                 state, inbox, graph>>

-----------------------------------------------------------------------------
(* A driver's tick: Driver::run, as its contract has it.                    *)

Publish(d) ==
  /\ thread[d] = "loop"
  /\ ~shutdownRequested
  /\ published[d] < MaxMessages
  /\ published' = [published EXCEPT ![d] = @ + 1]
  /\ thread' = [thread EXCEPT ![d] = "running"]
  /\ todo' = [todo EXCEPT ![d] = Subscribers[d]]
  /\ UNCHANGED <<pending, abortBit, signals, main, seen, state, inbox, graph, corrupted>>

EndOfRun(d) ==
  /\ thread[d] = "running"
  /\ todo[d] = <<>>
  /\ thread' = [thread EXCEPT ![d] = "loop"]
  /\ UNCHANGED <<pending, abortBit, signals, main, seen, published, todo, state, inbox,
                 graph, corrupted>>

Done(d) ==
  /\ thread[d] = "loop"
  /\ state' = [state EXCEPT ![d] = "Done"]
  /\ thread' = [thread EXCEPT ![d] = "exited"]
  /\ UNCHANGED <<pending, abortBit, signals, main, seen, published, todo, inbox,
                 graph, corrupted>>

\* The source is exhausted, or run() threw.
Exhausted(d) == ~shutdownRequested /\ Done(d)

\* "Poll it from run and return State::Done once a stop is requested."
ObserveShutdown(d) == shutdownRequested /\ Done(d)

-----------------------------------------------------------------------------
(* A component's tick: Component::step.                                     *)

\* The oldest consignment leaves the inbox for the handler, which may publish.
Dispatch(c) ==
  /\ thread[c] = "loop"
  /\ c \in alive
  /\ c \notin stopping
  /\ inbox[c] > 0
  /\ inbox' = [inbox EXCEPT ![c] = @ - 1]
  /\ thread' = [thread EXCEPT ![c] = "running"]
  /\ \E targets \in {<<>>, Subscribers[c]} : todo' = [todo EXCEPT ![c] = targets]
  /\ UNCHANGED <<pending, abortBit, signals, main, seen, published, state, graph,
                 corrupted>>

\* Bug: ~Consignment notifies when the count was zero before it.
ReleaseNotifyingLate(c) ==
  /\ thread[c] = "running"
  /\ todo[c] = <<>>
  /\ pending' = pending - 1
  /\ thread' = [thread EXCEPT ![c] = IF Word = [count |-> 0, abort |-> FALSE]
                                       THEN "notify" ELSE "store"]
  /\ UNCHANGED <<abortBit, signals, main, seen, published, todo, state, inbox, graph,
                 corrupted>>

\* The handler returns and the consignment is destroyed: ~Consignment.  The
\* thread that takes the whole word to zero notifies.
Release(c) ==
  /\ thread[c] = "running"
  /\ todo[c] = <<>>
  /\ pending' = pending - 1
  /\ thread' = [thread EXCEPT ![c] = IF LastInFlight THEN "notify" ELSE "store"]
  /\ UNCHANGED <<abortBit, signals, main, seen, published, todo, state, inbox, graph,
                 corrupted>>

NotifyZero(c) ==
  /\ thread[c] = "notify"
  /\ main' = Awoken
  /\ thread' = [thread EXCEPT ![c] = "store"]
  /\ UNCHANGED <<pending, abortBit, signals, seen, published, todo, state, inbox,
                 graph, corrupted>>

\* tick() stores what the handler returned (Done if it threw), the runner acts on
\* it and lets go of the component: an inbox that dies with it is emptied.
Store(c) ==
  /\ thread[c] = "store"
  /\ \E outcome \in HandlerOutcomes :
       /\ state' = [state EXCEPT ![c] = outcome]
       /\ thread' = [thread EXCEPT ![c] = IF outcome = "Done" THEN "exited" ELSE "loop"]
  /\ IF c \in owned
       THEN UNCHANGED <<alive, inbox, pending>>
       ELSE /\ alive' = alive \ {c}
            /\ inbox' = [inbox EXCEPT ![c] = 0]
            /\ pending' = pending - inbox[c]
  /\ UNCHANGED <<abortBit, signals, main, seen, published, todo, owned, stopping,
                 corrupted>>

\* The runner was told to stop, or finds its routine gone.
Leave(r) ==
  /\ thread[r] = "loop"
  /\ r \in stopping \/ r \notin alive
  /\ thread' = [thread EXCEPT ![r] = "exited"]
  /\ UNCHANGED <<pending, abortBit, signals, main, seen, published, todo, state, inbox,
                 graph, corrupted>>

-----------------------------------------------------------------------------
(* shutdown() and abort(), called from any thread.                          *)

RequestShutdown ==
  /\ main # "finished"
  /\ ~shutdownRequested
  /\ shutdownRequested' = TRUE
  /\ UNCHANGED <<pending, abortBit, abortRequested, aborter, main, seen, published,
                 thread, todo, state, inbox, graph, corrupted>>

RequestAbort ==
  /\ MayAbort
  /\ main # "finished"
  /\ aborter = "idle"
  /\ shutdownRequested' = TRUE
  /\ abortRequested' = TRUE
  /\ aborter' = "setBit"
  /\ UNCHANGED <<pending, abortBit, main, seen, published, thread, todo, state, inbox,
                 graph, corrupted>>

\* Bug: abort() notifies without changing the word that is waited on.
LeaveBitClear ==
  /\ aborter = "setBit"
  /\ aborter' = "notify"
  /\ UNCHANGED <<pending, abortBit, shutdownRequested, abortRequested, main, seen,
                 published, thread, todo, state, inbox, graph, corrupted>>

SetAbortBit ==
  /\ aborter = "setBit"
  /\ abortBit' = TRUE
  /\ aborter' = "notify"
  /\ UNCHANGED <<pending, shutdownRequested, abortRequested, main, seen, published,
                 thread, todo, state, inbox, graph, corrupted>>

NotifyAbort ==
  /\ aborter = "notify"
  /\ main' = Awoken
  /\ aborter' = "done"
  /\ UNCHANGED <<pending, abortBit, shutdownRequested, abortRequested, seen, published,
                 thread, todo, state, inbox, graph, corrupted>>

-----------------------------------------------------------------------------
(* The main thread: while(port.wait(...)), then ~Port.                      *)

\* Bug: the destructor does not wait for the bus to drain.
StopPollingWithoutDraining ==
  /\ main = "poll"
  /\ \A d \in Drivers : state[d] = "Done"
  /\ shutdownRequested' = TRUE
  /\ main' = "clearDrivers"
  /\ UNCHANGED <<pending, abortBit, abortRequested, aborter, seen, published, thread,
                 todo, state, inbox, graph, corrupted>>

\* Every driver is Done: wait() returns false and the destructor begins.
StopPolling ==
  /\ main = "poll"
  /\ \A d \in Drivers : state[d] = "Done"
  /\ shutdownRequested' = TRUE
  /\ main' = "load"
  /\ UNCHANGED <<pending, abortBit, abortRequested, aborter, seen, published, thread,
                 todo, state, inbox, graph, corrupted>>

\* awaitQuiescence(): load, look, and sleep on the value loaded.
Load ==
  /\ main = "load"
  /\ seen' = Word
  /\ main' = "check"
  /\ UNCHANGED <<pending, abortBit, signals, published, thread, todo, state, inbox,
                 graph, corrupted>>

Check ==
  /\ main = "check"
  /\ main' = IF seen = [count |-> 0, abort |-> FALSE] \/ abortRequested
               THEN "clearDrivers" ELSE "wait"
  /\ UNCHANGED <<pending, abortBit, signals, seen, published, thread, todo, state,
                 inbox, graph, corrupted>>

\* atomic wait: return if the value has changed, else sleep until a notify.
Wait ==
  /\ main = "wait"
  /\ main' = IF Word # seen THEN "load" ELSE "blocked"
  /\ UNCHANGED <<pending, abortBit, signals, seen, published, thread, todo, state,
                 inbox, graph, corrupted>>

\* mDrivers.clear().  The drivers are Done, so no runner holds one.
ClearDrivers ==
  /\ main = "clearDrivers"
  /\ owned' = owned \ Drivers
  /\ alive' = alive \ Drivers
  /\ main' = "clearComponents"
  /\ UNCHANGED <<pending, abortBit, signals, seen, published, thread, todo, state,
                 inbox, stopping, corrupted>>

\* mComponents.clear(), one at a time, in the order the setup added them.  The
\* runner of a component in the middle of a tick keeps it alive until Store.
ClearComponent(c) ==
  /\ main = "clearComponents"
  /\ c \in owned
  /\ owned' = owned \ {c}
  /\ IF thread[c] \in {"loop", "exited"}
       THEN /\ alive' = alive \ {c}
            /\ inbox' = [inbox EXCEPT ![c] = 0]
            /\ pending' = pending - inbox[c]
       ELSE UNCHANGED <<alive, inbox, pending>>
  /\ main' = IF owned' = {} THEN "clearRunners" ELSE main
  /\ UNCHANGED <<abortBit, signals, seen, published, thread, todo, state, stopping,
                 corrupted>>

\* mRunners.clear(): each runner is told to stop and joined before the next.
StopRunner(r) ==
  /\ main = "clearRunners"
  /\ r \notin stopping
  /\ \A s \in stopping : thread[s] = "exited"
  /\ stopping' = stopping \cup {r}
  /\ UNCHANGED <<pending, abortBit, signals, main, seen, published, thread, todo,
                 state, inbox, owned, alive, corrupted>>

Finish ==
  /\ main = "clearRunners"
  /\ stopping = Routines
  /\ \A r \in Routines : thread[r] = "exited"
  /\ main' = "finished"
  /\ UNCHANGED <<pending, abortBit, signals, seen, published, thread, todo, state,
                 inbox, graph, corrupted>>

-----------------------------------------------------------------------------

Delivering(r) ==
  \/ Construct(r)
  \/ Push(r)
  \/ PushIntoDestroyed(r)
  \/ Evict(r)
  \/ NotifyEvicted(r)

DriverStep(d) == Delivering(d) \/ EndOfRun(d) \/ ObserveShutdown(d) \/ Leave(d)

ComponentStep(c) ==
  Dispatch(c) \/ Delivering(c) \/ Release(c) \/ NotifyZero(c) \/ Store(c) \/ Leave(c)

AbortStep == SetAbortBit \/ NotifyAbort

MainStep ==
  \/ StopPolling \/ Load \/ Check \/ Wait
  \/ ClearDrivers
  \/ \E c \in Components : ClearComponent(c)
  \/ \E r \in Routines : StopRunner(r)
  \/ Finish

Next ==
  \/ \E d \in Drivers : DriverStep(d) \/ Publish(d) \/ Exhausted(d)
  \/ \E c \in Components : ComponentStep(c)
  \/ RequestShutdown
  \/ RequestAbort
  \/ AbortStep
  \/ MainStep

\* Threads run on, and a handler returns.  A driver that observes the shutdown
\* returns Done; nobody has to publish, to finish early, to shut down or to abort.
Fairness ==
  /\ \A d \in Drivers : WF_vars(DriverStep(d))
  /\ \A c \in Components : WF_vars(ComponentStep(c))
  /\ WF_vars(AbortStep)
  /\ WF_vars(MainStep)

Spec == Init /\ [][Next]_vars /\ Fairness

-----------------------------------------------------------------------------
(* Properties.                                                              *)

\* The places taken in the inboxes, the components whose handler holds a
\* consignment, and the routines whose thread has one on the way into an inbox or
\* out of one that was full.
Queued == {e \in Components \X (1 .. InboxCapacity) : e[2] <= inbox[e[1]]}
Handlers == {c \in Components : Handling(c)}
Carriers == {r \in Routines : thread[r] \in {"push", "evict"}}

\* Every consignment alive is counted once.
CountsLiveConsignments ==
  pending = Cardinality(Queued) + Cardinality(Handlers) + Cardinality(Carriers)

\* A delivery never reaches a destroyed component in a run that nobody aborted.
NoDeliveryToDestroyed == corrupted => abortRequested

\* port.hpp: destruction "tears the graph down in dependency order".  No delivery
\* ever reaches a destroyed component.
TornDownInOrder == ~corrupted

\* A component that returned Done with consignments still in its inbox.
Stranded(c) == state[c] = "Done" /\ inbox[c] > 0

\* ~Port: "Request shutdown, let the system wind down and terminate cleanly".
\* Once a shutdown is requested the destructor finishes, no notification being
\* missed, unless a component stopped on a full inbox.
WindsDown ==
  shutdownRequested ~>
    \/ main = "finished"
    \/ corrupted
    \/ \E c \in Components : Stranded(c)

\* The same without the exception.
AlwaysWindsDown == shutdownRequested ~> main = "finished" \/ corrupted

\* abort(): "release any thread blocked in awaitQuiescence, abandoning still
\* in-flight consignments".
AbortReleases == abortRequested ~> main = "finished" \/ corrupted
=============================================================================
