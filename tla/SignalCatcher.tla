---------------------------- MODULE SignalCatcher ----------------------------
(***************************************************************************)
(* common::SignalCatcher and the actions that terminus wires into it.  The *)
(* kernel runs the one handler on a thread of its choice, at any moment;   *)
(* the handler leaves the signal in a process-wide cell and notifies; the  *)
(* watcher thread takes it from there, counts it and runs its action,      *)
(* which shuts the port down or aborts.  The destructor restores the       *)
(* default dispositions, leaves the stop mark in the same cell and joins.  *)
(*                                                                         *)
(* The cell outlives a catcher, and the process may build another one.     *)
(***************************************************************************)
EXTENDS Naturals, Sequences, FiniteSets

CONSTANTS
  Escalating,  \* SIGINT and SIGTERM: shut down, then abort
  Immediate,   \* SIGABRT: abort at once
  Threads,     \* the threads on which the kernel may run the handler
  Owner,       \* the one of them that builds and destroys the catcher
  NoSignal,    \* kDefaultSignal
  Stop,        \* kStopSignal
  MaxRaises,   \* bound: deliveries of one signal to one catcher
  MaxCatchers  \* bound: catchers built, one after the other

Signals == Escalating \cup Immediate

CatcherAssumption ==
  /\ Escalating \cap Immediate = {}
  /\ NoSignal \notin Signals
  /\ Stop \notin Signals
  /\ Stop # NoSignal
  /\ Owner \in Threads
  /\ MaxRaises \in Nat
  /\ MaxCatchers \in Nat

VARIABLES
  cache,       \* signalCache()
  handling,    \* the handlers running on each thread, innermost first
  installed,   \* the signals whose disposition is the handler
  owner,       \* where the owner of the catcher stands
  watcher,     \* where the watcher thread stands
  caught,      \* the signal the watcher took from the cell
  counter,     \* mSignalCounter
  raised,      \* deliveries to the current catcher's handler
  catchers,    \* catchers built
  shutdown,    \* whether the current catcher's port was shut down
  abort        \* whether it was aborted

vars == <<cache, handling, installed, owner, watcher, caught, counter, raised,
          catchers, shutdown, abort>>

TypeOK ==
  /\ cache \in Signals \cup {NoSignal, Stop}
  /\ handling \in [Threads -> Seq([signal : Signals, stored : BOOLEAN])]
  /\ installed \subseteq Signals
  /\ owner \in {"none", "starting", "installing", "running", "restoring", "notifying",
                "joining"}
  /\ watcher \in {"look", "blocked", "take", "count", "act", "exited"}
  /\ caught \in Signals \cup {NoSignal}
  /\ counter \in [Signals -> Nat]
  /\ raised \in [Signals -> 0 .. MaxRaises]
  /\ catchers \in 0 .. MaxCatchers
  /\ shutdown \in BOOLEAN
  /\ abort \in BOOLEAN

Init ==
  /\ cache = NoSignal
  /\ handling = [t \in Threads |-> <<>>]
  /\ installed = {}
  /\ owner = "none"
  /\ watcher = "exited"
  /\ caught = NoSignal
  /\ counter = [s \in Signals |-> 0]
  /\ raised = [s \in Signals |-> 0]
  /\ catchers = 0
  /\ shutdown = FALSE
  /\ abort = FALSE

port == <<shutdown, abort>>

\* notify_one(), notify_all(): the watcher is the only thread that waits.
Woken == IF watcher = "blocked" THEN "look" ELSE watcher

-----------------------------------------------------------------------------
(* The kernel and the handler.                                              *)

\* A signal is blocked on the thread that is handling it; another may nest.
Deliver(t, s) ==
  /\ s \in installed
  /\ raised[s] < MaxRaises
  /\ \A i \in DOMAIN handling[t] : handling[t][i].signal # s
  /\ handling' = [handling EXCEPT ![t] = <<[signal |-> s, stored |-> FALSE]>> \o @]
  /\ raised' = [raised EXCEPT ![s] = @ + 1]
  /\ UNCHANGED <<cache, installed, owner, watcher, caught, counter, catchers, port>>

\* signalCache() = signal
StoreSignal(t) ==
  /\ handling[t] # <<>>
  /\ ~handling[t][1].stored
  /\ cache' = handling[t][1].signal
  /\ handling' = [handling EXCEPT ![t][1].stored = TRUE]
  /\ UNCHANGED <<installed, owner, watcher, caught, counter, raised, catchers, port>>

\* signalCache().notify_one(), and the handler returns.
NotifySignal(t) ==
  /\ handling[t] # <<>>
  /\ handling[t][1].stored
  /\ watcher' = Woken
  /\ handling' = [handling EXCEPT ![t] = Tail(@)]
  /\ UNCHANGED <<cache, installed, owner, caught, counter, raised, catchers, port>>

-----------------------------------------------------------------------------
(* The owner.  A handler that runs on the owner's thread interrupts it.     *)

OwnerRuns == handling[Owner] = <<>>

\* The watcher thread starts before the counter that it uses is constructed.
StartWatcher ==
  /\ OwnerRuns
  /\ owner = "none"
  /\ catchers < MaxCatchers
  /\ catchers' = catchers + 1
  /\ raised' = [s \in Signals |-> 0]
  /\ shutdown' = FALSE
  /\ abort' = FALSE
  /\ owner' = "starting"
  /\ watcher' = "look"
  /\ UNCHANGED <<cache, handling, installed, caught, counter>>

ConstructCounter ==
  /\ OwnerRuns
  /\ owner = "starting"
  /\ counter' = [s \in Signals |-> 0]
  /\ owner' = "installing"
  /\ UNCHANGED <<cache, handling, installed, watcher, caught, raised, catchers, port>>

\* std::signal() for one signal after the other, in the order of the map.
SetupHandler ==
  /\ OwnerRuns
  /\ owner = "installing"
  /\ \E s \in Signals \ installed : installed' = installed \cup {s}
  /\ owner' = IF installed' = Signals THEN "running" ELSE "installing"
  /\ UNCHANGED <<cache, handling, watcher, caught, counter, raised, catchers, port>>

RestoreDefault ==
  /\ OwnerRuns
  /\ owner \in {"running", "restoring"}
  /\ \E s \in installed : installed' = installed \ {s}
  /\ owner' = "restoring"
  /\ UNCHANGED <<cache, handling, watcher, caught, counter, raised, catchers, port>>

StoreStop ==
  /\ OwnerRuns
  /\ owner = "restoring"
  /\ installed = {}
  /\ cache' = Stop
  /\ owner' = "notifying"
  /\ UNCHANGED <<handling, installed, watcher, caught, counter, raised, catchers, port>>

\* Bug: the stop mark is stored and nobody is notified.
StopUnheard ==
  /\ OwnerRuns
  /\ owner = "notifying"
  /\ owner' = "joining"
  /\ UNCHANGED <<cache, handling, installed, watcher, caught, counter, raised,
                 catchers, port>>

NotifyStop ==
  /\ OwnerRuns
  /\ owner = "notifying"
  /\ watcher' = Woken
  /\ owner' = "joining"
  /\ UNCHANGED <<cache, handling, installed, caught, counter, raised, catchers, port>>

\* Bug: the destructor returns without the join.
LeaveWithoutJoin ==
  /\ owner = "joining"
  /\ owner' = "none"
  /\ UNCHANGED <<cache, handling, installed, watcher, caught, counter, raised,
                 catchers, port>>

Join ==
  /\ OwnerRuns
  /\ owner = "joining"
  /\ watcher = "exited"
  /\ owner' = "none"
  /\ UNCHANGED <<cache, handling, installed, watcher, caught, counter, raised,
                 catchers, port>>

-----------------------------------------------------------------------------
(* The watcher thread.  A handler that runs on it interrupts it as well, but *)
(* that is no different from one that runs beside it.                        *)

\* signalCache().wait(kDefaultSignal): look, and sleep if there is nothing.
Look ==
  /\ watcher = "look"
  /\ watcher' = IF cache = NoSignal THEN "blocked" ELSE "take"
  /\ UNCHANGED <<cache, handling, installed, owner, caught, counter, raised,
                 catchers, port>>

\* signalCache().exchange(kDefaultSignal)
Take ==
  /\ watcher = "take"
  /\ cache' = NoSignal
  /\ IF cache = Stop
       THEN watcher' = "exited" /\ UNCHANGED caught
       ELSE watcher' = "count" /\ caught' = cache
  /\ UNCHANGED <<handling, installed, owner, counter, raised, catchers, port>>

\* Bug: one count for all signals.
CountTogether ==
  /\ watcher = "count"
  /\ counter' = [s \in Signals |-> counter[s] + 1]
  /\ watcher' = "act"
  /\ UNCHANGED <<cache, handling, installed, owner, caught, raised, catchers, port>>

Count ==
  /\ watcher = "count"
  /\ counter' = [counter EXCEPT ![caught] = @ + 1]
  /\ watcher' = "act"
  /\ UNCHANGED <<cache, handling, installed, owner, caught, raised, catchers, port>>

\* Bug: the first delivery asks for nothing.
ActFromTheSecondOn ==
  /\ watcher = "act"
  /\ shutdown' = (shutdown \/ caught \in Immediate \/ counter[caught] >= 2)
  /\ abort' = (abort \/ caught \in Immediate \/ counter[caught] >= 2)
  /\ watcher' = "look"
  /\ UNCHANGED <<cache, handling, installed, owner, caught, counter, raised, catchers>>

\* shutdownThenAbort and abortNow; abort() requests the shutdown as well.
Act ==
  /\ watcher = "act"
  /\ shutdown' = TRUE
  /\ abort' = (abort \/ caught \in Immediate \/ counter[caught] >= 2)
  /\ watcher' = "look"
  /\ UNCHANGED <<cache, handling, installed, owner, caught, counter, raised, catchers>>

-----------------------------------------------------------------------------

HandlerStep(t) == StoreSignal(t) \/ NotifySignal(t)

OwnerStep ==
  \/ ConstructCounter \/ SetupHandler
  \/ (owner = "restoring" /\ RestoreDefault)
  \/ StoreStop \/ NotifyStop \/ Join

WatcherStep == Look \/ Take \/ Count \/ Act

Next ==
  \/ \E t \in Threads : HandlerStep(t) \/ \E s \in Signals : Deliver(t, s)
  \/ StartWatcher
  \/ RestoreDefault
  \/ OwnerStep
  \/ WatcherStep

\* A handler runs to its end, the watcher is scheduled, and a constructor or a
\* destructor that has begun goes on.  Nobody has to raise a signal, to build a
\* catcher or to destroy it.
Fairness ==
  /\ \A t \in Threads : WF_vars(HandlerStep(t))
  /\ WF_vars(OwnerStep)
  /\ WF_vars(WatcherStep)

Spec == Init /\ [][Next]_vars /\ Fairness

-----------------------------------------------------------------------------
(* Properties.                                                              *)

\* The actions hold a reference to the port, and the watcher a reference to the
\* counter: neither is used before the catcher is built or after it is gone.
ActsWhileAlive == watcher \in {"count", "act"} => owner \notin {"none", "starting"}

\* defaultSignalCatcher.hpp: "a SIGINT after a SIGTERM is a first delivery and
\* shuts down rather than aborts".
AbortsOnRepeat ==
  abort => \/ \E s \in Immediate : raised[s] >= 1
           \/ \E s \in Escalating : raised[s] >= 2

\* However many deliveries coalesce, a catcher that has been sent a signal shuts
\* the port down, unless it is destroyed first.
SignalShutsDown ==
  (\E s \in Signals : raised[s] > 0) /\ owner = "running"
    ~> shutdown \/ owner # "running"

\* The destructor stops the watcher thread and "blocks until the watcher thread
\* joins": it returns.
DestructorReturns == owner \in {"restoring", "notifying", "joining"} ~> owner = "none"
=============================================================================
