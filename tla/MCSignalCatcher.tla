--------------------------- MODULE MCSignalCatcher ---------------------------
(* SIGINT and SIGABRT stand for the two kinds of signal, SIGTERM for a second *)
(* of the first kind.                                                         *)
EXTENDS Naturals

CONSTANTS
  sigint, sigterm, sigabrt, mainThread, otherThread,
  Escalating, Immediate, Threads, Owner, NoSignal, Stop, MaxRaises, MaxCatchers

VARIABLES cache, handling, installed, owner, watcher, caught, counter, raised,
          catchers, shutdown, abort

Catch == INSTANCE SignalCatcher

ASSUME SignalsAssumption == Catch!CatcherAssumption

MCEscalating == {sigint, sigterm}
MCImmediate == {sigabrt}
\* Linux gives a signal sent to the process to its main thread if it can ...
MainThread == {mainThread}
\* ... POSIX to any thread, as raise() and abort() do.
AnyThread == {mainThread, otherThread}

CatcherSpec == Catch!Spec

\* The watcher acts on behalf of a living catcher (signalCatcher.cpp:45).
ActsWhileAlive == Catch!ActsWhileAlive

\* Only a repetition or an immediate signal aborts (defaultSignalCatcher.hpp).
AbortsOnRepeat == Catch!AbortsOnRepeat

\* A signal shuts the port down (signalCatcher.cpp:50).
SignalShutsDown == Catch!SignalShutsDown

\* The destructor returns (signalCatcher.cpp:42).
DestructorReturns == Catch!DestructorReturns
=============================================================================
