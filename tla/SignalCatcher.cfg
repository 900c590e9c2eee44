CONSTANTS
  sigint = sigint
  sigterm = sigterm
  sigabrt = sigabrt
  mainThread = mainThread
  otherThread = otherThread
  Escalating <- MCEscalating
  Immediate <- MCImmediate
  Threads <- MainThread
  Owner = mainThread
  NoSignal = NoSignal
  Stop = Stop
  MaxRaises = 2
  MaxCatchers = 2
SPECIFICATION CatcherSpec
INVARIANTS ActsWhileAlive AbortsOnRepeat
PROPERTIES SignalShutsDown 
CHECK_DEADLOCK FALSE
