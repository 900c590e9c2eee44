--------------------------------- MODULE Log ---------------------------------
(***************************************************************************)
(* What a chronicle promises: one append-only log of the records of all    *)
(* channels, and later a replay that hands them out from the first on,     *)
(* each once and in the order of the log, for as long as it goes.          *)
(***************************************************************************)
EXTENDS Naturals, Sequences

CONSTANTS Records, Capacity

VARIABLES
  log,       \* the records, in the order of the timeline
  recording, \* whether the log may still grow
  replayed   \* the records handed out

vars == <<log, recording, replayed>>

Init ==
  /\ log = <<>>
  /\ recording = TRUE
  /\ replayed = <<>>

Record(record) ==
  /\ recording
  /\ Len(log) < Capacity
  /\ \A i \in DOMAIN log : log[i] # record
  /\ log' = Append(log, record)
  /\ UNCHANGED <<recording, replayed>>

Stop ==
  /\ recording
  /\ recording' = FALSE
  /\ UNCHANGED <<log, replayed>>

Replay ==
  /\ ~recording
  /\ Len(replayed) < Len(log)
  /\ replayed' = Append(replayed, log[Len(replayed) + 1])
  /\ UNCHANGED <<log, recording>>

Next == Stop \/ Replay \/ \E record \in Records : Record(record)

Spec == Init /\ [][Next]_vars
=============================================================================
