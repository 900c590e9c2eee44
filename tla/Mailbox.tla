------------------------------- MODULE Mailbox -------------------------------
(***************************************************************************)
(* What AsyncProcessor and Component promise their producers, with no      *)
(* thread, lock or wake in sight: values are taken one at a time, oldest   *)
(* first; at most Capacity of them wait in the overwriting mode, and only  *)
(* the oldest are forgotten; and as long as the mailbox serves, a value    *)
(* never waits for ever.                                                   *)
(***************************************************************************)
EXTENDS Naturals, Sequences

CONSTANTS Producers, BufferMode, Capacity

VARIABLES
  posted,   \* how many values each producer has posted
  waiting,  \* the values posted and neither taken nor forgotten, oldest first
  taken,    \* the values handed to the callback, in order
  phase     \* "idle" before launch, "serving", then "closed"

vars == <<posted, waiting, taken, phase>>

\* The newest values that the buffer mode retains of a sequence.
Retained(s) ==
  IF BufferMode = "Overwriting" /\ Len(s) > Capacity
    THEN SubSeq(s, Len(s) - Capacity + 1, Len(s))
    ELSE s

Init ==
  /\ posted = [p \in Producers |-> 0]
  /\ waiting = <<>>
  /\ taken = <<>>
  /\ phase = "idle"

Open ==
  /\ phase = "idle"
  /\ phase' = "serving"
  /\ UNCHANGED <<posted, waiting, taken>>

Post(p) ==
  /\ posted' = [posted EXCEPT ![p] = @ + 1]
  /\ waiting' = Retained(Append(waiting, [from |-> p, seq |-> posted[p] + 1]))
  /\ UNCHANGED <<taken, phase>>

\* A closed mailbox promises nothing: it may still take what it was about to.
Take ==
  /\ phase # "idle"
  /\ waiting # <<>>
  /\ taken' = Append(taken, Head(waiting))
  /\ waiting' = Tail(waiting)
  /\ UNCHANGED <<posted, phase>>

Close ==
  /\ phase' = "closed"
  /\ UNCHANGED <<posted, waiting, taken>>

Serve == phase = "serving" /\ Take

Next == Open \/ Take \/ Close \/ \E p \in Producers : Post(p)

\* What happens to values and in which order, and that it happens at all.
Safety == Init /\ [][Next]_vars
Spec == Safety /\ WF_vars(Serve)
=============================================================================
