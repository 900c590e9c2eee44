------------------------------ MODULE MpscQueue ------------------------------
(***************************************************************************)
(* The queues of nioc::concurrent as operators on sequences.  AnyMpsc      *)
(* forwards to OverwritingMpsc or to UnboundedMpsc; both hold one mutex    *)
(* over each call, so a call is one operator applied to the whole queue.   *)
(***************************************************************************)
EXTENDS Naturals, Sequences

CONSTANTS
  BufferMode,  \* "Overwriting" or "Unbounded"
  Capacity     \* the circular buffer's capacity; ignored when "Unbounded"

\* OverwritingMpsc's constructor refuses a capacity below one.
ASSUME QueueAssumption ==
  /\ BufferMode \in {"Overwriting", "Unbounded"}
  /\ Capacity \in Nat \ {0}

IsFull(queue) == BufferMode = "Overwriting" /\ Len(queue) = Capacity

\* Bugs the checks look for: a full ring drops the arriving value, or grows.
PushDropsNewest(queue, value) ==
  IF IsFull(queue) THEN queue ELSE Append(queue, value)

PushIgnoresCapacity(queue, value) == Append(queue, value)

\* push(): a full ring gives up its oldest value for the new one.
Push(queue, value) ==
  IF IsFull(queue) THEN Append(Tail(queue), value) ELSE Append(queue, value)

\* tryPop() on a queue that is not empty: the value it returns, and the rest.
Oldest(queue) == Head(queue)
Remaining(queue) == Tail(queue)
=============================================================================
