----------------------------- MODULE InboxRunner -----------------------------
(***************************************************************************)
(* A routine with an inbox (AsyncProcessor, or terminus::Component) driven *)
(* by a ThreadedRunner.  Producer threads push into the NotifyingInbox,    *)
(* which notifies after the queue's lock is released; the notification     *)
(* goes through Routine::triggerRunner, the runner's weak reference,       *)
(* ThreadedRunner::wake and the condition variable.  The worker thread     *)
(* ticks the routine, parks when the queue is empty and leaves on Done or  *)
(* on the stop request made by the destructor of the runner, which runs on *)
(* whichever thread lets go of the last shared_ptr.                        *)
(*                                                                         *)
(* One critical section or one atomic operation is one step.               *)
(***************************************************************************)
EXTENDS MpscQueue

CONSTANTS
  Producers,  \* the threads that push; Worker is one if the callback pushes
  Worker,     \* the runner's own thread
  Outcomes,   \* what handling a value may report: a subset of States
  MaxPosts    \* bound: the values one producer pushes

States == {"Continue", "Waiting", "Done"}

ASSUME RunnerAssumption ==
  /\ Outcomes \subseteq States
  /\ MaxPosts \in Nat

Values == [from : Producers, seq : 1 .. MaxPosts]

VARIABLES
  queue,          \* mInbox.mQueue
  posted,         \* how many values each producer has pushed
  call,           \* where each producer stands in push()
  worker,         \* where the worker thread stands in run()
  mState,         \* Routine::mState
  mReady,         \* ThreadedRunner::mReady
  stopRequested,  \* the stop state of mThread
  owner,          \* the thread that owns the runner: "holds", "joining", "gone"
  routineOwned,   \* whether the routine's owner still holds it
  taken           \* the values the callback was given, in order

vars == <<queue, posted, call, worker, mState, mReady, stopRequested, owner,
          routineOwned, taken>>

\* The queue holds whole values, never more than the capacity when overwriting.
TypeOK ==
  /\ queue \in Seq(Values)
  /\ BufferMode = "Overwriting" => Len(queue) <= Capacity
  /\ posted \in [Producers -> 0 .. MaxPosts]
  /\ call \in [Producers -> {"idle", "notify", "wake", "signal", "release",
                             "joining"}]
  /\ worker \in {"unlaunched", "loop", "tick", "process", "return", "park",
                 "asleep", "exited"}
  /\ mState \in States
  /\ mReady \in BOOLEAN
  /\ stopRequested \in BOOLEAN
  /\ owner \in {"holds", "joining", "gone"}
  /\ routineOwned \in BOOLEAN
  /\ taken \in Seq(Values)

Init ==
  /\ queue = <<>>
  /\ posted = [p \in Producers |-> 0]
  /\ call = [p \in Producers |-> "idle"]
  /\ worker = "unlaunched"
  /\ mState = "Continue"
  /\ mReady = FALSE
  /\ stopRequested = FALSE
  /\ owner = "holds"
  /\ routineOwned = TRUE
  /\ taken = <<>>

-----------------------------------------------------------------------------
(* The shared_ptr to the runner.                                            *)

\* Bug: the trigger lets go of the runner before notify_one().
RetainsWhileLatching(p) == call[p] = "wake"

\* A producer whose trigger locked the weak reference, until it lets go.
Retains(p) == call[p] \in {"wake", "signal", "release"}

RunnerAlive == owner = "holds" \/ \E p \in Producers : Retains(p)

\* request_stop() runs the stop callback of the waiting condition variable.
RequestStop ==
  /\ stopRequested' = TRUE
  /\ worker' = IF worker = "asleep" THEN "park" ELSE worker

WorkerGone == worker \in {"unlaunched", "exited"}

-----------------------------------------------------------------------------
(* A producer thread: push(), notify, wake(), and the temporary reference.  *)

\* mQueue.push().  The worker pushes only from inside the callback.
Post(p) ==
  /\ call[p] = "idle"
  /\ routineOwned
  /\ posted[p] < MaxPosts
  /\ p = Worker => worker = "process"
  /\ queue' = Push(queue, [from |-> p, seq |-> posted[p] + 1])
  /\ posted' = [posted EXCEPT ![p] = @ + 1]
  /\ call' = [call EXCEPT ![p] = "notify"]
  /\ UNCHANGED <<worker, mState, mReady, stopRequested, owner, routineOwned, taken>>

\* triggerRunner(): nothing is attached before launch, and a weak reference to
\* a runner that is being destroyed does not lock.
Trigger(p) ==
  /\ call[p] = "notify"
  /\ call' = [call EXCEPT ![p] =
       IF worker # "unlaunched" /\ RunnerAlive THEN "wake" ELSE "idle"]
  /\ UNCHANGED <<queue, posted, worker, mState, mReady, stopRequested, owner,
                 routineOwned, taken>>

\* wake(): the latch is set under mMutex ...
Wake(p) ==
  /\ call[p] = "wake"
  /\ mReady' = TRUE
  /\ call' = [call EXCEPT ![p] = "signal"]
  /\ UNCHANGED <<queue, posted, worker, mState, stopRequested, owner,
                 routineOwned, taken>>

\* ... and notify_one() follows after the unlock.
Signal(p) ==
  /\ call[p] = "signal"
  /\ worker' = IF worker = "asleep" THEN "park" ELSE worker
  /\ call' = [call EXCEPT ![p] = "release"]
  /\ UNCHANGED <<queue, posted, mState, mReady, stopRequested, owner,
                 routineOwned, taken>>

\* The trigger's temporary shared_ptr goes; the last one runs the destructor.
Release(p) ==
  /\ call[p] = "release"
  /\ IF owner = "holds" \/ \E q \in Producers \ {p} : Retains(q)
       THEN /\ call' = [call EXCEPT ![p] = "idle"]
            /\ UNCHANGED <<worker, stopRequested>>
       ELSE /\ call' = [call EXCEPT ![p] = "joining"]
            /\ RequestStop
  /\ UNCHANGED <<queue, posted, mState, mReady, owner, routineOwned, taken>>

\* join() on the producer's thread.  Called by the worker it cannot return.
JoinBy(p) ==
  /\ call[p] = "joining"
  /\ WorkerGone
  /\ call' = [call EXCEPT ![p] = "idle"]
  /\ UNCHANGED <<queue, posted, worker, mState, mReady, stopRequested, owner,
                 routineOwned, taken>>

-----------------------------------------------------------------------------
(* The owner of the runner and of the routine.                              *)

\* launch(): the trigger is attached, then the thread is started.
Launch ==
  /\ worker = "unlaunched"
  /\ owner = "holds"
  /\ worker' = "loop"
  /\ UNCHANGED <<queue, posted, call, mState, mReady, stopRequested, owner,
                 routineOwned, taken>>

\* The owner drops its shared_ptr to the runner.
DropRunner ==
  /\ owner = "holds"
  /\ IF \E p \in Producers : Retains(p)
       THEN owner' = "gone" /\ UNCHANGED <<worker, stopRequested>>
       ELSE owner' = "joining" /\ RequestStop
  /\ UNCHANGED <<queue, posted, call, mState, mReady, routineOwned, taken>>

JoinByOwner ==
  /\ owner = "joining"
  /\ WorkerGone
  /\ owner' = "gone"
  /\ UNCHANGED <<queue, posted, call, worker, mState, mReady, stopRequested,
                 routineOwned, taken>>

\* The routine's owner drops it once no producer is inside push(): a producer
\* reaches the inbox through the routine.
DropRoutine ==
  /\ routineOwned
  /\ \A p \in Producers : call[p] = "idle"
  /\ routineOwned' = FALSE
  /\ UNCHANGED <<queue, posted, call, worker, mState, mReady, stopRequested,
                 owner, taken>>

-----------------------------------------------------------------------------
(* The worker thread: ThreadedRunner::run and the step() it ticks.          *)

\* The loop condition and mRoutine.lock().
Loop ==
  /\ worker = "loop"
  /\ worker' = IF stopRequested \/ ~routineOwned THEN "exited" ELSE "tick"
  /\ UNCHANGED <<queue, posted, call, mState, mReady, stopRequested, owner,
                 routineOwned, taken>>

\* step() on an empty inbox reports Waiting, and tick() stores it.
TickEmpty ==
  /\ worker = "tick"
  /\ queue = <<>>
  /\ mState' = "Waiting"
  /\ worker' = "return"
  /\ UNCHANGED <<queue, posted, call, mReady, stopRequested, owner,
                 routineOwned, taken>>

\* step() pops the oldest value for the callback.
TickPop ==
  /\ worker = "tick"
  /\ queue # <<>>
  /\ taken' = Append(taken, Oldest(queue))
  /\ queue' = Remaining(queue)
  /\ worker' = "process"
  /\ UNCHANGED <<posted, call, mState, mReady, stopRequested, owner, routineOwned>>

\* The callback returns or throws, and tick() stores what step() reports.
\* A push the callback itself makes has returned by then.
Process ==
  /\ worker = "process"
  /\ Worker \in Producers => call[Worker] = "idle"
  /\ \E outcome \in Outcomes : mState' = outcome
  /\ worker' = "return"
  /\ UNCHANGED <<queue, posted, call, mReady, stopRequested, owner,
                 routineOwned, taken>>

\* Bug: the latch is cleared on the way into the wait, not on the way out.
ReturnClearingLatch ==
  /\ worker = "return"
  /\ worker' = CASE mState = "Done"     -> "exited"
                 [] mState = "Waiting"  -> "park"
                 [] mState = "Continue" -> "loop"
  /\ mReady' = (mReady /\ mState # "Waiting")
  /\ UNCHANGED <<queue, posted, call, mState, stopRequested, owner,
                 routineOwned, taken>>

\* run() branches on the state the tick returned.
Return ==
  /\ worker = "return"
  /\ worker' = CASE mState = "Done"     -> "exited"
                 [] mState = "Waiting"  -> "park"
                 [] mState = "Continue" -> "loop"
  /\ UNCHANGED <<queue, posted, call, mState, mReady, stopRequested, owner,
                 routineOwned, taken>>

\* Bug: the wait watches the latch and not the stop token.
ParkIgnoringStop ==
  /\ worker = "park"
  /\ IF mReady
       THEN worker' = "loop" /\ mReady' = FALSE
       ELSE worker' = "asleep" /\ UNCHANGED mReady
  /\ UNCHANGED <<queue, posted, call, mState, stopRequested, owner,
                 routineOwned, taken>>

\* mCondition.wait(lock, stopToken, predicate): the predicate and the stop
\* token are examined under the locks that wake() and the stop callback take,
\* so no wake falls between the look and the sleep.
Park ==
  /\ worker = "park"
  /\ IF mReady \/ stopRequested
       THEN worker' = "loop" /\ mReady' = FALSE
       ELSE worker' = "asleep" /\ UNCHANGED mReady
  /\ UNCHANGED <<queue, posted, call, mState, stopRequested, owner,
                 routineOwned, taken>>

\* A condition variable may wake by itself; the predicate is looked at again.
SpuriousWake ==
  /\ worker = "asleep"
  /\ worker' = "park"
  /\ UNCHANGED <<queue, posted, call, mState, mReady, stopRequested, owner,
                 routineOwned, taken>>

-----------------------------------------------------------------------------

ProducerStep(p) == Trigger(p) \/ Wake(p) \/ Signal(p) \/ Release(p) \/ JoinBy(p)

WorkerStep == Loop \/ TickEmpty \/ TickPop \/ Process \/ Return \/ Park

OwnerStep == Launch \/ DropRunner \/ JoinByOwner \/ DropRoutine

Next ==
  \/ \E p \in Producers : Post(p) \/ ProducerStep(p)
  \/ OwnerStep
  \/ WorkerStep
  \/ SpuriousWake

\* A started push() runs on, the worker thread is scheduled, and a join returns
\* once its thread has ended.  Nobody has to push, launch or drop anything, and
\* a spurious wake is never owed.
Fairness ==
  /\ \A p \in Producers : WF_vars(ProducerStep(p))
  /\ WF_vars(WorkerStep)
  /\ WF_vars(JoinByOwner)

Spec == Init /\ [][Next]_vars /\ Fairness

-----------------------------------------------------------------------------
(* Properties.                                                              *)

\* A wake is on its way: a producer has yet to notify, set the latch or signal.
WakeComing == \E p \in Producers : call[p] \in {"notify", "wake", "signal"}

\* threadedRunner.hpp on wake(): "a wake that arrives while the thread is still
\* running is latched and honored at the next park, so no wake is lost".  The
\* worker never sleeps on a queue that holds a value unless a producer is still
\* about to wake it, or the runner is going away.
NoLostWake ==
  worker = "asleep" /\ queue # <<>> => stopRequested \/ WakeComing

\* makeTrigger() keeps the runner alive while wake() runs, so the destructor
\* never frees the mutex and the condition variable under a notifying thread:
\* while any producer is inside wake(), nobody is destroying the runner.
WakeOnLiveRunner ==
  (\E p \in Producers : call[p] \in {"wake", "signal"}) => ~stopRequested

\* The runner's destructor "requests the worker thread to stop and joins it,
\* blocking until it exits": whoever starts the join gets out of it, the worker
\* being parked, asleep, about to park or in the middle of a tick.
JoinReturns ==
  /\ owner = "joining" ~> owner = "gone"
  /\ \A p \in Producers : call[p] = "joining" ~> call[p] # "joining"

\* The inbox and its runner keep the Mailbox's promise: first in, first out, one
\* value at a time, only the oldest forgotten, and no value waits for ever while
\* the runner lives and the routine has not reported Done.
Promise ==
  INSTANCE Mailbox WITH
    waiting <- queue,
    phase   <- IF stopRequested \/ ~routineOwned \/ mState = "Done" THEN "closed"
               ELSE IF worker = "unlaunched" THEN "idle" ELSE "serving"

KeepsPromise == Promise!Spec
=============================================================================
