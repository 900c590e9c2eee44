-------------------------- MODULE InboxRunnerProofs --------------------------
(***************************************************************************)
(* No wake is lost, no wake touches a runner that is being destroyed, and  *)
(* the inbox handles values as a Mailbox does, for every set of producers, *)
(* every capacity and both buffer modes.                                   *)
(***************************************************************************)
EXTENDS InboxRunner, SequenceTheorems, TLAPS

\* The destructor starts exactly when the last shared_ptr to the runner is gone.
StopMeansUnheld == stopRequested <=> ~RunnerAlive

\* Once the worker has found the queue empty and until it looks again.
FoundEmpty ==
  \/ worker \in {"park", "asleep"}
  \/ worker = "return" /\ mState = "Waiting"

\* A value that came after that look has left a latch, or will.
LatchedOrComing ==
  FoundEmpty /\ queue # <<>> =>
    \/ stopRequested
    \/ mReady
    \/ \E p \in Producers : call[p] \in {"notify", "wake"}

\* A latch set while the worker sleeps is followed by its signal.
SignalComing ==
  worker = "asleep" /\ mReady =>
    stopRequested \/ \E p \in Producers : call[p] = "signal"

IInv == TypeOK /\ StopMeansUnheld /\ LatchedOrComing /\ SignalComing

-----------------------------------------------------------------------------

\* push() leaves a sequence of values that is not empty and, in the overwriting
\* mode, not longer than the ring.
LEMMA PushFacts ==
  ASSUME NEW S, NEW s \in Seq(S), NEW v \in S,
         BufferMode = "Overwriting" => Len(s) <= Capacity
  PROVE  /\ Push(s, v) \in Seq(S)
         /\ Push(s, v) # <<>>
         /\ BufferMode = "Overwriting" => Len(Push(s, v)) <= Capacity
<1>1. CASE IsFull(s)
  <2>1. /\ Len(s) = Capacity
        /\ Capacity \in Nat \ {0}
    BY <1>1, QueueAssumption DEF IsFull
  <2>2. s # <<>>
    BY <2>1
  <2>3. /\ Tail(s) \in Seq(S)
        /\ Len(Tail(s)) = Capacity - 1
    BY <2>1, <2>2
  <2>4. Push(s, v) = Append(Tail(s), v)
    BY <1>1 DEF Push
  <2>5. /\ Append(Tail(s), v) \in Seq(S)
        /\ Len(Append(Tail(s), v)) = Capacity
    BY <2>1, <2>3
  <2>6. Append(Tail(s), v) # <<>>
    BY <2>1, <2>5
  <2> QED BY <2>1, <2>4, <2>5, <2>6
<1>2. CASE ~IsFull(s)
  <2>1. Push(s, v) = Append(s, v)
    BY <1>2 DEF Push
  <2>2. /\ Append(s, v) \in Seq(S)
        /\ Len(Append(s, v)) = Len(s) + 1
        /\ Len(s) \in Nat
    OBVIOUS
  <2>4. Append(s, v) # <<>>
    BY <2>2
  <2>3. BufferMode = "Overwriting" => Len(s) + 1 <= Capacity
    BY <1>2, QueueAssumption DEF IsFull
  <2> QED BY <2>1, <2>2, <2>3, <2>4
<1> QED BY <1>1, <1>2

\* A pop takes a value off and leaves a shorter sequence of values.
LEMMA PopFacts ==
  ASSUME NEW S, NEW s \in Seq(S), s # <<>>
  PROVE  /\ Oldest(s) \in S
         /\ Remaining(s) \in Seq(S)
         /\ Len(Remaining(s)) = Len(s) - 1
BY DEF Oldest, Remaining

-----------------------------------------------------------------------------

\* Initially nothing is queued and the owner holds the runner.
LEMMA InitIInv == Init => IInv
<1> SUFFICES ASSUME Init PROVE IInv
  OBVIOUS
<1>1. TypeOK
  <2>1. <<>> \in Seq(Values) /\ Len(<<>>) = 0
    OBVIOUS
  <2>2. /\ queue \in Seq(Values)
        /\ taken \in Seq(Values)
        /\ BufferMode = "Overwriting" => Len(queue) <= Capacity
    BY <2>1, QueueAssumption DEF Init
  <2>3. posted \in [Producers -> 0 .. MaxPosts]
    BY RunnerAssumption DEF Init
  <2> QED BY <2>2, <2>3 DEF Init, TypeOK, States
<1>2. StopMeansUnheld
  BY DEF Init, StopMeansUnheld, RunnerAlive
<1>3. LatchedOrComing /\ SignalComing
  BY DEF Init, LatchedOrComing, SignalComing, FoundEmpty
<1> QED BY <1>1, <1>2, <1>3 DEF IInv

\* Every step keeps the type invariant.
LEMMA NextTypeOK == TypeOK /\ [Next]_vars => TypeOK'
<1> SUFFICES ASSUME TypeOK, [Next]_vars PROVE TypeOK'
  OBVIOUS
<1> USE DEF TypeOK
<1>1. ASSUME NEW p \in Producers, Post(p) PROVE TypeOK'
  <2> DEFINE value == [from |-> p, seq |-> posted[p] + 1]
  <2>1. posted[p] + 1 \in 1 .. MaxPosts
    BY <1>1, RunnerAssumption DEF Post
  <2>2. value \in Values
    BY <2>1 DEF Values
  <2> HIDE DEF value
  <2>3. /\ Push(queue, value) \in Seq(Values)
        /\ BufferMode = "Overwriting" => Len(Push(queue, value)) <= Capacity
    BY <2>2, PushFacts
  <2>4. queue' = Push(queue, value)
    BY <1>1 DEF Post, value
  <2>5. posted' \in [Producers -> 0 .. MaxPosts]
    BY <1>1, <2>1, RunnerAssumption DEF Post
  <2> QED BY <1>1, <2>3, <2>4, <2>5 DEF Post
<1>2. ASSUME NEW p \in Producers, ProducerStep(p) PROVE TypeOK'
  BY <1>2 DEF ProducerStep, Trigger, Wake, Signal, Release, JoinBy, RequestStop
<1>3. CASE OwnerStep
  BY <1>3 DEF OwnerStep, Launch, DropRunner, JoinByOwner, DropRoutine, RequestStop
<1>4. CASE TickPop
  <2>1. /\ Oldest(queue) \in Values
        /\ Remaining(queue) \in Seq(Values)
        /\ Len(Remaining(queue)) = Len(queue) - 1
    BY <1>4, PopFacts DEF TickPop
  <2>2. /\ taken' = Append(taken, Oldest(queue))
        /\ queue' = Remaining(queue)
    BY <1>4 DEF TickPop
  <2>3. taken' \in Seq(Values)
    BY <2>1, <2>2
  <2>4. BufferMode = "Overwriting" => Len(queue') <= Capacity
    BY <2>1, <2>2, QueueAssumption
  <2> QED BY <1>4, <2>1, <2>2, <2>3, <2>4 DEF TickPop
<1>5. CASE Process
  BY <1>5, RunnerAssumption DEF Process
<1>6. CASE Loop \/ TickEmpty \/ Return \/ Park \/ SpuriousWake
  BY <1>6 DEF Loop, TickEmpty, Return, Park, SpuriousWake, States
<1>7. CASE UNCHANGED vars
  BY <1>7 DEF vars
<1> QED BY <1>1, <1>2, <1>3, <1>4, <1>5, <1>6, <1>7 DEF Next, WorkerStep

-----------------------------------------------------------------------------
(* The destructor and the shared_ptr.                                       *)

\* A producer comes to retain the runner only in Trigger, while somebody holds
\* it; the step that lets the last reference go requests the stop.
LEMMA NextStopMeansUnheld ==
  TypeOK /\ StopMeansUnheld /\ [Next]_vars => StopMeansUnheld'
<1> SUFFICES ASSUME TypeOK, StopMeansUnheld, [Next]_vars PROVE StopMeansUnheld'
  OBVIOUS
<1> USE DEF StopMeansUnheld, RunnerAlive, Retains
<1>0. call \in [Producers -> {"idle", "notify", "wake", "signal", "release",
                              "joining"}]
  BY DEF TypeOK
<1>1. ASSUME NEW p \in Producers, Post(p) PROVE StopMeansUnheld'
  BY <1>0, <1>1 DEF Post
<1>2. ASSUME NEW p \in Producers, Trigger(p) PROVE StopMeansUnheld'
  BY <1>0, <1>2 DEF Trigger
<1>3. ASSUME NEW p \in Producers, Wake(p) \/ Signal(p) PROVE StopMeansUnheld'
  <2>1. /\ UNCHANGED <<owner, stopRequested>>
        /\ \A q \in Producers : Retains(q)' <=> Retains(q)
    BY <1>0, <1>3 DEF Wake, Signal
  <2> QED BY <2>1
<1>4. ASSUME NEW p \in Producers, Release(p) PROVE StopMeansUnheld'
  BY <1>0, <1>4 DEF Release, RequestStop
<1>5. ASSUME NEW p \in Producers, JoinBy(p) PROVE StopMeansUnheld'
  BY <1>0, <1>5 DEF JoinBy
<1>6. CASE OwnerStep
  BY <1>6 DEF OwnerStep, Launch, DropRunner, JoinByOwner, DropRoutine, RequestStop
<1>7. CASE WorkerStep \/ SpuriousWake
  BY <1>7 DEF WorkerStep, Loop, TickEmpty, TickPop, Process, Return, Park,
              SpuriousWake
<1>8. CASE UNCHANGED vars
  BY <1>8 DEF vars
<1> QED
  BY <1>1, <1>2, <1>3, <1>4, <1>5, <1>6, <1>7, <1>8 DEF Next, ProducerStep

-----------------------------------------------------------------------------
(* The latch and the signal.                                                *)

\* A look at the queue and the wait that follows it never leave a value behind
\* without a latch or a producer that has yet to set it.
LEMMA NextLatchedOrComing ==
  ASSUME "Waiting" \notin Outcomes
  PROVE  TypeOK /\ StopMeansUnheld /\ LatchedOrComing /\ [Next]_vars
           => LatchedOrComing'
<1> SUFFICES ASSUME TypeOK, StopMeansUnheld, LatchedOrComing, [Next]_vars
             PROVE  LatchedOrComing'
  OBVIOUS
<1> USE DEF LatchedOrComing, FoundEmpty
<1>0. /\ call \in [Producers -> {"idle", "notify", "wake", "signal", "release",
                                 "joining"}]
      /\ mState \in States
  BY DEF TypeOK
<1>1. ASSUME NEW p \in Producers, Post(p) PROVE LatchedOrComing'
  BY <1>0, <1>1 DEF Post
<1>2. ASSUME NEW p \in Producers, Trigger(p) PROVE LatchedOrComing'
  <2>1. CASE RunnerAlive
    BY <1>0, <1>2, <2>1 DEF Trigger
  <2>2. CASE ~RunnerAlive
    BY <1>2, <2>2 DEF Trigger, StopMeansUnheld
  <2> QED BY <2>1, <2>2
<1>3. ASSUME NEW p \in Producers, Wake(p) PROVE LatchedOrComing'
  BY <1>3 DEF Wake
<1>4. ASSUME NEW p \in Producers, Signal(p) PROVE LatchedOrComing'
  BY <1>0, <1>4 DEF Signal
<1>5. ASSUME NEW p \in Producers, Release(p) PROVE LatchedOrComing'
  BY <1>0, <1>5 DEF Release, RequestStop
<1>6. ASSUME NEW p \in Producers, JoinBy(p) PROVE LatchedOrComing'
  BY <1>0, <1>6 DEF JoinBy
<1>7. CASE OwnerStep
  BY <1>7 DEF OwnerStep, Launch, DropRunner, JoinByOwner, DropRoutine, RequestStop
<1>8. CASE Process
  BY <1>8 DEF Process
<1>9. CASE Return
  BY <1>0, <1>9 DEF Return, States
<1>10. CASE Loop \/ TickEmpty \/ TickPop \/ Park \/ SpuriousWake
  BY <1>10 DEF Loop, TickEmpty, TickPop, Park, SpuriousWake
<1>11. CASE UNCHANGED vars
  BY <1>11 DEF vars
<1> QED
  BY <1>1, <1>2, <1>3, <1>4, <1>5, <1>6, <1>7, <1>8, <1>9, <1>10, <1>11
     DEF Next, ProducerStep, WorkerStep

\* The worker sleeps on a set latch only while the producer that set it has yet
\* to call notify_one().
LEMMA NextSignalComing ==
  TypeOK /\ SignalComing /\ [Next]_vars => SignalComing'
<1> SUFFICES ASSUME TypeOK, SignalComing, [Next]_vars PROVE SignalComing'
  OBVIOUS
<1> USE DEF SignalComing
<1>0. /\ call \in [Producers -> {"idle", "notify", "wake", "signal", "release",
                                 "joining"}]
      /\ mState \in States
  BY DEF TypeOK
<1>1. ASSUME NEW p \in Producers, Post(p) \/ Trigger(p) PROVE SignalComing'
  BY <1>0, <1>1 DEF Post, Trigger
<1>2. ASSUME NEW p \in Producers, Wake(p) PROVE SignalComing'
  BY <1>0, <1>2 DEF Wake
<1>3. ASSUME NEW p \in Producers, Signal(p) PROVE SignalComing'
  BY <1>3 DEF Signal
<1>4. ASSUME NEW p \in Producers, Release(p) \/ JoinBy(p) PROVE SignalComing'
  BY <1>0, <1>4 DEF Release, JoinBy, RequestStop
<1>5. CASE OwnerStep
  BY <1>5 DEF OwnerStep, Launch, DropRunner, JoinByOwner, DropRoutine, RequestStop
<1>6. CASE WorkerStep \/ SpuriousWake
  BY <1>0, <1>6 DEF WorkerStep, Loop, TickEmpty, TickPop, Process, Return, Park,
                    SpuriousWake, States
<1>7. CASE UNCHANGED vars
  BY <1>7 DEF vars
<1> QED
  BY <1>1, <1>2, <1>3, <1>4, <1>5, <1>6, <1>7 DEF Next, ProducerStep

-----------------------------------------------------------------------------
(* The theorems.                                                            *)

\* Every reachable state is well typed, and an overwriting inbox never grows
\* beyond its capacity, whatever the number of producers.
THEOREM TypeCorrect == Spec => []TypeOK
<1>1. Init => TypeOK
  BY InitIInv DEF IInv
<1> QED BY <1>1, NextTypeOK, PTL DEF Spec

\* wake() runs only on a runner whose destructor has not started: the shared_ptr
\* that makeTrigger() locks is what stopRequested waits for.
THEOREM WakesReachLiveRunner == Spec => []WakeOnLiveRunner
<1>1. Init => TypeOK /\ StopMeansUnheld
  BY InitIInv DEF IInv
<1>2. TypeOK /\ StopMeansUnheld /\ [Next]_vars => (TypeOK /\ StopMeansUnheld)'
  BY NextTypeOK, NextStopMeansUnheld
<1>3. TypeOK /\ StopMeansUnheld => WakeOnLiveRunner
  BY DEF StopMeansUnheld, WakeOnLiveRunner, RunnerAlive, Retains
<1> QED BY <1>1, <1>2, <1>3, PTL DEF Spec

\* No wake is lost: as long as handling a value never reports Waiting, the
\* worker does not sleep on a value that nobody is about to announce.
THEOREM NoWakeLost ==
  ASSUME "Waiting" \notin Outcomes
  PROVE  Spec => []NoLostWake
<1>1. Init => IInv
  BY InitIInv
<1>2. IInv /\ [Next]_vars => IInv'
  BY NextTypeOK, NextStopMeansUnheld, NextLatchedOrComing, NextSignalComing
     DEF IInv
<1>3. IInv => NoLostWake
  BY DEF IInv, NoLostWake, WakeComing, LatchedOrComing, SignalComing, FoundEmpty
<1> QED BY <1>1, <1>2, <1>3, PTL DEF Spec

-----------------------------------------------------------------------------
(* The mailbox that producers see.                                          *)

\* Nothing is ticked after it has reported Done.
DoneEnds == mState = "Done" => worker \in {"return", "exited"}

LEMMA NextDoneEnds == TypeOK /\ DoneEnds /\ [Next]_vars => DoneEnds'
<1> SUFFICES ASSUME TypeOK, DoneEnds, [Next]_vars PROVE DoneEnds'
  OBVIOUS
<1> USE DEF DoneEnds
<1>1. ASSUME NEW p \in Producers, Post(p) \/ ProducerStep(p) PROVE DoneEnds'
  BY <1>1 DEF Post, ProducerStep, Trigger, Wake, Signal, Release, JoinBy, RequestStop
<1>2. CASE OwnerStep
  BY <1>2 DEF OwnerStep, Launch, DropRunner, JoinByOwner, DropRoutine, RequestStop
<1>3. CASE WorkerStep \/ SpuriousWake
  BY <1>3 DEF WorkerStep, Loop, TickEmpty, TickPop, Process, Return, Park, SpuriousWake
<1>4. CASE UNCHANGED vars
  BY <1>4 DEF vars
<1> QED BY <1>1, <1>2, <1>3, <1>4 DEF Next

\* A push that evicts the oldest value of a full ring keeps the newest ones.
LEMMA PushRetains ==
  ASSUME NEW S, NEW s \in Seq(S), NEW v \in S,
         BufferMode = "Overwriting" => Len(s) <= Capacity
  PROVE  Push(s, v) = Promise!Retained(Append(s, v))
<1> DEFINE t == Append(s, v)
<1>1. /\ t \in Seq(S) /\ Len(t) = Len(s) + 1 /\ Len(s) \in Nat
      /\ \A i \in 1 .. Len(s) : t[i] = s[i]
      /\ t[Len(s) + 1] = v
  BY AppendProperties, LenProperties
<1>2. CASE IsFull(s)
  <2>1. /\ Len(s) = Capacity /\ BufferMode = "Overwriting" /\ Capacity \in Nat \ {0}
    BY <1>2, QueueAssumption DEF IsFull
  <2>2. Push(s, v) = Append(Tail(s), v)
    BY <1>2 DEF Push
  <2> DEFINE u == Tail(s)
             w == SubSeq(t, 2, Capacity + 1)
  <2>3. /\ u \in Seq(S) /\ Len(u) = Capacity - 1
        /\ \A i \in 1 .. Capacity - 1 : u[i] = s[i + 1]
    BY <2>1
  <2>4. /\ Append(u, v) \in Seq(S) /\ Len(Append(u, v)) = Capacity
        /\ \A i \in 1 .. Capacity - 1 : Append(u, v)[i] = u[i]
        /\ Append(u, v)[Capacity] = v
    <3> HIDE DEF u
    <3>1. Len(u) + 1 = Capacity
      BY <2>1, <2>3
    <3> QED BY <2>3, <3>1, AppendProperties
  <2>5. /\ w \in Seq(S) /\ Len(w) = Capacity
        /\ \A i \in 1 .. Capacity : w[i] = t[i + 1]
    <3> HIDE DEF t
    <3>1. 2 \in 1 .. Len(t) + 1 /\ Capacity + 1 \in 2 - 1 .. Len(t)
      BY <1>1, <2>1
    <3> QED BY <1>1, <2>1, <3>1, SubSeqProperties
  <2>6. Append(u, v) = w
    <3> HIDE DEF u, w, t
    <3> DEFINE q == Append(u, v)
    <3>1. \A i \in 1 .. Capacity : q[i] = w[i]
      <4> SUFFICES ASSUME NEW i \in 1 .. Capacity PROVE q[i] = w[i]
        OBVIOUS
      <4>1. CASE i = Capacity
        BY <1>1, <2>1, <2>4, <2>5, <4>1
      <4>2. CASE i # Capacity
        <5>1. i \in 1 .. Capacity - 1 /\ i + 1 \in 1 .. Len(s)
          BY <2>1, <4>2
        <5> QED BY <1>1, <2>3, <2>4, <2>5, <5>1
      <4> QED BY <4>1, <4>2
    <3>2. q \in Seq(S) /\ Len(q) = Capacity
      BY <2>4
    <3> HIDE DEF q
    <3>3. q = w
      BY <2>5, <3>1, <3>2, SeqEqual
    <3> QED BY <3>3 DEF q
  <2>7. Promise!Retained(t) = w
    <3>1. Len(t) = Capacity + 1
      BY <1>1, <2>1
    <3>2. Len(t) > Capacity /\ Len(t) - Capacity + 1 = 2
      BY <2>1, <3>1
    <3> QED BY <2>1, <3>1, <3>2 DEF Promise!Retained
  <2> QED BY <2>2, <2>6, <2>7
<1>3. CASE ~IsFull(s)
  <2>1. Push(s, v) = t
    BY <1>3 DEF Push
  <2>2. ~(BufferMode = "Overwriting" /\ Len(t) > Capacity)
    <3> HIDE DEF t
    <3> QED BY <1>1, <1>3, QueueAssumption DEF IsFull
  <2> QED BY <2>1, <2>2 DEF Promise!Retained
<1> QED BY <1>2, <1>3

\* Every step of a producer, of the owner or of the worker is a step of the
\* mailbox, or none.
LEMMA StepsPromised ==
  ASSUME TypeOK, DoneEnds, [Next]_vars
  PROVE  [Promise!Next]_(Promise!vars)
<1> DEFINE phase == IF stopRequested \/ ~routineOwned \/ mState = "Done" THEN "closed"
                    ELSE IF worker = "unlaunched" THEN "idle" ELSE "serving"
<1>1. ASSUME UNCHANGED <<posted, queue, taken>>, phase' = phase \/ phase' = "closed"
      PROVE  [Promise!Next]_(Promise!vars)
  BY <1>1 DEF Promise!Next, Promise!Close, Promise!vars
<1>2. ASSUME NEW p \in Producers, Post(p) PROVE Promise!Post(p)
  <2> DEFINE value == [from |-> p, seq |-> posted[p] + 1]
  <2>1. posted[p] + 1 \in 1 .. MaxPosts
    BY <1>2, RunnerAssumption DEF Post, TypeOK
  <2>2. value \in Values
    BY <2>1 DEF Values
  <2>3. Push(queue, value) = Promise!Retained(Append(queue, value))
    <3> HIDE DEF value
    <3> QED BY <2>2, PushRetains DEF TypeOK
  <2>4. phase' = phase
    BY <1>2 DEF Post
  <2> HIDE DEF phase
  <2> QED BY <1>2, <2>3, <2>4 DEF Post, Promise!Post, phase
<1>3. ASSUME NEW p \in Producers, ProducerStep(p)
      PROVE  UNCHANGED <<posted, queue, taken>> /\ (phase' = phase \/ phase' = "closed")
  BY <1>3 DEF ProducerStep, Trigger, Wake, Signal, Release, JoinBy, RequestStop
<1>4. CASE Launch
  <2>1. UNCHANGED <<posted, queue, taken>>
    BY <1>4 DEF Launch
  <2>2. (phase = "idle" /\ phase' = "serving") \/ phase' = phase
    BY <1>4 DEF Launch
  <2> HIDE DEF phase
  <2>3. phase = "idle" /\ phase' = "serving" => Promise!Open
    BY <2>1 DEF Promise!Open, phase
  <2> QED BY <1>1, <2>1, <2>2, <2>3 DEF Promise!Next
<1>5. ASSUME DropRunner \/ JoinByOwner \/ DropRoutine
      PROVE  UNCHANGED <<posted, queue, taken>> /\ (phase' = phase \/ phase' = "closed")
  BY <1>5 DEF DropRunner, JoinByOwner, DropRoutine, RequestStop
<1>6. CASE TickPop
  <2>1. phase # "idle" /\ phase' = phase
    BY <1>6 DEF TickPop
  <2> HIDE DEF phase
  <2>2. Promise!Take
    BY <1>6, <2>1 DEF TickPop, Oldest, Remaining, Promise!Take, phase
  <2> QED BY <2>2 DEF Promise!Next
<1>7. ASSUME Loop \/ TickEmpty \/ Process \/ Return \/ Park \/ SpuriousWake
      PROVE  UNCHANGED <<posted, queue, taken>> /\ (phase' = phase \/ phase' = "closed")
  BY <1>7, RunnerAssumption
     DEF DoneEnds, TypeOK, States, Loop, TickEmpty, Process, Return, Park, SpuriousWake
<1>8. ASSUME UNCHANGED vars
      PROVE  UNCHANGED <<posted, queue, taken>> /\ phase' = phase
  BY <1>8 DEF vars
<1> HIDE DEF phase
<1>9. \A p \in Producers : Promise!Post(p) => Promise!Next
  BY DEF Promise!Next
<1> QED
  BY <1>1, <1>2, <1>3, <1>4, <1>5, <1>6, <1>7, <1>8, <1>9
     DEF Next, OwnerStep, WorkerStep

\* The inbox and its runner handle values like a mailbox without threads: first
\* in, first out, one at a time, only the oldest forgotten, none made up and
\* none handled twice, however producers, worker and owner interleave.
THEOREM InboxIsMailbox == Spec => Promise!Safety
<1>1. Init => Promise!Init
  BY DEF Init, Promise!Init
<1>2. Init => TypeOK /\ DoneEnds
  BY InitIInv DEF Init, IInv, DoneEnds
<1>3. TypeOK /\ DoneEnds /\ [Next]_vars => (TypeOK /\ DoneEnds)'
  BY NextTypeOK, NextDoneEnds
<1>4. TypeOK /\ DoneEnds /\ [Next]_vars => [Promise!Next]_(Promise!vars)
  BY StepsPromised
<1> QED BY <1>1, <1>2, <1>3, <1>4, PTL DEF Spec, Promise!Safety
=============================================================================
