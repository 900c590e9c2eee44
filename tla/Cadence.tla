------------------------------ MODULE Cadence -------------------------------
(***************************************************************************)
(* logInspector --tally: a LogPlayer replays a recording into the          *)
(* CadenceMonitor, which counts and times the samples of every topic it    *)
(* can read the instant of, and reports when the port is torn down.        *)
(***************************************************************************)
EXTENDS Integers, Sequences, FiniteSets

CONSTANTS
  Topics,      \* the channels records were made on
  Known,       \* those the recording's topic registry still names
  SchemaOf,    \* topic -> the schema of its payloads
  Shipped,     \* the schemas the recording's schema registry still holds
  WithHeader,  \* the schemas that carry header.timestamp.nanosecondSinceEpoch
  Stamps,      \* the instants producers stamp their samples with
  MaxRecords   \* bound: records in the recording

Never == -1
Instants == [gap : {FALSE}, at : Stamps] \cup {[gap |-> TRUE, at |-> 0]}

VARIABLES
  log,       \* the recording
  position,  \* the player's cursor
  player,    \* whether its runner still ticks it
  shutdown,  \* the port's shutdown token
  inbox,     \* the monitor's, without bound: places in the log
  tally,     \* topic -> its ChannelStatistics
  gaps,      \* mGapCount
  report     \* what the destructor prints, <<>> before it

vars == <<log, position, player, shutdown, inbox, tally, gaps, report>>

NoSamples == [count |-> 0, first |-> 0, last |-> 0, shortest |-> Never, longest |-> 0]

Init ==
  /\ \E n \in 0 .. MaxRecords : log \in [1 .. n -> [topic : Topics, sample : Instants]]
  /\ position = 1
  /\ player = "ticked"
  /\ shutdown = FALSE
  /\ inbox = <<>>
  /\ tally = [t \in Known |-> NoSamples]
  /\ gaps = 0
  /\ report = <<>>

-----------------------------------------------------------------------------
(* ChannelStatistics.                                                       *)

Shorter(a, b) == IF a = Never \/ b < a THEN b ELSE a
Longer(a, b) == IF b > a THEN b ELSE a

\* Bug: a step backwards takes part in the intervals.
ObservedSigned(s, at) ==
  IF s.count = 0 THEN [s EXCEPT !.count = 1, !.first = at, !.last = at]
  ELSE [s EXCEPT !.count = @ + 1, !.last = at,
                 !.shortest = Shorter(@, at - s.last), !.longest = Longer(@, at - s.last)]

\* observe(): a sample that steps backwards is counted, and is what the next
\* one is measured against.
Observed(s, at) ==
  IF s.count = 0 THEN [s EXCEPT !.count = 1, !.first = at, !.last = at]
  ELSE LET counted == [s EXCEPT !.count = @ + 1, !.last = at]
       IN  IF at < s.last THEN counted
           ELSE [counted EXCEPT !.shortest = Shorter(@, at - s.last),
                                !.longest = Longer(@, at - s.last)]

\* rate(), as intervals over a span, and shortestInterval().
NoRate == <<0, 1>>
Rate(s) == IF s.count > 1 /\ s.last > s.first THEN <<s.count - 1, s.last - s.first>> ELSE NoRate
Shortest(s) == IF s.count > 1 THEN s.shortest ELSE 0

Columns(s) ==
  [samples |-> s.count, rate |-> Rate(s), shortest |-> Shortest(s), longest |-> s.longest]

-----------------------------------------------------------------------------
\* The topics the monitor subscribes to, those it has an extractor for.
Extractors == {id \in {SchemaOf[t] : t \in Known} : id \in Shipped /\ id \in WithHeader}
Subscribed == {t \in Known : SchemaOf[t] \in Extractors}

\* LogPlayer::run, on the player's runner.
Stop ==
  /\ player = "ticked"
  /\ shutdown \/ position > Len(log)
  /\ player' = "done"
  /\ UNCHANGED <<log, position, shutdown, inbox, tally, gaps, report>>

Play ==
  /\ player = "ticked" /\ ~shutdown /\ position <= Len(log)
  /\ inbox' = IF log[position].topic \in Subscribed THEN Append(inbox, position) ELSE inbox
  /\ position' = position + 1
  /\ player' = IF position = Len(log) THEN "done" ELSE "ticked"
  /\ UNCHANGED <<log, shutdown, tally, gaps, report>>

\* A signal asks the port to shut down; the player looks before each delivery.
Shutdown ==
  /\ ~shutdown /\ report = <<>>
  /\ shutdown' = TRUE
  /\ UNCHANGED <<log, position, player, inbox, tally, gaps, report>>

\* The handler of the monitor's subscription: countGap or tally.
Measure ==
  /\ inbox # <<>>
  /\ inbox' = Tail(inbox)
  /\ LET r == log[Head(inbox)]
     IN  IF r.sample.gap
           THEN gaps' = gaps + 1 /\ UNCHANGED tally
           ELSE tally' = [tally EXCEPT ![r.topic] = Observed(@, r.sample.at)] /\ UNCHANGED gaps
  /\ UNCHANGED <<log, position, player, shutdown, report>>

\* wait() returned, the bus was quiet, and the port destroys the monitor:
\* printTally, and the warning about gaps.
Report ==
  /\ player = "done" /\ inbox = <<>> /\ report = <<>>
  /\ report' = <<[rows |-> [t \in Known |-> Columns(tally[t])], gaps |-> gaps]>>
  /\ UNCHANGED <<log, position, player, shutdown, inbox, tally, gaps>>

Next == Stop \/ Play \/ Shutdown \/ Measure \/ Report

Spec == Init /\ [][Next]_vars

-----------------------------------------------------------------------------
Delivered == 1 .. position - 1
Samples(t) == {i \in Delivered : log[i].topic = t /\ ~log[i].sample.gap}
Gaps == {i \in Delivered : log[i].topic \in Subscribed /\ log[i].sample.gap}
Instant(i) == log[i].sample.at
Intervals(S) == {p \in S \X S : p[1] < p[2] /\ \A k \in S : k <= p[1] \/ p[2] <= k}
Forward(S) ==
  {Instant(p[2]) - Instant(p[1]) : p \in {q \in Intervals(S) : Instant(q[1]) <= Instant(q[2])}}

\* The report is that of the recording: no sample or gap of a measured topic
\* that was delivered is missing or counted twice, however far the monitor was
\* behind when the port was asked to stop; a topic that cannot be measured has
\* no figures; the extreme intervals are those of steps forward only; the rate
\* covers the samples from the first to the last; and without a shutdown the
\* whole recording was delivered (logPlayer.cpp:24, tally.cpp:49,
\* cadenceMonitor.cpp:212).
ReportMatchesRecording ==
  report # <<>> =>
    /\ ~shutdown => position = Len(log) + 1
    /\ \A t \in Known :
         LET row == report[1].rows[t]
             S   == IF t \in Subscribed THEN Samples(t) ELSE {}
             f   == Forward(S)
         IN  /\ row.samples = Cardinality(S)
             /\ f = {} => row.longest = 0
             /\ f # {} => /\ row.shortest \in f /\ \A i \in f : row.shortest <= i
                          /\ row.longest \in f /\ \A i \in f : i <= row.longest
             /\ S = {} => row.rate = NoRate
             /\ \A i, j \in S :
                  (\A k \in S : i <= k /\ k <= j) =>
                    row.rate = IF Instant(i) < Instant(j)
                                 THEN <<Cardinality(S) - 1, Instant(j) - Instant(i)>> ELSE NoRate
    /\ report[1].gaps = Cardinality(Gaps)

\* One sample out of order does not spoil the rate: it still covers the span
\* of the samples (tally.hpp:25).
RateSurvivesDisorder ==
  report # <<>> =>
    \A t \in Subscribed : \A i, j \in Samples(t) :
      Instant(i) < Instant(j) => /\ report[1].rows[t].rate[1] > 0
                                 /\ report[1].rows[t].rate[2] >= Instant(j) - Instant(i)
=============================================================================
