---------------------------- MODULE MCRecording -----------------------------
(* What a run leaves and what a replay makes of it: the configurations of   *)
(* recorded and replaying runs, messages on their way into a recording, and *)
(* a recording on its way into the report. The part that was chosen moves   *)
(* alone. The schema of one topic is not in the recording, another topic is *)
(* not in its registry.                                                     *)
EXTENDS MCOverlay, Integers, TLC

CONSTANTS
  Handles, InitialReservationSize, ReservationOverrides, ObjectSizes, MaxObjects, MaxDrafts,
  RollWords,
  Topics, Known, TopicSchema, Shipped, WithHeader, Stamps, MaxRecords,
  imu, raw, lost, imuSchema, rawSchema

VARIABLES
  part,
  estimate, sequence, cursor, memory, held, records, largest,
  log, position, player, shutdown, inbox, tally, gaps, report

recorded == <<estimate, sequence, cursor, memory, held, records, largest>>
replayed == <<log, position, player, shutdown, inbox, tally, gaps, report>>

D == INSTANCE Drafts
C == INSTANCE Cadence WITH SchemaOf <- TopicSchema

\* Sizes are counts of bytes or words, and a reservation of none is not asked
\* for. A registry names channels there are.
ASSUME RecordingAssumption ==
  /\ InitialReservationSize \in Nat /\ RollWords \in Nat
  /\ ReservationOverrides \subseteq Nat \ {0}
  /\ ObjectSizes \subseteq Nat
  /\ Known \subseteq Topics
  /\ Stamps \subseteq Int
  /\ MaxRecords \in Nat

MCTopicSchema == [t \in {imu, raw, lost} |-> IF t = raw THEN rawSchema ELSE imuSchema]

AnyHandle == Permutations(Handles)

MCInit ==
  /\ part \in {"overlay", "drafts", "cadence"}
  /\ Init /\ D!Init /\ C!Init
  /\ part # "cadence" => log = <<>>

MCNext ==
  /\ UNCHANGED part
  /\ \/ part = "overlay" /\ Next /\ UNCHANGED <<recorded, replayed>>
     \/ part = "drafts" /\ D!Next /\ UNCHANGED <<vars, replayed>>
     \/ part = "cadence" /\ C!Next /\ UNCHANGED <<vars, recorded>>

MCSpec == MCInit /\ [][MCNext]_<<vars, part, recorded, replayed>>

\* Every record holds what its producer put in it (draft.cpp:19).
FramesWhole == D!FramesWhole

\* A draft as large as any published before stays in its reservation
\* (publisher.hpp:62).
SteadyStateFits == D!SteadyStateFits

\* arenaMessageBuilder.cpp:73: Cap'n Proto is handed segments of zeroes.
SegmentsZeroFilled == D!SegmentsZeroFilled

\* The report is that of what was delivered (cadenceMonitor.cpp:212).
ReportMatchesRecording == C!ReportMatchesRecording

\* tally.hpp:25: one sample out of order does not spoil the rate.
RateSurvivesDisorder == C!RateSurvivesDisorder
=============================================================================
