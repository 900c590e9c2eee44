------------------------------ MODULE Chronicle ------------------------------
(***************************************************************************)
(* A chronicle with several channels: chronicle::Writer, the timeline they *)
(* share, and terminus::LogPlayer, which replays through a Reader what was *)
(* left on disk.  Every producer has a channel of its own and serializes   *)
(* its calls (Channel); the timeline is a Tape that all of them claim from *)
(* without a lock, and a claimed slot is written afterwards.  The process  *)
(* may be killed at any point: what was stored in a mapping stays in its   *)
(* file, and the timeline keeps its full length.                           *)
(*                                                                         *)
(* A record takes one place of its roll, a roll holds RollRecords of them. *)
(***************************************************************************)
EXTENDS Naturals, Sequences, FiniteSets

CONSTANTS
  Producers,         \* each with its channel
  RollRecords,       \* records to a roll
  TimelineCapacity,  \* entries to the timeline
  MayCrash,          \* whether the process may be killed
  MaxRecords         \* bound: records one producer drafts

ASSUME ChronicleAssumption ==
  /\ RollRecords \in Nat \ {0}
  /\ TimelineCapacity \in Nat
  /\ MayCrash \in BOOLEAN
  /\ MaxRecords \in Nat

VARIABLES
  at,        \* where each producer stands
  drafted,   \* records each producer has drafted
  rolls,     \* the records in the rolls of each channel
  cursor,    \* mCursor of the timeline
  seen,      \* the cursor each producer has loaded
  slot,      \* the timeline slot each producer claimed last
  timeline,  \* the entries, Zero where nothing was written
  preceding, \* for each record, those whose commit had returned when it was begun
  writer,    \* "open", "closed" by its destructor, or "crashed"
  player,    \* where the log player stands
  position,  \* mEntryInTimeline
  current,   \* the entry the player's cursor holds, None at the end
  shutdown,  \* whether the replay's port was shut down
  replayed   \* the records delivered, in order

disk == <<rolls, cursor, timeline>>
recorder == <<at, drafted, seen, slot, preceding>>
replay == <<player, position, current, shutdown, replayed>>
vars == <<disk, recorder, writer, replay>>

Records == [channel : Producers, seq : 1 .. MaxRecords]
Entries == [channel : Producers, roll : Nat, offset : Nat]
Slots == 0 .. TimelineCapacity - 1

None == [channel |-> "none"]
\* The pages of a new file.
Zero == [channel |-> "zero"]

TypeOK ==
  /\ at \in [Producers -> {"idle", "reserved", "claim", "write", "failed"}]
  /\ drafted \in [Producers -> 0 .. MaxRecords]
  /\ rolls \in [Producers -> Seq(Seq(Records))]
  /\ \A p \in Producers : \A r \in DOMAIN rolls[p] : Len(rolls[p][r]) <= RollRecords
  /\ cursor \in 0 .. TimelineCapacity
  /\ seen \in [Producers -> 0 .. TimelineCapacity]
  /\ slot \in [Producers -> Slots \cup {TimelineCapacity}]
  /\ timeline \in [Slots -> Entries \cup {Zero}]
  /\ preceding \in [Records -> SUBSET Records]
  /\ writer \in {"open", "closed", "crashed"}
  /\ player \in {"none", "ready", "done", "threw"}
  /\ position \in 0 .. TimelineCapacity
  /\ current \in Records \cup {None}
  /\ shutdown \in BOOLEAN
  /\ replayed \in Seq(Records)

Init ==
  /\ at = [p \in Producers |-> "idle"]
  /\ drafted = [p \in Producers |-> 0]
  /\ rolls = [p \in Producers |-> <<>>]
  /\ cursor = 0
  /\ seen = [p \in Producers |-> 0]
  /\ slot = [p \in Producers |-> TimelineCapacity]
  /\ timeline = [i \in Slots |-> Zero]
  /\ preceding = [r \in Records |-> {}]
  /\ writer = "open"
  /\ player = "none"
  /\ position = 0
  /\ current = None
  /\ shutdown = FALSE
  /\ replayed = <<>>

-----------------------------------------------------------------------------
(* A producer: reserve and fill, then commit or drop.                       *)

\* The record a producer is at, and those whose commit has returned.
Drafting(p) == [channel |-> p, seq |-> drafted[p]]

Front(s) == SubSeq(s, 1, Len(s) - 1)
Written == {i \in Slots : timeline[i] # Zero}

\* The record that an entry locates.
Located(entry) == rolls[entry.channel][entry.roll + 1][entry.offset + 1]

Committed == {Located(timeline[i]) : i \in Written}

\* The last roll takes the record, or a new one does.
Stored(channelRolls, record) ==
  IF channelRolls = <<>> \/ Len(channelRolls[Len(channelRolls)]) = RollRecords
    THEN Append(channelRolls, <<record>>)
    ELSE [channelRolls EXCEPT ![Len(channelRolls)] = Append(@, record)]

\* Writer::channel on first use, reserve(), and the bytes of the record.
Reserve(p) ==
  /\ writer = "open"
  /\ at[p] = "idle"
  /\ drafted[p] < MaxRecords
  /\ drafted' = [drafted EXCEPT ![p] = @ + 1]
  /\ rolls' = [rolls EXCEPT ![p] = Stored(@, Drafting(p)')]
  /\ preceding' = [preceding EXCEPT ![Drafting(p)'] = Committed]
  /\ at' = [at EXCEPT ![p] = "reserved"]
  /\ UNCHANGED <<cursor, seen, slot, timeline, writer, replay>>

\* The slot of the newest record is given back.
GivenBack(channelRolls) ==
  [channelRolls EXCEPT ![Len(channelRolls)] = Front(@)]

\* ~Reservation of a draft that is not sealed.
Drop(p) ==
  /\ writer = "open"
  /\ at[p] = "reserved"
  /\ rolls' = [rolls EXCEPT ![p] = GivenBack(@)]
  /\ at' = [at EXCEPT ![p] = "idle"]
  /\ UNCHANGED <<drafted, cursor, seen, slot, timeline, preceding, writer, replay>>

\* commit() enters Tape::claim: load.
LoadCursor(p) ==
  /\ writer = "open"
  /\ at[p] = "reserved"
  /\ seen' = [seen EXCEPT ![p] = cursor]
  /\ at' = [at EXCEPT ![p] = "claim"]
  /\ UNCHANGED <<drafted, rolls, cursor, slot, timeline, preceding, writer, replay>>

\* "count > capacity() - current"
Full(p) == seen[p] = TimelineCapacity

\* append() throws.  The record's place is given back if nothing of the slot was
\* left over to trim, and is stranded otherwise; the producer's routine ends.
FailToAppend(p) ==
  /\ writer = "open"
  /\ at[p] = "claim"
  /\ Full(p)
  /\ \/ rolls' = [rolls EXCEPT ![p] = GivenBack(@)]
     \/ rolls' = rolls
  /\ at' = [at EXCEPT ![p] = "failed"]
  /\ UNCHANGED <<drafted, cursor, seen, slot, timeline, preceding, writer, replay>>

\* Bug: the claim advances the cursor it loaded, whatever the cursor is by then.
ClaimWithoutCompare(p) ==
  /\ writer = "open"
  /\ at[p] = "claim"
  /\ ~Full(p)
  /\ cursor' = seen[p] + 1
  /\ slot' = [slot EXCEPT ![p] = seen[p]]
  /\ at' = [at EXCEPT ![p] = "write"]
  /\ UNCHANGED <<drafted, rolls, seen, timeline, preceding, writer, replay>>

\* compare_exchange_weak succeeds.
Claim(p) ==
  /\ writer = "open"
  /\ at[p] = "claim"
  /\ ~Full(p)
  /\ seen[p] = cursor
  /\ cursor' = cursor + 1
  /\ slot' = [slot EXCEPT ![p] = seen[p]]
  /\ at' = [at EXCEPT ![p] = "write"]
  /\ UNCHANGED <<drafted, rolls, seen, timeline, preceding, writer, replay>>

\* It fails, and loads the cursor again.
Reload(p) ==
  /\ writer = "open"
  /\ at[p] = "claim"
  /\ seen[p] # cursor
  /\ seen' = [seen EXCEPT ![p] = cursor]
  /\ UNCHANGED <<at, drafted, rolls, cursor, slot, timeline, preceding, writer, replay>>

\* The entry of a channel's newest record.
EntryOf(p) ==
  [channel |-> p, roll |-> Len(rolls[p]) - 1,
   offset |-> Len(rolls[p][Len(rolls[p])]) - 1]

\* slot.front() = entry, and commit() returns.
WriteEntry(p) ==
  /\ writer = "open"
  /\ at[p] = "write"
  /\ timeline' = [timeline EXCEPT ![slot[p]] = EntryOf(p)]
  /\ at' = [at EXCEPT ![p] = "idle"]
  /\ UNCHANGED <<drafted, rolls, cursor, seen, slot, preceding, writer, replay>>

-----------------------------------------------------------------------------
(* The end of the recording.                                                *)

\* ~Writer, once the routines are gone: the timeline is trimmed to its cursor.
Close ==
  /\ writer = "open"
  /\ \A p \in Producers : at[p] \in {"idle", "failed"}
  /\ writer' = "closed"
  /\ UNCHANGED <<disk, recorder, replay>>

Crash ==
  /\ MayCrash
  /\ writer = "open"
  /\ writer' = "crashed"
  /\ UNCHANGED <<disk, recorder, replay>>

-----------------------------------------------------------------------------
(* The replay, in another process: LogPlayer and Reader.                    *)

\* Bug: the destructor leaves the timeline at its full length.
FileEntriesUntrimmed == TimelineCapacity

\* mTimelineFile->size(): the file's length in entries.
FileEntries == IF writer = "closed" THEN cursor ELSE TimelineCapacity

AtEnd == position >= FileEntries

\* acquireRoll() of an entry of zeroes names a file that does not exist.
Unreadable == ~AtEnd /\ timeline[position] = Zero

\* readNextEntry() into the player's cursor; the player is then in this state.
ReadNext(state) ==
  IF AtEnd
    THEN /\ current' = None
         /\ player' = state
         /\ UNCHANGED position
    ELSE /\ position' = position + 1
         /\ IF Unreadable
              THEN player' = "threw" /\ UNCHANGED current
              ELSE player' = state /\ current' = Located(timeline[position])

\* LogPlayer's constructor reads the first entry.
Open ==
  /\ writer # "open"
  /\ player = "none"
  /\ ReadNext("ready")
  /\ UNCHANGED <<disk, recorder, writer, shutdown, replayed>>

\* Bug: the next entry is read before the current one is delivered.
AdvanceThenRun ==
  /\ player = "ready"
  /\ ~shutdown
  /\ current # None
  /\ ReadNext(IF AtEnd THEN "done" ELSE "ready")
  /\ replayed' = IF current' = None THEN replayed ELSE Append(replayed, current')
  /\ UNCHANGED <<disk, recorder, writer, shutdown>>

\* run(): deliver, then read on; Done when that was the last one.
Run ==
  /\ player = "ready"
  /\ ~shutdown
  /\ current # None
  /\ replayed' = Append(replayed, current)
  /\ ReadNext(IF AtEnd THEN "done" ELSE "ready")
  /\ UNCHANGED <<disk, recorder, writer, shutdown>>

\* Bug: only a shutdown ends the player.
FinishOnShutdown ==
  /\ player = "ready"
  /\ shutdown
  /\ player' = "done"
  /\ UNCHANGED <<disk, recorder, writer, position, current, shutdown, replayed>>

\* run() after a shutdown, or on a chronicle that recorded nothing.
Finish ==
  /\ player = "ready"
  /\ shutdown \/ current = None
  /\ player' = "done"
  /\ UNCHANGED <<disk, recorder, writer, position, current, shutdown, replayed>>

RequestShutdown ==
  /\ player = "ready"
  /\ ~shutdown
  /\ shutdown' = TRUE
  /\ UNCHANGED <<disk, recorder, writer, player, position, current, replayed>>

-----------------------------------------------------------------------------

Produce(p) ==
  \/ Reserve(p) \/ Drop(p)
  \/ LoadCursor(p) \/ FailToAppend(p) \/ Claim(p) \/ Reload(p) \/ WriteEntry(p)

Play == Run \/ Finish

Next ==
  \/ \E p \in Producers : Produce(p)
  \/ Close \/ Crash
  \/ Open \/ Play \/ RequestShutdown

\* The player's runner ticks it.  Nobody has to record, to close or to replay.
Spec == Init /\ [][Next]_vars /\ WF_vars(Play)

-----------------------------------------------------------------------------
(* Properties.                                                              *)

\* The record that will be or was written at a claimed slot.
RecordAt(i) ==
  IF timeline[i] # Zero THEN Located(timeline[i])
  ELSE Drafting(CHOOSE p \in Producers : at[p] = "write" /\ slot[p] = i)

\* writer.hpp: "the global write order is preserved across channels".  The claims
\* of the timeline are the appends of one log, and a replay, after a crash as well,
\* hands out what was appended and in that order.
AsLog ==
  INSTANCE Log WITH
    Capacity  <- TimelineCapacity,
    log       <- [i \in 1 .. cursor |-> RecordAt(i - 1)],
    recording <- writer = "open"

KeepsLog == AsLog!Spec

\* A record that was begun after the commit of another one had returned comes
\* after it in the replay: a reaction never before what it reacts to.
CausalOrder ==
  \A i, j \in DOMAIN replayed : i < j => replayed[j] \notin preceding[replayed[i]]

\* A replay that ends by itself after a clean shutdown has delivered every record
\* that was committed, and reads no slot that was claimed and not written.
NothingLost ==
  writer = "closed" =>
    /\ player # "threw"
    /\ player = "done" /\ ~shutdown =>
         Committed = {replayed[i] : i \in DOMAIN replayed}

\* A crash costs a replay the entries from the first unwritten slot on, no more:
\* it has delivered every entry before the one at which it throws, and unless that
\* is past the last claim, a producer was killed between the claim and the write.
CrashKeepsPrefix ==
  player = "threw" =>
    /\ replayed = [i \in 1 .. position - 1 |-> Located(timeline[i - 1])]
    /\ \/ position - 1 = cursor
       \/ \E p \in Producers : at[p] = "write" /\ slot[p] = position - 1

\* A replay ends, with Done or with the exception of an entry it cannot read.
ReplayEnds == player = "ready" ~> player \in {"done", "threw"}
=============================================================================
