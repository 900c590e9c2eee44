------------------------------ MODULE Channel -------------------------------
(***************************************************************************)
(* One chronicle::Channel: the rolls it appends to, the reservations its   *)
(* callers hold, and the entries it leaves on the timeline.  A roll is a   *)
(* Tape over a memory-mapped file; a reservation is a span of addresses in *)
(* one roll.  The caller serializes all access to a channel, so a call is  *)
(* one step, and the claims and rewinds a call makes of its tapes are      *)
(* operators on the channel's value.                                       *)
(*                                                                         *)
(* Addresses and sizes are size_t, so they wrap at AddressSpace.           *)
(***************************************************************************)
EXTENDS Integers, Sequences, FiniteSets

CONSTANTS
  Handles,           \* the reservations that may be alive at once
  Word,              \* bytes in a machine word
  RollCapacity,      \* mRollCapacity
  TimelineCapacity,  \* entries that fit the timeline
  Sizes,             \* the sizes callers ask for
  AddressSpace,      \* 2^w: addresses wrap here
  Bases,             \* the addresses at which the kernel may map a roll
  FrameSizes,        \* the sizes they modify() a reservation to
  MaxRolls,          \* bound: rolls opened
  ReuseShrunk,       \* whether callers do anything but commit what they shrank
  RetryFailed        \* whether callers go on after a reserve that threw

ASSUME ChannelAssumption ==
  /\ Word \in Nat \ {0}
  /\ RollCapacity \in Nat \ {0}
  /\ TimelineCapacity \in Nat
  /\ Sizes \subseteq Nat \ {0}
  /\ AddressSpace \in Nat \ {0}
  /\ Bases \subseteq 0 .. AddressSpace - 1
  /\ FrameSizes \subseteq Nat \ {0}
  /\ MaxRolls \in Nat
  /\ ReuseShrunk \in BOOLEAN
  /\ RetryFailed \in BOOLEAN

VARIABLES
  channel,      \* [rolls, active, activeId]; active = 0: no roll opened yet
  reservation,  \* what each handle holds, None when it holds nothing
  failed,       \* whether a call threw because a roll could not be created
  timeline,     \* the entries; field "roll" is the roll really written to
  closed        \* whether the channel was destroyed

vars == <<channel, reservation, failed, timeline, closed>>

Addresses == 0 .. AddressSpace - 1
None == [roll |-> 0]

Roll == [id : Nat, base : Addresses, capacity : Nat, cursor : Addresses,
         fileSize : Addresses]
Reservation == [roll : 1 .. MaxRolls, rollId : Nat, address : Addresses,
                size : Nat, usable : Nat]
TimelineEntry == [rollId : Nat, offset : Addresses, size : Nat, roll : 1 .. MaxRolls]

TypeOK ==
  /\ channel.rolls \in Seq(Roll)
  /\ channel.active \in 0 .. Len(channel.rolls)
  /\ channel.activeId \in Nat
  /\ reservation \in [Handles -> Reservation \cup {None}]
  /\ timeline \in Seq(TimelineEntry)
  /\ Len(timeline) <= TimelineCapacity
  /\ failed \in BOOLEAN
  /\ closed \in BOOLEAN

Init ==
  /\ channel = [rolls |-> <<>>, active |-> 0, activeId |-> 0]
  /\ reservation = [h \in Handles |-> None]
  /\ timeline = <<>>
  /\ failed = FALSE
  /\ closed = FALSE

-----------------------------------------------------------------------------
(* Tape: claim and rewind.                                                  *)

RoundUpToWord(n) == ((n + Word - 1) \div Word) * Word

\* "count > capacity() - current" in unsigned arithmetic, negated.
Fits(roll, count) == count <= (roll.capacity - roll.cursor) % AddressSpace

Claim(roll, count) == [roll EXCEPT !.cursor = (@ + count) % AddressSpace]

\* Bug: the tail is released whether or not a later claim followed it.
RewindAlways(roll, slot, used) ==
  LET start == (slot.address - roll.base) % AddressSpace
  IN  IF used <= slot.size
        THEN [roll EXCEPT !.cursor = (start + used) % AddressSpace]
        ELSE roll

\* rewind(): the cursor moves back to the bytes kept if it still sits where the
\* slot ends, as measured from this tape's own data().
Rewind(roll, slot, used) ==
  LET start == (slot.address - roll.base) % AddressSpace
      end   == (start + slot.size) % AddressSpace
  IN  IF used <= slot.size /\ roll.cursor = end
        THEN [roll EXCEPT !.cursor = (start + used) % AddressSpace]
        ELSE roll

\* Channel::rewind gives the tail back to the active roll, whichever roll the
\* reservation was carved from.
RewindActive(ch, slot, used) ==
  [ch EXCEPT !.rolls[ch.active] = Rewind(@, slot, used)]

-----------------------------------------------------------------------------
(* Opening a roll and carving a reservation from it.                        *)

\* The active roll's file is trimmed to the claimed bytes, and the id moves on.
Seal(ch) ==
  IF ch.active = 0 THEN ch
  ELSE [ch EXCEPT !.rolls[ch.active].fileSize = ch.rolls[ch.active].cursor,
                  !.activeId = @ + 1]

\* A roll stays mapped while the channel or a reservation holds its pointer.
MappedRolls(ch, held) ==
  ({ch.active} \cup {held[h].roll : h \in DOMAIN held}) \ {0}

\* Where the kernel may place a mapping of this many bytes.
FreeBases(ch, held, bytes) ==
  {b \in Bases :
     /\ b + bytes <= AddressSpace
     /\ \A r \in MappedRolls(ch, held) :
          \/ b + bytes <= ch.rolls[r].base
          \/ ch.rolls[r].base + ch.rolls[r].capacity <= b}

\* openNewRoll()'s file: empty, of this capacity, mapped at this address.
NewRoll(id, base, capacity) ==
  [id |-> id, base |-> base, capacity |-> capacity, cursor |-> 0,
   fileSize |-> capacity]

\* Bug: a record larger than the channel's roll capacity gets no roll to fit.
CapacityIgnoringRequest(minCapacity) == RollCapacity

CapacityFor(minCapacity) ==
  IF minCapacity > RollCapacity THEN minCapacity ELSE RollCapacity

\* openNewRoll(): the outcomes, one for each address of the mapping.
OpenNewRoll(ch, held, minCapacity) ==
  LET sealed   == Seal(ch)
      capacity == CapacityFor(minCapacity)
  IN  IF Len(ch.rolls) = MaxRolls THEN {}
      ELSE {[sealed EXCEPT
               !.rolls  = Append(@, NewRoll(sealed.activeId, b, capacity)),
               !.active = Len(ch.rolls) + 1] :
              b \in FreeBases(ch, held, capacity)}

\* A claim on the active roll, and the reservation made of it.
Carve(ch, size) ==
  [channel |-> [ch EXCEPT !.rolls[ch.active] = Claim(@, RoundUpToWord(size))],
   slot    |-> [roll |-> ch.active, rollId |-> ch.activeId,
                address |-> (ch.rolls[ch.active].base + ch.rolls[ch.active].cursor)
                              % AddressSpace,
                size |-> RoundUpToWord(size), usable |-> RoundUpToWord(size)]]

\* reserve() finds room in the active roll.
HasRoom(ch, size) ==
  ch.active # 0 /\ Fits(ch.rolls[ch.active], RoundUpToWord(size))

\* reserve(): the channels and slots it may end with.
Reserved(ch, held, size) ==
  IF HasRoom(ch, size)
    THEN {Carve(ch, size)}
    ELSE {Carve(opened, size) :
            opened \in OpenNewRoll(ch, held, RoundUpToWord(size))}

\* Bug: the entry names the channel's active roll.
EntryOfActiveRoll(ch, slot, used) ==
  [rollId |-> ch.activeId,
   offset |-> (slot.address - ch.rolls[slot.roll].base) % AddressSpace,
   size   |-> used,
   roll   |-> slot.roll]

\* The timeline entry of a record.
EntryOf(ch, slot, used) ==
  [rollId |-> slot.rollId,
   offset |-> (slot.address - ch.rolls[slot.roll].base) % AddressSpace,
   size   |-> used,
   roll   |-> slot.roll]

\* Bug: the bytes kept are not rounded up to a word.
TrimToRecord(ch, slot, used) ==
  [ch EXCEPT !.rolls[slot.roll] = Rewind(@, slot, used)]

\* commit() gives the unused tail back to the reservation's own roll.
Trim(ch, slot, used) ==
  [ch EXCEPT !.rolls[slot.roll] = Rewind(@, slot, RoundUpToWord(used))]

\* commit(): trim, then append the entry.  When the timeline is full append()
\* throws, and unwinding destroys the reservation.
Committed(ch, tl, slot, used) ==
  IF Len(tl) < TimelineCapacity
    THEN [channel  |-> Trim(ch, slot, used),
          timeline |-> Append(tl, EntryOf(ch, slot, used))]
    ELSE [channel  |-> RewindActive(Trim(ch, slot, used), slot, 0),
          timeline |-> tl]

-----------------------------------------------------------------------------
(* The calls.                                                               *)

Holds(h) == reservation[h] # None
HeldWithout(h) == [reservation EXCEPT ![h] = None]
Shrunk(h) == Holds(h) /\ reservation[h].usable < reservation[h].size

\* What callers do.  flattenDraft commits what it has just shrunk before it does
\* anything else; an exception from reserve() ends the producer.
Reserving ==
  /\ ~closed
  /\ ReuseShrunk \/ \A h \in Handles : ~Shrunk(h)
  /\ RetryFailed \/ ~failed

Using(h) ==
  /\ ~closed
  /\ Holds(h)
  /\ ReuseShrunk \/ \A k \in Handles \ {h} : ~Shrunk(k)

Reserve(h) ==
  /\ Reserving
  /\ ~Holds(h)
  /\ \E size \in Sizes : \E out \in Reserved(channel, reservation, size) :
       /\ channel' = out.channel
       /\ reservation' = [reservation EXCEPT ![h] = out.slot]
  /\ UNCHANGED <<failed, timeline, closed>>

\* modify() to no more than the span: the tail is given back, the span stays.
Shrink(h) ==
  /\ Reserving
  /\ Holds(h)
  /\ \E newSize \in {s \in FrameSizes : s <= reservation[h].size} :
       /\ channel' = RewindActive(channel, reservation[h], newSize)
       /\ reservation' = [reservation EXCEPT ![h].usable = newSize]
  /\ UNCHANGED <<failed, timeline, closed>>

\* modify() to more than the span: the old slot is dropped before the new one
\* is reserved.
Grow(h) ==
  /\ Reserving
  /\ Holds(h)
  /\ \E newSize \in {s \in FrameSizes : s > reservation[h].size} :
       \E out \in Reserved(RewindActive(channel, reservation[h], 0),
                           HeldWithout(h), newSize) :
         /\ channel' = out.channel
         /\ reservation' = [reservation EXCEPT ![h] = out.slot]
  /\ UNCHANGED <<failed, timeline, closed>>

Commit(h) ==
  /\ Using(h)
  /\ \E used \in {s \in Sizes \cup FrameSizes : s <= reservation[h].usable} :
       LET out == Committed(channel, timeline, reservation[h], used)
       IN  channel' = out.channel /\ timeline' = out.timeline
  /\ reservation' = HeldWithout(h)
  /\ UNCHANGED <<failed, closed>>

\* ~Reservation.
Drop(h) ==
  /\ Using(h)
  /\ channel' = RewindActive(channel, reservation[h], 0)
  /\ reservation' = HeldWithout(h)
  /\ UNCHANGED <<failed, timeline, closed>>

\* write(): reserve, copy, commit.
Write ==
  /\ Reserving
  /\ \E size \in Sizes : \E reserved \in Reserved(channel, reservation, size) :
       LET out == Committed(reserved.channel, timeline, reserved.slot, size)
       IN  channel' = out.channel /\ timeline' = out.timeline
  /\ UNCHANGED <<reservation, failed, closed>>

\* The file of the roll a reserve() needs cannot be created: the exception
\* leaves the sealed roll active and the id moved on.
FailToReserve ==
  /\ Reserving
  /\ channel.activeId < MaxRolls
  /\ \E size \in Sizes : ~HasRoom(channel, size)
  /\ channel' = Seal(channel)
  /\ failed' = TRUE
  /\ UNCHANGED <<reservation, timeline, closed>>

\* The same inside modify(), which has dropped the old slot by then.
FailToGrow(h) ==
  /\ Reserving
  /\ Holds(h)
  /\ channel.activeId < MaxRolls
  /\ \E newSize \in {s \in FrameSizes : s > reservation[h].size} :
       LET dropped == RewindActive(channel, reservation[h], 0)
       IN  ~HasRoom(dropped, newSize) /\ channel' = Seal(dropped)
  /\ reservation' = HeldWithout(h)
  /\ failed' = TRUE
  /\ UNCHANGED <<timeline, closed>>

\* ~Channel, which every reservation must be gone before.
Close ==
  /\ ~closed
  /\ \A h \in Handles : ~Holds(h)
  /\ closed' = TRUE
  /\ channel' = IF channel.active = 0 THEN channel
                ELSE [channel EXCEPT !.rolls[channel.active].fileSize =
                                       channel.rolls[channel.active].cursor]
  /\ UNCHANGED <<reservation, failed, timeline>>

Next ==
  \/ \E h \in Handles : \/ Reserve(h) \/ Shrink(h) \/ Grow(h)
                        \/ Commit(h) \/ Drop(h) \/ FailToGrow(h)
  \/ Write
  \/ FailToReserve
  \/ Close

Spec == Init /\ [][Next]_vars

-----------------------------------------------------------------------------
(* Properties.                                                              *)

\* The bytes of a roll that a holder may write, and those of a record.
Bytes(roll, offset, count) ==
  {<<roll, (offset + i) % AddressSpace>> : i \in 0 .. count - 1}

HandleBytes(h) ==
  LET slot == reservation[h]
  IN  Bytes(slot.roll, slot.address - channel.rolls[slot.roll].base, slot.usable)

RecordBytes(i) == Bytes(timeline[i].roll, timeline[i].offset, timeline[i].size)

LiveHandles == {h \in Handles : Holds(h)}

\* tape.hpp: "Every reservation returns its own region; no two overlap".  The
\* bytes a caller may still write are nobody else's, and never those of a record
\* that is already on the timeline.
NoOverlap ==
  /\ \A h, k \in LiveHandles : h # k => HandleBytes(h) \cap HandleBytes(k) = {}
  /\ \A h \in LiveHandles : \A i \in DOMAIN timeline :
       HandleBytes(h) \cap RecordBytes(i) = {}
  /\ \A i, j \in DOMAIN timeline : i # j => RecordBytes(i) \cap RecordBytes(j) = {}

\* reservation.hpp: mRollPtr is "the roll that backs the slot".  The bytes a
\* caller may write are bytes of that roll's file, sealed or not.
SpansBacked ==
  \A h \in LiveHandles : \A b \in HandleBytes(h) :
    b[2] < channel.rolls[reservation[h].roll].fileSize

\* defines.hpp: an entry's roll id, offset and size locate the record.  The id
\* is that of the roll the bytes were written to, and its file holds them.
EntriesPinpoint ==
  \A i \in DOMAIN timeline :
    /\ channel.rolls[timeline[i].roll].id = timeline[i].rollId
    /\ timeline[i].offset + timeline[i].size
         <= channel.rolls[timeline[i].roll].fileSize

\* roundUpToWord is there so that every slot starts on a word of its roll.
SlotsAligned ==
  \A h \in LiveHandles :
    (reservation[h].address - channel.rolls[reservation[h].roll].base) % Word = 0
=============================================================================
