------------------------------- MODULE Drafts -------------------------------
(***************************************************************************)
(* From Publisher::draft() to the recorded frame. A draft builds its       *)
(* message in the bytes it has reserved of the channel's roll; Cap'n Proto *)
(* asks ArenaMessageBuilder for memory, and gets heap segments for what    *)
(* outgrows the reservation. Sealing frames the message where it lies, or  *)
(* gathers its segments into one and records that.                         *)
(*                                                                         *)
(* Memory is in words of eight bytes, and a frame's header is one of them. *)
(* The roll never fills: what happens when it does is Channel's business.  *)
(***************************************************************************)
EXTENDS Integers, Sequences

CONSTANTS
  Handles,                 \* the drafts and messages a producer may hold at once
  InitialReservationSize,  \* bytes; kInitialReservationSize
  ReservationOverrides,    \* bytes callers ask draft() for, other than 0
  ObjectSizes,             \* words of the objects payloads are made of
  MaxObjects,              \* bound: objects in one payload
  MaxDrafts,               \* bound: drafts begun
  RollWords                \* bound: words of the roll

VARIABLES
  estimate,  \* mSizeEstimate
  sequence,  \* mSequenceNumber
  cursor,    \* of the channel's roll
  memory,    \* the roll: word -> what it holds
  held,      \* handle -> the draft or the message it holds, or Nothing
  records,   \* what is on the timeline
  largest    \* bytes of the largest message published

vars == <<estimate, sequence, cursor, memory, held, records, largest>>

Word == 8
Heap == -1
Zero == <<>>
Nothing == [is |-> "nothing"]

Init ==
  /\ estimate = InitialReservationSize
  /\ sequence = 0
  /\ cursor = 0
  /\ memory = [w \in 1 .. RollWords |-> Zero]
  /\ held = [h \in Handles |-> Nothing]
  /\ records = <<>>
  /\ largest = 0

Slice(from, n) == [i \in 1 .. n |-> memory[from + i]]
Laid(mem, from, words) ==
  [w \in 1 .. RollWords |-> IF w \in from + 1 .. from + Len(words) THEN words[w - from] ELSE mem[w]]

-----------------------------------------------------------------------------
(* The builder's segments. An object lies at its offset in the arena or on  *)
(* the heap, where a segment is as large as what it was asked for.          *)

HeaderWords == 1
FrameWordsBare(n) == n
FrameWords(n) == HeaderWords + n
Header(n) == <<0, n>>

\* The next n words of the message with this number, after so many.
Content(number, after, n) == [i \in 1 .. n |-> <<number, after + i>>]

\* d.home says of every word of the message where it lies.
ArenaWords(d) == IF d.words <= HeaderWords THEN 0 ELSE d.words - HeaderWords
Overflowed(d) == \E i \in DOMAIN d.home : d.home[i] = Heap
MessageWords(d) == Len(d.home)

\* Where an object may go. Cap'n Proto asks for a segment when the one it
\* builds in is full; the arena is given out once. After an overflow the
\* library need not come back to the arena's last words.
Homes(d, n) ==
  LET fits == d.used + n <= ArenaWords(d)
  IN  {h \in {d.used, Heap} : IF h = Heap THEN ~fits \/ Overflowed(d) ELSE fits}

\* The draft d and the memory with one more object, of n words.
WithObject(d, n, home) ==
  [d EXCEPT !.objects = @ + 1,
            !.used = IF home = Heap THEN @ ELSE @ + n,
            !.home = @ \o [i \in 1 .. n |-> IF home = Heap THEN Heap ELSE home + i]]
Built(mem, d, n, home) ==
  IF home = Heap THEN mem
  ELSE Laid(mem, d.start + HeaderWords + home, Content(d.number, MessageWords(d), n))

\* The root pointer, then the envelope: two stamps and the payload's pointer.
RootWords == 1
EnvelopeWords == 3

-----------------------------------------------------------------------------
(* The channel's side of a reservation.                                     *)

Rounded(bytes) == (bytes + Word - 1) \div Word

\* The cursor once this slot keeps only so many words.
Rewound(at, d, words) == IF at = d.start + d.words THEN d.start + words ELSE at

\* draft()'s reservation, a fortieth above the estimate.
DraftBytes(override) == IF override = 0 THEN (estimate * 1025) \div 1000 + 1 ELSE override

Draft(h, override) ==
  /\ held[h] = Nothing
  /\ sequence < MaxDrafts
  /\ LET words == Rounded(DraftBytes(override))
         blank == [is |-> "draft", start |-> cursor, words |-> words, number |-> sequence + 1,
                   objects |-> 0, used |-> 0, home |-> <<>>,
                   default |-> override = 0, largest |-> largest,
                   dirty |-> \E i \in HeaderWords + 1 .. words : memory[cursor + i] # Zero]
     IN  /\ cursor + words <= RollWords
         /\ cursor' = cursor + words
         /\ \E root \in Homes(blank, RootWords) :
              LET rooted == WithObject(blank, RootWords, root)
              IN  \E envelope \in Homes(rooted, EnvelopeWords) :
                    /\ held' = [held EXCEPT ![h] = WithObject(rooted, EnvelopeWords, envelope)]
                    /\ memory' = Built(Built(memory, blank, RootWords, root),
                                       rooted, EnvelopeWords, envelope)
  /\ sequence' = sequence + 1
  /\ UNCHANGED <<estimate, records, largest>>

\* The producer sets a field that needs an object of n words.
Fill(h, n) ==
  /\ held[h].is = "draft"
  /\ held[h].objects < MaxObjects + 2
  /\ \E home \in Homes(held[h], n) :
       /\ held' = [held EXCEPT ![h] = WithObject(@, n, home)]
       /\ memory' = Built(memory, held[h], n, home)
  /\ UNCHANGED <<estimate, sequence, cursor, records, largest>>

\* What a reader of the draft d sees, word by word: collapseToSingleSegment
\* copies it into memory of its own.
Collapsed(d) ==
  [i \in 1 .. MessageWords(d) |->
     IF d.home[i] = Heap THEN <<d.number, i>> ELSE memory[d.start + HeaderWords + d.home[i]]]

\* modify() to so many words: the slot the draft ends up with.
Modified(d, words) ==
  IF words <= d.words THEN [start |-> d.start, words |-> d.words, cursor |-> Rewound(cursor, d, words)]
  ELSE LET spent == Rewound(cursor, d, 0)
       IN  [start |-> spent, words |-> words, cursor |-> spent + words]

\* The entry of a sealed draft whose frame starts there, for the timeline, with
\* what its producer put in.
Entry(d, start) ==
  [start |-> start, words |-> FrameWords(MessageWords(d)), number |-> d.number,
   means |-> Content(d.number, 0, MessageWords(d))]

Recorded(h, start) ==
  /\ records' = Append(records, Entry(held[h], start))
  /\ held' = [held EXCEPT ![h] = [is |-> "message", bytes |-> Word * Entry(held[h], start).words]]
  /\ UNCHANGED <<estimate, sequence, largest>>

\* flattenDraft, nothing spilled: the header goes in front of the words.
SealInPlace(h) ==
  /\ held[h].is = "draft" /\ ~Overflowed(held[h])
  /\ LET d == held[h]
     IN  /\ memory' = Laid(memory, d.start, <<Header(d.used)>>)
         /\ cursor' = Rewound(cursor, d, FrameWords(d.used))
         /\ Recorded(h, d.start)

\* ... and when the message outgrew its arena.
SealCollapsed(h) ==
  /\ held[h].is = "draft" /\ Overflowed(held[h])
  /\ LET segment == Collapsed(held[h])
         slot    == Modified(held[h], FrameWords(Len(segment)))
     IN  /\ slot.start + FrameWords(Len(segment)) <= RollWords
         /\ memory' = Laid(memory, slot.start, <<Header(Len(segment))>> \o segment)
         /\ cursor' = Rewound(slot.cursor, slot, FrameWords(Len(segment)))
         /\ Recorded(h, slot.start)

\* A draft goes out of scope unsealed; its reservation gives the slot back.
Abandon(h) ==
  /\ held[h].is = "draft"
  /\ cursor' = Rewound(cursor, held[h], 0)
  /\ held' = [held EXCEPT ![h] = Nothing]
  /\ UNCHANGED <<estimate, sequence, memory, records, largest>>

EstimateOfLast(bytes) == bytes
EstimateWith(bytes) == IF bytes > estimate THEN bytes ELSE estimate

\* publish(), and the message goes out of scope afterwards.
Publish(h) ==
  /\ held[h].is = "message"
  /\ estimate' = EstimateWith(held[h].bytes)
  /\ largest' = IF held[h].bytes > largest THEN held[h].bytes ELSE largest
  /\ held' = [held EXCEPT ![h] = Nothing]
  /\ UNCHANGED <<sequence, cursor, memory, records>>

Next ==
  \E h \in Handles :
    \/ \E override \in ReservationOverrides \cup {0} : Draft(h, override)
    \/ \E n \in ObjectSizes : Fill(h, n)
    \/ SealInPlace(h)
    \/ SealCollapsed(h)
    \/ Abandon(h)
    \/ Publish(h)

Spec == Init /\ [][Next]_vars

-----------------------------------------------------------------------------
\* A record holds its header and every object its producer put in, once, in
\* as many bytes as its entry says, wherever the objects were built and
\* whatever was drafted, grown or abandoned around it before or since
\* (draft.cpp:19, arenaMessageBuilder.cpp:67).
FramesWhole ==
  \A k \in DOMAIN records :
    LET r == records[k]
    IN  Slice(r.start, r.words) = <<Header(Len(r.means))>> \o r.means

\* Once a message of some size was published, no default draft of a message no
\* larger spills onto the heap (publisher.hpp:62, 125).
SteadyStateFits ==
  \A h \in Handles :
    LET d == held[h]
    IN  d.is = "draft" /\ d.default /\ Overflowed(d)
          => Word * FrameWords(MessageWords(d)) > d.largest

\* Every segment handed to Cap'n Proto is filled with zeroes, the arena as much
\* as the heap's (arenaMessageBuilder.cpp:73).
SegmentsZeroFilled ==
  \A h \in Handles : held[h].is = "draft" /\ held[h].home[1] # Heap => ~held[h].dirty
=============================================================================
