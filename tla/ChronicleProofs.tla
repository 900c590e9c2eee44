--------------------------- MODULE ChronicleProofs --------------------------
(***************************************************************************)
(* A chronicle is a log: for any number of producers and of records, any   *)
(* size of roll and of timeline, and whether the process is killed or the  *)
(* writer destroyed, what was claimed is never lost, moved or taken for    *)
(* another record while later ones come and go, and a replay is a prefix   *)
(* of it.                                                                  *)
(***************************************************************************)
EXTENDS Chronicle, SequenceTheorems, TLAPS

\* The newest record of a channel, and the places of all of them.
HasTip(s) == s # <<>> /\ s[Len(s)] # <<>>
Tip(s) == s[Len(s)][Len(s[Len(s)])]
Holds(s, r, o) == r \in 1 .. Len(s) /\ o \in 1 .. Len(s[r])

-----------------------------------------------------------------------------
(* The rolls of one channel.                                               *)

\* The last element of a sequence, and the sequence without it.
LEMMA FrontFacts ==
  ASSUME NEW S, NEW s \in Seq(S), s # <<>>
  PROVE  /\ Len(s) \in Nat \ {0}
         /\ s[Len(s)] \in S
         /\ Front(s) \in Seq(S)
         /\ Len(Front(s)) = Len(s) - 1
         /\ \A i \in 1 .. Len(s) - 1 : Front(s)[i] = s[i]
<1>1. Len(s) \in Nat \ {0}
  BY EmptySeq
<1>2. s[Len(s)] \in S
  BY <1>1, ElementOfSeq
<1>3. \A i \in 1 .. Len(s) - 1 : s[i] \in S
  BY <1>1, ElementOfSeq
<1>4. /\ SubSeq(s, 1, Len(s) - 1) \in Seq(S)
      /\ Len(SubSeq(s, 1, Len(s) - 1)) = IF 1 <= Len(s) - 1 THEN Len(s) - 1 - 1 + 1 ELSE 0
      /\ \A i \in 1 .. Len(s) - 1 - 1 + 1 : SubSeq(s, 1, Len(s) - 1)[i] = s[1 + i - 1]
  <2>1. 1 \in Int /\ Len(s) - 1 \in Int
    BY <1>1
  <2> QED BY <1>3, <2>1, SubSeqProperties
<1>5. \A i \in 1 .. Len(s) - 1 : SubSeq(s, 1, Len(s) - 1)[i] = s[i]
  <2>1. \A i \in 1 .. Len(s) - 1 : i \in 1 .. Len(s) - 1 - 1 + 1 /\ 1 + i - 1 = i
    BY <1>1
  <2> QED BY <1>4, <2>1
<1>6. Len(SubSeq(s, 1, Len(s) - 1)) = Len(s) - 1
  <2> DEFINE k == Len(SubSeq(s, 1, Len(s) - 1))
             n == Len(s)
  <2>1. n \in Nat /\ n # 0 /\ k = IF 1 <= n - 1 THEN n - 1 - 1 + 1 ELSE 0
    BY <1>1, <1>4
  <2> HIDE DEF k, n
  <2>2. k = n - 1
    BY <2>1
  <2> QED BY <2>2 DEF k, n
<1>7. /\ Front(s) \in Seq(S)
      /\ Len(Front(s)) = Len(s) - 1
  BY <1>4, <1>6 DEF Front
<1>8. \A i \in 1 .. Len(s) - 1 : Front(s)[i] = s[i]
  BY <1>5 DEF Front
<1> QED BY <1>1, <1>2, <1>7, <1>8

\* A record is stored behind all others, which stay where they are.
LEMMA StoredFacts ==
  ASSUME NEW R, NEW s \in Seq(Seq(R)), NEW x \in R
  PROVE  /\ Stored(s, x) \in Seq(Seq(R))
         /\ HasTip(Stored(s, x))
         /\ Tip(Stored(s, x)) = x
         /\ \A r, o : Holds(s, r, o) => Holds(Stored(s, x), r, o) /\ Stored(s, x)[r][o] = s[r][o]
<1> DEFINE g == Stored(s, x)
<1>1. CASE s = <<>> \/ Len(s[Len(s)]) = RollRecords
  <2>1. <<x>> \in Seq(R) /\ Len(<<x>>) = 1 /\ <<x>>[1] = x /\ <<x>> # <<>>
    OBVIOUS
  <2> DEFINE y == <<x>>
  <2>2. g = Append(s, y)
    BY <1>1 DEF Stored
  <2> HIDE DEF y, g
  <2>3. /\ g \in Seq(Seq(R))
        /\ Len(g) = Len(s) + 1
        /\ \A i \in 1 .. Len(s) : g[i] = s[i]
        /\ g[Len(s) + 1] = y
    BY <2>1, <2>2, AppendProperties DEF y
  <2>4. Len(s) \in Nat
    BY LenProperties
  <2>5. g # <<>> /\ g[Len(g)] = y
    BY <2>3, <2>4
  <2>6. HasTip(g) /\ Tip(g) = x
    BY <2>1, <2>5 DEF HasTip, Tip, y
  <2>7. ASSUME NEW r, NEW o, Holds(s, r, o) PROVE Holds(g, r, o) /\ g[r][o] = s[r][o]
    BY <2>3, <2>4, <2>7 DEF Holds
  <2> QED BY <2>3, <2>6, <2>7 DEF g
<1>2. CASE ~(s = <<>> \/ Len(s[Len(s)]) = RollRecords)
  <2> DEFINE n == Len(s)
             y == Append(s[n], x)
  <2>1. /\ n \in Nat \ {0}
        /\ s[n] \in Seq(R)
    BY <1>2, FrontFacts
  <2>2. /\ y \in Seq(R)
        /\ Len(y) = Len(s[n]) + 1
        /\ \A i \in 1 .. Len(s[n]) : y[i] = s[n][i]
        /\ y[Len(s[n]) + 1] = x
    BY <2>1, AppendProperties
  <2>3. Len(s[n]) \in Nat
    BY <2>1, LenProperties
  <2>4. g = [s EXCEPT ![n] = y]
    BY <1>2 DEF Stored
  <2> HIDE DEF y, n, g
  <2>5. /\ g \in Seq(Seq(R))
        /\ Len(g) = n
        /\ \A j \in 1 .. n : g[j] = IF j = n THEN y ELSE s[j]
    <3>1. n \in 1 .. Len(s)
      BY <2>1 DEF n
    <3> QED BY <2>2, <2>4, <3>1, ExceptSeq DEF n
  <2>6. g # <<>> /\ g[Len(g)] = y
    BY <2>1, <2>5
  <2>7. HasTip(g) /\ Tip(g) = x
    BY <2>2, <2>3, <2>6 DEF HasTip, Tip
  <2>8. ASSUME NEW r, NEW o, Holds(s, r, o) PROVE Holds(g, r, o) /\ g[r][o] = s[r][o]
    <3>1. r \in 1 .. n /\ o \in 1 .. Len(s[r])
      BY <2>8 DEF Holds, n
    <3>2. CASE r = n
      BY <2>2, <2>3, <2>5, <3>1, <3>2 DEF Holds
    <3>3. CASE r # n
      BY <2>5, <3>1, <3>3 DEF Holds
    <3> QED BY <3>2, <3>3
  <2> QED BY <2>5, <2>7, <2>8 DEF g
<1> QED BY <1>1, <1>2

\* Giving back the newest record leaves the others where they are.
LEMMA GivenBackFacts ==
  ASSUME NEW R, NEW s \in Seq(Seq(R)), HasTip(s), NEW g, g = GivenBack(s)
  PROVE  /\ g \in Seq(Seq(R))
         /\ \A r, o : Holds(s, r, o) /\ s[r][o] # Tip(s) => Holds(g, r, o) /\ g[r][o] = s[r][o]
<1> DEFINE n == Len(s)
           y == Front(s[n])
<1>1. /\ n \in Nat \ {0}
      /\ s[n] \in Seq(R)
      /\ s[n] # <<>>
  BY FrontFacts DEF HasTip
<1>2. /\ Len(s[n]) \in Nat \ {0}
      /\ y \in Seq(R)
      /\ Len(y) = Len(s[n]) - 1
      /\ \A i \in 1 .. Len(s[n]) - 1 : y[i] = s[n][i]
  BY <1>1, FrontFacts
<1>3. g = [s EXCEPT ![n] = y]
  BY DEF GivenBack
<1>4. Tip(s) = s[n][Len(s[n])]
  BY DEF Tip
<1> HIDE DEF y, n
<1>5. /\ g \in Seq(Seq(R))
      /\ Len(g) = n
      /\ \A j \in 1 .. n : g[j] = IF j = n THEN y ELSE s[j]
  <2>1. n \in 1 .. Len(s)
    BY <1>1 DEF n
  <2> QED BY <1>2, <1>3, <2>1, ExceptSeq DEF n
<1>6. ASSUME NEW r, NEW o, Holds(s, r, o), s[r][o] # Tip(s)
      PROVE  Holds(g, r, o) /\ g[r][o] = s[r][o]
  <2>1. r \in 1 .. n /\ o \in 1 .. Len(s[r])
    BY <1>6 DEF Holds, n
  <2>2. CASE r = n
    <3>1. o # Len(s[n])
      BY <1>4, <1>6, <2>2
    <3>2. o \in 1 .. Len(s[n]) - 1
      BY <1>2, <2>1, <2>2, <3>1
    <3> QED BY <1>2, <1>5, <2>1, <2>2, <3>2 DEF Holds
  <2>3. CASE r # n
    BY <1>5, <2>1, <2>3 DEF Holds
  <2> QED BY <2>2, <2>3
<1> QED BY <1>5, <1>6

-----------------------------------------------------------------------------
(* The invariant of the recording.                                         *)

Busy(p) == at[p] \in {"reserved", "claim", "write"}
Writes(p, i) == at[p] = "write" /\ slot[p] = i
At(i) == Located(timeline[i])
Record(p, n) == [channel |-> p, seq |-> n]

RecorderTyped ==
  /\ at \in [Producers -> {"idle", "reserved", "claim", "write", "failed"}]
  /\ drafted \in [Producers -> 0 .. MaxRecords]
  /\ rolls \in [Producers -> Seq(Seq(Records))]
  /\ cursor \in 0 .. TimelineCapacity
  /\ seen \in [Producers -> 0 .. TimelineCapacity]
  /\ slot \in [Producers -> Nat]
  /\ timeline \in [Slots -> Entries \cup {Zero}]
  /\ preceding \in [Records -> SUBSET Records]

\* The record that a producer is at is the newest of its channel.
Tips ==
  \A p \in Producers : Busy(p) =>
    /\ drafted[p] >= 1
    /\ HasTip(rolls[p])
    /\ Tip(rolls[p]) = Drafting(p)

\* An entry locates a record of its channel, and an earlier one than that.
Placed ==
  \A i \in Slots : timeline[i] # Zero =>
    LET e == timeline[i] IN
    /\ i < cursor
    /\ Holds(rolls[e.channel], e.roll + 1, e.offset + 1)
    /\ At(i).channel = e.channel
    /\ At(i).seq <= drafted[e.channel]
    /\ Busy(e.channel) => At(i).seq < drafted[e.channel]

Distinct ==
  \A i \in Slots, j \in Slots : timeline[i] # Zero /\ timeline[j] # Zero /\ At(i) = At(j) => i = j

\* A slot that was claimed is written, or one producer is about to.
Claims ==
  /\ \A p \in Producers : at[p] = "write" => slot[p] < cursor /\ timeline[slot[p]] = Zero
  /\ \A p \in Producers, q \in Producers : at[p] = "write" /\ at[q] = "write" /\ slot[p] = slot[q] => p = q
  /\ \A i \in Slots : i < cursor /\ timeline[i] = Zero => \E p \in Producers : Writes(p, i)

\* What precedes a record is committed, and no record precedes an earlier one.
Causal ==
  /\ \A r \in Records : preceding[r] \subseteq Committed
  /\ \A i \in Slots, j \in Slots : i < j /\ j < cursor => RecordAt(j) \notin preceding[RecordAt(i)]

Recorder == RecorderTyped /\ Tips /\ Placed /\ Distinct /\ Claims /\ Causal

-----------------------------------------------------------------------------
(* Facts about one state.                                                  *)

\* An entry is not a page of zeroes, a record not the end.
LEMMA MarksApart == Zero \notin Entries /\ None \notin Records
<1>1. Zero \notin Entries
  BY DEF Zero, Entries
<1>2. None \notin Records
  BY DEF None, Records
<1> QED BY <1>1, <1>2

\* The record of a draft, and what an entry locates, are records.
LEMMA RecordsMeant ==
  ASSUME Recorder
  PROVE  /\ \A p \in Producers : Busy(p) => Drafting(p) \in Records /\ Drafting(p).channel = p
                                             /\ Drafting(p).seq = drafted[p]
         /\ \A i \in Slots : timeline[i] # Zero => At(i) \in Records /\ timeline[i] \in Entries
<1>1. ASSUME NEW p \in Producers, Busy(p)
      PROVE  Drafting(p) \in Records /\ Drafting(p).channel = p /\ Drafting(p).seq = drafted[p]
  <2>1. drafted[p] \in 1 .. MaxRecords
    BY <1>1, ChronicleAssumption DEF Recorder, RecorderTyped, Tips
  <2> QED BY <2>1 DEF Drafting, Records
<1>2. ASSUME NEW i \in Slots, timeline[i] # Zero
      PROVE  At(i) \in Records /\ timeline[i] \in Entries
  <2> DEFINE e == timeline[i]
             s == rolls[e.channel]
  <2>1. /\ e \in Entries
        /\ e.channel \in Producers
        /\ Holds(s, e.roll + 1, e.offset + 1)
    BY <1>2 DEF Recorder, RecorderTyped, Placed, Entries
  <2>2. s \in Seq(Seq(Records))
    BY <2>1 DEF Recorder, RecorderTyped
  <2>3. s[e.roll + 1] \in Seq(Records)
    BY <2>1, <2>2, ElementOfSeq DEF Holds
  <2>4. s[e.roll + 1][e.offset + 1] \in Records
    BY <2>1, <2>3, ElementOfSeq DEF Holds
  <2> QED BY <2>1, <2>4 DEF At, Located
<1> QED BY <1>1, <1>2

\* The record of a claimed slot is what its entry locates, or the draft of the
\* producer that is about to write it.
LEMMA RecordAtFacts ==
  ASSUME Recorder, NEW i \in Slots, i < cursor
  PROVE  /\ timeline[i] # Zero => RecordAt(i) = At(i)
         /\ \A p \in Producers : Writes(p, i) => timeline[i] = Zero /\ RecordAt(i) = Drafting(p)
         /\ RecordAt(i) \in Records
         /\ \A p \in Producers : Busy(p) /\ ~Writes(p, i) => RecordAt(i) # Drafting(p)
<1>1. timeline[i] # Zero => RecordAt(i) = At(i)
  BY DEF RecordAt, At
<1>2. ASSUME NEW p \in Producers, Writes(p, i)
      PROVE  timeline[i] = Zero /\ RecordAt(i) = Drafting(p)
  <2>1. timeline[i] = Zero
    BY <1>2 DEF Writes, Recorder, Claims
  <2>2. \A q \in Producers : at[q] = "write" /\ slot[q] = i => q = p
    BY <1>2 DEF Writes, Recorder, Claims
  <2>3. (CHOOSE q \in Producers : at[q] = "write" /\ slot[q] = i) = p
    BY <1>2, <2>2 DEF Writes
  <2> QED BY <2>1, <2>3 DEF RecordAt
<1>3. timeline[i] = Zero => \E p \in Producers : Writes(p, i)
  BY DEF Recorder, Claims
<1>4. RecordAt(i) \in Records
  BY <1>1, <1>2, <1>3, RecordsMeant DEF Writes, Busy
<1>5. ASSUME NEW p \in Producers, Busy(p), ~Writes(p, i)
      PROVE  RecordAt(i) # Drafting(p)
  <2>1. CASE timeline[i] # Zero
    <3>1. At(i).channel = p => At(i).seq < drafted[p]
      BY <1>5, <2>1 DEF Recorder, Placed
    <3>2. drafted[p] \in Int
      BY DEF Recorder, RecorderTyped
    <3> QED BY <1>1, <1>5, <2>1, <3>1, <3>2, RecordsMeant
  <2>2. CASE timeline[i] = Zero
    <3>1. PICK q \in Producers : Writes(q, i)
      BY <1>3, <2>2
    <3>2. RecordAt(i) = Drafting(q) /\ q # p
      BY <1>2, <1>5, <3>1
    <3> QED BY <1>5, <3>1, <3>2, RecordsMeant DEF Writes, Busy
  <2> QED BY <2>1, <2>2
<1> QED BY <1>1, <1>2, <1>4, <1>5

-----------------------------------------------------------------------------
(* The recording, step by step.                                            *)

\* What the rolls of a channel keep, the entries go on locating.
LEMMA EntriesKept ==
  ASSUME Recorder, NEW p \in Producers, NEW g,
         rolls' = [rolls EXCEPT ![p] = g], timeline' = timeline,
         at[p] # "write",
         \A r, o : Holds(rolls[p], r, o) /\ (Busy(p) => rolls[p][r][o] # Drafting(p)) =>
                     Holds(g, r, o) /\ g[r][o] = rolls[p][r][o]
  PROVE  \A i \in Slots : timeline[i] # Zero =>
           LET e == timeline[i] IN
           /\ At(i)' = At(i)
           /\ Holds(rolls'[e.channel], e.roll + 1, e.offset + 1)
<1> SUFFICES ASSUME NEW i \in Slots, timeline[i] # Zero
             PROVE  /\ At(i)' = At(i)
                    /\ Holds(rolls'[timeline[i].channel], timeline[i].roll + 1, timeline[i].offset + 1)
  OBVIOUS
<1> DEFINE e == timeline[i]
<1>1. /\ e.channel \in Producers
      /\ Holds(rolls[e.channel], e.roll + 1, e.offset + 1)
      /\ At(i) = rolls[e.channel][e.roll + 1][e.offset + 1]
  BY RecordsMeant DEF Recorder, Placed, At, Located, Entries
<1>2. At(i)' = rolls'[e.channel][e.roll + 1][e.offset + 1]
  BY DEF At, Located
<1>3. \A q \in Producers : rolls'[q] = IF q = p THEN g ELSE rolls[q]
  BY DEF Recorder, RecorderTyped
<1>4. CASE e.channel # p
  BY <1>1, <1>2, <1>3, <1>4
<1>5. CASE e.channel = p
  <2>1. Busy(p) => At(i) # Drafting(p)
    <3>1. i < cursor /\ RecordAt(i) = At(i)
      BY RecordAtFacts DEF Recorder, Placed
    <3> QED BY <3>1, RecordAtFacts DEF Writes
  <2>2. Holds(g, e.roll + 1, e.offset + 1) /\ g[e.roll + 1][e.offset + 1] = At(i)
    BY <1>1, <1>5, <2>1
  <2> QED BY <1>1, <1>2, <1>3, <1>5, <2>2
<1> QED BY <1>4, <1>5

\* While the timeline stays as it is, so does the log.
LEMMA LogKept ==
  ASSUME Recorder, UNCHANGED <<cursor, slot, timeline>>,
         \A q \in Producers : at'[q] = "write" <=> at[q] = "write",
         \A q \in Producers : at[q] = "write" => drafted'[q] = drafted[q],
         \A i \in Slots : timeline[i] # Zero => At(i)' = At(i)
  PROVE  /\ Committed' = Committed
         /\ \A i \in Slots : i < cursor => RecordAt(i)' = RecordAt(i)
         /\ Distinct'
         /\ Claims'
<1>1. Committed' = Committed
  <2>1. Written' = Written
    BY DEF Written
  <2>2. \A i \in Written : At(i)' = At(i)
    BY DEF Written
  <2>3. Committed = {At(i) : i \in Written} /\ Committed' = {At(i)' : i \in Written'}
    BY DEF Committed, At
  <2> QED BY <2>1, <2>2, <2>3
<1>2. Claims'
  BY DEF Recorder, Claims, Writes
<1>3. ASSUME NEW i \in Slots, i < cursor PROVE RecordAt(i)' = RecordAt(i)
  <2>1. CASE timeline[i] # Zero
    BY <1>3, <2>1, RecordAtFacts DEF RecordAt, At
  <2>2. CASE timeline[i] = Zero
    <3>1. PICK q \in Producers : at[q] = "write" /\ slot[q] = i
      BY <1>3, <2>2 DEF Recorder, Claims, Writes
    <3>2. RecordAt(i) = Drafting(q)
      BY <1>3, <3>1, RecordAtFacts DEF Writes
    <3>3. \A u \in Producers : at'[u] = "write" /\ slot'[u] = i => u = q
      BY <3>1 DEF Recorder, Claims
    <3>4. (CHOOSE u \in Producers : at'[u] = "write" /\ slot'[u] = i) = q
      BY <3>1, <3>3
    <3> QED BY <2>2, <3>1, <3>2, <3>4 DEF RecordAt, Drafting
  <2> QED BY <2>1, <2>2
<1>4. Distinct'
  BY DEF Recorder, Distinct
<1> QED BY <1>1, <1>2, <1>3, <1>4

\* A producer that is not between its claim and its write goes to another such
\* place, and may begin, store or give back a record.
LEMMA DraftStep ==
  ASSUME Recorder, NEW p \in Producers, NEW a \in {"idle", "reserved", "claim", "failed"},
         NEW n \in 0 .. MaxRecords, NEW g \in Seq(Seq(Records)),
         at[p] # "write",
         at' = [at EXCEPT ![p] = a],
         drafted' = [drafted EXCEPT ![p] = n],
         rolls' = [rolls EXCEPT ![p] = g],
         UNCHANGED <<cursor, slot, timeline>>,
         seen' \in [Producers -> 0 .. TimelineCapacity],
         n >= drafted[p],
         a \in {"reserved", "claim"} =>
           /\ n >= 1 /\ HasTip(g) /\ Tip(g) = Record(p, n)
           /\ Busy(p) \/ n > drafted[p],
         \A r, o : Holds(rolls[p], r, o) /\ (Busy(p) => rolls[p][r][o] # Drafting(p)) =>
                     Holds(g, r, o) /\ g[r][o] = rolls[p][r][o],
         \/ preceding' = preceding
         \/ n > drafted[p] /\ preceding' = [preceding EXCEPT ![Record(p, n)] = Committed]
  PROVE  /\ Recorder'
         /\ \A i \in Slots : i < cursor => RecordAt(i)' = RecordAt(i)
<1>1. /\ \A q \in Producers : at'[q] = IF q = p THEN a ELSE at[q]
      /\ \A q \in Producers : drafted'[q] = IF q = p THEN n ELSE drafted[q]
      /\ \A q \in Producers : rolls'[q] = IF q = p THEN g ELSE rolls[q]
  BY DEF Recorder, RecorderTyped
<1>2. /\ \A i \in Slots : timeline[i] # Zero => At(i)' = At(i)
      /\ \A i \in Slots : timeline[i] # Zero =>
           Holds(rolls'[timeline[i].channel], timeline[i].roll + 1, timeline[i].offset + 1)
  BY EntriesKept
<1>3. /\ Committed' = Committed
      /\ \A i \in Slots : i < cursor => RecordAt(i)' = RecordAt(i)
      /\ Distinct'
      /\ Claims'
  BY <1>1, <1>2, LogKept
<1>4. RecorderTyped'
  <2>1. Committed \subseteq Records
    BY RecordsMeant DEF Committed, Written, At
  <2>2. preceding' \in [Records -> SUBSET Records]
    BY <2>1 DEF Recorder, RecorderTyped
  <2> QED BY <2>2 DEF Recorder, RecorderTyped
<1>5. Tips'
  <2> SUFFICES ASSUME NEW q \in Producers, Busy(q)'
               PROVE  drafted'[q] >= 1 /\ HasTip(rolls'[q]) /\ Tip(rolls'[q]) = Drafting(q)'
    BY DEF Tips
  <2>1. CASE q = p
    BY <1>1, <2>1 DEF Busy, Drafting, Record
  <2>2. CASE q # p
    BY <1>1, <2>2 DEF Busy, Drafting, Recorder, Tips
  <2> QED BY <2>1, <2>2
<1>6. Placed'
  <2> SUFFICES ASSUME NEW i \in Slots, timeline[i] # Zero
               PROVE  LET e == timeline[i] IN
                      /\ i < cursor
                      /\ Holds(rolls'[e.channel], e.roll + 1, e.offset + 1)
                      /\ At(i).channel = e.channel
                      /\ At(i).seq <= drafted'[e.channel]
                      /\ Busy(e.channel)' => At(i).seq < drafted'[e.channel]
    BY <1>2 DEF Placed
  <2> DEFINE c == timeline[i].channel
  <2>1. /\ i < cursor
        /\ At(i).channel = c
        /\ At(i).seq <= drafted[c]
        /\ Busy(c) => At(i).seq < drafted[c]
        /\ c \in Producers
        /\ At(i).seq \in Int
    BY RecordsMeant DEF Recorder, Placed, Entries, Records
  <2> HIDE DEF c
  <2>2. drafted[c] \in Int /\ n \in Int
    BY <2>1 DEF Recorder, RecorderTyped
  <2>3. CASE c = p
    BY <1>1, <1>2, <2>1, <2>2, <2>3 DEF Busy, c
  <2>4. CASE c # p
    BY <1>1, <1>2, <2>1, <2>4 DEF Busy, c
  <2> QED BY <2>3, <2>4
<1>7. Causal'
  <2>1. \A r \in Records : preceding'[r] \subseteq Committed
    BY DEF Recorder, RecorderTyped, Causal
  <2>2. ASSUME NEW i \in Slots, i < cursor, n > drafted[p]
        PROVE  RecordAt(i) # Record(p, n)
    <3>1. CASE timeline[i] # Zero
      <4>1. At(i).channel = p => At(i).seq <= drafted[p]
        BY <3>1 DEF Recorder, Placed
      <4>2. drafted[p] \in Int /\ n \in Int
        BY DEF Recorder, RecorderTyped
      <4>3. At(i) # Record(p, n)
        BY <2>2, <4>1, <4>2 DEF Record
      <4> QED BY <2>2, <3>1, <4>3, RecordAtFacts
    <3>2. CASE timeline[i] = Zero
      <4>1. PICK q \in Producers : Writes(q, i)
        BY <2>2, <3>2 DEF Recorder, Claims
      <4>2. RecordAt(i).channel = q /\ q # p
        BY <2>2, <4>1, RecordAtFacts, RecordsMeant DEF Writes, Busy
      <4> QED BY <4>2 DEF Record
    <3> QED BY <3>1, <3>2
  <2>3. ASSUME NEW i \in Slots, i < cursor PROVE preceding'[RecordAt(i)] = preceding[RecordAt(i)]
    BY <2>2, <2>3, RecordAtFacts DEF Recorder, RecorderTyped
  <2>4. ASSUME NEW i \in Slots, NEW j \in Slots, i < j, j < cursor
        PROVE  RecordAt(j)' \notin preceding'[RecordAt(i)']
    <3>1. i < cursor
      BY <2>4 DEF Slots, Recorder, RecorderTyped
    <3> QED BY <1>3, <2>3, <2>4, <3>1 DEF Recorder, Causal
  <2> QED BY <1>3, <2>1, <2>4 DEF Causal
<1> QED BY <1>3, <1>4, <1>5, <1>6, <1>7 DEF Recorder

\* Every step of a producer but a claim leaves the log as it is:
Unclaimed == cursor' = cursor /\ \A i \in Slots : i < cursor => RecordAt(i)' = RecordAt(i)

\* A producer begins a record and stores it.
LEMMA ReserveKept ==
  ASSUME Recorder, NEW p \in Producers, Reserve(p)
  PROVE  Recorder' /\ Unclaimed
<1> DEFINE n == drafted[p] + 1
           s == rolls[p]
           x == Record(p, n)
           g == Stored(s, x)
<1>1. /\ n \in 0 .. MaxRecords
      /\ n > drafted[p] /\ n >= drafted[p] /\ n >= 1
      /\ x \in Records
      /\ s \in Seq(Seq(Records))
  <2>1. drafted[p] \in Nat /\ n > drafted[p] /\ n \in 1 .. MaxRecords /\ n >= 1
    BY ChronicleAssumption DEF Reserve, Recorder, RecorderTyped
  <2>2. rolls[p] \in Seq(Seq(Records))
    BY DEF Recorder, RecorderTyped
  <2>3. n >= drafted[p]
    BY <2>1
  <2> HIDE DEF n
  <2>4. n \in 0 .. MaxRecords /\ x \in Records
    BY <2>1 DEF Records, Record
  <2> QED BY <2>1, <2>2, <2>3, <2>4
<1>2. /\ at[p] = "idle"
      /\ at' = [at EXCEPT ![p] = "reserved"]
      /\ drafted' = [drafted EXCEPT ![p] = n]
      /\ UNCHANGED <<cursor, slot, timeline, seen>>
  BY DEF Reserve
<1>3. Drafting(p)' = x
  BY <1>2 DEF Drafting, Record, Recorder, RecorderTyped
<1>4. /\ rolls' = [rolls EXCEPT ![p] = g]
      /\ preceding' = [preceding EXCEPT ![x] = Committed]
      /\ g = Stored(s, x)
  BY <1>3 DEF Reserve
<1> HIDE DEF n, g, x, s
<1>5. /\ g \in Seq(Seq(Records))
      /\ HasTip(g)
      /\ Tip(g) = x
      /\ \A r, o : Holds(s, r, o) => Holds(g, r, o) /\ g[r][o] = s[r][o]
  <2>1. /\ Stored(s, x) \in Seq(Seq(Records))
        /\ HasTip(Stored(s, x))
        /\ Tip(Stored(s, x)) = x
        /\ \A r, o : Holds(s, r, o) => Holds(Stored(s, x), r, o) /\ Stored(s, x)[r][o] = s[r][o]
    BY <1>1, StoredFacts
  <2> QED BY <1>4, <2>1
<1>6. /\ seen' \in [Producers -> 0 .. TimelineCapacity]
      /\ at[p] # "write"
  BY <1>2 DEF Recorder, RecorderTyped
<1>7. \A r, o : Holds(rolls[p], r, o) /\ (Busy(p) => rolls[p][r][o] # Drafting(p)) =>
                  Holds(g, r, o) /\ g[r][o] = rolls[p][r][o]
  BY <1>5 DEF s
<1>8. Recorder' /\ \A i \in Slots : i < cursor => RecordAt(i)' = RecordAt(i)
  BY <1>1, <1>2, <1>4, <1>5, <1>6, <1>7, DraftStep DEF x
<1> QED BY <1>2, <1>8 DEF Unclaimed

\* A record that no entry locates yet is given back, or stays where it is.
LEMMA EndsDraft ==
  ASSUME Recorder, NEW p \in Producers, at[p] \in {"reserved", "claim"},
         NEW a \in {"idle", "failed"}, at' = [at EXCEPT ![p] = a],
         rolls' = [rolls EXCEPT ![p] = GivenBack(@)] \/ rolls' = rolls,
         UNCHANGED <<drafted, cursor, slot, timeline, seen, preceding>>
  PROVE  Recorder' /\ Unclaimed
<1> DEFINE n == drafted[p]
           s == rolls[p]
           b == GivenBack(s)
<1>1. /\ n \in 0 .. MaxRecords
      /\ n >= drafted[p]
      /\ drafted' = [drafted EXCEPT ![p] = n]
      /\ s \in Seq(Seq(Records))
      /\ HasTip(s)
      /\ Tip(s) = Drafting(p)
      /\ Busy(p)
  BY DEF Recorder, RecorderTyped, Tips, Busy
<1>2. /\ b \in Seq(Seq(Records))
      /\ \A r, o : Holds(s, r, o) /\ s[r][o] # Tip(s) => Holds(b, r, o) /\ b[r][o] = s[r][o]
  BY <1>1, GivenBackFacts
<1>3. seen' \in [Producers -> 0 .. TimelineCapacity]
  BY DEF Recorder, RecorderTyped
<1> HIDE DEF n, b
<1>4. CASE rolls' = [rolls EXCEPT ![p] = b]
  <2>1. Recorder' /\ \A i \in Slots : i < cursor => RecordAt(i)' = RecordAt(i)
    BY <1>1, <1>2, <1>3, <1>4, DraftStep
  <2> QED BY <2>1 DEF Unclaimed
<1>5. CASE rolls' = rolls
  <2>1. rolls' = [rolls EXCEPT ![p] = s]
    BY <1>5 DEF Recorder, RecorderTyped
  <2> HIDE DEF s
  <2>2. \A r, o : Holds(s, r, o) /\ (Busy(p) => s[r][o] # Drafting(p)) => Holds(s, r, o) /\ s[r][o] = s[r][o]
    OBVIOUS
  <2>3. Recorder' /\ \A i \in Slots : i < cursor => RecordAt(i)' = RecordAt(i)
    BY <1>1, <1>3, <2>1, <2>2, DraftStep DEF s
  <2> QED BY <2>3 DEF Unclaimed
<1> QED BY <1>4, <1>5 DEF b

\* The load of the cursor, the first or another.
LEMMA LoadKept ==
  ASSUME Recorder, NEW p \in Producers, LoadCursor(p) \/ Reload(p)
  PROVE  Recorder' /\ Unclaimed
<1> DEFINE n == drafted[p]
           s == rolls[p]
<1>1. /\ at[p] \in {"reserved", "claim"}
      /\ at' = [at EXCEPT ![p] = "claim"]
      /\ seen' = [seen EXCEPT ![p] = cursor]
      /\ UNCHANGED <<drafted, rolls, cursor, slot, timeline, preceding>>
  BY DEF LoadCursor, Reload, Recorder, RecorderTyped
<1>2. /\ n \in 0 .. MaxRecords
      /\ n >= drafted[p] /\ n >= 1
      /\ drafted' = [drafted EXCEPT ![p] = n]
      /\ rolls' = [rolls EXCEPT ![p] = s]
      /\ s \in Seq(Seq(Records))
      /\ HasTip(s)
      /\ Tip(s) = Record(p, n)
      /\ Busy(p)
  BY <1>1 DEF Recorder, RecorderTyped, Tips, Busy, Drafting, Record
<1>3. seen' \in [Producers -> 0 .. TimelineCapacity]
  BY <1>1 DEF Recorder, RecorderTyped
<1>4. preceding' = preceding
  BY <1>1
<1> HIDE DEF n
<1>5. \A r, o : Holds(s, r, o) /\ (Busy(p) => s[r][o] # Drafting(p)) => Holds(s, r, o) /\ s[r][o] = s[r][o]
  OBVIOUS
<1>6. Recorder' /\ \A i \in Slots : i < cursor => RecordAt(i)' = RecordAt(i)
  BY <1>1, <1>2, <1>3, <1>4, <1>5, DraftStep
<1> QED BY <1>1, <1>6 DEF Unclaimed

\* A claim appends the record of the draft to the log.
LEMMA ClaimKept ==
  ASSUME Recorder, NEW p \in Producers, Claim(p)
  PROVE  /\ Recorder'
         /\ cursor \in Slots /\ cursor' = cursor + 1
         /\ \A i \in Slots : i < cursor => RecordAt(i)' = RecordAt(i) /\ RecordAt(i) # Drafting(p)
         /\ \A c \in Slots : c = cursor => RecordAt(c)' = Drafting(p)
         /\ Drafting(p) \in Records
<1>1. /\ at[p] = "claim"
      /\ seen[p] # TimelineCapacity
      /\ seen[p] = cursor
      /\ cursor' = cursor + 1
      /\ slot' = [slot EXCEPT ![p] = cursor]
      /\ at' = [at EXCEPT ![p] = "write"]
      /\ UNCHANGED <<drafted, rolls, seen, timeline, preceding>>
  BY DEF Claim, Full
<1>2. /\ cursor \in Nat
      /\ cursor \in Slots
      /\ cursor + 1 \in 0 .. TimelineCapacity
      /\ \A i \in Slots : i \in Int
  BY <1>1, ChronicleAssumption DEF Recorder, RecorderTyped, Slots
<1>3. /\ \A q \in Producers : at'[q] = IF q = p THEN "write" ELSE at[q]
      /\ \A q \in Producers : slot'[q] = IF q = p THEN cursor ELSE slot[q]
      /\ \A q \in Producers : Drafting(q)' = Drafting(q)
      /\ \A q \in Producers : Busy(q)' <=> Busy(q)
      /\ \A i \in Slots : At(i)' = At(i)
      /\ Busy(p)
  BY <1>1 DEF Recorder, RecorderTyped, Drafting, Busy, At, Located
<1>4. \A q \in Producers : at[q] = "write" => slot[q] < cursor /\ slot[q] \in Int
  BY DEF Recorder, RecorderTyped, Claims
<1>5. timeline[cursor] = Zero
  BY <1>2 DEF Recorder, Placed
<1>6. RecorderTyped'
  BY <1>1, <1>2 DEF Recorder, RecorderTyped
<1>7. Tips' /\ Placed' /\ Distinct'
  <2>1. Tips'
    BY <1>1, <1>3 DEF Recorder, Tips
  <2>2. Placed'
    <3>1. \A i \in Slots : i < cursor => i < cursor'
      BY <1>1, <1>2
    <3>2. \A i \in Slots : timeline[i] # Zero => timeline[i].channel \in Producers
      BY RecordsMeant DEF Entries
    <3> QED BY <1>1, <1>3, <3>1, <3>2 DEF Recorder, Placed
  <2>3. Distinct'
    BY <1>1, <1>3 DEF Recorder, Distinct
  <2> QED BY <2>1, <2>2, <2>3
<1>8. Claims'
  <2>1. ASSUME NEW q \in Producers, at'[q] = "write"
        PROVE  slot'[q] < cursor' /\ timeline'[slot'[q]] = Zero
    <3>1. CASE q = p
      BY <1>1, <1>2, <1>3, <1>5, <3>1
    <3>2. CASE q # p
      <4>1. at[q] = "write" /\ slot'[q] = slot[q]
        BY <1>3, <2>1, <3>2
      <4>2. slot[q] < cursor + 1
        BY <1>2, <1>4, <4>1
      <4> QED BY <1>1, <4>1, <4>2 DEF Recorder, Claims
    <3> QED BY <3>1, <3>2
  <2>2. ASSUME NEW q \in Producers, NEW u \in Producers, at'[q] = "write", at'[u] = "write",
               slot'[q] = slot'[u]
        PROVE  q = u
    <3>1. CASE q # p /\ u # p
      BY <1>3, <2>2, <3>1 DEF Recorder, Claims
    <3>2. CASE q = p \/ u = p
      BY <1>2, <1>3, <1>4, <2>2, <3>2
    <3> QED BY <3>1, <3>2
  <2>3. ASSUME NEW i \in Slots, i < cursor', timeline'[i] = Zero
        PROVE  \E q \in Producers : Writes(q, i)'
    <3>1. CASE i = cursor
      BY <1>3, <3>1 DEF Writes
    <3>2. CASE i < cursor
      <4>1. PICK q \in Producers : Writes(q, i)
        BY <1>1, <2>3, <3>2 DEF Recorder, Claims
      <4> QED BY <1>1, <1>3, <4>1 DEF Writes
    <3> QED BY <1>1, <1>2, <2>3, <3>1, <3>2
  <2> QED BY <2>1, <2>2, <2>3 DEF Claims
<1>9. ASSUME NEW i \in Slots, i < cursor
      PROVE  RecordAt(i)' = RecordAt(i) /\ RecordAt(i) # Drafting(p)
  <2>1. RecordAt(i) # Drafting(p)
    BY <1>1, <1>3, <1>9, RecordAtFacts DEF Writes
  <2>2. CASE timeline[i] # Zero
    BY <1>1, <1>3, <2>1, <2>2 DEF RecordAt, At
  <2>3. CASE timeline[i] = Zero
    <3>1. PICK q \in Producers : Writes(q, i)
      BY <1>9, <2>3 DEF Recorder, Claims
    <3>2. RecordAt(i) = Drafting(q) /\ q # p
      BY <1>1, <1>9, <3>1, RecordAtFacts DEF Writes
    <3>3. at'[q] = "write" /\ slot'[q] = i
      BY <1>3, <3>1, <3>2 DEF Writes
    <3>4. \A u \in Producers : at'[u] = "write" /\ slot'[u] = i => u = q
      BY <1>8, <3>3 DEF Claims
    <3>5. (CHOOSE u \in Producers : at'[u] = "write" /\ slot'[u] = i) = q
      BY <3>3, <3>4
    <3>6. RecordAt(i)' = Drafting(q)'
      BY <1>1, <2>3, <3>5 DEF RecordAt, Drafting
    <3> QED BY <1>3, <2>1, <3>2, <3>6
  <2> QED BY <2>2, <2>3
<1>10. ASSUME NEW c \in Slots, c = cursor PROVE RecordAt(c)' = Drafting(p)
  <2>1. \A u \in Producers : at'[u] = "write" /\ slot'[u] = c => u = p
    BY <1>2, <1>3, <1>4, <1>10
  <2>2. (CHOOSE u \in Producers : at'[u] = "write" /\ slot'[u] = c) = p
    BY <1>3, <1>10, <2>1
  <2>3. RecordAt(c)' = Drafting(p)'
    BY <1>1, <1>5, <1>10, <2>2 DEF RecordAt, Drafting
  <2> QED BY <1>3, <2>3
<1>11. /\ Committed' = Committed
       /\ Drafting(p) \notin Committed
  <2>1. Committed' = Committed
    BY <1>1 DEF Committed, Written, Located
  <2>2. ASSUME NEW i \in Slots, timeline[i] # Zero PROVE At(i) # Drafting(p)
    <3>1. i < cursor /\ RecordAt(i) = At(i)
      BY <2>2, RecordAtFacts DEF Recorder, Placed
    <3> QED BY <1>9, <3>1
  <2> QED BY <2>1, <2>2 DEF Committed, Written, At
<1>12. Causal'
  <2> SUFFICES ASSUME NEW i \in Slots, NEW j \in Slots, i < j, j < cursor'
               PROVE  RecordAt(j)' \notin preceding[RecordAt(i)']
    BY <1>1, <1>11 DEF Recorder, Causal
  <2>1. i < cursor
    BY <1>1, <1>2
  <2>2. RecordAt(i)' = RecordAt(i) /\ RecordAt(i) \in Records
    BY <1>9, <2>1, RecordAtFacts
  <2>3. CASE j < cursor
    BY <1>9, <2>1, <2>2, <2>3 DEF Recorder, Causal
  <2>4. CASE j = cursor
    BY <1>10, <1>11, <2>2, <2>4 DEF Recorder, Causal
  <2>5. j < cursor \/ j = cursor
    BY <1>1, <1>2
  <2> QED BY <2>3, <2>4, <2>5
<1> QED BY <1>1, <1>2, <1>3, <1>6, <1>7, <1>8, <1>9, <1>10, <1>12, RecordsMeant DEF Recorder

\* A write puts into the claimed slot the entry of the record that it was
\* claimed for: the log stays as it is, and the record is committed.
LEMMA WriteEntryKept ==
  ASSUME Recorder, NEW p \in Producers, WriteEntry(p)
  PROVE  Recorder' /\ Unclaimed
<1> DEFINE k == slot[p]
           e == EntryOf(p)
           s == rolls[p]
<1>1. /\ at[p] = "write"
      /\ timeline' = [timeline EXCEPT ![k] = e]
      /\ at' = [at EXCEPT ![p] = "idle"]
      /\ UNCHANGED <<drafted, rolls, cursor, seen, slot, preceding>>
  BY DEF WriteEntry
<1>2. /\ k \in Nat
      /\ k < cursor
      /\ k \in Slots
      /\ timeline[k] = Zero
      /\ Writes(p, k)
  <2>1. k \in Nat /\ k < cursor /\ timeline[k] = Zero
    BY <1>1 DEF Recorder, RecorderTyped, Claims
  <2>2. cursor \in 0 .. TimelineCapacity
    BY DEF Recorder, RecorderTyped
  <2>3. k \in Slots
    BY <2>1, <2>2, ChronicleAssumption DEF Slots
  <2> QED BY <1>1, <2>1, <2>3 DEF Writes
<1>3. /\ e \in Entries
      /\ e.channel = p
      /\ Holds(s, e.roll + 1, e.offset + 1)
      /\ Located(e) = Drafting(p)
  <2>1. /\ s \in Seq(Seq(Records))
        /\ s # <<>> /\ s[Len(s)] # <<>>
        /\ s[Len(s)][Len(s[Len(s)])] = Drafting(p)
    BY <1>1 DEF Recorder, RecorderTyped, Tips, Busy, HasTip, Tip
  <2>2. Len(s) \in Nat \ {0} /\ s[Len(s)] \in Seq(Records)
    BY <2>1, FrontFacts
  <2>3. Len(s[Len(s)]) \in Nat \ {0}
    BY <2>1, <2>2, FrontFacts
  <2>4. /\ e.channel = p
        /\ e.roll = Len(s) - 1
        /\ e.offset = Len(s[Len(s)]) - 1
        /\ e = [channel |-> e.channel, roll |-> e.roll, offset |-> e.offset]
    BY DEF EntryOf
  <2> HIDE DEF e
  <2>5. e.roll \in Nat /\ e.offset \in Nat /\ e.roll + 1 = Len(s) /\ e.offset + 1 = Len(s[Len(s)])
    BY <2>2, <2>3, <2>4
  <2>6. e \in Entries
    BY <2>4, <2>5 DEF Entries
  <2>7. Holds(s, e.roll + 1, e.offset + 1)
    BY <2>2, <2>3, <2>5 DEF Holds
  <2>8. Located(e) = Drafting(p)
    BY <2>1, <2>4, <2>5 DEF Located
  <2> QED BY <2>4, <2>6, <2>7, <2>8
<1> HIDE DEF e, k
<1>4. e # Zero
  BY <1>3, MarksApart
<1>5. /\ \A i \in Slots : timeline'[i] = IF i = k THEN e ELSE timeline[i]
      /\ \A q \in Producers : at'[q] = IF q = p THEN "idle" ELSE at[q]
      /\ \A q \in Producers : q # p => (Busy(q)' <=> Busy(q)) /\ (at'[q] = "write" <=> at[q] = "write")
      /\ ~Busy(p)' /\ at'[p] # "write"
      /\ \A q \in Producers : Drafting(q)' = Drafting(q)
  BY <1>1, <1>2 DEF Recorder, RecorderTyped, Busy, Drafting
<1>6. /\ \A i \in Slots : i # k => At(i)' = At(i)
      /\ \A i \in Slots : i = k => At(i)' = Drafting(p)
  <2>1. \A x : Located(x)' = Located(x)
    BY <1>1 DEF Located
  <2> QED BY <1>3, <1>5, <2>1 DEF At, Located
<1>7. RecorderTyped'
  BY <1>1, <1>3 DEF Recorder, RecorderTyped
<1>8. Tips'
  BY <1>1, <1>5 DEF Recorder, Tips
<1>9. /\ Drafting(p) \in Records
      /\ Drafting(p).channel = p
      /\ Drafting(p).seq = drafted[p]
      /\ drafted[p] \in Int
      /\ \A i \in Slots : i < cursor /\ i # k => RecordAt(i) # Drafting(p)
  BY <1>1, <1>2, RecordsMeant, RecordAtFacts DEF Busy, Writes, Recorder, RecorderTyped
<1>10. Placed'
  <2> SUFFICES ASSUME NEW i \in Slots, timeline'[i] # Zero, NEW f, f = timeline'[i]
               PROVE  /\ i < cursor
                      /\ Holds(rolls[f.channel], f.roll + 1, f.offset + 1)
                      /\ At(i)'.channel = f.channel
                      /\ At(i)'.seq <= drafted[f.channel]
                      /\ at'[f.channel] \in {"reserved", "claim", "write"} =>
                           At(i)'.seq < drafted[f.channel]
    BY <1>1 DEF Placed, Busy
  <2>1. CASE i = k
    <3>1. f = e
      BY <1>5, <2>1
    <3>2. At(i)' = Drafting(p)
      BY <1>6, <2>1
    <3>3. at'[p] \notin {"reserved", "claim", "write"}
      BY <1>5 DEF Busy
    <3> QED BY <1>2, <1>3, <1>9, <2>1, <3>1, <3>2, <3>3 DEF s
  <2>2. CASE i # k
    <3>1. /\ f = timeline[i] /\ f # Zero
          /\ At(i)' = At(i)
      BY <1>5, <1>6, <2>2
    <3>2. /\ f.channel \in Producers
          /\ i < cursor
          /\ Holds(rolls[f.channel], f.roll + 1, f.offset + 1)
          /\ At(i).channel = f.channel
          /\ At(i).seq <= drafted[f.channel]
          /\ Busy(f.channel) => At(i).seq < drafted[f.channel]
      BY <3>1, RecordsMeant DEF Entries, Recorder, Placed
    <3>3. at'[f.channel] \in {"reserved", "claim", "write"} => Busy(f.channel)
      BY <1>5, <3>2 DEF Busy
    <3> QED BY <3>1, <3>2, <3>3
  <2> QED BY <2>1, <2>2
<1>11. Distinct'
  <2>1. ASSUME NEW i \in Slots, i # k, timeline[i] # Zero
        PROVE  At(i) # Drafting(p)
    <3>1. i < cursor /\ RecordAt(i) = At(i)
      BY <2>1, RecordAtFacts DEF Recorder, Placed
    <3> QED BY <1>9, <2>1, <3>1
  <2> SUFFICES ASSUME NEW i \in Slots, NEW j \in Slots, timeline'[i] # Zero, timeline'[j] # Zero,
                      At(i)' = At(j)'
               PROVE  i = j
    BY DEF Distinct
  <2>2. CASE i = k \/ j = k
    BY <1>5, <1>6, <2>1, <2>2
  <2>3. CASE i # k /\ j # k
    BY <1>5, <1>6, <2>3 DEF Recorder, Distinct
  <2> QED BY <2>2, <2>3
<1>12. Claims'
  <2>1. ASSUME NEW q \in Producers, at'[q] = "write"
        PROVE  slot'[q] < cursor' /\ timeline'[slot'[q]] = Zero
    <3>1. q # p /\ at[q] = "write" /\ slot[q] # k
      BY <1>1, <1>5, <2>1 DEF Recorder, Claims, k
    <3>2. slot[q] < cursor /\ timeline[slot[q]] = Zero /\ slot[q] \in Nat
      BY <3>1 DEF Recorder, RecorderTyped, Claims
    <3>3. slot[q] \in Slots
      BY <3>2, ChronicleAssumption DEF Slots, Recorder, RecorderTyped
    <3> QED BY <1>1, <1>5, <3>1, <3>2, <3>3
  <2>2. ASSUME NEW i \in Slots, i < cursor', timeline'[i] = Zero
        PROVE  \E q \in Producers : Writes(q, i)'
    <3>1. i # k /\ timeline[i] = Zero
      BY <1>4, <1>5, <2>2
    <3>2. PICK q \in Producers : Writes(q, i)
      BY <1>1, <2>2, <3>1 DEF Recorder, Claims
    <3>3. q # p
      BY <3>1, <3>2 DEF Writes, k
    <3> QED BY <1>1, <1>5, <3>2, <3>3 DEF Writes
  <2>3. ASSUME NEW q \in Producers, NEW u \in Producers, at'[q] = "write", at'[u] = "write",
               slot'[q] = slot'[u]
        PROVE  q = u
    BY <1>1, <1>5, <2>3 DEF Recorder, Claims
  <2> QED BY <2>1, <2>2, <2>3 DEF Claims
<1>13. ASSUME NEW i \in Slots, i < cursor PROVE RecordAt(i)' = RecordAt(i)
  <2>1. CASE i = k
    <3>1. RecordAt(i) = Drafting(p)
      BY <1>2, <1>13, <2>1, RecordAtFacts
    <3>2. RecordAt(i)' = At(i)'
      BY <1>4, <1>5, <2>1 DEF RecordAt, At
    <3> QED BY <1>6, <2>1, <3>1, <3>2
  <2>2. CASE i # k /\ timeline[i] # Zero
    BY <1>5, <1>6, <1>13, <2>2, RecordAtFacts DEF RecordAt, At
  <2>3. CASE i # k /\ timeline[i] = Zero
    <3>1. PICK q \in Producers : Writes(q, i)
      BY <1>13, <2>3 DEF Recorder, Claims
    <3>2. RecordAt(i) = Drafting(q) /\ q # p
      BY <1>13, <2>3, <3>1, RecordAtFacts DEF Writes, k
    <3>3. at'[q] = "write" /\ slot'[q] = i
      BY <1>1, <1>5, <3>1, <3>2 DEF Writes
    <3>4. \A u \in Producers : at'[u] = "write" /\ slot'[u] = i => u = q
      BY <1>1, <1>12, <3>3 DEF Claims
    <3>5. (CHOOSE u \in Producers : at'[u] = "write" /\ slot'[u] = i) = q
      BY <3>3, <3>4
    <3>6. RecordAt(i)' = Drafting(q)'
      BY <1>5, <2>3, <3>5 DEF RecordAt, Drafting
    <3> QED BY <1>5, <3>2, <3>6
  <2> QED BY <2>1, <2>2, <2>3
<1>14. Causal'
  <2>1. Committed \subseteq Committed'
    <3>1. \A i \in Written : i \in Written' /\ At(i)' = At(i)
      BY <1>2, <1>5, <1>6 DEF Written
    <3>2. Committed = {At(i) : i \in Written} /\ Committed' = {At(i)' : i \in Written'}
      BY DEF Committed, At
    <3> QED BY <3>1, <3>2
  <2>2. ASSUME NEW i \in Slots, NEW j \in Slots, i < j, j < cursor'
        PROVE  RecordAt(j)' \notin preceding'[RecordAt(i)']
    <3>1. i < cursor /\ j < cursor
      BY <1>1, <2>2 DEF Slots, Recorder, RecorderTyped
    <3> QED BY <1>1, <1>13, <2>2, <3>1 DEF Recorder, Causal
  <2> QED BY <1>1, <2>1, <2>2 DEF Recorder, Causal
<1> QED BY <1>1, <1>7, <1>8, <1>10, <1>11, <1>12, <1>13, <1>14 DEF Recorder, Unclaimed

-----------------------------------------------------------------------------
(* The invariant of the replay.                                            *)

\* The first n entries are written, and their records are what was delivered.
Delivered(n) ==
  /\ n <= FileEntries
  /\ \A i \in Slots : i < n => timeline[i] # Zero
  /\ replayed = [i \in 1 .. n |-> At(i - 1)]

\* Where the player then stands.
Standing(n) ==
  /\ player = "none" => n = 0 /\ position = 0
  /\ player = "ready" /\ current # None =>
       n \in Slots /\ position = n + 1 /\ n < FileEntries /\ timeline[n] # Zero /\ current = At(n)
  /\ player = "ready" /\ current = None => n = FileEntries
  /\ player = "done" /\ ~shutdown => n = FileEntries
  /\ player = "threw" => n \in Slots /\ position = n + 1 /\ n < FileEntries /\ timeline[n] = Zero

Replayer ==
  /\ writer \in {"open", "closed", "crashed"}
  /\ player \in {"none", "ready", "done", "threw"}
  /\ writer = "open" => player = "none"
  /\ writer = "closed" => \A p \in Producers : at[p] \in {"idle", "failed"}
  /\ \E n \in Nat : Delivered(n) /\ Standing(n)

IInv == Recorder /\ Replayer

\* A player that has not opened the chronicle has delivered nothing.
LEMMA UnopenedStands ==
  ASSUME Recorder', player' = "none", position' = 0, replayed' = <<>>,
         writer' \in {"open", "closed", "crashed"},
         writer' = "closed" => \A p \in Producers : at'[p] \in {"idle", "failed"}
  PROVE  Replayer'
<1>1. FileEntries' \in Nat
  BY ChronicleAssumption DEF FileEntries, Recorder, RecorderTyped
<1>2. Delivered(0)'
  <2>1. <<>> = [i \in 1 .. 0 |-> At(i - 1)']
    OBVIOUS
  <2>2. \A i \in Slots : ~(i < 0)
    BY DEF Slots
  <2> QED BY <1>1, <2>1, <2>2 DEF Delivered
<1>3. Standing(0)'
  BY DEF Standing
<1> QED BY <1>2, <1>3 DEF Replayer

\* The player has delivered n records and reads the entry after them.
LEMMA ReadStands ==
  ASSUME Recorder, NEW n \in Nat, writer \in {"closed", "crashed"},
         writer = "closed" => \A p \in Producers : at[p] \in {"idle", "failed"},
         UNCHANGED <<disk, recorder, writer, shutdown>>,
         n <= FileEntries, \A i \in Slots : i < n => timeline[i] # Zero,
         replayed' = [i \in 1 .. n |-> At(i - 1)],
         position = n, NEW state \in {"ready", "done"}, state = "done" => AtEnd, ReadNext(state)
  PROVE  Replayer'
<1>1. /\ FileEntries \in Nat
      /\ FileEntries <= TimelineCapacity
      /\ FileEntries' = FileEntries
      /\ UNCHANGED <<timeline, rolls, at>>
  BY ChronicleAssumption DEF FileEntries, Recorder, RecorderTyped, disk, recorder
<1>2. Delivered(n)'
  <2>1. \A i \in 1 .. n : At(i - 1)' = At(i - 1)
    BY <1>1 DEF At, Located
  <2> QED BY <1>1, <2>1 DEF Delivered
<1>3. Standing(n)' /\ player' \in {"ready", "done", "threw"}
  <2>1. CASE AtEnd
    <3>1. n = FileEntries /\ player' = state /\ current' = None
      BY <1>1, <2>1 DEF AtEnd, ReadNext
    <3> QED BY <1>1, <3>1 DEF Standing
  <2>2. CASE ~AtEnd
    <3>1. n < FileEntries /\ n \in Slots /\ state = "ready"
      BY <1>1, <2>2, ChronicleAssumption DEF AtEnd, Slots
    <3>2. position' = n + 1
      BY <2>2 DEF ReadNext
    <3>3. CASE timeline[n] = Zero
      BY <1>1, <2>2, <3>1, <3>2, <3>3 DEF ReadNext, Unreadable, Standing
    <3>4. CASE timeline[n] # Zero
      <4>1. player' = "ready" /\ current' = At(n)
        BY <2>2, <3>1, <3>4 DEF ReadNext, Unreadable, At
      <4>2. current' # None
        BY <3>1, <3>4, <4>1, MarksApart, RecordsMeant
      <4>3. At(n)' = At(n)
        BY <1>1 DEF At, Located
      <4> QED BY <1>1, <3>1, <3>2, <3>4, <4>1, <4>2, <4>3 DEF Standing
    <3> QED BY <3>3, <3>4
  <2> QED BY <2>1, <2>2
<1>4. /\ writer' = writer
      /\ \A p \in Producers : at'[p] = at[p]
  BY <1>1
<1> QED BY <1>2, <1>3, <1>4 DEF Replayer

\* The recording's state is all there is to Recorder.
LEMMA RecorderStays ==
  ASSUME Recorder, UNCHANGED <<disk, recorder>>
  PROVE  /\ Recorder'
         /\ Unclaimed
<1>1. UNCHANGED <<at, drafted, rolls, cursor, seen, slot, timeline, preceding>>
  BY DEF disk, recorder
<1>2. \A i \in Slots : RecordAt(i)' = RecordAt(i)
  BY <1>1 DEF RecordAt, Located, Drafting
<1>3. Recorder'
  <2>1. /\ \A i \in Slots : At(i)' = At(i)
        /\ \A p \in Producers : Busy(p)' <=> Busy(p)
        /\ \A p \in Producers : Drafting(p)' = Drafting(p)
        /\ \A p \in Producers, i \in Slots : Writes(p, i)' <=> Writes(p, i)
    BY <1>1 DEF At, Located, Busy, Drafting, Writes
  <2>2. Committed' = Committed
    BY <1>1 DEF Committed, Written, Located
  <2>3. RecorderTyped'
    BY <1>1 DEF Recorder, RecorderTyped
  <2>4. Tips'
    BY <1>1, <2>1 DEF Recorder, Tips
  <2>5. Placed'
    <3>1. \A i \in Slots : timeline[i] # Zero => timeline[i].channel \in Producers
      BY RecordsMeant DEF Entries
    <3> QED BY <1>1, <2>1, <3>1 DEF Recorder, Placed
  <2>6. Distinct'
    BY <1>1, <2>1 DEF Recorder, Distinct
  <2>7. Claims'
    BY <1>1, <2>1 DEF Recorder, Claims
  <2>8. Causal'
    BY <1>1, <1>2, <2>2 DEF Recorder, Causal
  <2> QED BY <2>3, <2>4, <2>5, <2>6, <2>7, <2>8 DEF Recorder
<1> QED BY <1>1, <1>2, <1>3 DEF Unclaimed

\* A run delivers the record that the player holds, and reads on.
LEMMA RunKept ==
  ASSUME IInv, Run
  PROVE  /\ IInv'
         /\ Unclaimed
         /\ \E n \in Nat :
              /\ n \in Slots /\ n < cursor
              /\ Delivered(n)
              /\ replayed' = Append(replayed, RecordAt(n))
<1>1. /\ player = "ready" /\ current # None
      /\ UNCHANGED <<disk, recorder, writer, shutdown>>
      /\ replayed' = Append(replayed, current)
      /\ ReadNext(IF AtEnd THEN "done" ELSE "ready")
  BY DEF Run
<1>2. Recorder' /\ Unclaimed
  BY <1>1, RecorderStays DEF IInv
<1>3. PICK n \in Nat : Delivered(n) /\ Standing(n)
  BY DEF IInv, Replayer
<1>4. /\ n \in Slots /\ position = n + 1 /\ n < FileEntries /\ timeline[n] # Zero
      /\ current = At(n)
      /\ replayed = [i \in 1 .. n |-> At(i - 1)]
  BY <1>1, <1>3 DEF Delivered, Standing
<1>5. n < cursor /\ RecordAt(n) = At(n)
  BY <1>4, RecordAtFacts DEF IInv, Recorder, Placed
<1>6. replayed' = [i \in 1 .. n + 1 |-> At(i - 1)]
  <2> DEFINE f == [i \in 1 .. n |-> At(i - 1)]
             g == [i \in 1 .. n + 1 |-> At(i - 1)]
             m == n + 1
  <2>1. \A i \in 1 .. m : At(i - 1) \in Records
    <3>1. \A i \in 1 .. m : i - 1 \in Slots /\ timeline[i - 1] # Zero
      <4> SUFFICES ASSUME NEW i \in 1 .. m PROVE i - 1 \in Slots /\ timeline[i - 1] # Zero
        OBVIOUS
      <4>1. i - 1 \in Slots /\ (i - 1 < n \/ i - 1 = n)
        BY <1>4, ChronicleAssumption DEF Slots
      <4> QED BY <1>3, <1>4, <4>1 DEF Delivered
    <3> QED BY <3>1, RecordsMeant DEF IInv
  <2>2. f \in Seq(Records) /\ Len(f) = n /\ \A i \in 1 .. n : f[i] = At(i - 1)
    <3>1. n \in Nat /\ \A i \in 1 .. n : i \in 1 .. m
      OBVIOUS
    <3> HIDE DEF m
    <3>2. f \in [1 .. n -> Records] /\ \A i \in 1 .. n : f[i] = At(i - 1)
      BY <2>1, <3>1
    <3> HIDE DEF f
    <3>3. f \in Seq(Records)
      BY <3>1, <3>2, SeqDef
    <3>4. Len(f) = n
      BY <3>1, <3>2, <3>3, LenProperties
    <3> QED BY <3>2, <3>3, <3>4
  <2>3. g \in Seq(Records) /\ Len(g) = m /\ \A i \in 1 .. m : g[i] = At(i - 1)
    <3>1. m \in Nat /\ g \in [1 .. m -> Records] /\ \A i \in 1 .. m : g[i] = At(i - 1)
      BY <2>1
    <3> HIDE DEF g, m
    <3>2. g \in Seq(Records)
      BY <3>1, SeqDef
    <3>3. Len(g) = m
      BY <3>1, <3>2, LenProperties
    <3> QED BY <3>1, <3>2, <3>3
  <2>4. At(n) \in Records
    BY <2>1
  <2>5. m = n + 1 /\ \A i \in 1 .. m : i \in 1 .. n \/ (i = n + 1 /\ i - 1 = n)
    OBVIOUS
  <2> HIDE DEF f, g, m
  <2>6. /\ Append(f, At(n)) \in Seq(Records)
        /\ Len(Append(f, At(n))) = m
        /\ \A i \in 1 .. n : Append(f, At(n))[i] = f[i]
        /\ Append(f, At(n))[n + 1] = At(n)
    BY <2>2, <2>4, <2>5, AppendProperties
  <2>7. \A i \in 1 .. m : Append(f, At(n))[i] = g[i]
    BY <2>2, <2>3, <2>5, <2>6
  <2>8. Append(f, At(n)) = g
    BY <2>3, <2>6, <2>7, SeqEqual
  <2>9. replayed' = Append(f, At(n))
    BY <1>1, <1>4 DEF f
  <2> QED BY <2>8, <2>9 DEF g
<1>7. Replayer'
  <2>1. /\ FileEntries \in Nat
        /\ n + 1 \in Nat /\ n + 1 <= FileEntries
        /\ \A i \in Slots : i < n + 1 => timeline[i] # Zero
    BY <1>3, <1>4, ChronicleAssumption
       DEF FileEntries, Delivered, Slots, IInv, Recorder, RecorderTyped
  <2>2. writer \in {"closed", "crashed"}
    BY <1>1 DEF IInv, Replayer
  <2>3. writer = "closed" => \A p \in Producers : at[p] \in {"idle", "failed"}
    BY DEF IInv, Replayer
  <2>4. CASE AtEnd
    BY <1>1, <1>4, <1>6, <2>1, <2>2, <2>3, <2>4, ReadStands DEF IInv
  <2>5. CASE ~AtEnd
    BY <1>1, <1>4, <1>6, <2>1, <2>2, <2>3, <2>5, ReadStands DEF IInv
  <2> QED BY <2>4, <2>5
<1> QED BY <1>1, <1>2, <1>3, <1>4, <1>5, <1>7 DEF IInv

\* A producer's steps, all of them while nobody replays.
LEMMA ProduceKept ==
  ASSUME IInv, NEW p \in Producers, Produce(p)
  PROVE  /\ IInv'
         /\ Unclaimed \/ Claim(p)
         /\ UNCHANGED <<writer, replayed>>
         /\ writer = "open"
<1>1. Recorder' /\ (Unclaimed \/ Claim(p))
  <2>1. CASE Reserve(p)
    BY <2>1, ReserveKept DEF IInv
  <2>2. CASE Drop(p)
    BY <2>2, EndsDraft DEF Drop, IInv
  <2>3. CASE LoadCursor(p) \/ Reload(p)
    BY <2>3, LoadKept DEF IInv
  <2>4. CASE FailToAppend(p)
    BY <2>4, EndsDraft DEF FailToAppend, IInv
  <2>5. CASE Claim(p)
    BY <2>5, ClaimKept DEF IInv
  <2>6. CASE WriteEntry(p)
    BY <2>6, WriteEntryKept DEF IInv
  <2> QED BY <2>1, <2>2, <2>3, <2>4, <2>5, <2>6 DEF Produce
<1>2. writer = "open" /\ UNCHANGED <<writer, replay>>
  BY DEF Produce, Reserve, Drop, LoadCursor, FailToAppend, Claim, Reload, WriteEntry
<1>3. Replayer'
  <2>1. player = "none"
    BY <1>2 DEF IInv, Replayer
  <2>2. position = 0 /\ replayed = <<>>
    BY <2>1 DEF IInv, Replayer, Standing, Delivered
  <2> QED BY <1>1, <1>2, <2>1, <2>2, UnopenedStands DEF replay
<1> QED BY <1>1, <1>2, <1>3 DEF IInv, replay

\* The writer goes, by its destructor or with the process.
LEMMA StopKept ==
  ASSUME IInv, Close \/ Crash
  PROVE  /\ IInv'
         /\ Unclaimed
         /\ writer = "open" /\ writer' # "open"
         /\ UNCHANGED replayed
<1>1. /\ writer = "open" /\ writer' \in {"closed", "crashed"}
      /\ UNCHANGED <<disk, recorder, replay>>
      /\ writer' = "closed" => \A p \in Producers : at[p] \in {"idle", "failed"}
  BY DEF Close, Crash
<1>2. Recorder' /\ Unclaimed
  BY <1>1, RecorderStays DEF IInv
<1>3. at' = at
  BY <1>1 DEF recorder
<1>4. player = "none"
  BY <1>1 DEF IInv, Replayer
<1>5. position = 0 /\ replayed = <<>>
  BY <1>4 DEF IInv, Replayer, Standing, Delivered
<1>6. Replayer'
  BY <1>1, <1>2, <1>3, <1>4, <1>5, UnopenedStands DEF replay
<1> QED BY <1>1, <1>2, <1>6 DEF IInv, replay

\* The player opens the chronicle, is told to stop, or ends.
LEMMA PlayerKept ==
  ASSUME IInv, Open \/ Finish \/ RequestShutdown
  PROVE  /\ IInv'
         /\ Unclaimed
         /\ UNCHANGED <<writer, replayed>>
<1>1. UNCHANGED <<disk, recorder, writer, replayed>>
  BY DEF Open, Finish, RequestShutdown
<1>2. Recorder' /\ Unclaimed
  BY <1>1, RecorderStays DEF IInv
<1>3. CASE Open
  <2>1. /\ writer # "open" /\ player = "none" /\ ReadNext("ready")
        /\ UNCHANGED <<disk, recorder, writer, shutdown>>
    BY <1>3 DEF Open
  <2>2. /\ writer \in {"closed", "crashed"}
        /\ writer = "closed" => \A p \in Producers : at[p] \in {"idle", "failed"}
        /\ position = 0
    BY <2>1 DEF IInv, Replayer, Standing
  <2>3. PICK k \in Nat : Delivered(k) /\ Standing(k)
    BY DEF IInv, Replayer
  <2>4. /\ k = 0 /\ 0 <= FileEntries
        /\ \A i \in Slots : i < k => timeline[i] # Zero
        /\ replayed' = [i \in 1 .. k |-> At(i - 1)]
    BY <1>1, <2>1, <2>3 DEF Delivered, Standing
  <2>5. Replayer'
    BY <2>1, <2>2, <2>4, ReadStands DEF IInv
  <2> QED BY <1>1, <1>2, <2>5 DEF IInv
<1>4. CASE Finish \/ RequestShutdown
  <2>1. /\ UNCHANGED <<position, current, at, timeline, rolls, cursor>>
        /\ player = "ready" /\ player' \in {"ready", "done"}
        /\ player' = "done" => shutdown' \/ current = None
        /\ player' = "done" => shutdown' = shutdown
    BY <1>1, <1>4 DEF Finish, RequestShutdown, disk, recorder
  <2>2. PICK n \in Nat : Delivered(n) /\ Standing(n)
    BY DEF IInv, Replayer
  <2>3. FileEntries' = FileEntries /\ \A i \in Slots : At(i)' = At(i)
    BY <1>1, <2>1 DEF FileEntries, At, Located
  <2>4. \A i : At(i)' = At(i)
    BY <2>1 DEF At, Located
  <2>5. Delivered(n)'
    BY <1>1, <2>1, <2>2, <2>3, <2>4 DEF Delivered
  <2>6. Standing(n)'
    BY <2>1, <2>2, <2>3 DEF Standing
  <2>7. Replayer'
    BY <1>1, <2>1, <2>5, <2>6 DEF IInv, Replayer
  <2> QED BY <1>1, <1>2, <2>7 DEF IInv
<1> QED BY <1>3, <1>4

\* A step that changes nothing.
LEMMA StutterKept ==
  ASSUME IInv, UNCHANGED vars
  PROVE  IInv' /\ Unclaimed
<1>1. UNCHANGED <<disk, recorder, writer, replay>>
  BY DEF vars, recorder
<1>2. Recorder' /\ Unclaimed
  BY <1>1, RecorderStays DEF IInv
<1>3. /\ UNCHANGED <<player, position, current, shutdown, replayed, at, timeline, rolls, cursor>>
      /\ writer' = writer
  BY <1>1 DEF replay, disk, recorder
<1>4. FileEntries' = FileEntries /\ \A i : At(i)' = At(i)
  BY <1>3 DEF FileEntries, At, Located
<1>5. PICK n \in Nat : Delivered(n) /\ Standing(n)
  BY DEF IInv, Replayer
<1>6. Delivered(n)'
  BY <1>3, <1>4, <1>5 DEF Delivered
<1>7. Standing(n)'
  BY <1>3, <1>4, <1>5 DEF Standing
<1>8. Replayer'
  BY <1>3, <1>6, <1>7 DEF IInv, Replayer
<1> QED BY <1>2, <1>8 DEF IInv

\* Nothing is recorded yet and nobody replays.
LEMMA InitKept == Init => IInv
<1> SUFFICES ASSUME Init PROVE IInv
  OBVIOUS
<1>1. /\ 0 \in 0 .. TimelineCapacity
      /\ 0 \in 0 .. MaxRecords
      /\ TimelineCapacity \in Nat
      /\ \A i \in Slots : ~(i < 0)
      /\ <<>> \in Seq(Seq(Records))
  BY ChronicleAssumption DEF Slots
<1>2. RecorderTyped
  BY <1>1 DEF Init, RecorderTyped
<1>3. Tips /\ Placed /\ Distinct /\ Claims
  BY <1>1 DEF Init, Tips, Placed, Distinct, Claims, Busy
<1>4. Causal
  <2>1. \A r \in Records : preceding[r] \subseteq Committed
    BY DEF Init
  <2>2. \A j \in Slots : ~(j < cursor)
    BY <1>1 DEF Init
  <2> QED BY <2>1, <2>2 DEF Causal
<1>5. Replayer
  <2>1. FileEntries \in Nat
    BY <1>1 DEF FileEntries, Init
  <2>2. Delivered(0)
    <3>1. <<>> = [i \in 1 .. 0 |-> At(i - 1)]
      OBVIOUS
    <3> QED BY <1>1, <2>1, <3>1 DEF Delivered, Init
  <2>3. Standing(0)
    BY DEF Standing, Init
  <2> QED BY <2>2, <2>3 DEF Replayer, Init
<1> QED BY <1>2, <1>3, <1>4, <1>5 DEF IInv, Recorder

\* Every step keeps the invariant.
LEMMA StepKept == IInv /\ [Next]_vars => IInv'
<1> SUFFICES ASSUME IInv, [Next]_vars PROVE IInv'
  OBVIOUS
<1>1. CASE \E p \in Producers : Produce(p)
  BY <1>1, ProduceKept
<1>2. CASE Close \/ Crash
  BY <1>2, StopKept
<1>3. CASE Open \/ Finish \/ RequestShutdown
  BY <1>3, PlayerKept
<1>4. CASE Run
  BY <1>4, RunKept
<1>5. CASE UNCHANGED vars
  BY <1>5, StutterKept
<1> QED BY <1>1, <1>2, <1>3, <1>4, <1>5 DEF Next, Play

\* The invariant holds throughout.
LEMMA Invariance == Spec => []IInv
<1>1. Init => IInv
  BY InitKept
<1>2. IInv /\ [Next]_vars => IInv'
  BY StepKept
<1> QED BY <1>1, <1>2, PTL DEF Spec

-----------------------------------------------------------------------------
(* What a replay hands out.                                                *)

\* The records of the first entries, which are the first of the log.
LEMMA Prefix ==
  ASSUME IInv, NEW n \in Nat, Delivered(n)
  PROVE  /\ replayed \in Seq(Records)
         /\ Len(replayed) = n
         /\ DOMAIN replayed = 1 .. n
         /\ \A i \in 1 .. n :
              /\ i - 1 \in Slots /\ i - 1 < cursor /\ timeline[i - 1] # Zero
              /\ replayed[i] = At(i - 1) /\ RecordAt(i - 1) = At(i - 1)
<1>1. FileEntries \in Nat /\ FileEntries <= TimelineCapacity
  BY ChronicleAssumption DEF FileEntries, IInv, Recorder, RecorderTyped
<1>2. \A i \in 1 .. n : i - 1 \in Slots /\ i - 1 < n
  BY <1>1, ChronicleAssumption DEF Delivered, Slots
<1>3. \A i \in 1 .. n : timeline[i - 1] # Zero
  BY <1>2 DEF Delivered
<1>4. \A i \in 1 .. n : i - 1 < cursor /\ RecordAt(i - 1) = At(i - 1)
  BY <1>2, <1>3, RecordAtFacts DEF IInv, Recorder, Placed
<1>5. \A i \in 1 .. n : At(i - 1) \in Records
  BY <1>2, <1>3, RecordsMeant DEF IInv
<1>6. /\ replayed \in [1 .. n -> Records]
      /\ \A i \in 1 .. n : replayed[i] = At(i - 1)
  BY <1>5 DEF Delivered
<1>7. replayed \in Seq(Records) /\ DOMAIN replayed = 1 .. n
  BY <1>6, SeqDef
<1>8. Len(replayed) = n
  BY <1>6, <1>7, LenProperties
<1> QED BY <1>2, <1>3, <1>4, <1>6, <1>7, <1>8

\* A reaction is never replayed before what it reacts to, whatever the number of
\* producers, and in a replay after a crash as well.
THEOREM ReactionsFollow == Spec => []CausalOrder
<1>1. IInv => CausalOrder
  <2> SUFFICES ASSUME IInv, NEW i \in DOMAIN replayed, NEW j \in DOMAIN replayed, i < j
               PROVE  replayed[j] \notin preceding[replayed[i]]
    BY DEF CausalOrder
  <2>1. PICK n \in Nat : Delivered(n)
    BY DEF IInv, Replayer
  <2>2. i \in 1 .. n /\ j \in 1 .. n /\ i - 1 < j - 1
    BY <2>1, Prefix
  <2>3. /\ i - 1 \in Slots /\ j - 1 \in Slots /\ j - 1 < cursor
        /\ replayed[i] = RecordAt(i - 1) /\ replayed[j] = RecordAt(j - 1)
    BY <2>1, <2>2, Prefix
  <2> DEFINE k == i - 1
             m == j - 1
  <2>4. /\ k \in Slots /\ m \in Slots /\ k < m /\ m < cursor
        /\ replayed[i] = RecordAt(k) /\ replayed[j] = RecordAt(m)
    BY <2>2, <2>3
  <2> HIDE DEF k, m
  <2> QED BY <2>4 DEF IInv, Recorder, Causal
<1> QED BY <1>1, Invariance, PTL

\* A replay that runs to the end of a chronicle whose writer was destroyed has
\* delivered all that was committed, and never meets an entry it cannot read.
THEOREM CleanReplayIsComplete == Spec => []NothingLost
<1>1. IInv => NothingLost
  <2> SUFFICES ASSUME IInv, writer = "closed"
               PROVE  /\ player # "threw"
                      /\ player = "done" /\ ~shutdown =>
                           Committed = {replayed[i] : i \in DOMAIN replayed}
    BY DEF NothingLost
  <2>1. PICK n \in Nat : Delivered(n) /\ Standing(n)
    BY DEF IInv, Replayer
  <2>2. FileEntries = cursor
    BY DEF FileEntries
  <2>3. player # "threw"
    <3> SUFFICES ASSUME player = "threw" PROVE FALSE
      OBVIOUS
    <3>1. n \in Slots /\ n < cursor /\ timeline[n] = Zero
      BY <2>1, <2>2 DEF Standing
    <3>2. PICK p \in Producers : Writes(p, n)
      BY <3>1 DEF IInv, Recorder, Claims
    <3> QED BY <3>2 DEF Writes, IInv, Replayer
  <2>4. ASSUME player = "done", ~shutdown
        PROVE  Committed = {replayed[i] : i \in DOMAIN replayed}
    <3>1. n = cursor
      BY <2>1, <2>2, <2>4 DEF Standing
    <3>2. ASSUME NEW k \in Written
          PROVE  \E i \in DOMAIN replayed : replayed[i] = At(k)
      <4>1. k \in Nat /\ k < n
        BY <3>1, <3>2 DEF Written, Slots, IInv, Recorder, Placed
      <4>2. k + 1 \in 1 .. n /\ k + 1 - 1 = k
        BY <4>1
      <4> DEFINE i == k + 1
      <4>3. i \in 1 .. n /\ i - 1 = k
        BY <4>1
      <4> HIDE DEF i
      <4>4. i \in DOMAIN replayed /\ replayed[i] = At(i - 1)
        BY <2>1, <4>3, Prefix
      <4> QED BY <4>3, <4>4
    <3>3. ASSUME NEW i \in DOMAIN replayed
          PROVE  \E k \in Written : replayed[i] = At(k)
      BY <2>1, <3>3, Prefix DEF Written
    <3>4. Committed = {At(k) : k \in Written}
      BY DEF Committed, At
    <3> QED BY <3>2, <3>3, <3>4
  <2> QED BY <2>3, <2>4
<1> QED BY <1>1, Invariance, PTL

\* A crash costs a replay only what comes after the first slot that was not
\* written, which is past the last claim or of a producer that was killed
\* between its claim and its write.
THEOREM CrashCostsTheTail == Spec => []CrashKeepsPrefix
<1>1. IInv => CrashKeepsPrefix
  <2> SUFFICES ASSUME IInv, player = "threw"
               PROVE  /\ replayed = [i \in 1 .. position - 1 |-> Located(timeline[i - 1])]
                      /\ \/ position - 1 = cursor
                         \/ \E p \in Producers : at[p] = "write" /\ slot[p] = position - 1
    BY DEF CrashKeepsPrefix
  <2>1. PICK n \in Nat : Delivered(n) /\ Standing(n)
    BY DEF IInv, Replayer
  <2>2. n \in Slots /\ position - 1 = n /\ timeline[n] = Zero
    BY <2>1 DEF Standing
  <2>3. replayed = [i \in 1 .. position - 1 |-> Located(timeline[i - 1])]
    BY <2>1, <2>2 DEF Delivered, At
  <2>4. CASE n = cursor
    BY <2>2, <2>3, <2>4
  <2>5. CASE n < cursor
    <3>1. PICK p \in Producers : Writes(p, n)
      BY <2>2, <2>5 DEF IInv, Recorder, Claims
    <3> QED BY <2>2, <2>3, <3>1 DEF Writes
  <2>6. ~(cursor < n)
    <3> SUFFICES ASSUME cursor < n PROVE FALSE
      OBVIOUS
    <3>1. cursor \in Slots
      BY <2>2, ChronicleAssumption DEF Slots, IInv, Recorder, RecorderTyped
    <3>2. timeline[cursor] # Zero
      BY <2>1, <3>1 DEF Delivered
    <3>3. cursor < cursor /\ cursor \in Nat
      BY <3>1, <3>2 DEF IInv, Recorder, Placed, RecorderTyped
    <3> QED BY <3>3
  <2>7. cursor \in Int /\ n \in Int
    BY DEF IInv, Recorder, RecorderTyped
  <2> QED BY <2>4, <2>5, <2>6, <2>7
<1> QED BY <1>1, Invariance, PTL

-----------------------------------------------------------------------------
(* The refinement.                                                         *)

\* The log that the claims of the timeline make up.
Logged == [i \in 1 .. cursor |-> RecordAt(i - 1)]

\* It is one record for each claim.
LEMMA LoggedFacts ==
  ASSUME Recorder
  PROVE  /\ Logged \in Seq(Records)
         /\ Len(Logged) = cursor
         /\ DOMAIN Logged = 1 .. cursor
         /\ \A i \in 1 .. cursor :
              i - 1 \in Slots /\ i - 1 < cursor /\ Logged[i] = RecordAt(i - 1)
<1>1. cursor \in Nat /\ \A i \in 1 .. cursor : i - 1 \in Slots /\ i - 1 < cursor
  BY ChronicleAssumption DEF Recorder, RecorderTyped, Slots
<1>2. \A i \in 1 .. cursor : RecordAt(i - 1) \in Records
  BY <1>1, RecordAtFacts
<1>3. /\ Logged \in [1 .. cursor -> Records]
      /\ \A i \in 1 .. cursor : Logged[i] = RecordAt(i - 1)
  BY <1>2 DEF Logged
<1>4. Logged \in Seq(Records)
  BY <1>1, <1>3, SeqDef
<1>5. Len(Logged) = cursor /\ DOMAIN Logged = 1 .. cursor
  BY <1>1, <1>3, <1>4, LenProperties
<1> QED BY <1>1, <1>3, <1>4, <1>5

\* Without a claim the log stays.
LEMMA LogStays ==
  ASSUME Recorder, Recorder', Unclaimed
  PROVE  Logged' = Logged
<1>1. cursor' = cursor /\ \A i \in Slots : i < cursor => RecordAt(i)' = RecordAt(i)
  BY DEF Unclaimed
<1>2. \A i \in 1 .. cursor : i - 1 \in Slots /\ i - 1 < cursor
  BY LoggedFacts
<1>3. \A i \in 1 .. cursor : RecordAt(i - 1)' = RecordAt(i - 1)
  BY <1>1, <1>2
<1> QED BY <1>1, <1>3 DEF Logged

\* A claim appends the record of the producer, which was not in the log.
LEMMA ClaimRecords ==
  ASSUME Recorder, NEW p \in Producers, Claim(p)
  PROVE  /\ cursor < TimelineCapacity
         /\ Drafting(p) \in Records
         /\ \A i \in DOMAIN Logged : Logged[i] # Drafting(p)
         /\ Logged' = Append(Logged, Drafting(p))
<1> DEFINE x == Drafting(p)
           n == cursor
           m == n + 1
<1>1. /\ Recorder'
      /\ cursor \in Slots /\ cursor' = cursor + 1
      /\ \A i \in Slots : i < cursor => RecordAt(i)' = RecordAt(i) /\ RecordAt(i) # x
      /\ \A c \in Slots : c = cursor => RecordAt(c)' = x
      /\ x \in Records
  BY ClaimKept
<1>2. cursor \in Nat /\ cursor < TimelineCapacity
  BY <1>1, ChronicleAssumption DEF Slots
<1>3. /\ Logged \in Seq(Records)
      /\ Len(Logged) = cursor
      /\ DOMAIN Logged = 1 .. cursor
      /\ \A i \in 1 .. cursor : i - 1 \in Slots /\ i - 1 < cursor /\ Logged[i] = RecordAt(i - 1)
  BY LoggedFacts
<1>4. /\ cursor' \in Nat
      /\ \A k \in 0 .. cursor' - 1 : RecordAt(k)' \in Records
  <2>1. \A k \in 0 .. cursor' - 1 : k \in Slots /\ (k < cursor \/ k = cursor)
    BY <1>1, <1>2, ChronicleAssumption DEF Slots
  <2>2. \A k \in Slots : k < cursor => RecordAt(k)' \in Records
    BY <1>1, RecordAtFacts
  <2> QED BY <1>1, <1>2, <2>1, <2>2
<1>5. \A i \in DOMAIN Logged : Logged[i] # x
  BY <1>1, <1>3
<1>6. m \in Nat /\ cursor' = m /\ \A i \in 1 .. m : i \in 1 .. n \/ (i = m /\ i - 1 = n)
  BY <1>1, <1>2
<1> HIDE DEF x
<1>7. /\ Append(Logged, x) \in Seq(Records)
      /\ Len(Append(Logged, x)) = m
      /\ \A i \in 1 .. n : Append(Logged, x)[i] = Logged[i]
      /\ Append(Logged, x)[m] = x
  BY <1>1, <1>3, AppendProperties
<1>8. /\ Logged' \in Seq(Records)
      /\ Len(Logged') = m
      /\ \A i \in 1 .. m : Logged'[i] = RecordAt(i - 1)'
  <2>1. \A i \in 1 .. m : i - 1 \in 0 .. cursor' - 1
    BY <1>2, <1>6
  <2>2. \A i \in 1 .. m : RecordAt(i - 1)' \in Records
    BY <1>4, <2>1
  <2> HIDE DEF m
  <2>3. /\ Logged' \in [1 .. m -> Records]
        /\ \A i \in 1 .. m : Logged'[i] = RecordAt(i - 1)'
    BY <1>6, <2>2 DEF Logged
  <2>4. Logged' \in Seq(Records)
    BY <1>6, <2>3, SeqDef
  <2>5. Len(Logged') = m
    BY <1>6, <2>3, <2>4, LenProperties
  <2> QED BY <2>3, <2>4, <2>5
<1>9. \A i \in 1 .. n : Logged'[i] = Logged[i]
  <2> SUFFICES ASSUME NEW i \in 1 .. n PROVE Logged'[i] = Logged[i]
    OBVIOUS
  <2>1. i \in 1 .. m
    BY <1>2
  <2>2. Logged'[i] = RecordAt(i - 1)'
    BY <1>8, <2>1
  <2>3. i - 1 \in Slots /\ i - 1 < cursor /\ Logged[i] = RecordAt(i - 1)
    BY <1>3
  <2> DEFINE k == i - 1
  <2>4. k \in Slots /\ k < cursor /\ Logged[i] = RecordAt(k) /\ Logged'[i] = RecordAt(k)'
    BY <2>2, <2>3
  <2> HIDE DEF k
  <2> QED BY <1>1, <2>4
<1>10. Logged'[m] = x
  <2>1. m \in 1 .. m /\ m - 1 = cursor
    BY <1>2
  <2>2. ASSUME NEW i \in 1 .. m, i = m PROVE Logged'[i] = x
    <3> DEFINE k == i - 1
    <3>1. Logged'[i] = RecordAt(k)'
      BY <1>8
    <3>2. k = cursor
      BY <2>1, <2>2
    <3> HIDE DEF k
    <3> QED BY <1>1, <3>1, <3>2
  <2> HIDE DEF m
  <2> QED BY <2>1, <2>2
<1> HIDE DEF m, n
<1>11. \A i \in 1 .. m : Logged'[i] = Append(Logged, x)[i]
  BY <1>6, <1>7, <1>9, <1>10
<1>12. Logged' = Append(Logged, x)
  BY <1>8, <1>7, <1>11, SeqEqual
<1> QED BY <1>1, <1>2, <1>5, <1>12 DEF x

\* The steps of the log, told by what the timeline's claims make up.
LEMMA LogSteps ==
  /\ AsLog!Init <=> Logged = <<>> /\ (writer = "open") = TRUE /\ replayed = <<>>
  /\ \A r : AsLog!Record(r) <=>
       /\ writer = "open"
       /\ Len(Logged) < TimelineCapacity
       /\ \A i \in DOMAIN Logged : Logged[i] # r
       /\ Logged' = Append(Logged, r)
       /\ (writer' = "open") = (writer = "open")
       /\ replayed' = replayed
  /\ AsLog!Stop <=>
       /\ writer = "open"
       /\ (writer' = "open") = FALSE
       /\ Logged' = Logged /\ replayed' = replayed
  /\ AsLog!Replay <=>
       /\ writer # "open"
       /\ Len(replayed) < Len(Logged)
       /\ replayed' = Append(replayed, Logged[Len(replayed) + 1])
       /\ Logged' = Logged /\ (writer' = "open") = (writer = "open")
  /\ UNCHANGED AsLog!vars <=>
       Logged' = Logged /\ (writer' = "open") = (writer = "open") /\ replayed' = replayed
  BY DEF AsLog!Init, AsLog!Record, AsLog!Stop, AsLog!Replay, AsLog!vars, Logged

\* A chronicle is a log: the claims of all producers append to it one by one,
\* nothing that was appended changes, and a replay reads it from the front.
THEOREM ChronicleIsLog == Spec => KeepsLog
<1>1. Init => AsLog!Init
  <2> SUFFICES ASSUME Init PROVE Logged = <<>> /\ (writer = "open") = TRUE /\ replayed = <<>>
    BY LogSteps
  <2>1. cursor = 0
    BY DEF Init
  <2>2. [i \in 1 .. 0 |-> RecordAt(i - 1)] = <<>>
    OBVIOUS
  <2> QED BY <2>1, <2>2 DEF Init, Logged
<1>2. IInv /\ IInv' /\ [Next]_vars => [AsLog!Next]_(AsLog!vars)
  <2> SUFFICES ASSUME IInv, IInv', [Next]_vars PROVE AsLog!Next \/ UNCHANGED AsLog!vars
    OBVIOUS
  <2>1. Recorder /\ Recorder'
    BY DEF IInv
  <2>2. CASE \E p \in Producers : Produce(p)
    <3>1. PICK p \in Producers : Produce(p)
      BY <2>2
    <3>2. writer = "open" /\ writer' = writer /\ replayed' = replayed
      BY <3>1, ProduceKept
    <3>3. CASE Claim(p)
      <4>1. AsLog!Record(Drafting(p)) /\ Drafting(p) \in Records
        BY <2>1, <3>2, <3>3, ClaimRecords, LoggedFacts, LogSteps
      <4> QED BY <4>1 DEF AsLog!Next
    <3>4. CASE Unclaimed
      BY <2>1, <3>2, <3>4, LogStays, LogSteps
    <3> QED BY <3>1, <3>3, <3>4, ProduceKept
  <2>3. CASE Close \/ Crash
    <3>1. AsLog!Stop
      BY <2>1, <2>3, StopKept, LogStays, LogSteps
    <3> QED BY <3>1 DEF AsLog!Next
  <2>4. CASE Open \/ Finish \/ RequestShutdown
    BY <2>1, <2>4, PlayerKept, LogStays, LogSteps
  <2>5. CASE Run
    <3>1. PICK n \in Nat :
            /\ n \in Slots /\ n < cursor
            /\ Delivered(n)
            /\ replayed' = Append(replayed, RecordAt(n))
      BY <2>5, RunKept
    <3>2. Unclaimed /\ writer' = writer /\ writer # "open"
      BY <2>5, RunKept DEF Run, IInv, Replayer
    <3>3. Len(replayed) = n /\ Len(Logged) = cursor
      BY <2>1, <3>1, Prefix, LoggedFacts
    <3>4. Logged[n + 1] = RecordAt(n)
      <4> DEFINE k == n + 1
      <4>1. k \in 1 .. cursor /\ k - 1 = n
        BY <2>1, <3>1 DEF Recorder, RecorderTyped
      <4> HIDE DEF k
      <4>2. Logged[k] = RecordAt(k - 1)
        BY <2>1, <4>1, LoggedFacts
      <4> QED BY <4>1, <4>2 DEF k
    <3>5. Logged' = Logged
      BY <2>1, <3>2, LogStays
    <3>6. AsLog!Replay
      BY <3>1, <3>2, <3>3, <3>4, <3>5, LogSteps
    <3> QED BY <3>6 DEF AsLog!Next
  <2>6. CASE UNCHANGED vars
    <3>1. writer' = writer /\ replayed' = replayed
      BY <2>6 DEF vars, replay
    <3> QED BY <2>1, <2>6, <3>1, StutterKept, LogStays, LogSteps
  <2> QED BY <2>2, <2>3, <2>4, <2>5, <2>6 DEF Next, Play
<1> QED BY <1>1, <1>2, Invariance, PTL DEF Spec, KeepsLog, AsLog!Spec
=============================================================================
