---------------------------- MODULE ChannelProofs ---------------------------
(***************************************************************************)
(* Spans and records of a channel share no byte, lie in their files and    *)
(* are found again by their entries, for any sizes, any number of handles  *)
(* and of rolls, and wherever the kernel maps them, as long as callers     *)
(* commit what they shrank and no roll ends where another may begin.       *)
(***************************************************************************)
EXTENDS Channel, SequenceTheorems, TLAPS

\* flattenDraft asks for whole words and commits at once, and an exception
\* from reserve() ends the producer; see ChannelShrink.cfg, ChannelOpenFails.cfg.
DisciplinedUse ==
  /\ ~ReuseShrunk /\ ~RetryFailed
  /\ \A s \in FrameSizes : s % Word = 0

\* A roll is smaller than the address space, and between the end of one and
\* the beginning of another there is a gap; see ChannelForeignRewind.cfg.
RollsHaveGaps ==
  \A s \in Sizes \cup FrameSizes :
    LET bytes == CapacityFor(RoundUpToWord(s))
    IN  /\ bytes < AddressSpace
        /\ \A b, c \in Bases :
             b + bytes <= AddressSpace => (b + bytes) % AddressSpace # c

-----------------------------------------------------------------------------
(* The invariant, of a channel, a function of slots and a timeline: calls   *)
(* are chains of smaller changes of the three.                              *)

RollType == [id : Nat, base : Nat, capacity : Nat, cursor : Nat, fileSize : Nat]
ChannelType == [rolls : Seq(RollType), active : Nat, activeId : Nat]
SlotType == [roll : Nat, rollId : Nat, address : Nat, size : Nat, usable : Nat]
EntryType == [rollId : Nat, offset : Nat, size : Nat, roll : Nat]

Off(ch, s) == s.address - ch.rolls[s.roll].base
End(ch, s) == Off(ch, s) + s.size

\* What of a slot is its own: all of it, unless its tail was given back.
Room(ch, s) == IF End(ch, s) <= ch.rolls[s.roll].cursor THEN s.size ELSE s.usable

RollSound(r) ==
  /\ r.cursor % Word = 0
  /\ r.cursor <= r.fileSize /\ r.fileSize <= r.capacity
  /\ r.capacity < AddressSpace /\ r.base + r.capacity <= AddressSpace
  /\ r.base \in Bases
  /\ \A c \in Bases : (r.base + r.capacity) % AddressSpace # c

SlotSound(ch, s) ==
  /\ s \in SlotType
  /\ s.roll \in 1 .. Len(ch.rolls) /\ s.rollId = ch.rolls[s.roll].id
  /\ 0 < s.usable /\ s.usable <= s.size /\ s.usable % Word = 0 /\ s.size % Word = 0
  /\ 0 <= Off(ch, s) /\ Off(ch, s) % Word = 0
  /\ Off(ch, s) + Room(ch, s) <= ch.rolls[s.roll].cursor
  /\ End(ch, s) <= ch.rolls[s.roll].capacity

RecordSound(ch, e) ==
  /\ e \in EntryType
  /\ e.roll \in 1 .. Len(ch.rolls) /\ e.rollId = ch.rolls[e.roll].id
  /\ 0 < e.size /\ e.offset + e.size <= ch.rolls[e.roll].cursor

\* The rolls r and q are mapped apart.
Beside(ch, r, q) ==
  \/ ch.rolls[r].base + ch.rolls[r].capacity <= ch.rolls[q].base
  \/ ch.rolls[q].base + ch.rolls[q].capacity <= ch.rolls[r].base

SlotsMeet(ch, s, t) ==
  /\ s.roll = t.roll
  /\ Off(ch, s) < Off(ch, t) + Room(ch, t)
  /\ Off(ch, t) < Off(ch, s) + Room(ch, s)
SlotMeetsRecord(ch, s, e) ==
  /\ s.roll = e.roll
  /\ Off(ch, s) < e.offset + e.size
  /\ e.offset < Off(ch, s) + Room(ch, s)
RecordsMeet(e, f) ==
  /\ e.roll = f.roll
  /\ e.offset < f.offset + f.size
  /\ f.offset < e.offset + e.size

ChannelSound(ch) ==
  /\ ch \in ChannelType
  /\ ch.active = Len(ch.rolls)
  /\ \A r \in 1 .. Len(ch.rolls) : RollSound(ch.rolls[r])
SlotsSound(ch, held) ==
  \A x \in DOMAIN held : held[x] # None =>
    /\ SlotSound(ch, held[x])
    /\ held[x].roll # ch.active => Beside(ch, held[x].roll, ch.active)
RecordsSound(ch, tl) ==
  /\ tl \in Seq(EntryType)
  /\ \A i \in DOMAIN tl : RecordSound(ch, tl[i])
NobodyMeets(ch, held, tl) ==
  /\ \A x, y \in DOMAIN held :
       x # y /\ held[x] # None /\ held[y] # None => ~SlotsMeet(ch, held[x], held[y])
  /\ \A x \in DOMAIN held, i \in DOMAIN tl :
       held[x] # None => ~SlotMeetsRecord(ch, held[x], tl[i])
  /\ \A i, j \in DOMAIN tl : i # j => ~RecordsMeet(tl[i], tl[j])

Sound(ch, held, tl) ==
  /\ ChannelSound(ch) /\ SlotsSound(ch, held) /\ RecordsSound(ch, tl)
  /\ NobodyMeets(ch, held, tl)

\* The channel takes records under the id of the roll they go to.
Ready(ch) ==
  ch.active # 0 =>
    /\ ch.rolls[ch.active].id = ch.activeId
    /\ ch.rolls[ch.active].fileSize = ch.rolls[ch.active].capacity

IInv ==
  /\ DOMAIN reservation = Handles
  /\ Sound(channel, reservation, timeline)
  /\ ~failed /\ ~closed => Ready(channel)

-----------------------------------------------------------------------------
(* Words, and arithmetic that wraps.                                        *)

LEMMA Wrapped ==
  ASSUME NEW n \in Int
  PROVE  /\ 0 <= n /\ n < AddressSpace => n % AddressSpace = n
         /\ -AddressSpace < n /\ n < 0 => n % AddressSpace = n + AddressSpace
         /\ n = AddressSpace => n % AddressSpace = 0
  <1>1. AddressSpace \in Nat \ {0}
    BY ChannelAssumption
  <1>2. CASE 0 <= n /\ n < AddressSpace
    BY <1>1, <1>2
  <1>3. CASE -AddressSpace < n /\ n < 0
    BY <1>1, <1>3
  <1>4. CASE n = AddressSpace
    BY <1>1, <1>4
  <1> QED BY <1>1, <1>2, <1>3, <1>4

LEMMA WholeWords ==
  ASSUME NEW n \in Int, n % Word = 0
  PROVE  \E k \in Int : n = k * Word
  BY ChannelAssumption

LEMMA WordsAdd ==
  ASSUME NEW m \in Int, NEW n \in Int, m % Word = 0, n % Word = 0
  PROVE  (m + n) % Word = 0
  <1>1. Word \in Nat \ {0}
    BY ChannelAssumption
  <1>2. PICK k \in Int : m = k * Word
    BY WholeWords
  <1>3. PICK l \in Int : n = l * Word
    BY WholeWords
  <1>4. m + n = (k + l) * Word
    BY <1>1, <1>2, <1>3
  <1>5. ((k + l) * Word) % Word = 0
    <2> DEFINE j == k + l
    <2>1. j \in Int
      OBVIOUS
    <2> HIDE DEF j
    <2>2. (j * Word) % Word = 0
      BY <1>1, <2>1
    <2> QED BY <2>2 DEF j
  <1> QED BY <1>4, <1>5

LEMMA RoundedUp ==
  ASSUME NEW n \in Nat
  PROVE  /\ RoundUpToWord(n) \in Nat /\ n <= RoundUpToWord(n)
         /\ RoundUpToWord(n) % Word = 0
  <1>1. Word \in Nat \ {0}
    BY ChannelAssumption
  <1> DEFINE q == (n + Word - 1) \div Word
  <1>2. q \in Int /\ n <= q * Word
    BY <1>1
  <1>3. (q * Word) % Word = 0 /\ q * Word \in Int
    <2> HIDE DEF q
    <2> QED BY <1>1, <1>2
  <1> QED BY <1>2, <1>3 DEF RoundUpToWord

LEMMA RoundedUpFits ==
  ASSUME NEW n \in Nat, NEW m \in Nat, m % Word = 0, n <= m
  PROVE  RoundUpToWord(n) <= m
  <1>1. Word \in Nat \ {0}
    BY ChannelAssumption
  <1> DEFINE q == (n + Word - 1) \div Word
  <1>2. q \in Int /\ q * Word < n + Word
    BY <1>1
  <1>3. PICK k \in Int : m = k * Word
    BY WholeWords
  <1> HIDE DEF q
  <1>4. \A i, j \in Int : i <= j => i * Word <= j * Word
    BY <1>1
  <1>5. (k + 1) * Word = m + Word
    BY <1>1, <1>3
  <1>6. ~(k + 1 <= q)
    <2>1. k + 1 <= q => (k + 1) * Word <= q * Word
      BY <1>2, <1>4
    <2>2. q * Word \in Int
      BY <1>1, <1>2
    <2> QED BY <1>1, <1>2, <1>5, <2>1, <2>2
  <1>7. q <= k
    BY <1>2, <1>6
  <1>8. q * Word <= m
    BY <1>2, <1>3, <1>4, <1>7
  <1> QED BY <1>8 DEF q, RoundUpToWord

-----------------------------------------------------------------------------
(* Changes that give bytes away, or take bytes nobody has.                  *)

LEMMA RollChanged ==
  ASSUME NEW ch \in ChannelType, NEW r \in 1 .. Len(ch.rolls), NEW v \in RollType,
         NEW ch2, ch2 = [ch EXCEPT !.rolls[r] = v]
  PROVE  /\ ch2 \in ChannelType
         /\ Len(ch2.rolls) = Len(ch.rolls)
         /\ ch2.active = ch.active /\ ch2.activeId = ch.activeId
         /\ \A q \in 1 .. Len(ch.rolls) :
              ch2.rolls[q] = IF q = r THEN v ELSE ch.rolls[q]
  <1>1. ch.rolls \in Seq(RollType)
    BY DEF ChannelType
  <1>2. ch2 = [ch EXCEPT !.rolls = [ch.rolls EXCEPT ![r] = v]]
    BY DEF ChannelType
  <1>3. ch2.rolls = [ch.rolls EXCEPT ![r] = v]
    BY <1>2 DEF ChannelType
  <1>4. ch2.active = ch.active /\ ch2.activeId = ch.activeId
    BY <1>2 DEF ChannelType
  <1>5. /\ [ch.rolls EXCEPT ![r] = v] \in Seq(RollType)
        /\ Len([ch.rolls EXCEPT ![r] = v]) = Len(ch.rolls)
        /\ \A j \in 1 .. Len(ch.rolls) :
             [ch.rolls EXCEPT ![r] = v][j] = IF j = r THEN v ELSE ch.rolls[j]
    BY <1>1, ExceptSeq
  <1>6. ch2 \in ChannelType
    BY <1>2, <1>5 DEF ChannelType
  <1> QED BY <1>3, <1>4, <1>5, <1>6

LEMMA RollTyped ==
  ASSUME NEW ch, ChannelSound(ch), NEW r \in 1 .. Len(ch.rolls)
  PROVE  ch.rolls[r] \in RollType /\ RollSound(ch.rolls[r])
  BY DEF ChannelSound, ChannelType

SameRolls(ch, ch2) ==
  /\ Len(ch2.rolls) = Len(ch.rolls) /\ ch2.active = ch.active
  /\ \A r \in 1 .. Len(ch.rolls) :
       /\ ch2.rolls[r].id = ch.rolls[r].id
       /\ ch2.rolls[r].base = ch.rolls[r].base
       /\ ch2.rolls[r].capacity = ch.rolls[r].capacity

Inside(ch2, t, ch, s) ==
  /\ t.roll = s.roll /\ t.address = s.address
  /\ Room(ch2, t) <= Room(ch, s)

\* What lay apart lies apart when it has become less.
LEMMA Narrower ==
  ASSUME NEW ch, NEW ch2, NEW held, NEW held2, NEW tl, Sound(ch, held, tl),
         ChannelSound(ch2), SameRolls(ch, ch2), RecordsSound(ch2, tl),
         DOMAIN held2 = DOMAIN held,
         \A x \in DOMAIN held : held2[x] # None =>
           held[x] # None /\ SlotSound(ch2, held2[x]) /\ Inside(ch2, held2[x], ch, held[x])
  PROVE  Sound(ch2, held2, tl)
  <1> USE DEF Sound
  <1>1. \A x \in DOMAIN held : held2[x] # None =>
          /\ held[x] # None /\ SlotSound(ch, held[x]) /\ SlotSound(ch2, held2[x])
          /\ held[x] \in SlotType /\ held2[x] \in SlotType
          /\ held[x].roll \in 1 .. Len(ch.rolls)
          /\ held2[x].roll = held[x].roll /\ held2[x].address = held[x].address
          /\ Room(ch2, held2[x]) <= Room(ch, held[x])
    BY DEF SlotsSound, SlotSound, Inside
  <1>2. \A r \in 1 .. Len(ch.rolls) :
          ch.rolls[r] \in RollType /\ ch2.rolls[r] \in RollType
    BY RollTyped DEF SameRolls
  <1>3. \A x \in DOMAIN held : held2[x] # None =>
          /\ Off(ch2, held2[x]) = Off(ch, held[x]) /\ Off(ch, held[x]) \in Int
          /\ Room(ch, held[x]) \in Nat /\ Room(ch2, held2[x]) \in Nat
    <2> SUFFICES ASSUME NEW x \in DOMAIN held, held2[x] # None
                 PROVE  /\ Off(ch2, held2[x]) = Off(ch, held[x]) /\ Off(ch, held[x]) \in Int
                        /\ Room(ch, held[x]) \in Nat /\ Room(ch2, held2[x]) \in Nat
      OBVIOUS
    <2> DEFINE r == held[x].roll
    <2>1. /\ r \in 1 .. Len(ch.rolls) /\ held2[x].roll = r
          /\ held[x] \in SlotType /\ held2[x] \in SlotType
          /\ held2[x].address = held[x].address
      BY <1>1
    <2>2. /\ ch.rolls[r] \in RollType /\ ch2.rolls[r] \in RollType
          /\ ch2.rolls[r].base = ch.rolls[r].base
      BY <1>2, <2>1 DEF SameRolls
    <2>3. Off(ch2, held2[x]) = Off(ch, held[x]) /\ Off(ch, held[x]) \in Int
      <3>1. Off(ch, held[x]) = held[x].address - ch.rolls[r].base
        BY DEF Off
      <3>2. Off(ch2, held2[x]) = held2[x].address - ch2.rolls[r].base
        BY <2>1 DEF Off
      <3>3. held[x].address \in Nat /\ ch.rolls[r].base \in Nat
        BY <2>1, <2>2 DEF SlotType, RollType
      <3> QED BY <2>1, <2>2, <3>1, <3>2, <3>3
    <2>4. Room(ch, held[x]) \in Nat /\ Room(ch2, held2[x]) \in Nat
      BY <2>1 DEF Room, SlotType
    <2> QED BY <2>3, <2>4
  <1>4. SlotsSound(ch2, held2)
    <2> SUFFICES ASSUME NEW x \in DOMAIN held, held2[x] # None
                 PROVE  /\ SlotSound(ch2, held2[x])
                        /\ held2[x].roll # ch2.active => Beside(ch2, held2[x].roll, ch2.active)
      BY DEF SlotsSound
    <2>1. held[x].roll # ch.active => Beside(ch, held[x].roll, ch.active)
      BY <1>1 DEF SlotsSound
    <2>2. ch.active \in 1 .. Len(ch.rolls)
      <3>1. Len(ch.rolls) \in Nat /\ ch.active = Len(ch.rolls)
        BY DEF ChannelSound, ChannelType
      <3>2. held[x].roll \in 1 .. Len(ch.rolls)
        BY <1>1
      <3> QED BY <3>1, <3>2
    <2> DEFINE r == held[x].roll
    <2>3. /\ r \in 1 .. Len(ch.rolls) /\ held2[x].roll = r
          /\ SlotSound(ch2, held2[x]) /\ ch2.active = ch.active
      BY <1>1 DEF SameRolls
    <2>4. /\ ch2.rolls[r].base = ch.rolls[r].base
          /\ ch2.rolls[r].capacity = ch.rolls[r].capacity
          /\ ch2.rolls[ch.active].base = ch.rolls[ch.active].base
          /\ ch2.rolls[ch.active].capacity = ch.rolls[ch.active].capacity
      BY <2>2, <2>3 DEF SameRolls
    <2>5. Beside(ch, r, ch.active) => Beside(ch2, r, ch.active)
      BY <2>4 DEF Beside
    <2> QED BY <2>1, <2>3, <2>5
  <1>5. ASSUME NEW x \in DOMAIN held, NEW y \in DOMAIN held,
               x # y, held2[x] # None, held2[y] # None
        PROVE  ~SlotsMeet(ch2, held2[x], held2[y])
    <2>1. ~SlotsMeet(ch, held[x], held[y])
      BY <1>1, <1>5 DEF NobodyMeets
    <2> QED BY <1>1, <1>3, <1>5, <2>1 DEF SlotsMeet
  <1>6. ASSUME NEW x \in DOMAIN held, NEW i \in DOMAIN tl, held2[x] # None
        PROVE  ~SlotMeetsRecord(ch2, held2[x], tl[i])
    <2>1. ~SlotMeetsRecord(ch, held[x], tl[i])
      BY <1>1, <1>6 DEF NobodyMeets
    <2>2. tl[i].offset \in Nat
      BY DEF RecordsSound, RecordSound, EntryType
    <2> QED BY <1>1, <1>3, <1>6, <2>1, <2>2 DEF SlotMeetsRecord
  <1>7. NobodyMeets(ch2, held2, tl)
    BY <1>5, <1>6 DEF NobodyMeets
  <1> QED BY <1>4, <1>7

LEMMA Fewer ==
  ASSUME NEW ch, NEW held, NEW held2, NEW tl, Sound(ch, held, tl),
         \A x \in DOMAIN held2 : held2[x] # None => x \in DOMAIN held /\ held2[x] = held[x]
  PROVE  Sound(ch, held2, tl)
  <1>1. SlotsSound(ch, held2)
    BY DEF Sound, SlotsSound
  <1>2. NobodyMeets(ch, held2, tl)
    BY DEF Sound, NobodyMeets
  <1> QED BY <1>1, <1>2 DEF Sound

LEMMA Dropped ==
  ASSUME NEW ch, NEW held, NEW tl, Sound(ch, held, tl), NEW x \in DOMAIN held
  PROVE  Sound(ch, [held EXCEPT ![x] = None], tl)
  BY Fewer

\* The cursor of a roll moves back to the end of what is in use there, or
\* forward over bytes that no slot gave up.
LEMMA CursorMoved ==
  ASSUME NEW ch, NEW held, NEW tl, Sound(ch, held, tl), NEW r \in 1 .. Len(ch.rolls),
         NEW c \in Nat, c % Word = 0, c <= ch.rolls[r].fileSize,
         \A x \in DOMAIN held : held[x] # None /\ held[x].roll = r =>
           /\ Off(ch, held[x]) + held[x].usable <= c
           /\ c <= ch.rolls[r].cursor \/ held[x].usable = held[x].size,
         \A i \in DOMAIN tl : tl[i].roll = r => tl[i].offset + tl[i].size <= c
  PROVE  Sound([ch EXCEPT !.rolls[r].cursor = c], held, tl)
  <1> USE DEF Sound
  <1> DEFINE v == [ch.rolls[r] EXCEPT !.cursor = c]
             ch2 == [ch EXCEPT !.rolls[r] = v]
  <1>1. ch \in ChannelType /\ ch.rolls[r] \in RollType
    BY RollTyped DEF ChannelSound
  <1>2. ch2 = [ch EXCEPT !.rolls[r].cursor = c]
    BY <1>1 DEF ChannelType
  <1>3. /\ v \in RollType /\ v.cursor = c /\ v.id = ch.rolls[r].id
        /\ v.base = ch.rolls[r].base /\ v.capacity = ch.rolls[r].capacity
        /\ v.fileSize = ch.rolls[r].fileSize
    BY <1>1 DEF RollType
  <1>4. /\ ch2 \in ChannelType
        /\ Len(ch2.rolls) = Len(ch.rolls)
        /\ ch2.active = ch.active /\ ch2.activeId = ch.activeId
        /\ \A q \in 1 .. Len(ch.rolls) :
             ch2.rolls[q] = IF q = r THEN v ELSE ch.rolls[q]
    BY <1>1, <1>3, RollChanged
  <1> HIDE DEF v, ch2
  <1>5. RollSound(v)
    BY <1>3, RollTyped DEF RollSound
  <1>6. ChannelSound(ch2)
    BY <1>4, <1>5 DEF ChannelSound
  <1>7. SameRolls(ch, ch2)
    BY <1>3, <1>4 DEF SameRolls
  <1>8. RecordsSound(ch2, tl)
    <2> SUFFICES ASSUME NEW i \in DOMAIN tl
                 PROVE  RecordSound(ch2, tl[i])
      BY DEF RecordsSound
    <2>1. RecordSound(ch, tl[i])
      BY DEF RecordsSound
    <2> QED BY <1>3, <1>4, <2>1 DEF RecordSound
  <1>9. ASSUME NEW x \in DOMAIN held, held[x] # None
        PROVE  SlotSound(ch2, held[x]) /\ Inside(ch2, held[x], ch, held[x])
    <2>1. SlotSound(ch, held[x])
      BY <1>9 DEF SlotsSound
    <2>2. /\ held[x] \in SlotType /\ held[x].roll \in 1 .. Len(ch.rolls)
          /\ ch.rolls[held[x].roll] \in RollType
      BY <2>1, RollTyped DEF SlotSound
    <2>3. Off(ch2, held[x]) = Off(ch, held[x]) /\ End(ch2, held[x]) = End(ch, held[x])
      BY <1>3, <1>4, <2>2 DEF Off, End
    <2>4. Off(ch, held[x]) \in Int /\ End(ch, held[x]) = Off(ch, held[x]) + held[x].size
      BY <2>2 DEF Off, End, SlotType, RollType
    <2>5. CASE held[x].roll # r
      <3>1. Room(ch2, held[x]) = Room(ch, held[x]) /\ Room(ch, held[x]) \in Nat
        BY <1>4, <2>2, <2>3, <2>5 DEF Room, SlotType
      <3> QED BY <1>4, <2>1, <2>2, <2>3, <2>5, <3>1 DEF SlotSound, Inside
    <2>6. CASE held[x].roll = r
      <3> DEFINE s == held[x]
      <3>1. /\ Off(ch, s) + s.usable <= c
            /\ c <= ch.rolls[r].cursor \/ s.usable = s.size
            /\ s.usable \in Nat /\ s.size \in Nat /\ s.usable <= s.size
        BY <1>9, <2>1, <2>2, <2>6 DEF SlotSound, SlotType
      <3>2. /\ Room(ch2, s) = IF End(ch, s) <= c THEN s.size ELSE s.usable
            /\ Room(ch, s) = IF End(ch, s) <= ch.rolls[r].cursor THEN s.size ELSE s.usable
        BY <1>3, <1>4, <2>3, <2>6 DEF Room
      <3>3. ch.rolls[r].cursor \in Nat
        BY <1>1 DEF RollType
      <3>4. Room(ch2, s) <= Room(ch, s) /\ Off(ch2, s) + Room(ch2, s) <= c
        BY <2>3, <2>4, <3>1, <3>2, <3>3
      <3> QED BY <1>3, <1>4, <2>1, <2>2, <2>3, <2>6, <3>4 DEF SlotSound, Inside
    <2> QED BY <2>5, <2>6
  <1> QED BY <1>2, <1>6, <1>7, <1>8, <1>9, Narrower

\* A slot keeps only its first bytes.
LEMMA Lessened ==
  ASSUME NEW ch, NEW held, NEW tl, Sound(ch, held, tl), NEW x \in DOMAIN held,
         held[x] # None, NEW n \in Nat \ {0}, n % Word = 0, n <= held[x].usable
  PROVE  Sound(ch, [held EXCEPT ![x].usable = n], tl)
  <1> DEFINE s2 == [held[x] EXCEPT !.usable = n]
             held2 == [held EXCEPT ![x] = s2]
  <1>1. \A y \in DOMAIN held : held[y] # None =>
          /\ SlotSound(ch, held[y])
          /\ held[y] \in SlotType /\ held[y].roll \in 1 .. Len(ch.rolls)
          /\ ch.rolls[held[y].roll] \in RollType
    BY RollTyped DEF Sound, SlotsSound, SlotSound
  <1>2. /\ s2 \in SlotType /\ s2.usable = n /\ s2.roll = held[x].roll
        /\ s2.rollId = held[x].rollId /\ s2.address = held[x].address
        /\ s2.size = held[x].size
    BY <1>1 DEF SlotType
  <1> HIDE DEF s2
  <1>3. Off(ch, s2) = Off(ch, held[x]) /\ End(ch, s2) = End(ch, held[x])
    BY <1>2 DEF Off, End
  <1>4. /\ Off(ch, held[x]) \in Int /\ Room(ch, held[x]) \in Nat
        /\ Room(ch, s2) \in Nat /\ Room(ch, s2) <= Room(ch, held[x])
    <2>1. Off(ch, held[x]) \in Int
      BY <1>1 DEF Off, SlotType, RollType
    <2> QED BY <1>1, <1>2, <1>3, <2>1 DEF Room, SlotType
  <1>5. ch.rolls[held[x].roll].cursor \in Nat
    BY <1>1 DEF RollType
  <1>6. SlotSound(ch, s2)
    <2>1. s2.usable <= s2.size
      BY <1>1, <1>2 DEF SlotSound, SlotType
    <2>2. Off(ch, s2) + Room(ch, s2) <= ch.rolls[s2.roll].cursor
      BY <1>1, <1>2, <1>3, <1>4, <1>5 DEF SlotSound
    <2> QED BY <1>1, <1>2, <1>3, <2>1, <2>2 DEF SlotSound
  <1>7. \A y \in DOMAIN held : held[y] # None => Room(ch, held[y]) \in Nat
    BY <1>1 DEF Room, SlotType
  <1>8. /\ DOMAIN held2 = DOMAIN held
        /\ \A y \in DOMAIN held : held2[y] = IF y = x THEN s2 ELSE held[y]
    OBVIOUS
  <1>9. held2 = [held EXCEPT ![x].usable = n]
    BY DEF s2
  <1> HIDE DEF held2
  <1>10. \A y \in DOMAIN held : held2[y] # None =>
           held[y] # None /\ SlotSound(ch, held2[y]) /\ Inside(ch, held2[y], ch, held[y])
    BY <1>1, <1>2, <1>4, <1>6, <1>7, <1>8 DEF Inside
  <1>11. SameRolls(ch, ch)
    BY DEF SameRolls
  <1>12. Sound(ch, held2, tl)
    BY <1>8, <1>10, <1>11, Narrower DEF Sound
  <1> QED BY <1>9, <1>12

-----------------------------------------------------------------------------
(* Rewinding a roll.                                                        *)

LEMMA RewindOwn ==
  ASSUME NEW roll \in RollType, RollSound(roll), NEW s \in SlotType,
         NEW start, start = s.address - roll.base, 0 <= start,
         start + s.size <= roll.capacity, NEW n \in Nat, n <= s.size
  PROVE  Rewind(roll, s, n) =
           IF roll.cursor = start + s.size THEN [roll EXCEPT !.cursor = start + n] ELSE roll
  <1>1. /\ s.size \in Nat /\ start \in Nat /\ roll.capacity \in Nat
        /\ roll.capacity < AddressSpace /\ AddressSpace \in Nat
    BY ChannelAssumption DEF SlotType, RollType, RollSound
  <1>2. (s.address - roll.base) % AddressSpace = start
    BY <1>1, Wrapped
  <1>3. (start + s.size) % AddressSpace = start + s.size
    BY <1>1, Wrapped
  <1>4. (start + n) % AddressSpace = start + n
    <2>1. start + n \in Int /\ 0 <= start + n /\ start + n < AddressSpace
      BY <1>1
    <2> QED BY <2>1, Wrapped
  <1> QED BY <1>2, <1>3, <1>4 DEF Rewind

\* To a roll at b, of c bytes and with its cursor at k, the end of a slot in
\* another roll, at d and of e bytes, looks like no place of its own.
LEMMA EndElsewhere ==
  ASSUME NEW a \in Nat, NEW z \in Nat \ {0},
         NEW b \in Nat, NEW c \in Nat, NEW d \in Nat, NEW e \in Nat, NEW k \in Nat,
         k <= c, b < AddressSpace, b + c <= AddressSpace, d + e <= AddressSpace,
         d <= a, a + z <= d + e, (d + e) % AddressSpace # b,
         d + e <= b \/ b + c <= d
  PROVE  k # (((a - b) % AddressSpace) + z) % AddressSpace
  <1>1. AddressSpace \in Nat \ {0}
    BY ChannelAssumption
  <1>2. CASE d + e <= b
    <2>1. d + e # b
      <3>1. d + e < AddressSpace => (d + e) % AddressSpace = d + e
        BY <1>1, Wrapped
      <3> QED BY <1>1, <3>1
    <2>2. -AddressSpace < a - b /\ a - b + z < 0
      BY <1>1, <1>2, <2>1
    <2>3. (a - b) % AddressSpace = a - b + AddressSpace
      BY <1>1, <2>2, Wrapped
    <2>4. (a - b + AddressSpace + z) % AddressSpace = a - b + AddressSpace + z
      BY <1>1, <2>2, Wrapped
    <2> QED BY <1>1, <2>3, <2>4
  <1>3. CASE b + c <= d
    <2>1. 0 <= a - b /\ a - b < AddressSpace /\ c < a - b + z /\ a - b + z <= AddressSpace
      BY <1>1, <1>3
    <2>2. (a - b) % AddressSpace = a - b
      BY <1>1, <2>1, Wrapped
    <2>3. CASE a - b + z < AddressSpace
      <3>1. (a - b + z) % AddressSpace = a - b + z
        BY <1>1, <2>1, <2>3, Wrapped
      <3> QED BY <1>1, <2>1, <2>2, <3>1
    <2>4. CASE a - b + z = AddressSpace
      <3>1. b = 0 /\ d + e = AddressSpace
        BY <1>1, <2>4
      <3>2. (d + e) % AddressSpace = 0
        BY <1>1, <3>1, Wrapped
      <3> QED BY <3>1, <3>2
    <2> QED BY <1>1, <2>1, <2>3, <2>4
  <1> QED BY <1>2, <1>3

LEMMA RewindForeign ==
  ASSUME NEW roll \in RollType, RollSound(roll), NEW own \in RollType, RollSound(own),
         NEW s \in SlotType, 0 < s.size, own.base <= s.address,
         s.address + s.size <= own.base + own.capacity,
         own.base + own.capacity <= roll.base \/ roll.base + roll.capacity <= own.base,
         NEW n
  PROVE  Rewind(roll, s, n) = roll
  <1>1. /\ s.size \in Nat \ {0} /\ s.address \in Nat /\ roll.base \in Nat /\ own.base \in Nat
        /\ roll.capacity \in Nat /\ own.capacity \in Nat
        /\ roll.cursor \in Nat /\ roll.fileSize \in Nat
    BY DEF SlotType, RollType
  <1>2. /\ roll.cursor <= roll.capacity /\ roll.base < AddressSpace /\ roll.base + roll.capacity <= AddressSpace
        /\ own.base + own.capacity <= AddressSpace
        /\ (own.base + own.capacity) % AddressSpace # roll.base
    BY <1>1, ChannelAssumption DEF RollSound
  <1>3. roll.cursor # (((s.address - roll.base) % AddressSpace) + s.size) % AddressSpace
    BY <1>1, <1>2, EndElsewhere
  <1> QED BY <1>3 DEF Rewind

LEMMA SlotFacts ==
  ASSUME NEW ch, NEW held, NEW tl, Sound(ch, held, tl), NEW x \in DOMAIN held,
         held[x] # None
  PROVE  LET s == held[x]
             roll == ch.rolls[s.roll]
         IN  /\ SlotSound(ch, s) /\ s \in SlotType /\ s.roll \in 1 .. Len(ch.rolls)
             /\ roll \in RollType /\ RollSound(roll)
             /\ Off(ch, s) \in Nat /\ End(ch, s) = Off(ch, s) + s.size
             /\ Room(ch, s) \in Nat /\ s.usable <= Room(ch, s)
             /\ Off(ch, s) + Room(ch, s) <= roll.cursor
             /\ ch.active \in 1 .. Len(ch.rolls)
  <1> DEFINE s == held[x]
             roll == ch.rolls[s.roll]
  <1>1. SlotSound(ch, s) /\ s \in SlotType /\ s.roll \in 1 .. Len(ch.rolls)
    BY DEF Sound, SlotsSound, SlotSound
  <1>2. roll \in RollType /\ RollSound(roll)
    BY <1>1, RollTyped DEF Sound
  <1>3. s.address \in Nat /\ s.size \in Nat /\ s.usable \in Nat /\ roll.base \in Nat
    BY <1>1, <1>2 DEF SlotType, RollType
  <1>4. Off(ch, s) = s.address - roll.base /\ 0 <= Off(ch, s)
    BY <1>1 DEF Off, SlotSound
  <1>5. Off(ch, s) \in Nat /\ End(ch, s) = Off(ch, s) + s.size
    BY <1>3, <1>4 DEF End
  <1>6. Room(ch, s) \in Nat /\ s.usable <= Room(ch, s)
    BY <1>1, <1>3 DEF Room, SlotSound
  <1>7. Len(ch.rolls) \in Nat /\ ch.active = Len(ch.rolls)
    BY DEF Sound, ChannelSound, ChannelType
  <1>8. ch.active \in 1 .. Len(ch.rolls)
    BY <1>1, <1>7
  <1>9. Off(ch, s) + Room(ch, s) <= roll.cursor
    BY <1>1 DEF SlotSound
  <1> QED BY <1>1, <1>2, <1>5, <1>6, <1>8, <1>9

\* Everything else in the roll lies below a slot that ends at the cursor.
LEMMA LastSlot ==
  ASSUME NEW ch, NEW held, NEW tl, Sound(ch, held, tl), NEW x \in DOMAIN held,
         held[x] # None, ch.rolls[held[x].roll].cursor = End(ch, held[x])
  PROVE  /\ \A y \in DOMAIN held : y # x /\ held[y] # None /\ held[y].roll = held[x].roll =>
              Off(ch, held[y]) + held[y].usable <= Off(ch, held[x])
         /\ \A i \in DOMAIN tl : tl[i].roll = held[x].roll =>
              tl[i].offset + tl[i].size <= Off(ch, held[x])
  <1> DEFINE s == held[x]
             cursor == ch.rolls[s.roll].cursor
  <1>1. /\ Off(ch, s) \in Nat /\ End(ch, s) = Off(ch, s) + s.size
        /\ s.size \in Nat /\ 0 < s.size /\ cursor \in Nat
    <2>1. SlotSound(ch, s) /\ s \in SlotType /\ ch.rolls[s.roll] \in RollType
      BY SlotFacts
    <2>2. s.usable \in Nat /\ s.size \in Nat
      BY <2>1 DEF SlotType
    <2>3. 0 < s.size
      BY <2>1, <2>2 DEF SlotSound
    <2> QED BY <2>1, <2>2, <2>3, SlotFacts DEF RollType
  <1>2. Room(ch, s) = s.size
    BY <1>1 DEF Room
  <1>3. ASSUME NEW y \in DOMAIN held, y # x, held[y] # None, held[y].roll = s.roll
        PROVE  Off(ch, held[y]) + held[y].usable <= Off(ch, s)
    <2>1. /\ held[y] \in SlotType /\ SlotSound(ch, held[y])
          /\ Off(ch, held[y]) \in Nat /\ Room(ch, held[y]) \in Nat
          /\ held[y].usable <= Room(ch, held[y])
          /\ Off(ch, held[y]) + Room(ch, held[y]) <= cursor
      BY <1>3, SlotFacts
    <2>2. held[y].usable \in Nat /\ 0 < held[y].usable
      BY <2>1 DEF SlotType, SlotSound
    <2>3. ~SlotsMeet(ch, s, held[y])
      BY <1>3 DEF Sound, NobodyMeets
    <2> QED BY <1>1, <1>2, <1>3, <2>1, <2>2, <2>3 DEF SlotsMeet
  <1>4. ASSUME NEW i \in DOMAIN tl, tl[i].roll = s.roll
        PROVE  tl[i].offset + tl[i].size <= Off(ch, s)
    <2>1. RecordSound(ch, tl[i])
      BY DEF Sound, RecordsSound
    <2>2. /\ tl[i].offset \in Nat /\ tl[i].size \in Nat /\ 0 < tl[i].size
          /\ tl[i].offset + tl[i].size <= cursor
      BY <1>4, <2>1 DEF RecordSound, EntryType
    <2>3. ~SlotMeetsRecord(ch, s, tl[i])
      BY DEF Sound, NobodyMeets
    <2> QED BY <1>1, <1>2, <1>4, <2>2, <2>3 DEF SlotMeetsRecord
  <1> QED BY <1>3, <1>4

\* What a rewind leaves as it is.
Steady(ch, ch2) ==
  /\ SameRolls(ch, ch2) /\ ch2.activeId = ch.activeId
  /\ \A r \in 1 .. Len(ch.rolls) : ch2.rolls[r].fileSize = ch.rolls[r].fileSize

Rewound(ch, r, s, n) == [ch EXCEPT !.rolls[r] = Rewind(@, s, n)]

LEMMA RewoundOwn ==
  ASSUME NEW ch, NEW held, NEW tl, Sound(ch, held, tl), NEW x \in DOMAIN held,
         held[x] # None, NEW n \in Nat, n % Word = 0, n <= held[x].usable
  PROVE  LET ch2 == Rewound(ch, held[x].roll, held[x], n)
         IN  /\ n = 0 => Sound(ch2, [held EXCEPT ![x] = None], tl)
             /\ n # 0 => Sound(ch2, [held EXCEPT ![x].usable = n], tl)
             /\ Steady(ch, ch2)
  <1> DEFINE s == held[x]
             r == s.roll
             roll == ch.rolls[r]
             start == Off(ch, s)
             ch2 == Rewound(ch, r, s, n)
             held2 == IF n = 0 THEN [held EXCEPT ![x] = None] ELSE [held EXCEPT ![x].usable = n]
  <1>1. /\ s \in SlotType /\ r \in 1 .. Len(ch.rolls) /\ SlotSound(ch, s)
        /\ roll \in RollType /\ RollSound(roll)
        /\ start \in Nat /\ End(ch, s) = start + s.size
    BY SlotFacts
  <1>2. /\ s.size \in Nat /\ s.usable \in Nat /\ s.usable <= s.size
        /\ start + s.size <= roll.capacity /\ start % Word = 0
    BY <1>1 DEF SlotSound, SlotType
  <1>3. start = s.address - roll.base
    BY DEF Off
  <1>4. Rewind(roll, s, n) =
          IF roll.cursor = start + s.size THEN [roll EXCEPT !.cursor = start + n] ELSE roll
    <2> HIDE DEF s, roll, start
    <2>1. 0 <= start /\ n <= s.size
      BY <1>1, <1>2 DEF s
    <2> QED BY <1>1, <1>2, <1>3, <2>1, RewindOwn
  <1>5. Sound(ch, held2, tl)
    BY Dropped, Lessened
  <1>6. ch \in ChannelType
    BY DEF Sound, ChannelSound
  <1>7. CASE roll.cursor # start + s.size
    <2>1. ch2 = [ch EXCEPT !.rolls[r] = roll]
      BY <1>4, <1>7 DEF Rewound
    <2>2. ch2 = ch
      BY <1>1, <1>6, <2>1 DEF ChannelType
    <2> QED BY <1>5, <2>2 DEF Steady, SameRolls
  <1>8. CASE roll.cursor = start + s.size
    <2> DEFINE c == start + n
    <2>1. c \in Nat /\ c % Word = 0 /\ c <= roll.cursor /\ c <= roll.fileSize
      <3>1. c % Word = 0
        BY <1>1, <1>2, WordsAdd
      <3>2. roll.cursor \in Nat /\ roll.fileSize \in Nat /\ roll.cursor <= roll.fileSize
        BY <1>1 DEF RollSound, RollType
      <3> QED BY <1>1, <1>2, <1>8, <3>1, <3>2
    <2>2. ch2 = [ch EXCEPT !.rolls[r].cursor = c]
      <3>1. ch2 = [ch EXCEPT !.rolls[r] = [roll EXCEPT !.cursor = c]]
        BY <1>4, <1>8 DEF Rewound
      <3> QED BY <1>6, <3>1 DEF ChannelType
    <2>3. /\ \A y \in DOMAIN held : y # x /\ held[y] # None /\ held[y].roll = r =>
               Off(ch, held[y]) + held[y].usable <= start
          /\ \A i \in DOMAIN tl : tl[i].roll = r => tl[i].offset + tl[i].size <= start
      BY <1>1, <1>8, LastSlot
    <2>4. \A y \in DOMAIN held2 : held2[y] # None /\ held2[y].roll = r =>
            Off(ch, held2[y]) + held2[y].usable <= c
      <3> SUFFICES ASSUME NEW y \in DOMAIN held, held2[y] # None, held2[y].roll = r
                   PROVE  Off(ch, held2[y]) + held2[y].usable <= c
        OBVIOUS
      <3>1. CASE y = x
        <4>1. n # 0 /\ held2[y] = [s EXCEPT !.usable = n]
          BY <3>1
        <4>2. held2[y].usable = n /\ held2[y].address = s.address /\ held2[y].roll = r
          BY <1>1, <4>1 DEF SlotType
        <4>3. Off(ch, held2[y]) = start
          BY <4>2 DEF Off
        <4> QED BY <1>1, <4>2, <4>3
      <3>2. CASE y # x
        <4>1. held2[y] = held[y]
          BY <3>2
        <4>2. Off(ch, held[y]) + held[y].usable <= start
          BY <2>3, <3>2, <4>1
        <4>3. held[y] # None
          BY <4>1
        <4>4. Off(ch, held[y]) \in Nat /\ held[y].usable \in Nat
          BY <4>3, SlotFacts DEF SlotType
        <4> QED BY <1>1, <4>1, <4>2, <4>4
      <3> QED BY <3>1, <3>2
    <2>5. \A i \in DOMAIN tl : tl[i].roll = r => tl[i].offset + tl[i].size <= c
      <3>1. \A i \in DOMAIN tl : tl[i].offset \in Nat /\ tl[i].size \in Nat
        BY DEF Sound, RecordsSound, RecordSound, EntryType
      <3> QED BY <1>1, <2>3, <3>1
    <2>6. Sound(ch2, held2, tl)
      <3> HIDE DEF held2, c, ch2
      <3> QED BY <1>1, <1>5, <2>1, <2>2, <2>4, <2>5, CursorMoved
    <2>7. Steady(ch, ch2)
      <3> DEFINE v == [roll EXCEPT !.cursor = c]
      <3>1. /\ v \in RollType /\ v.id = roll.id /\ v.base = roll.base
            /\ v.capacity = roll.capacity /\ v.fileSize = roll.fileSize
        BY <1>1, <2>1 DEF RollType
      <3>2. ch2 = [ch EXCEPT !.rolls[r] = v]
        BY <1>4, <1>8 DEF Rewound
      <3> HIDE DEF v, ch2
      <3>3. /\ Len(ch2.rolls) = Len(ch.rolls)
            /\ ch2.active = ch.active /\ ch2.activeId = ch.activeId
            /\ \A q \in 1 .. Len(ch.rolls) :
                 ch2.rolls[q] = IF q = r THEN v ELSE ch.rolls[q]
        BY <1>1, <1>6, <3>1, <3>2, RollChanged
      <3> QED BY <3>1, <3>3 DEF Steady, SameRolls
    <2> QED BY <2>6, <2>7
  <1> QED BY <1>7, <1>8

LEMMA RewoundActive ==
  ASSUME NEW ch, NEW held, NEW tl, Sound(ch, held, tl), NEW x \in DOMAIN held,
         held[x] # None, NEW n \in Nat, n % Word = 0, n <= held[x].usable
  PROVE  LET ch2 == RewindActive(ch, held[x], n)
         IN  /\ n = 0 => Sound(ch2, [held EXCEPT ![x] = None], tl)
             /\ n # 0 => Sound(ch2, [held EXCEPT ![x].usable = n], tl)
             /\ Steady(ch, ch2)
  <1> DEFINE s == held[x]
             ch2 == RewindActive(ch, s, n)
  <1>1. CASE s.roll = ch.active
    BY <1>1, RewoundOwn DEF RewindActive, Rewound
  <1>2. CASE s.roll # ch.active
    <2> DEFINE roll == ch.rolls[ch.active]
               own == ch.rolls[s.roll]
    <2>1. /\ s \in SlotType /\ SlotSound(ch, s) /\ own \in RollType /\ RollSound(own)
          /\ ch.active \in 1 .. Len(ch.rolls)
          /\ Off(ch, s) \in Nat /\ End(ch, s) = Off(ch, s) + s.size
      BY SlotFacts
    <2>2. roll \in RollType /\ RollSound(roll) /\ ch \in ChannelType
      BY <2>1, RollTyped DEF Sound, ChannelSound
    <2>3. Beside(ch, s.roll, ch.active)
      BY <1>2 DEF Sound, SlotsSound
    <2>4. /\ s.size \in Nat /\ s.usable \in Nat /\ s.address \in Nat
          /\ own.base \in Nat /\ own.capacity \in Nat
      BY <2>1 DEF SlotType, RollType
    <2>5. 0 < s.size /\ own.base <= s.address /\ s.address + s.size <= own.base + own.capacity
      <3>1. 0 < s.usable /\ s.usable <= s.size /\ End(ch, s) <= own.capacity
        BY <2>1 DEF SlotSound
      <3>2. Off(ch, s) = s.address - own.base
        BY DEF Off
      <3>3. 0 <= s.address - own.base /\ s.address - own.base + s.size <= own.capacity
        BY <2>1, <3>1, <3>2
      <3> HIDE DEF s, own
      <3> QED BY <2>4, <3>1, <3>3
    <2>6. Rewind(roll, s, n) = roll
      BY <2>1, <2>2, <2>3, <2>5, RewindForeign DEF Beside
    <2>7. ch2 = [ch EXCEPT !.rolls[ch.active] = roll]
      BY <2>6 DEF RewindActive
    <2>8. ch2 = ch
      BY <2>1, <2>2, <2>7 DEF ChannelType
    <2> QED BY <2>8, Dropped, Lessened DEF Steady, SameRolls
  <1> QED BY <1>1, <1>2

-----------------------------------------------------------------------------
(* Slots that become records, and new slots.                                *)

LEMMA Recorded ==
  ASSUME NEW ch, NEW held, NEW tl, Sound(ch, held, tl), NEW x \in DOMAIN held,
         held[x] # None, NEW u \in Nat \ {0}, u <= held[x].usable,
         NEW e, e = [rollId |-> held[x].rollId, offset |-> Off(ch, held[x]),
                     size |-> u, roll |-> held[x].roll]
  PROVE  Sound(ch, [held EXCEPT ![x] = None], Append(tl, e))
  <1> DEFINE s == held[x]
             held2 == [held EXCEPT ![x] = None]
             tl2 == Append(tl, e)
  <1>1. /\ s \in SlotType /\ s.roll \in 1 .. Len(ch.rolls) /\ SlotSound(ch, s)
        /\ Off(ch, s) \in Nat /\ Room(ch, s) \in Nat /\ s.usable <= Room(ch, s)
        /\ Off(ch, s) + Room(ch, s) <= ch.rolls[s.roll].cursor
        /\ ch.rolls[s.roll] \in RollType
    BY SlotFacts
  <1>2. s.usable \in Nat /\ ch.rolls[s.roll].cursor \in Nat
    BY <1>1 DEF SlotType, RollType
  <1>3. /\ e \in EntryType /\ e.rollId = s.rollId /\ e.offset = Off(ch, s)
        /\ e.size = u /\ e.roll = s.roll
    BY <1>1 DEF EntryType, SlotType
  <1>4. e.offset + e.size <= Off(ch, s) + Room(ch, s)
    BY <1>1, <1>2, <1>3
  <1>5. RecordSound(ch, e)
    BY <1>1, <1>2, <1>3, <1>4 DEF RecordSound, SlotSound
  <1>6. tl \in Seq(EntryType)
    BY DEF Sound, RecordsSound
  <1>7. /\ tl2 \in Seq(EntryType) /\ DOMAIN tl2 = 1 .. Len(tl) + 1
        /\ DOMAIN tl = 1 .. Len(tl) /\ Len(tl) \in Nat
        /\ \A i \in 1 .. Len(tl) : tl2[i] = tl[i]
        /\ tl2[Len(tl) + 1] = e
    <2>1. Len(tl2) = Len(tl) + 1
      BY <1>3, <1>6, AppendProperties
    <2>2. tl2 \in Seq(EntryType)
      BY <1>3, <1>6, AppendProperties
    <2> QED BY <1>3, <1>6, <2>1, <2>2, AppendProperties
  <1> HIDE DEF tl2
  <1>8. Sound(ch, held2, tl)
    BY Dropped
  <1>9. DOMAIN held2 = DOMAIN held /\ \A y \in DOMAIN held : held2[y] # None => y # x /\ held2[y] = held[y]
    OBVIOUS
  <1> HIDE DEF held2
  <1>10. RecordsSound(ch, tl2)
    <2> SUFFICES ASSUME NEW i \in DOMAIN tl2
                 PROVE  RecordSound(ch, tl2[i])
      BY <1>7 DEF RecordsSound
    <2>1. CASE i \in 1 .. Len(tl)
      BY <1>7, <2>1 DEF Sound, RecordsSound
    <2>2. CASE i = Len(tl) + 1
      BY <1>5, <1>7, <2>2
    <2> QED BY <1>7, <2>1, <2>2
  <1>11. ASSUME NEW y \in DOMAIN held2, NEW i \in DOMAIN tl2, held2[y] # None
         PROVE  ~SlotMeetsRecord(ch, held2[y], tl2[i])
    <2>1. CASE i \in 1 .. Len(tl)
      BY <1>7, <1>8, <1>11, <2>1 DEF Sound, NobodyMeets
    <2>2. CASE i = Len(tl) + 1
      <3>1. ~SlotsMeet(ch, s, held[y])
        BY <1>9, <1>11 DEF Sound, NobodyMeets
      <3>2. Off(ch, held[y]) \in Nat /\ Room(ch, held[y]) \in Nat
        BY <1>9, <1>11, SlotFacts
      <3>3. held2[y] = held[y] /\ tl2[i] = e
        BY <1>7, <1>9, <1>11, <2>2
      <3> HIDE DEF s
      <3>4. ~SlotMeetsRecord(ch, held[y], e)
        BY <1>1, <1>3, <1>4, <3>1, <3>2 DEF SlotsMeet, SlotMeetsRecord
      <3> QED BY <3>3, <3>4
    <2> QED BY <1>7, <2>1, <2>2
  <1>12. \A j \in 1 .. Len(tl) : ~RecordsMeet(e, tl[j]) /\ ~RecordsMeet(tl[j], e)
    <2> SUFFICES ASSUME NEW j \in 1 .. Len(tl)
                 PROVE  ~RecordsMeet(e, tl[j]) /\ ~RecordsMeet(tl[j], e)
      OBVIOUS
    <2>1. ~SlotMeetsRecord(ch, s, tl[j])
      BY <1>7 DEF Sound, NobodyMeets
    <2>2. tl[j].offset \in Nat /\ tl[j].size \in Nat
      BY <1>7 DEF Sound, RecordsSound, RecordSound, EntryType
    <2> HIDE DEF s
    <2> QED BY <1>1, <1>3, <1>4, <2>1, <2>2 DEF SlotMeetsRecord, RecordsMeet
  <1>13. ASSUME NEW i \in DOMAIN tl2, NEW j \in DOMAIN tl2, i # j
         PROVE  ~RecordsMeet(tl2[i], tl2[j])
    <2>1. CASE i \in 1 .. Len(tl) /\ j \in 1 .. Len(tl)
      BY <1>7, <1>13, <2>1 DEF Sound, NobodyMeets
    <2>2. CASE i = Len(tl) + 1 /\ j \in 1 .. Len(tl)
      BY <1>7, <1>12, <2>2
    <2>3. CASE i \in 1 .. Len(tl) /\ j = Len(tl) + 1
      BY <1>7, <1>12, <2>3
    <2> QED BY <1>7, <1>13, <2>1, <2>2, <2>3
  <1>14. NobodyMeets(ch, held2, tl2)
    BY <1>8, <1>11, <1>13 DEF Sound, NobodyMeets
  <1>15. Sound(ch, held2, tl2)
    BY <1>8, <1>10, <1>14 DEF Sound
  <1> QED BY <1>15 DEF held2, tl2

LEMMA CommitKept ==
  ASSUME NEW ch, NEW held, NEW tl, Sound(ch, held, tl), NEW x \in DOMAIN held,
         held[x] # None, NEW u \in Nat \ {0}, u <= held[x].usable
  PROVE  LET out == Committed(ch, tl, held[x], u)
         IN  /\ Sound(out.channel, [held EXCEPT ![x] = None], out.timeline)
             /\ Steady(ch, out.channel)
  <1> DEFINE s == held[x]
             n == RoundUpToWord(u)
             ch1 == Trim(ch, s, u)
             s1 == [s EXCEPT !.usable = n]
             held1 == [held EXCEPT ![x] = s1]
  <1>1. /\ s \in SlotType /\ s.roll \in 1 .. Len(ch.rolls) /\ SlotSound(ch, s)
        /\ ch.rolls[s.roll] \in RollType /\ RollSound(ch.rolls[s.roll])
        /\ Off(ch, s) \in Nat /\ End(ch, s) = Off(ch, s) + s.size
    BY SlotFacts
  <1>2. n \in Nat \ {0} /\ n % Word = 0 /\ u <= n /\ n <= s.usable
    <2>1. s.usable \in Nat /\ s.usable % Word = 0
      BY <1>1 DEF SlotSound, SlotType
    <2>2. n <= s.usable
      BY <2>1, RoundedUpFits
    <2>3. n \in Nat /\ u <= n /\ n % Word = 0
      BY RoundedUp
    <2> QED BY <2>2, <2>3
  <1>3. ch1 = Rewound(ch, s.roll, s, n)
    BY DEF Trim, Rewound
  <1>4. Sound(ch1, held1, tl) /\ Steady(ch, ch1)
    <2>1. held1 = [held EXCEPT ![x].usable = n]
      OBVIOUS
    <2>2. n \in Nat /\ n # 0 /\ n <= held[x].usable
      BY <1>2
    <2> HIDE DEF n, ch1, held1
    <2> QED BY <1>2, <1>3, <2>1, <2>2, RewoundOwn
  <1>5. /\ s1.usable = n /\ s1.roll = s.roll /\ s1.rollId = s.rollId
        /\ s1.address = s.address /\ s1.size = s.size /\ s1 # None
    <2>1. s1.usable = n /\ s1.roll = s.roll /\ s1.rollId = s.rollId
          /\ s1.address = s.address /\ s1.size = s.size
      BY <1>1 DEF SlotType
    <2>2. s1.roll # 0
      BY <1>1, <2>1
    <2> QED BY <2>1, <2>2 DEF None
  <1>6. held1[x] = s1 /\ DOMAIN held1 = DOMAIN held
        /\ [held1 EXCEPT ![x] = None] = [held EXCEPT ![x] = None]
    OBVIOUS
  <1>7. CASE Len(tl) < TimelineCapacity
    <2> DEFINE e == EntryOf(ch, s, u)
    <2>1. Committed(ch, tl, s, u) = [channel |-> ch1, timeline |-> Append(tl, e)]
      BY <1>7 DEF Committed
    <2>2. Off(ch1, s1) = Off(ch, s)
      BY <1>1, <1>4, <1>5 DEF Off, Steady, SameRolls
    <2>3. (s.address - ch.rolls[s.roll].base) % AddressSpace = Off(ch, s)
      <3>1. Off(ch, s) < AddressSpace
        <4>1. /\ s.size \in Nat /\ s.usable \in Nat /\ 0 < s.usable /\ s.usable <= s.size
              /\ End(ch, s) <= ch.rolls[s.roll].capacity
          BY <1>1 DEF SlotSound, SlotType
        <4>2. ch.rolls[s.roll].capacity \in Nat /\ ch.rolls[s.roll].capacity < AddressSpace
          BY <1>1 DEF RollSound, RollType
        <4> HIDE DEF s
        <4> QED BY <1>1, <4>1, <4>2, ChannelAssumption
      <3> QED BY <1>1, <3>1, Wrapped DEF Off
    <2>4. e = [rollId |-> s1.rollId, offset |-> Off(ch1, s1), size |-> u, roll |-> s1.roll]
      BY <1>5, <2>2, <2>3 DEF EntryOf
    <2> HIDE DEF e, s1, ch1, held1, n
    <2>5. Sound(ch1, [held1 EXCEPT ![x] = None], Append(tl, e))
      BY <1>2, <1>4, <1>5, <1>6, <2>4, Recorded
    <2> QED BY <1>4, <1>6, <2>1, <2>5
  <1>8. CASE ~(Len(tl) < TimelineCapacity)
    <2> DEFINE ch2 == RewindActive(ch1, s, 0)
    <2>1. Committed(ch, tl, s, u) = [channel |-> ch2, timeline |-> tl]
      BY <1>8 DEF Committed
    <2>2. ch2 = RewindActive(ch1, s1, 0)
      BY <1>5 DEF RewindActive, Rewind
    <2>3. 0 % Word = 0
      BY ChannelAssumption
    <2> HIDE DEF ch2, s1, ch1, held1, n
    <2>4. Sound(ch2, [held1 EXCEPT ![x] = None], tl) /\ Steady(ch1, ch2)
      <3>1. 0 <= held1[x].usable /\ x \in DOMAIN held1 /\ held1[x] # None /\ ch2 = RewindActive(ch1, held1[x], 0)
        BY <1>2, <1>5, <1>6, <2>2
      <3> QED BY <1>4, <2>3, <3>1, RewoundActive
    <2>5. Steady(ch, ch2)
      BY <1>4, <2>4 DEF Steady, SameRolls
    <2> QED BY <1>6, <2>1, <2>4, <2>5
  <1> QED BY <1>7, <1>8

-----------------------------------------------------------------------------
(* Sealing a roll and opening the next.                                     *)

\* Rolls are only added, and those there were keep their places and cursors.
Grown(ch, ch2) ==
  /\ Len(ch.rolls) <= Len(ch2.rolls)
  /\ \A r \in 1 .. Len(ch.rolls) :
       /\ ch2.rolls[r].id = ch.rolls[r].id
       /\ ch2.rolls[r].base = ch.rolls[r].base
       /\ ch2.rolls[r].capacity = ch.rolls[r].capacity
       /\ ch2.rolls[r].cursor = ch.rolls[r].cursor

LEMMA GrownSound ==
  ASSUME NEW ch, NEW ch2, NEW held, NEW tl, Sound(ch, held, tl), ChannelSound(ch2),
         Grown(ch, ch2),
         \A x \in DOMAIN held : held[x] # None /\ held[x].roll # ch2.active =>
           Beside(ch2, held[x].roll, ch2.active)
  PROVE  Sound(ch2, held, tl)
  <1> USE DEF Sound
  <1>1. Len(ch.rolls) \in Nat /\ Len(ch2.rolls) \in Nat
    BY DEF ChannelSound, ChannelType
  <1>2. ASSUME NEW x \in DOMAIN held, held[x] # None
        PROVE  /\ Off(ch2, held[x]) = Off(ch, held[x]) /\ Room(ch2, held[x]) = Room(ch, held[x])
               /\ SlotSound(ch2, held[x])
    <2>1. SlotSound(ch, held[x])
      BY <1>2 DEF SlotsSound
    <2>2. held[x].roll \in 1 .. Len(ch.rolls) /\ held[x].roll \in 1 .. Len(ch2.rolls)
      BY <1>1, <2>1 DEF SlotSound, Grown
    <2>3. Off(ch2, held[x]) = Off(ch, held[x])
      BY <2>2 DEF Off, Grown
    <2>4. End(ch2, held[x]) = End(ch, held[x])
      BY <2>3 DEF End
    <2>5. Room(ch2, held[x]) = Room(ch, held[x])
      BY <2>2, <2>4 DEF Room, Grown
    <2>6. SlotSound(ch2, held[x])
      BY <2>1, <2>2, <2>3, <2>4, <2>5 DEF SlotSound, Grown
    <2> QED BY <2>3, <2>5, <2>6
  <1>3. SlotsSound(ch2, held)
    BY <1>2 DEF SlotsSound
  <1>4. ASSUME NEW i \in DOMAIN tl
        PROVE  RecordSound(ch2, tl[i])
    <2>1. RecordSound(ch, tl[i])
      BY DEF RecordsSound
    <2>2. tl[i].roll \in 1 .. Len(ch.rolls) /\ tl[i].roll \in 1 .. Len(ch2.rolls)
      BY <1>1, <2>1 DEF RecordSound, Grown
    <2> QED BY <2>1, <2>2 DEF RecordSound, Grown
  <1>5. RecordsSound(ch2, tl)
    BY <1>4 DEF RecordsSound
  <1>6. NobodyMeets(ch2, held, tl)
    <2>1. ASSUME NEW x \in DOMAIN held, NEW y \in DOMAIN held,
                 x # y, held[x] # None, held[y] # None
          PROVE  ~SlotsMeet(ch2, held[x], held[y])
      <3>1. ~SlotsMeet(ch, held[x], held[y])
        BY <2>1 DEF NobodyMeets
      <3> QED BY <1>2, <2>1, <3>1 DEF SlotsMeet
    <2>2. ASSUME NEW x \in DOMAIN held, NEW i \in DOMAIN tl, held[x] # None
          PROVE  ~SlotMeetsRecord(ch2, held[x], tl[i])
      <3>1. ~SlotMeetsRecord(ch, held[x], tl[i])
        BY <2>2 DEF NobodyMeets
      <3> QED BY <1>2, <2>2, <3>1 DEF SlotMeetsRecord
    <2> QED BY <2>1, <2>2 DEF NobodyMeets
  <1> QED BY <1>3, <1>5, <1>6

\* The file of the active roll is trimmed to its claimed bytes.
Shortened(ch) == [ch EXCEPT !.rolls[ch.active].fileSize = ch.rolls[ch.active].cursor]

LEMMA ShortenedKept ==
  ASSUME NEW ch, NEW held, NEW tl, Sound(ch, held, tl), ch.active # 0
  PROVE  /\ Sound(Shortened(ch), held, tl) /\ SameRolls(ch, Shortened(ch))
         /\ Shortened(ch) \in ChannelType
  <1> DEFINE r == ch.active
             v == [ch.rolls[r] EXCEPT !.fileSize = ch.rolls[r].cursor]
             ch2 == [ch EXCEPT !.rolls[r] = v]
  <1>1. r \in 1 .. Len(ch.rolls) /\ ch \in ChannelType
    <2>1. Len(ch.rolls) \in Nat /\ r = Len(ch.rolls) /\ ch \in ChannelType
      BY DEF Sound, ChannelSound, ChannelType
    <2> QED BY <2>1
  <1>2. ch.rolls[r] \in RollType /\ RollSound(ch.rolls[r])
    BY <1>1, RollTyped DEF Sound
  <1>3. /\ v \in RollType /\ v.id = ch.rolls[r].id /\ v.base = ch.rolls[r].base
        /\ v.capacity = ch.rolls[r].capacity /\ v.cursor = ch.rolls[r].cursor
        /\ v.fileSize = ch.rolls[r].cursor
    BY <1>2 DEF RollType
  <1>4. RollSound(v)
    <2>1. ch.rolls[r].cursor \in Nat /\ ch.rolls[r].fileSize \in Nat /\ ch.rolls[r].capacity \in Nat
      BY <1>2 DEF RollType
    <2>2. ch.rolls[r].cursor <= ch.rolls[r].capacity
      BY <1>2, <2>1 DEF RollSound
    <2> HIDE DEF v
    <2> QED BY <1>2, <1>3, <2>1, <2>2 DEF RollSound
  <1>5. Shortened(ch) = ch2
    BY <1>1 DEF Shortened, ChannelType
  <1> HIDE DEF v, ch2
  <1>6. /\ ch2 \in ChannelType
        /\ Len(ch2.rolls) = Len(ch.rolls)
        /\ ch2.active = ch.active
        /\ \A q \in 1 .. Len(ch.rolls) :
             ch2.rolls[q] = IF q = r THEN v ELSE ch.rolls[q]
    BY <1>1, <1>3, RollChanged DEF ch2
  <1>7. ChannelSound(ch2)
    BY <1>4, <1>6 DEF Sound, ChannelSound
  <1>8. SameRolls(ch, ch2)
    BY <1>3, <1>6 DEF SameRolls
  <1>9. Len(ch.rolls) \in Nat
    BY <1>1 DEF ChannelType
  <1>10. Grown(ch, ch2)
    BY <1>3, <1>6, <1>9 DEF Grown
  <1>11. \A x \in DOMAIN held : held[x] # None /\ held[x].roll # ch2.active =>
           Beside(ch2, held[x].roll, ch2.active)
    <2> SUFFICES ASSUME NEW x \in DOMAIN held, held[x] # None, held[x].roll # ch2.active
                 PROVE  Beside(ch2, held[x].roll, ch2.active)
      OBVIOUS
    <2>1. Beside(ch, held[x].roll, r)
      BY <1>6 DEF Sound, SlotsSound
    <2>2. held[x].roll \in 1 .. Len(ch.rolls)
      BY SlotFacts
    <2>3. /\ ch2.rolls[held[x].roll].base = ch.rolls[held[x].roll].base
          /\ ch2.rolls[held[x].roll].capacity = ch.rolls[held[x].roll].capacity
          /\ ch2.rolls[r].base = ch.rolls[r].base
          /\ ch2.rolls[r].capacity = ch.rolls[r].capacity
      BY <1>1, <1>8, <2>2 DEF SameRolls
    <2> QED BY <1>6, <2>1, <2>3 DEF Beside
  <1>12. Sound(ch2, held, tl)
    BY <1>7, <1>10, <1>11, GrownSound
  <1> QED BY <1>5, <1>6, <1>8, <1>12

\* Only the rolls and which of them is active make a channel sound.
LEMMA Renumbered ==
  ASSUME NEW ch, NEW held, NEW tl, Sound(ch, held, tl), NEW ch2 \in ChannelType,
         ch2.rolls = ch.rolls, ch2.active = ch.active
  PROVE  Sound(ch2, held, tl)
  <1>1. ChannelSound(ch2)
    BY DEF Sound, ChannelSound
  <1>2. Len(ch.rolls) \in Nat
    BY DEF Sound, ChannelSound, ChannelType
  <1>3. Grown(ch, ch2)
    BY <1>2 DEF Grown
  <1>4. \A x \in DOMAIN held : held[x] # None /\ held[x].roll # ch2.active =>
          Beside(ch2, held[x].roll, ch2.active)
    BY DEF Sound, SlotsSound, Beside
  <1> QED BY <1>1, <1>3, <1>4, GrownSound

LEMMA SealKept ==
  ASSUME NEW ch, NEW held, NEW tl, Sound(ch, held, tl)
  PROVE  Sound(Seal(ch), held, tl) /\ SameRolls(ch, Seal(ch))
  <1>1. CASE ch.active = 0
    BY <1>1 DEF Seal, SameRolls
  <1>2. CASE ch.active # 0
    <2> DEFINE ch1 == Shortened(ch)
               ch2 == [ch1 EXCEPT !.activeId = @ + 1]
    <2>1. Sound(ch1, held, tl) /\ SameRolls(ch, ch1) /\ ch1 \in ChannelType
      BY <1>2, ShortenedKept
    <2>2. Seal(ch) = ch2
      BY <1>2 DEF Seal, Shortened, Sound, ChannelSound, ChannelType
    <2> HIDE DEF ch1
    <2>3. ch2 \in ChannelType /\ ch2.rolls = ch1.rolls /\ ch2.active = ch1.active
      BY <2>1 DEF ChannelType
    <2> HIDE DEF ch2
    <2>4. Sound(ch2, held, tl)
      BY <2>1, <2>3, Renumbered
    <2> QED BY <2>1, <2>2, <2>3, <2>4 DEF SameRolls
  <1> QED BY <1>1, <1>2

\* openNewRoll() leaves an empty roll active, which no other meets.
Fresh(ch, m) ==
  /\ ch.active \in 1 .. Len(ch.rolls)
  /\ ch.rolls[ch.active].cursor = 0 /\ ch.rolls[ch.active].capacity = CapacityFor(m)

GapsAfter(m) ==
  /\ CapacityFor(m) < AddressSpace
  /\ \A b, c \in Bases :
       b + CapacityFor(m) <= AddressSpace => (b + CapacityFor(m)) % AddressSpace # c

LEMMA Opened ==
  ASSUME NEW ch, NEW held, NEW tl, Sound(ch, held, tl), NEW m \in Nat, GapsAfter(m),
         NEW ch2 \in OpenNewRoll(ch, held, m)
  PROVE  Sound(ch2, held, tl) /\ Ready(ch2) /\ Fresh(ch2, m)
  <1> DEFINE sealed == Seal(ch)
             n == Len(ch.rolls)
  <1>1. /\ Sound(sealed, held, tl) /\ SameRolls(ch, sealed)
        /\ sealed \in ChannelType /\ ch \in ChannelType /\ ch.active = n
    BY SealKept DEF Sound, ChannelSound
  <1> DEFINE bytes == CapacityFor(m)
  <1>2. bytes \in Nat
    BY ChannelAssumption DEF CapacityFor
  <1> HIDE DEF bytes, sealed
  <1>3. PICK b \in FreeBases(ch, held, bytes) :
          ch2 = [sealed EXCEPT !.rolls = Append(@, NewRoll(sealed.activeId, b, bytes)),
                               !.active = n + 1]
    BY DEF OpenNewRoll, bytes, sealed
  <1> DEFINE roll == NewRoll(sealed.activeId, b, bytes)
  <1>4. b \in Nat /\ b \in Bases /\ b + bytes <= AddressSpace
    BY <1>3, ChannelAssumption DEF FreeBases
  <1>5. /\ roll \in RollType /\ roll.id = sealed.activeId /\ roll.base = b
        /\ roll.capacity = bytes /\ roll.cursor = 0 /\ roll.fileSize = bytes
    BY <1>1, <1>2, <1>4 DEF NewRoll, RollType, ChannelType
  <1>6. RollSound(roll)
    <2>1. 0 % Word = 0
      BY ChannelAssumption
    <2>2. bytes < AddressSpace /\ \A c \in Bases : (b + bytes) % AddressSpace # c
      BY <1>4 DEF GapsAfter, bytes
    <2> HIDE DEF roll
    <2> QED BY <1>2, <1>4, <1>5, <2>1, <2>2 DEF RollSound
  <1> HIDE DEF roll
  <1>7. sealed.rolls \in Seq(RollType) /\ Len(sealed.rolls) = n /\ n \in Nat
    BY <1>1 DEF ChannelType, SameRolls
  <1>8. /\ ch2.rolls = Append(sealed.rolls, roll) /\ ch2.active = n + 1
        /\ ch2.activeId = sealed.activeId
    BY <1>1, <1>3 DEF ChannelType, roll
  <1>9. /\ ch2.rolls \in Seq(RollType) /\ Len(ch2.rolls) = n + 1
        /\ \A r \in 1 .. n : ch2.rolls[r] = sealed.rolls[r]
        /\ ch2.rolls[n + 1] = roll
    BY <1>5, <1>7, <1>8, AppendProperties
  <1>10. ch2 \in ChannelType
    <2>1. ch2 = [rolls |-> ch2.rolls, active |-> ch2.active, activeId |-> ch2.activeId]
      BY <1>1, <1>3, <1>8 DEF ChannelType
    <2>2. sealed.activeId \in Nat
      BY <1>1 DEF ChannelType
    <2>3. \A q \in Seq(RollType), i, j \in Nat :
            [rolls |-> q, active |-> i, activeId |-> j] \in ChannelType
      BY DEF ChannelType
    <2>4. ch2.active \in Nat /\ ch2.activeId \in Nat
      BY <1>7, <1>8, <2>2
    <2> QED BY <1>9, <2>1, <2>3, <2>4
  <1>11. ChannelSound(ch2)
    <2> SUFFICES ASSUME NEW r \in 1 .. n + 1
                 PROVE  RollSound(ch2.rolls[r])
      BY <1>8, <1>9, <1>10 DEF ChannelSound
    <2>1. CASE r \in 1 .. n
      BY <1>1, <1>7, <1>9, <2>1 DEF Sound, ChannelSound
    <2>2. CASE r = n + 1
      BY <1>6, <1>9, <2>2
    <2> QED BY <1>7, <2>1, <2>2
  <1>12. Grown(sealed, ch2)
    BY <1>7, <1>9 DEF Grown
  <1>13. ASSUME NEW x \in DOMAIN held, held[x] # None
         PROVE  Beside(ch2, held[x].roll, ch2.active)
    <2>1. held[x].roll \in 1 .. n
      BY <1>13, SlotFacts
    <2>2. held[x].roll \in MappedRolls(ch, held)
      BY <1>7, <2>1 DEF MappedRolls
    <2>3. \/ b + bytes <= ch.rolls[held[x].roll].base
          \/ ch.rolls[held[x].roll].base + ch.rolls[held[x].roll].capacity <= b
      BY <1>3, <2>2 DEF FreeBases
    <2>4. /\ ch2.rolls[held[x].roll].base = ch.rolls[held[x].roll].base
          /\ ch2.rolls[held[x].roll].capacity = ch.rolls[held[x].roll].capacity
      BY <1>1, <1>9, <2>1 DEF SameRolls
    <2>5. ch2.rolls[ch2.active].base = b /\ ch2.rolls[ch2.active].capacity = bytes
      BY <1>5, <1>8, <1>9
    <2> QED BY <2>3, <2>4, <2>5 DEF Beside
  <1>14. Sound(ch2, held, tl)
    BY <1>1, <1>11, <1>12, <1>13, GrownSound
  <1>15. Ready(ch2)
    BY <1>5, <1>8, <1>9 DEF Ready
  <1>16. Fresh(ch2, m)
    <2>1. n + 1 \in 1 .. n + 1
      BY <1>7
    <2> QED BY <1>5, <1>8, <1>9, <2>1 DEF Fresh, bytes
  <1> QED BY <1>14, <1>15, <1>16

\* A slot above everything else in the active roll is nobody else's.
LEMMA SlotAdded ==
  ASSUME NEW ch, NEW held, NEW tl, Sound(ch, held, tl), NEW x \in DOMAIN held,
         held[x] = None, NEW s, SlotSound(ch, s), s.roll = ch.active,
         ch.rolls[ch.active] \in RollType,
         \A y \in DOMAIN held : held[y] # None /\ held[y].roll = s.roll =>
           Off(ch, held[y]) + Room(ch, held[y]) <= Off(ch, s),
         \A i \in DOMAIN tl : tl[i].roll = s.roll =>
           tl[i].offset + tl[i].size <= Off(ch, s)
  PROVE  Sound(ch, [held EXCEPT ![x] = s], tl)
  <1> DEFINE held2 == [held EXCEPT ![x] = s]
  <1>1. DOMAIN held2 = DOMAIN held /\ \A y \in DOMAIN held : held2[y] = IF y = x THEN s ELSE held[y]
    OBVIOUS
  <1>2. held2 = [held EXCEPT ![x] = s]
    OBVIOUS
  <1> HIDE DEF held2
  <1>3. SlotsSound(ch, held2)
    BY <1>1 DEF Sound, SlotsSound
  <1>4. Off(ch, s) \in Int /\ Room(ch, s) \in Nat
    BY DEF SlotSound, SlotType, RollType, Off, Room
  <1>5. ASSUME NEW y \in DOMAIN held, y # x, held[y] # None
        PROVE  ~SlotsMeet(ch, s, held[y]) /\ ~SlotsMeet(ch, held[y], s)
    <2>1. Off(ch, held[y]) \in Nat /\ Room(ch, held[y]) \in Nat
      BY <1>5, SlotFacts
    <2>2. held[y].roll = s.roll => Off(ch, held[y]) + Room(ch, held[y]) <= Off(ch, s)
      BY <1>5
    <2> QED BY <1>4, <2>1, <2>2 DEF SlotsMeet
  <1>6. ASSUME NEW i \in DOMAIN tl
        PROVE  ~SlotMeetsRecord(ch, s, tl[i])
    <2>1. tl[i].offset \in Nat /\ tl[i].size \in Nat
      BY DEF Sound, RecordsSound, RecordSound, EntryType
    <2>2. tl[i].roll = s.roll => tl[i].offset + tl[i].size <= Off(ch, s)
      OBVIOUS
    <2> QED BY <1>4, <2>1, <2>2 DEF SlotMeetsRecord
  <1>7. ASSUME NEW y \in DOMAIN held, NEW z \in DOMAIN held,
               y # z, held2[y] # None, held2[z] # None
        PROVE  ~SlotsMeet(ch, held2[y], held2[z])
    <2>1. CASE y # x /\ z # x
      BY <1>1, <1>7, <2>1 DEF Sound, NobodyMeets
    <2>2. CASE y = x
      BY <1>1, <1>5, <1>7, <2>2
    <2>3. CASE z = x
      BY <1>1, <1>5, <1>7, <2>3
    <2> QED BY <2>1, <2>2, <2>3
  <1>8. ASSUME NEW y \in DOMAIN held, NEW i \in DOMAIN tl, held2[y] # None
        PROVE  ~SlotMeetsRecord(ch, held2[y], tl[i])
    BY <1>1, <1>6, <1>8 DEF Sound, NobodyMeets
  <1>9. NobodyMeets(ch, held2, tl)
    BY <1>1, <1>7, <1>8 DEF Sound, NobodyMeets
  <1>10. Sound(ch, held2, tl)
    BY <1>3, <1>9 DEF Sound
  <1> QED BY <1>2, <1>10

Unshrunk(held) == \A y \in DOMAIN held : held[y] # None => held[y].usable = held[y].size

LEMMA Carved ==
  ASSUME NEW ch, NEW held, NEW tl, Sound(ch, held, tl), Ready(ch), Unshrunk(held),
         NEW x \in DOMAIN held, held[x] = None, ch.active \in 1 .. Len(ch.rolls),
         NEW size \in Nat \ {0},
         ch.rolls[ch.active].cursor + RoundUpToWord(size) <= ch.rolls[ch.active].capacity
  PROVE  LET out == Carve(ch, size)
         IN  /\ Sound(out.channel, [held EXCEPT ![x] = out.slot], tl)
             /\ Ready(out.channel)
             /\ out.slot # None /\ size <= out.slot.usable
  <1> DEFINE r == ch.active
             roll == ch.rolls[r]
             n == RoundUpToWord(size)
             c == roll.cursor + n
             v == [roll EXCEPT !.cursor = c]
             ch2 == [ch EXCEPT !.rolls[r] = v]
             s == [roll |-> r, rollId |-> ch.activeId, address |-> roll.base + roll.cursor,
                   size |-> n, usable |-> n]
  <1>1. /\ ch \in ChannelType /\ roll \in RollType /\ RollSound(roll) /\ r \in Nat
        /\ ch.activeId \in Nat
    BY RollTyped DEF Sound, ChannelSound, ChannelType
  <1>2. n \in Nat \ {0} /\ size <= n /\ n % Word = 0
    BY RoundedUp
  <1>3. /\ roll.cursor \in Nat /\ roll.base \in Nat /\ roll.capacity \in Nat
        /\ roll.fileSize \in Nat
    BY <1>1 DEF RollType
  <1>4. /\ roll.cursor % Word = 0 /\ roll.fileSize = roll.capacity
        /\ roll.id = ch.activeId /\ roll.capacity < AddressSpace
        /\ roll.base + roll.capacity <= AddressSpace
    BY <1>1 DEF RollSound, Ready
  <1>5. roll.cursor + n <= roll.capacity
    OBVIOUS
  <1> HIDE DEF n
  <1>6. c \in Nat /\ c % Word = 0 /\ c <= roll.fileSize /\ roll.cursor <= c
    <2> HIDE DEF roll
    <2>1. n \in Int /\ roll.cursor \in Int
      BY <1>2, <1>3
    <2>2. c % Word = 0
      BY <1>2, <1>4, <2>1, WordsAdd
    <2> QED BY <1>2, <1>3, <1>4, <1>5, <2>2
  <1>7. /\ (roll.cursor + n) % AddressSpace = c
        /\ (roll.base + roll.cursor) % AddressSpace = roll.base + roll.cursor
    <2>1. c < AddressSpace /\ roll.base + roll.cursor < AddressSpace
      <3> HIDE DEF roll
      <3> QED BY <1>2, <1>3, <1>4, <1>5, ChannelAssumption
    <2>2. c \in Int /\ 0 <= c /\ roll.base + roll.cursor \in Int /\ 0 <= roll.base + roll.cursor
      <3> HIDE DEF roll
      <3> QED BY <1>3, <1>6
    <2> QED BY <2>1, <2>2, Wrapped
  <1>8. Carve(ch, size) = [channel |-> ch2, slot |-> s]
    <2>1. Claim(roll, n) = v
      BY <1>7 DEF Claim
    <2> QED BY <1>7, <2>1 DEF Carve, n
  <1>9. ch2 = [ch EXCEPT !.rolls[r].cursor = c]
    BY <1>1 DEF ChannelType
  <1>10. /\ v \in RollType /\ v.cursor = c /\ v.id = roll.id
         /\ v.base = roll.base /\ v.capacity = roll.capacity
         /\ v.fileSize = roll.fileSize
    BY <1>1, <1>6 DEF RollType
  <1> HIDE DEF v
  <1>11. /\ ch2.active = r /\ ch2.activeId = ch.activeId
         /\ Len(ch2.rolls) = Len(ch.rolls)
         /\ \A q \in 1 .. Len(ch.rolls) :
              ch2.rolls[q] = IF q = r THEN v ELSE ch.rolls[q]
    BY <1>1, <1>10, RollChanged
  <1>12. ch2.rolls[r] = v
    BY <1>11
  <1> HIDE DEF ch2
  <1>13. ASSUME NEW y \in DOMAIN held, held[y] # None, held[y].roll = r
         PROVE  /\ held[y].usable = held[y].size /\ held[y].usable \in Nat
                /\ Room(ch, held[y]) = held[y].size /\ Room(ch2, held[y]) = held[y].size
                /\ Off(ch, held[y]) \in Nat /\ Off(ch2, held[y]) = Off(ch, held[y])
                /\ Off(ch, held[y]) + held[y].usable <= roll.cursor
    <2>1. held[y].usable = held[y].size
      BY <1>13 DEF Unshrunk
    <2>2. Room(ch, held[y]) = held[y].size /\ Room(ch2, held[y]) = held[y].size
      BY <2>1 DEF Room
    <2>3. /\ held[y] \in SlotType /\ Off(ch, held[y]) \in Nat
          /\ Off(ch, held[y]) + Room(ch, held[y]) <= roll.cursor
      BY <1>13, SlotFacts
    <2>4. held[y].usable \in Nat
      BY <2>3 DEF SlotType
    <2>5. Off(ch2, held[y]) = Off(ch, held[y])
      BY <1>10, <1>12, <1>13 DEF Off
    <2> QED BY <2>1, <2>2, <2>3, <2>4, <2>5
  <1>14. ASSUME NEW i \in DOMAIN tl, tl[i].roll = r
         PROVE  /\ tl[i].offset \in Nat /\ tl[i].size \in Nat
                /\ tl[i].offset + tl[i].size <= roll.cursor
    BY <1>14 DEF Sound, RecordsSound, RecordSound, EntryType
  <1>15. Sound(ch2, held, tl)
    <2>1. \A y \in DOMAIN held : held[y] # None /\ held[y].roll = r =>
            /\ Off(ch, held[y]) + held[y].usable <= c
            /\ c <= roll.cursor \/ held[y].usable = held[y].size
      BY <1>3, <1>6, <1>13
    <2>2. \A i \in DOMAIN tl : tl[i].roll = r => tl[i].offset + tl[i].size <= c
      BY <1>3, <1>6, <1>14
    <2> HIDE DEF c
    <2> QED BY <1>6, <1>9, <2>1, <2>2, CursorMoved
  <1>16. Ready(ch2)
    BY <1>4, <1>10, <1>11, <1>12 DEF Ready
  <1>17. /\ s \in SlotType /\ s.roll = r /\ s.rollId = ch.activeId
         /\ s.size = n /\ s.usable = n /\ s.address = roll.base + roll.cursor
    <2>1. roll.base + roll.cursor \in Nat /\ n \in Nat
      <3> HIDE DEF roll
      <3> QED BY <1>2, <1>3
    <2> QED BY <1>1, <2>1 DEF SlotType
  <1> HIDE DEF s
  <1>18. Off(ch2, s) = roll.cursor /\ End(ch2, s) = c /\ Room(ch2, s) = n
    <2>1. Off(ch2, s) = (roll.base + roll.cursor) - roll.base
      <3>1. ch2.rolls[s.roll].base = roll.base
        BY <1>10, <1>12, <1>17
      <3> QED BY <1>17, <3>1 DEF Off
    <2>2. Off(ch2, s) = roll.cursor
      <3> HIDE DEF roll
      <3> QED BY <1>3, <2>1
    <2> QED BY <1>6, <1>17, <2>2 DEF End, Room
  <1>19. SlotSound(ch2, s)
    <2>1. r \in 1 .. Len(ch2.rolls) /\ s.rollId = ch2.rolls[s.roll].id
      BY <1>4, <1>10, <1>11, <1>12, <1>17
    <2>2. Off(ch2, s) + Room(ch2, s) <= ch2.rolls[s.roll].cursor
      BY <1>6, <1>10, <1>12, <1>17, <1>18
    <2>3. End(ch2, s) <= ch2.rolls[s.roll].capacity
      BY <1>4, <1>6, <1>10, <1>12, <1>17, <1>18
    <2> HIDE DEF roll
    <2> QED BY <1>2, <1>3, <1>4, <1>17, <1>18, <2>1, <2>2, <2>3 DEF SlotSound
  <1>20. s # None
    <2>1. s.roll # 0
      BY <1>17
    <2> QED BY <2>1 DEF None
  <1>21. Sound(ch2, [held EXCEPT ![x] = s], tl)
    <2>1. \A y \in DOMAIN held : held[y] # None /\ held[y].roll = s.roll =>
            Off(ch2, held[y]) + Room(ch2, held[y]) <= Off(ch2, s)
      BY <1>13, <1>17, <1>18
    <2>2. \A i \in DOMAIN tl : tl[i].roll = s.roll =>
            tl[i].offset + tl[i].size <= Off(ch2, s)
      BY <1>14, <1>17, <1>18
    <2> QED BY <1>10, <1>11, <1>12, <1>15, <1>17, <1>19, <2>1, <2>2, SlotAdded
  <1> QED BY <1>2, <1>8, <1>16, <1>17, <1>20, <1>21

LEMMA ReservedKept ==
  ASSUME DisciplinedUse, RollsHaveGaps, NEW ch, NEW held, NEW tl, Sound(ch, held, tl),
         Ready(ch), Unshrunk(held), NEW x \in DOMAIN held, held[x] = None,
         NEW size \in Sizes \cup FrameSizes, NEW out \in Reserved(ch, held, size)
  PROVE  /\ Sound(out.channel, [held EXCEPT ![x] = out.slot], tl)
         /\ Ready(out.channel)
         /\ out.slot # None /\ size <= out.slot.usable
  <1> DEFINE m == RoundUpToWord(size)
  <1>1. size \in Nat \ {0} /\ m \in Nat
    BY ChannelAssumption, RoundedUp
  <1>2. CASE HasRoom(ch, size)
    <2>1. out = Carve(ch, size)
      BY <1>2 DEF Reserved
    <2>2. ch.active \in 1 .. Len(ch.rolls)
      <3>1. Len(ch.rolls) \in Nat /\ ch.active = Len(ch.rolls)
        BY DEF Sound, ChannelSound, ChannelType
      <3>2. ch.active # 0
        BY <1>2 DEF HasRoom
      <3> QED BY <3>1, <3>2
    <2> DEFINE roll == ch.rolls[ch.active]
    <2>3. roll \in RollType /\ RollSound(roll)
      BY <2>2, RollTyped DEF Sound
    <2>4. /\ roll.cursor \in Nat /\ roll.capacity \in Nat /\ roll.cursor <= roll.capacity
          /\ roll.capacity < AddressSpace
      BY <2>3 DEF RollSound, RollType
    <2>5. (roll.capacity - roll.cursor) % AddressSpace = roll.capacity - roll.cursor
      <3> HIDE DEF roll
      <3> DEFINE k == roll.capacity - roll.cursor
      <3>1. k \in Int /\ 0 <= k /\ k < AddressSpace
        BY <2>4, ChannelAssumption
      <3> QED BY <3>1, Wrapped
    <2>6. m <= roll.capacity - roll.cursor
      BY <1>2, <2>5 DEF HasRoom, Fits
    <2>7. roll.cursor + m <= roll.capacity
      <3> HIDE DEF roll, m
      <3> QED BY <1>1, <2>4, <2>6
    <2> QED BY <1>1, <2>1, <2>2, <2>7, Carved
  <1>3. CASE ~HasRoom(ch, size)
    <2>1. PICK opened \in OpenNewRoll(ch, held, m) : out = Carve(opened, size)
      BY <1>3 DEF Reserved
    <2>2. GapsAfter(m)
      BY DEF RollsHaveGaps, GapsAfter
    <2>3. Sound(opened, held, tl) /\ Ready(opened) /\ Fresh(opened, m)
      BY <1>1, <2>1, <2>2, Opened
    <2>4. /\ opened.active \in 1 .. Len(opened.rolls)
          /\ opened.rolls[opened.active].cursor + m <= opened.rolls[opened.active].capacity
      <3>1. m <= CapacityFor(m)
        BY <1>1, ChannelAssumption DEF CapacityFor
      <3> HIDE DEF m
      <3> QED BY <1>1, <2>3, <3>1 DEF Fresh
    <2> QED BY <1>1, <2>1, <2>3, <2>4, Carved
  <1> QED BY <1>2, <1>3

-----------------------------------------------------------------------------
(* The calls.                                                               *)

LEMMA SteadyReady ==
  ASSUME NEW ch, NEW held, NEW tl, Sound(ch, held, tl), Ready(ch),
         NEW ch2, Steady(ch, ch2)
  PROVE  Ready(ch2)
  <1>1. Len(ch.rolls) \in Nat /\ ch.active = Len(ch.rolls)
    BY DEF Sound, ChannelSound, ChannelType
  <1>2. ch.active # 0 => ch.active \in 1 .. Len(ch.rolls)
    BY <1>1
  <1> QED BY <1>2 DEF Ready, Steady, SameRolls

LEMMA InitKept ==
  ASSUME Init
  PROVE  IInv
  <1> USE DEF Init
  <1>1. /\ channel.rolls = <<>> /\ channel.active = 0 /\ channel.activeId = 0
        /\ Len(channel.rolls) = 0 /\ channel.rolls \in Seq(RollType)
    BY EmptySeq
  <1>2. channel \in ChannelType
    BY <1>1 DEF ChannelType
  <1>3. ChannelSound(channel)
    BY <1>1, <1>2 DEF ChannelSound
  <1>4. \A h \in Handles : reservation[h] = None
    OBVIOUS
  <1>5. SlotsSound(channel, reservation)
    BY <1>4 DEF SlotsSound
  <1>6. RecordsSound(channel, timeline)
    BY EmptySeq DEF RecordsSound
  <1>7. NobodyMeets(channel, reservation, timeline)
    BY <1>4 DEF NobodyMeets
  <1> QED BY <1>1, <1>3, <1>5, <1>6, <1>7 DEF IInv, Sound, Ready

\* Whoever may reserve holds only whole slots.
LEMMA ReservingFacts ==
  ASSUME DisciplinedUse, IInv, Reserving
  PROVE  /\ Unshrunk(reservation) /\ Ready(channel) /\ ~failed /\ ~closed
         /\ \A h \in Handles : Unshrunk(HeldWithout(h))
  <1>1. ~failed /\ ~closed /\ \A h \in Handles : ~Shrunk(h)
    BY DEF Reserving, DisciplinedUse
  <1>2. ASSUME NEW h \in Handles, reservation[h] # None
        PROVE  reservation[h].usable = reservation[h].size
    <2>1. h \in DOMAIN reservation
      BY DEF IInv
    <2>2. SlotSound(channel, reservation[h]) /\ reservation[h] \in SlotType
      BY <1>2, <2>1 DEF IInv, Sound, SlotsSound, SlotSound
    <2>3. ~(reservation[h].usable < reservation[h].size)
      BY <1>1, <1>2 DEF Shrunk, Holds
    <2> QED BY <2>2, <2>3 DEF SlotSound, SlotType
  <1>3. Unshrunk(reservation)
    BY <1>2 DEF IInv, Unshrunk
  <1>4. \A h \in Handles : Unshrunk(HeldWithout(h))
    BY <1>3 DEF IInv, Unshrunk, HeldWithout
  <1> QED BY <1>1, <1>3, <1>4 DEF IInv

LEMMA ReserveKept ==
  ASSUME DisciplinedUse, RollsHaveGaps, IInv, NEW h \in Handles, Reserve(h)
  PROVE  IInv'
  <1> PICK size \in Sizes : \E out \in Reserved(channel, reservation, size) :
        channel' = out.channel /\ reservation' = [reservation EXCEPT ![h] = out.slot]
    BY DEF Reserve
  <1>1. PICK out \in Reserved(channel, reservation, size) :
          channel' = out.channel /\ reservation' = [reservation EXCEPT ![h] = out.slot]
    OBVIOUS
  <1>2. /\ Reserving /\ reservation[h] = None /\ UNCHANGED <<failed, timeline, closed>>
        /\ h \in DOMAIN reservation
    BY DEF Reserve, Holds, IInv
  <1>3. /\ Sound(out.channel, [reservation EXCEPT ![h] = out.slot], timeline)
        /\ Ready(out.channel)
    BY <1>1, <1>2, ReservingFacts, ReservedKept DEF IInv
  <1> QED BY <1>1, <1>2, <1>3 DEF IInv

LEMMA ShrinkKept ==
  ASSUME DisciplinedUse, IInv, NEW h \in Handles, Shrink(h)
  PROVE  IInv'
  <1>1. PICK newSize \in FrameSizes :
          /\ newSize <= reservation[h].size
          /\ channel' = RewindActive(channel, reservation[h], newSize)
          /\ reservation' = [reservation EXCEPT ![h].usable = newSize]
    BY DEF Shrink
  <1>2. /\ Reserving /\ reservation[h] # None /\ UNCHANGED <<failed, timeline, closed>>
        /\ h \in DOMAIN reservation
    BY DEF Shrink, Holds, IInv
  <1>3. newSize \in Nat /\ newSize # 0 /\ newSize % Word = 0
    BY ChannelAssumption DEF DisciplinedUse
  <1>4. newSize <= reservation[h].usable
    BY <1>1, <1>2, ReservingFacts DEF Unshrunk
  <1>5. Sound(channel', reservation', timeline) /\ Steady(channel, channel')
    BY <1>1, <1>2, <1>3, <1>4, RewoundActive DEF IInv
  <1>6. Ready(channel')
    BY <1>2, <1>5, ReservingFacts, SteadyReady DEF IInv
  <1> QED BY <1>1, <1>2, <1>5, <1>6 DEF IInv

\* What dropping a handle's slot leaves.
LEMMA DroppedSlot ==
  ASSUME IInv, NEW h \in Handles, Holds(h)
  PROVE  LET ch == RewindActive(channel, reservation[h], 0)
         IN  /\ Sound(ch, HeldWithout(h), timeline) /\ Steady(channel, ch)
             /\ h \in DOMAIN HeldWithout(h) /\ HeldWithout(h)[h] = None
             /\ DOMAIN HeldWithout(h) = Handles
             /\ Ready(channel) => Ready(ch)
  <1>1. h \in DOMAIN reservation /\ reservation[h] # None
    BY DEF IInv, Holds
  <1>2. reservation[h].usable \in Nat
    BY <1>1, SlotFacts DEF IInv, SlotType
  <1>3. 0 <= reservation[h].usable /\ 0 % Word = 0
    BY <1>2, ChannelAssumption
  <1> DEFINE ch == RewindActive(channel, reservation[h], 0)
  <1>4. Sound(ch, HeldWithout(h), timeline) /\ Steady(channel, ch)
    BY <1>1, <1>3, RewoundActive DEF IInv, HeldWithout
  <1> HIDE DEF ch
  <1>5. Ready(channel) => Ready(ch)
    BY <1>4, SteadyReady DEF IInv
  <1>6. /\ h \in DOMAIN HeldWithout(h) /\ HeldWithout(h)[h] = None
        /\ DOMAIN HeldWithout(h) = Handles
    BY DEF HeldWithout, IInv
  <1> QED BY <1>4, <1>5, <1>6 DEF ch

LEMMA GrowKept ==
  ASSUME DisciplinedUse, RollsHaveGaps, IInv, NEW h \in Handles, Grow(h)
  PROVE  IInv'
  <1> DEFINE ch == RewindActive(channel, reservation[h], 0)
             held == HeldWithout(h)
  <1> PICK newSize \in FrameSizes : \E out \in Reserved(ch, held, newSize) :
        channel' = out.channel /\ reservation' = [reservation EXCEPT ![h] = out.slot]
    BY DEF Grow
  <1>1. PICK out \in Reserved(ch, held, newSize) :
          channel' = out.channel /\ reservation' = [reservation EXCEPT ![h] = out.slot]
    OBVIOUS
  <1>2. Reserving /\ Holds(h) /\ UNCHANGED <<failed, timeline, closed>>
    BY DEF Grow
  <1>3. /\ Sound(ch, held, timeline) /\ Ready(ch) /\ h \in DOMAIN held /\ held[h] = None
        /\ DOMAIN held = Handles /\ Unshrunk(held)
    BY <1>2, DroppedSlot, ReservingFacts
  <1>4. [held EXCEPT ![h] = out.slot] = [reservation EXCEPT ![h] = out.slot]
    BY DEF HeldWithout, IInv
  <1> HIDE DEF ch, held
  <1>5. /\ Sound(out.channel, [held EXCEPT ![h] = out.slot], timeline)
        /\ Ready(out.channel)
    BY <1>1, <1>3, ReservedKept
  <1> QED BY <1>1, <1>2, <1>4, <1>5 DEF IInv

LEMMA CommitKeeps ==
  ASSUME IInv, NEW h \in Handles, Commit(h)
  PROVE  IInv'
  <1>1. PICK used \in Sizes \cup FrameSizes :
          /\ used <= reservation[h].usable
          /\ channel' = Committed(channel, timeline, reservation[h], used).channel
          /\ timeline' = Committed(channel, timeline, reservation[h], used).timeline
    BY DEF Commit
  <1>2. /\ Using(h) /\ reservation[h] # None /\ reservation' = [reservation EXCEPT ![h] = None]
        /\ UNCHANGED <<failed, closed>> /\ h \in DOMAIN reservation
    BY DEF Commit, Using, Holds, HeldWithout, IInv
  <1>3. used \in Nat \ {0}
    BY ChannelAssumption
  <1>4. Sound(channel', reservation', timeline') /\ Steady(channel, channel')
    BY <1>1, <1>2, <1>3, CommitKept DEF IInv
  <1>5. Ready(channel) => Ready(channel')
    BY <1>4, SteadyReady DEF IInv
  <1> QED BY <1>2, <1>4, <1>5 DEF IInv

\* write() uses a slot that no handle ever names.
LEMMA WriteKept ==
  ASSUME DisciplinedUse, RollsHaveGaps, IInv, Write
  PROVE  IInv'
  <1> PICK size \in Sizes : \E reserved \in Reserved(channel, reservation, size) :
        LET out == Committed(reserved.channel, timeline, reserved.slot, size)
        IN  channel' = out.channel /\ timeline' = out.timeline
    BY DEF Write
  <1>1. PICK reserved \in Reserved(channel, reservation, size) :
          LET out == Committed(reserved.channel, timeline, reserved.slot, size)
          IN  channel' = out.channel /\ timeline' = out.timeline
    OBVIOUS
  <1>2. Reserving /\ UNCHANGED <<reservation, failed, closed>>
    BY DEF Write
  <1>3. PICK spare : spare \notin Handles
    BY NoSetContainsEverything
  <1> DEFINE held == [h \in Handles \cup {spare} |->
                        IF h = spare THEN None ELSE reservation[h]]
  <1>4. /\ DOMAIN held = Handles \cup {spare} /\ held[spare] = None
        /\ \A h \in Handles : held[h] = reservation[h]
    BY <1>3
  <1>5. DOMAIN reservation = Handles
    BY DEF IInv
  <1> HIDE DEF held
  <1>6. Sound(channel, held, timeline)
    BY <1>4, <1>5, Fewer DEF IInv
  <1>7. Unshrunk(held) /\ Ready(channel)
    BY <1>2, <1>4, <1>5, ReservingFacts DEF Unshrunk
  <1>8. MappedRolls(channel, held) = MappedRolls(channel, reservation)
    <2>1. None.roll = 0
      BY DEF None
    <2>2. {held[h].roll : h \in DOMAIN held}
            = {reservation[h].roll : h \in DOMAIN reservation} \cup {0}
      BY <1>4, <1>5, <2>1
    <2> QED BY <2>2 DEF MappedRolls
  <1>9. reserved \in Reserved(channel, held, size)
    BY <1>8 DEF Reserved, OpenNewRoll, FreeBases
  <1> DEFINE ch == reserved.channel
             held2 == [held EXCEPT ![spare] = reserved.slot]
             out == Committed(ch, timeline, reserved.slot, size)
  <1>10. /\ Sound(ch, held2, timeline) /\ Ready(ch)
         /\ reserved.slot # None /\ size <= reserved.slot.usable
    BY <1>4, <1>6, <1>7, <1>9, ReservedKept
  <1>11. DOMAIN held2 = Handles \cup {spare} /\ held2[spare] = reserved.slot
    BY <1>4
  <1>12. \A h \in Handles : held2[h] = reservation[h]
    BY <1>3, <1>4
  <1> HIDE DEF ch, held2
  <1>13. Sound(out.channel, [held2 EXCEPT ![spare] = None], out.timeline) /\ Steady(ch, out.channel)
    <2>1. size \in Nat \ {0}
      BY ChannelAssumption
    <2> QED BY <1>10, <1>11, <2>1, CommitKept
  <1>14. channel' = out.channel /\ timeline' = out.timeline
    BY <1>1 DEF ch
  <1> HIDE DEF out
  <1>15. Sound(out.channel, reservation, out.timeline)
    <2> DEFINE held3 == [held2 EXCEPT ![spare] = None]
    <2>1. DOMAIN held3 = Handles \cup {spare} /\ \A h \in Handles : held3[h] = reservation[h]
      BY <1>3, <1>11, <1>12
    <2>2. Sound(out.channel, held3, out.timeline)
      BY <1>13
    <2> HIDE DEF held3
    <2> QED BY <1>5, <2>1, <2>2, Fewer
  <1>16. Ready(out.channel)
    BY <1>10, <1>13, SteadyReady
  <1> QED BY <1>2, <1>5, <1>14, <1>15, <1>16 DEF IInv

LEMMA StepKept ==
  ASSUME DisciplinedUse, RollsHaveGaps, IInv, [Next]_vars
  PROVE  IInv'
  <1>1. ASSUME NEW h \in Handles, Drop(h)
        PROVE  IInv'
    BY <1>1, DroppedSlot DEF Drop, Using, IInv
  <1>2. ASSUME NEW h \in Handles, FailToGrow(h)
        PROVE  IInv'
    <2> DEFINE ch == RewindActive(channel, reservation[h], 0)
    <2>1. /\ Holds(h) /\ channel' = Seal(ch) /\ reservation' = HeldWithout(h)
          /\ failed' /\ timeline' = timeline
      BY <1>2 DEF FailToGrow
    <2>2. Sound(ch, HeldWithout(h), timeline) /\ DOMAIN HeldWithout(h) = Handles
      BY <2>1, DroppedSlot
    <2> HIDE DEF ch
    <2>3. Sound(Seal(ch), HeldWithout(h), timeline)
      BY <2>2, SealKept
    <2> QED BY <2>1, <2>2, <2>3 DEF IInv
  <1>3. ASSUME FailToReserve
        PROVE  IInv'
    BY <1>3, SealKept DEF FailToReserve, IInv
  <1>4. ASSUME Close
        PROVE  IInv'
    <2>1. closed' /\ UNCHANGED <<reservation, failed, timeline>>
      BY <1>4 DEF Close
    <2>2. channel' = IF channel.active = 0 THEN channel ELSE Shortened(channel)
      BY <1>4 DEF Close, Shortened
    <2>3. Sound(channel', reservation, timeline)
      BY <2>2, ShortenedKept DEF IInv
    <2> QED BY <2>1, <2>3 DEF IInv
  <1>5. CASE UNCHANGED vars
    BY <1>5 DEF vars, IInv
  <1> QED BY <1>1, <1>2, <1>3, <1>4, <1>5, ReserveKept, ShrinkKept, GrowKept,
             CommitKeeps, WriteKept DEF Next

\* The invariant holds whenever callers keep to their discipline and the kernel
\* leaves gaps between rolls.
THEOREM ChannelStaysSound ==
  ASSUME DisciplinedUse, RollsHaveGaps
  PROVE  Spec => []IInv
  <1>1. Init => IInv
    BY InitKept
  <1>2. IInv /\ [Next]_vars => IInv'
    BY StepKept
  <1> QED BY <1>1, <1>2, PTL DEF Spec

-----------------------------------------------------------------------------
(* What callers and readers rely on.                                        *)

LEMMA BytesLieIn ==
  ASSUME NEW r, NEW offset \in Nat, NEW count \in Nat, offset + count <= AddressSpace,
         NEW b \in Bytes(r, offset, count)
  PROVE  b[1] = r /\ b[2] \in Nat /\ offset <= b[2] /\ b[2] < offset + count
  <1>1. PICK i \in 0 .. count - 1 : b = <<r, (offset + i) % AddressSpace>>
    BY DEF Bytes
  <1>2. offset + i \in Int /\ 0 <= offset + i /\ offset + i < AddressSpace
    BY ChannelAssumption
  <1>3. (offset + i) % AddressSpace = offset + i
    BY <1>2, Wrapped
  <1> QED BY <1>1, <1>2, <1>3

LEMMA BytesApart ==
  ASSUME NEW r, NEW o \in Nat, NEW c \in Nat, o + c <= AddressSpace,
         NEW q, NEW p \in Nat, NEW d \in Nat, p + d <= AddressSpace,
         r # q \/ o + c <= p \/ p + d <= o
  PROVE  Bytes(r, o, c) \cap Bytes(q, p, d) = {}
  <1> SUFFICES ASSUME NEW b \in Bytes(r, o, c), b \in Bytes(q, p, d)
               PROVE  FALSE
    OBVIOUS
  <1>1. b[1] = r /\ b[2] \in Nat /\ o <= b[2] /\ b[2] < o + c
    BY BytesLieIn
  <1>2. b[1] = q /\ b[2] \in Nat /\ p <= b[2] /\ b[2] < p + d
    BY BytesLieIn
  <1> QED BY <1>1, <1>2

\* Where the bytes of a live handle lie.
LEMMA LiveSlot ==
  ASSUME IInv, NEW h \in LiveHandles
  PROVE  LET s == reservation[h]
         IN  /\ h \in DOMAIN reservation /\ s # None /\ SlotSound(channel, s)
             /\ HandleBytes(h) = Bytes(s.roll, Off(channel, s), s.usable)
             /\ Off(channel, s) \in Nat /\ s.usable \in Nat /\ Room(channel, s) \in Nat
             /\ s.usable <= Room(channel, s)
             /\ Off(channel, s) + s.usable <= channel.rolls[s.roll].fileSize
             /\ Off(channel, s) + s.usable <= AddressSpace
             /\ channel.rolls[s.roll].fileSize \in Nat
  <1> DEFINE s == reservation[h]
             roll == channel.rolls[s.roll]
  <1>1. h \in DOMAIN reservation /\ s # None
    BY DEF LiveHandles, Holds, IInv
  <1>2. /\ SlotSound(channel, s) /\ s \in SlotType
        /\ roll \in RollType /\ RollSound(roll)
        /\ Off(channel, s) \in Nat /\ Room(channel, s) \in Nat
        /\ s.usable <= Room(channel, s)
        /\ Off(channel, s) + Room(channel, s) <= roll.cursor
    BY <1>1, SlotFacts DEF IInv
  <1>3. /\ s.usable \in Nat /\ roll.cursor \in Nat /\ roll.fileSize \in Nat
        /\ roll.capacity \in Nat
    BY <1>2 DEF SlotType, RollType
  <1>4. /\ roll.cursor <= roll.fileSize /\ roll.fileSize <= roll.capacity
        /\ roll.capacity < AddressSpace /\ AddressSpace \in Nat
    BY <1>2, ChannelAssumption DEF RollSound
  <1>5. HandleBytes(h) = Bytes(s.roll, Off(channel, s), s.usable)
    BY DEF HandleBytes, Off
  <1> HIDE DEF s, roll
  <1>6. Off(channel, s) + s.usable <= roll.fileSize /\ Off(channel, s) + s.usable <= AddressSpace
    BY <1>2, <1>3, <1>4
  <1> QED BY <1>1, <1>2, <1>3, <1>5, <1>6 DEF s, roll

LEMMA RecordLies ==
  ASSUME IInv, NEW i \in DOMAIN timeline
  PROVE  /\ timeline[i].offset \in Nat /\ timeline[i].size \in Nat
         /\ timeline[i].offset + timeline[i].size <= channel.rolls[timeline[i].roll].fileSize
         /\ timeline[i].offset + timeline[i].size <= AddressSpace
         /\ channel.rolls[timeline[i].roll].id = timeline[i].rollId
  <1> DEFINE e == timeline[i]
             roll == channel.rolls[e.roll]
  <1>1. RecordSound(channel, e)
    BY DEF IInv, Sound, RecordsSound
  <1>2. roll \in RollType /\ RollSound(roll)
    BY <1>1, RollTyped DEF RecordSound, IInv, Sound
  <1>3. /\ e.offset \in Nat /\ e.size \in Nat /\ e.rollId = roll.id
        /\ e.offset + e.size <= roll.cursor
    BY <1>1 DEF RecordSound, EntryType
  <1>4. /\ roll.cursor \in Nat /\ roll.fileSize \in Nat /\ roll.capacity \in Nat
        /\ roll.cursor <= roll.fileSize /\ roll.fileSize <= roll.capacity
        /\ roll.capacity < AddressSpace /\ AddressSpace \in Nat
    BY <1>2, ChannelAssumption DEF RollSound, RollType
  <1> HIDE DEF e, roll
  <1>5. e.offset + e.size <= roll.fileSize /\ e.offset + e.size <= AddressSpace
    BY <1>3, <1>4
  <1> QED BY <1>3, <1>5 DEF e, roll

LEMMA SoundNoOverlap ==
  ASSUME IInv
  PROVE  NoOverlap
  <1>1. ASSUME NEW h \in LiveHandles, NEW k \in LiveHandles, h # k
        PROVE  HandleBytes(h) \cap HandleBytes(k) = {}
    <2> DEFINE s == reservation[h]
               t == reservation[k]
    <2>1. ~SlotsMeet(channel, s, t)
      BY <1>1, LiveSlot DEF IInv, Sound, NobodyMeets
    <2>2. /\ HandleBytes(h) = Bytes(s.roll, Off(channel, s), s.usable)
          /\ Off(channel, s) \in Nat /\ s.usable \in Nat /\ Room(channel, s) \in Nat
          /\ s.usable <= Room(channel, s) /\ Off(channel, s) + s.usable <= AddressSpace
      BY LiveSlot
    <2>3. /\ HandleBytes(k) = Bytes(t.roll, Off(channel, t), t.usable)
          /\ Off(channel, t) \in Nat /\ t.usable \in Nat /\ Room(channel, t) \in Nat
          /\ t.usable <= Room(channel, t) /\ Off(channel, t) + t.usable <= AddressSpace
      BY LiveSlot
    <2> HIDE DEF s, t
    <2>4. \/ s.roll # t.roll \/ Off(channel, s) + s.usable <= Off(channel, t)
          \/ Off(channel, t) + t.usable <= Off(channel, s)
      BY <2>1, <2>2, <2>3 DEF SlotsMeet
    <2> QED BY <2>2, <2>3, <2>4, BytesApart
  <1>2. ASSUME NEW h \in LiveHandles, NEW i \in DOMAIN timeline
        PROVE  HandleBytes(h) \cap RecordBytes(i) = {}
    <2> DEFINE s == reservation[h]
               e == timeline[i]
    <2>1. ~SlotMeetsRecord(channel, s, e)
      BY LiveSlot DEF IInv, Sound, NobodyMeets
    <2>2. /\ HandleBytes(h) = Bytes(s.roll, Off(channel, s), s.usable)
          /\ Off(channel, s) \in Nat /\ s.usable \in Nat /\ Room(channel, s) \in Nat
          /\ s.usable <= Room(channel, s) /\ Off(channel, s) + s.usable <= AddressSpace
      BY LiveSlot
    <2>3. /\ e.offset \in Nat /\ e.size \in Nat /\ e.offset + e.size <= AddressSpace
          /\ RecordBytes(i) = Bytes(e.roll, e.offset, e.size)
      BY RecordLies DEF RecordBytes
    <2> HIDE DEF s, e
    <2>4. \/ s.roll # e.roll \/ Off(channel, s) + s.usable <= e.offset
          \/ e.offset + e.size <= Off(channel, s)
      BY <2>1, <2>2, <2>3 DEF SlotMeetsRecord
    <2> QED BY <2>2, <2>3, <2>4, BytesApart
  <1>3. ASSUME NEW i \in DOMAIN timeline, NEW j \in DOMAIN timeline, i # j
        PROVE  RecordBytes(i) \cap RecordBytes(j) = {}
    <2> DEFINE e == timeline[i]
               f == timeline[j]
    <2>1. ~RecordsMeet(e, f)
      BY <1>3 DEF IInv, Sound, NobodyMeets
    <2>2. /\ e.offset \in Nat /\ e.size \in Nat /\ e.offset + e.size <= AddressSpace
          /\ f.offset \in Nat /\ f.size \in Nat /\ f.offset + f.size <= AddressSpace
          /\ RecordBytes(i) = Bytes(e.roll, e.offset, e.size)
          /\ RecordBytes(j) = Bytes(f.roll, f.offset, f.size)
      BY RecordLies DEF RecordBytes
    <2> HIDE DEF e, f
    <2>3. e.roll # f.roll \/ e.offset + e.size <= f.offset \/ f.offset + f.size <= e.offset
      BY <2>1, <2>2 DEF RecordsMeet
    <2> QED BY <2>2, <2>3, BytesApart
  <1> QED BY <1>1, <1>2, <1>3 DEF NoOverlap

LEMMA SoundSpansBacked ==
  ASSUME IInv
  PROVE  SpansBacked
  <1> SUFFICES ASSUME NEW h \in LiveHandles, NEW b \in HandleBytes(h)
               PROVE  b[2] < channel.rolls[reservation[h].roll].fileSize
    BY DEF SpansBacked
  <1> DEFINE s == reservation[h]
             limit == channel.rolls[s.roll].fileSize
  <1>1. /\ HandleBytes(h) = Bytes(s.roll, Off(channel, s), s.usable)
        /\ Off(channel, s) \in Nat /\ s.usable \in Nat
        /\ Off(channel, s) + s.usable <= limit /\ limit \in Nat
        /\ Off(channel, s) + s.usable <= AddressSpace
    BY LiveSlot
  <1>2. b \in Bytes(s.roll, Off(channel, s), s.usable)
    BY <1>1
  <1> HIDE DEF s
  <1>3. b[2] \in Nat /\ b[2] < Off(channel, s) + s.usable
    BY <1>1, <1>2, BytesLieIn
  <1> HIDE DEF limit
  <1>4. b[2] < limit
    BY <1>1, <1>3
  <1> QED BY <1>4 DEF s, limit

\* Channel and Tape: no byte of a roll belongs to two live reservations, or to
\* a live reservation and a record, or to two records, whatever is reserved,
\* shrunk, grown, committed and dropped in whatever order.
THEOREM BytesHaveOneOwner ==
  ASSUME DisciplinedUse, RollsHaveGaps
  PROVE  Spec => []NoOverlap
  <1>1. IInv => NoOverlap
    BY SoundNoOverlap
  <1> QED BY <1>1, ChannelStaysSound, PTL

\* Channel::openNewRoll trims the roll it seals: what a caller may still write
\* lies below the trimmed end, so writing to it touches only bytes of the file.
THEOREM SpansStayInFiles ==
  ASSUME DisciplinedUse, RollsHaveGaps
  PROVE  Spec => []SpansBacked
  <1>1. IInv => SpansBacked
    BY SoundSpansBacked
  <1> QED BY <1>1, ChannelStaysSound, PTL

\* Reservation::commit: the entry names the roll its bytes were written to, and
\* that roll's file holds all of them, also after it was trimmed.
THEOREM EntriesLocateRecords ==
  ASSUME DisciplinedUse, RollsHaveGaps
  PROVE  Spec => []EntriesPinpoint
  <1>1. IInv => EntriesPinpoint
    BY RecordLies DEF EntriesPinpoint
  <1> QED BY <1>1, ChannelStaysSound, PTL

\* roundUpToWord: every live slot starts on a word of its roll.
THEOREM SlotsStayAligned ==
  ASSUME DisciplinedUse, RollsHaveGaps
  PROVE  Spec => []SlotsAligned
  <1>1. IInv => SlotsAligned
    BY LiveSlot DEF SlotsAligned, SlotSound, Off
  <1> QED BY <1>1, ChannelStaysSound, PTL
=============================================================================
