----------------------------- MODULE GraphProofs ----------------------------
(***************************************************************************)
(* The resources of a run are whole wherever they are named, whatever the  *)
(* threads that ask for them do, however a copy fails and whenever the     *)
(* constructor throws or the process is killed, for any number of threads  *)
(* and sources of which none is called like a file of the run's own; and   *)
(* who adopts the recording learns the topics that were published.         *)
(***************************************************************************)
EXTENDS Graph, FiniteSetTheorems, TLAPS

\* port.hpp leaves this to the caller; see GraphReservedName.cfg.
NamesUnreserved ==
  \A s \in Sources : FileName[s] \notin {"resources.json", "topics.json", "schemas.bin"}

Resting == [at : {"idle", "threw"}]
Asking == [at : {"called", "looking", "missed", "locked", "copying"},
           request : {"add", "acquire", "find"}, source : Requested]

TypeOK ==
  /\ call \in [Callers -> Resting \cup Asking]
  /\ named \in Seq(Sources)
  /\ phase \in {"copying", "setup", "unwinding", "wired", "topics", "running", "clearing",
                "gone", "failed", "killed"}
  /\ DOMAIN files = {"resources", "topics", "schemas"}

\* A caller is in its section exactly while it does what the section is for.
Sections ==
  /\ mutex = [readers |-> mutex.readers, writers |-> mutex.writers]
  /\ mutex.readers = {t \in Callers : At(t, "looking")}
  /\ mutex.writers = {t \in Callers : call[t].at \in {"locked", "copying"}}
  /\ mutex.writers # {} => mutex.readers = {}
  /\ \A t \in mutex.writers, u \in mutex.writers : t = u

\* Only a launched runner calls, and none is launched before the resources
\* named at launch are there or left when the port is gone.
Launched ==
  /\ \A t \in Callers : call[t].at \in {"idle", "threw"} \/ t \in running
  /\ phase \in {"copying", "gone", "failed", "killed"} => running = {}

\* What the map names is whole. What is being copied is not named by it yet.
Whole ==
  /\ \A s \in DOMAIN map : /\ s \in Sources
                           /\ map[s] = FileName[s]
                           /\ FileName[s] \in DOMAIN directory
                           /\ directory[FileName[s]] = s
  /\ \A t \in Callers : At(t, "copying") =>
       /\ FileName[call[t].source] \in DOMAIN directory
       /\ directory[FileName[call[t].source]] = Nobody

Given == returned \subseteq DOMAIN map

\* A manifest is a part of the map, and the last one all of it.
Manifested ==
  /\ \A recorded \in files.resources : \A s \in DOMAIN recorded :
       s \in DOMAIN map /\ recorded[s] = map[s]
  /\ phase = "gone" => files.resources = {map}

IInv == TypeOK /\ Sections /\ Launched /\ Whole /\ Given /\ Manifested

-----------------------------------------------------------------------------
(* Facts about one state.                                                  *)

\* A caller rests, or has asked for something.
LEMMA CallShape ==
  /\ \A c \in Resting : c.at \in {"idle", "threw"}
  /\ \A c \in Asking : /\ c.at \in {"called", "looking", "missed", "locked", "copying"}
                       /\ c.request \in {"add", "acquire", "find"}
                       /\ c.source \in Requested
  /\ Idle \in Resting /\ Idle.at = "idle"
  /\ [at |-> "threw"] \in Resting
  /\ \A c \in Asking, place \in {"called", "looking", "missed", "locked", "copying"} :
       /\ [c EXCEPT !.at = place] \in Asking
       /\ [c EXCEPT !.at = place].at = place
       /\ [c EXCEPT !.at = place].source = c.source
<1>1. \A c \in Resting : c.at \in {"idle", "threw"}
  BY DEF Resting
<1>2. \A c \in Asking : /\ c.at \in {"called", "looking", "missed", "locked", "copying"}
                        /\ c.request \in {"add", "acquire", "find"}
                        /\ c.source \in Requested
  BY DEF Asking
<1>3. Idle \in Resting /\ Idle.at = "idle" /\ [at |-> "threw"] \in Resting
  BY DEF Idle, Resting
<1>4. ASSUME NEW c \in Asking, NEW place \in {"called", "looking", "missed", "locked", "copying"}
      PROVE  /\ [c EXCEPT !.at = place] \in Asking
             /\ [c EXCEPT !.at = place].at = place
             /\ [c EXCEPT !.at = place].source = c.source
  BY DEF Asking
<1> QED BY <1>1, <1>2, <1>3, <1>4

\* With adds one entry and leaves the others.
LEMMA WithFacts ==
  ASSUME NEW f, NEW x, NEW y
  PROVE  /\ DOMAIN With(f, x, y) = DOMAIN f \cup {x}
         /\ With(f, x, y)[x] = y
         /\ \A z \in DOMAIN f : z # x => With(f, x, y)[z] = f[z]
BY DEF With

\* A copy may begin only under a name that nothing in the directory has.
LEMMA FreshName ==
  ASSUME Whole, NEW s, ~Occupied(s)
  PROVE  \A u \in DOMAIN map : FileName[u] # FileName[s]
BY DEF Whole, Occupied

\* A file of the run's own leaves the resources as they are.
LEMMA WrittenKeepsWhole ==
  ASSUME NamesUnreserved, TypeOK, Whole, ResourcesAssumption, GraphAssumption,
         NEW field, NEW name \in {"resources.json", "topics.json", "schemas.bin"}, NEW value,
         Written(field, name, value), UNCHANGED <<map, call>>
  PROVE  Whole'
<1>1. directory' = With(directory, name, Nobody)
  BY DEF Written
<1>2. \A s \in Sources : FileName[s] # name
  BY DEF NamesUnreserved
<1>3. ASSUME NEW s \in Sources, FileName[s] \in DOMAIN directory
      PROVE  FileName[s] \in DOMAIN directory' /\ directory'[FileName[s]] = directory[FileName[s]]
  BY <1>1, <1>2, <1>3 DEF With
<1>4. \A t \in Callers : At(t, "copying") => call[t].source \in Sources
  BY CallShape, GraphAssumption DEF TypeOK, At
<1> QED BY <1>3, <1>4 DEF Whole, At

-----------------------------------------------------------------------------
(* The calls.                                                              *)

\* A caller t goes to the state c, with its lock taken or given back: readers
\* share, and a writer is alone.
LEMMA SectionsKept ==
  ASSUME TypeOK, Sections, NEW t \in Callers, NEW c, call' = [call EXCEPT ![t] = c],
         \/ MayShare(mutex) /\ mutex' = Shared(mutex, t) /\ At(t, "called") /\ c.at = "looking"
         \/ /\ mutex' = AfterShared(mutex, t) /\ At(t, "looking")
            /\ c.at \in {"idle", "threw", "missed"}
         \/ /\ MayExclude(mutex) /\ mutex' = Exclusive(mutex, t)
            /\ call[t].at \in {"called", "missed"} /\ c.at = "locked"
         \/ /\ mutex' = AfterExclusive(mutex, t) /\ call[t].at \in {"locked", "copying"}
            /\ c.at \in {"idle", "threw"}
         \/ mutex' = mutex /\ At(t, "locked") /\ c.at = "copying"
         \/ mutex' = mutex /\ call[t].at \in {"idle", "threw"} /\ c.at = "called"
  PROVE  Sections'
<1> DEFINE R == mutex.readers
           W == mutex.writers
<1>1. /\ mutex = [readers |-> R, writers |-> W]
      /\ R = {u \in Callers : At(u, "looking")}
      /\ W = {u \in Callers : call[u].at \in {"locked", "copying"}}
      /\ W # {} => R = {}
      /\ \A u \in W, v \in W : u = v
  BY DEF Sections
<1> HIDE DEF R, W
<1>2. \A u \in Callers : call'[u] = IF u = t THEN c ELSE call[u]
  BY DEF TypeOK
<1> DEFINE Looking == {u \in Callers : call'[u].at = "looking"}
           Inside == {u \in Callers : call'[u].at \in {"locked", "copying"}}
<1>3. ASSUME mutex' = [readers |-> Looking, writers |-> Inside],
             Inside # {} => Looking = {},
             \A u \in Inside, v \in Inside : u = v
      PROVE  Sections'
  <2>1. mutex'.readers = Looking /\ mutex'.writers = Inside
    BY <1>3
  <2> QED BY <1>3, <2>1 DEF Sections, At
<1>4. CASE MayShare(mutex) /\ mutex' = Shared(mutex, t) /\ At(t, "called") /\ c.at = "looking"
  <2>1. Looking = R \cup {t} /\ Inside = W
    BY <1>1, <1>2, <1>4 DEF At
  <2>2. W = {} /\ mutex' = [readers |-> R \cup {t}, writers |-> W]
    BY <1>1, <1>4 DEF MayShare, Shared
  <2> QED BY <1>3, <2>1, <2>2
<1>5. CASE /\ mutex' = AfterShared(mutex, t) /\ At(t, "looking")
           /\ c.at \in {"idle", "threw", "missed"}
  <2>1. Looking = R \ {t} /\ Inside = W
    BY <1>1, <1>2, <1>5 DEF At
  <2>2. mutex' = [readers |-> R \ {t}, writers |-> W]
    BY <1>1, <1>5 DEF AfterShared
  <2> QED BY <1>1, <1>3, <2>1, <2>2
<1>6. CASE /\ MayExclude(mutex) /\ mutex' = Exclusive(mutex, t)
           /\ call[t].at \in {"called", "missed"} /\ c.at = "locked"
  <2>1. Looking = R /\ Inside = W \cup {t}
    BY <1>1, <1>2, <1>6 DEF At
  <2>2. [readers |-> R, writers |-> W] = [readers |-> {}, writers |-> {}]
    BY <1>1, <1>6 DEF MayExclude, Unlocked
  <2>3. W = {} /\ R = {}
    BY <2>2
  <2>4. mutex' = [readers |-> R, writers |-> W \cup {t}]
    BY <1>1, <1>6 DEF Exclusive
  <2> QED BY <1>3, <2>1, <2>3, <2>4
<1>7. CASE /\ mutex' = AfterExclusive(mutex, t) /\ call[t].at \in {"locked", "copying"}
           /\ c.at \in {"idle", "threw"}
  <2>1. Looking = R /\ Inside = W \ {t}
    BY <1>1, <1>2, <1>7 DEF At
  <2>2. mutex' = [readers |-> R, writers |-> W \ {t}]
    BY <1>1, <1>7 DEF AfterExclusive
  <2> QED BY <1>1, <1>3, <2>1, <2>2
<1>8. CASE \/ mutex' = mutex /\ At(t, "locked") /\ c.at = "copying"
           \/ mutex' = mutex /\ call[t].at \in {"idle", "threw"} /\ c.at = "called"
  <2>1. Looking = R /\ Inside = W
    BY <1>1, <1>2, <1>8 DEF At
  <2> QED BY <1>1, <1>3, <1>8, <2>1
<1> QED BY <1>4, <1>5, <1>6, <1>7, <1>8

\* A step of a call that touches neither the map nor the directory.
LEMMA QuietCall ==
  ASSUME IInv, NEW t \in Callers, t \in running, NEW c \in Resting \cup Asking,
         c.at # "copying", call' = [call EXCEPT ![t] = c], Sections',
         UNCHANGED <<map, directory, graphVars>>, returned' \subseteq DOMAIN map
  PROVE  IInv'
<1>1. \A u \in Callers : call'[u] = IF u = t THEN c ELSE call[u]
  BY DEF IInv, TypeOK
<1>2. TypeOK'
  BY DEF IInv, TypeOK, graphVars
<1>3. Launched'
  BY <1>1 DEF IInv, Launched, graphVars
<1>4. Whole'
  BY <1>1 DEF IInv, Whole, At
<1>5. Given' /\ Manifested'
  BY DEF IInv, Given, Manifested, graphVars
<1> QED BY <1>2, <1>3, <1>4, <1>5 DEF IInv

\* A runner asks for a resource.
LEMMA CallKept ==
  ASSUME ResourcesAssumption, GraphAssumption, IInv, NEW t \in Callers, t \in running,
         NEW s \in Requested, NEW request \in {"add", "acquire", "find"}, Call(t, request, s),
         UNCHANGED graphVars
  PROVE  IInv'
<1> DEFINE c == [at |-> "called", request |-> request, source |-> s]
<1>1. c \in Asking /\ c.at = "called"
  BY DEF Asking
<1> HIDE DEF c
<1>2. /\ call[t].at \in {"idle", "threw"}
      /\ call' = [call EXCEPT ![t] = c]
      /\ UNCHANGED <<mutex, map, directory, returned>>
  BY DEF Call, c
<1>3. Sections'
  BY <1>1, <1>2, SectionsKept DEF IInv
<1> QED BY <1>1, <1>2, <1>3, QuietCall DEF IInv, Given

\* The look in a shared section.
LEMMA LookKept ==
  ASSUME IInv, NEW t \in Callers, t \in running, UNCHANGED graphVars,
         Look(t) \/ Found(t) \/ Missed(t)
  PROVE  IInv'
<1>1. /\ call[t] \in Resting \cup Asking
      /\ call[t].at \in {"called", "looking"}
  BY DEF IInv, TypeOK, Look, Found, Missed, At
<1>2. call[t] \in Asking
  BY <1>1, CallShape
<1>3. CASE Look(t)
  <2> DEFINE c == [call[t] EXCEPT !.at = "looking"]
  <2>1. c \in Asking /\ c.at = "looking"
    BY <1>2, CallShape
  <2>2. /\ MayShare(mutex) /\ mutex' = Shared(mutex, t) /\ At(t, "called")
        /\ call' = [call EXCEPT ![t] = c]
        /\ UNCHANGED <<map, directory, returned>>
    BY <1>3 DEF Look, IInv, TypeOK
  <2> HIDE DEF c
  <2>3. Sections'
    BY <2>1, <2>2, SectionsKept DEF IInv
  <2> QED BY <2>1, <2>2, <2>3, QuietCall DEF IInv, Given
<1>4. CASE Found(t)
  <2>1. /\ mutex' = AfterShared(mutex, t) /\ At(t, "looking")
        /\ call' = [call EXCEPT ![t] = Idle]
        /\ returned' \subseteq DOMAIN map
        /\ UNCHANGED <<map, directory>>
    BY <1>4 DEF Found, Give, IInv, Given
  <2>2. Sections'
    BY <2>1, CallShape, SectionsKept DEF IInv
  <2> QED BY <2>1, <2>2, CallShape, QuietCall
<1>5. CASE Missed(t) /\ Throw(t)
  <2> DEFINE c == [at |-> "threw"]
  <2>1. c \in Resting /\ c.at = "threw"
    BY CallShape
  <2>2. /\ mutex' = AfterShared(mutex, t) /\ At(t, "looking")
        /\ call' = [call EXCEPT ![t] = c]
        /\ UNCHANGED <<map, directory, returned>>
    BY <1>5 DEF Missed, Throw
  <2> HIDE DEF c
  <2>3. Sections'
    BY <2>1, <2>2, SectionsKept DEF IInv
  <2> QED BY <2>1, <2>2, <2>3, QuietCall DEF IInv, Given
<1>6. CASE Missed(t) /\ ~Throw(t)
  <2> DEFINE c == [call[t] EXCEPT !.at = "missed"]
  <2>1. c \in Asking /\ c.at = "missed"
    BY <1>2, CallShape
  <2>2. /\ mutex' = AfterShared(mutex, t) /\ At(t, "looking")
        /\ call' = [call EXCEPT ![t] = c]
        /\ UNCHANGED <<map, directory, returned>>
    BY <1>6 DEF Missed, IInv, TypeOK
  <2> HIDE DEF c
  <2>3. Sections'
    BY <2>1, <2>2, SectionsKept DEF IInv
  <2> QED BY <2>1, <2>2, <2>3, QuietCall DEF IInv, Given
<1> QED BY <1>3, <1>4, <1>5, <1>6

\* The exclusive section, when it copies nothing.
LEMMA LockKept ==
  ASSUME IInv, NEW t \in Callers, t \in running, UNCHANGED graphVars,
         Lock(t) \/ FoundAfterAll(t) \/ CopyRefused(t) \/ CopyFails(t)
  PROVE  IInv'
<1>1. /\ call[t] \in Resting \cup Asking
      /\ call[t].at \in {"called", "missed", "locked", "copying"}
  BY DEF IInv, TypeOK, Lock, FoundAfterAll, CopyRefused, CopyFails, At
<1>2. call[t] \in Asking
  BY <1>1, CallShape
<1>3. CASE Lock(t)
  <2> DEFINE c == [call[t] EXCEPT !.at = "locked"]
  <2>1. c \in Asking /\ c.at = "locked"
    BY <1>2, CallShape
  <2>2. /\ MayExclude(mutex) /\ mutex' = Exclusive(mutex, t)
        /\ call[t].at \in {"called", "missed"}
        /\ call' = [call EXCEPT ![t] = c]
        /\ UNCHANGED <<map, directory, returned>>
    BY <1>3 DEF Lock, At, IInv, TypeOK
  <2> HIDE DEF c
  <2>3. Sections'
    BY <2>1, <2>2, SectionsKept DEF IInv
  <2> QED BY <2>1, <2>2, <2>3, QuietCall DEF IInv, Given
<1>4. CASE FoundAfterAll(t)
  <2>1. /\ mutex' = AfterExclusive(mutex, t) /\ call[t].at \in {"locked", "copying"}
        /\ call' = [call EXCEPT ![t] = Idle]
        /\ returned' \subseteq DOMAIN map
        /\ UNCHANGED <<map, directory>>
    BY <1>4 DEF FoundAfterAll, AlreadyThere, Give, At, IInv, Given
  <2>2. Sections'
    BY <2>1, CallShape, SectionsKept DEF IInv
  <2> QED BY <2>1, <2>2, CallShape, QuietCall
<1>5. CASE CopyRefused(t) \/ CopyFails(t)
  <2> DEFINE c == [at |-> "threw"]
  <2>1. c \in Resting /\ c.at = "threw"
    BY CallShape
  <2>2. /\ mutex' = AfterExclusive(mutex, t) /\ call[t].at \in {"locked", "copying"}
        /\ call' = [call EXCEPT ![t] = c]
        /\ UNCHANGED <<map, directory, returned>>
    BY <1>5 DEF CopyRefused, CopyFails, Throw, At
  <2> HIDE DEF c
  <2>3. Sections'
    BY <2>1, <2>2, SectionsKept DEF IInv
  <2> QED BY <2>1, <2>2, <2>3, QuietCall DEF IInv, Given
<1> QED BY <1>3, <1>4, <1>5

\* A copy begins under a fresh name, which the map does not have yet.
LEMMA StartCopyKept ==
  ASSUME ResourcesAssumption, GraphAssumption, IInv, NEW t \in Callers, t \in running,
         UNCHANGED graphVars, StartCopy(t)
  PROVE  IInv'
<1> DEFINE s == call[t].source
           c == [call[t] EXCEPT !.at = "copying"]
<1>1. /\ call[t] \in Asking
      /\ s \in Sources
  BY CallShape, GraphAssumption DEF IInv, TypeOK, StartCopy, At
<1>2. /\ c \in Asking
      /\ c.at = "copying"
      /\ c.source = s
  BY <1>1, CallShape
<1>3. /\ At(t, "locked")
      /\ ~Occupied(s)
      /\ directory' = With(directory, FileName[s], Nobody)
      /\ call' = [call EXCEPT ![t] = c]
      /\ UNCHANGED <<mutex, map, returned>>
  BY DEF StartCopy, IInv, TypeOK
<1> HIDE DEF s, c
<1>4. Sections'
  BY <1>2, <1>3, SectionsKept DEF IInv
<1>5. \A u \in Callers : call'[u] = IF u = t THEN c ELSE call[u]
  BY <1>3 DEF IInv, TypeOK
<1>6. TypeOK'
  BY <1>2, <1>3 DEF IInv, TypeOK, graphVars
<1>7. Launched'
  BY <1>5 DEF IInv, Launched, graphVars
<1>8. Whole'
  <2>1. ASSUME NEW u \in DOMAIN map
        PROVE  /\ FileName[u] \in DOMAIN directory'
               /\ directory'[FileName[u]] = u
    <3>1. FileName[u] # FileName[s]
      BY <1>3, FreshName DEF IInv
    <3> QED BY <1>3, <3>1 DEF With, IInv, Whole
  <2>2. ASSUME NEW u \in Callers, call'[u].at = "copying"
        PROVE  u = t
    BY <1>3, <1>5, <2>2 DEF At, IInv, Sections
  <2>3. /\ FileName[s] \in DOMAIN directory'
        /\ directory'[FileName[s]] = Nobody
    BY <1>3 DEF With
  <2> QED BY <1>2, <1>3, <1>5, <2>1, <2>2, <2>3 DEF Whole, At, IInv
<1>9. Given' /\ Manifested'
  BY <1>3 DEF IInv, Given, Manifested, graphVars
<1> QED BY <1>4, <1>6, <1>7, <1>8, <1>9 DEF IInv

\* A copy that is whole enters the map.
LEMMA FinishCopyKept ==
  ASSUME ResourcesAssumption, GraphAssumption, IInv, NEW t \in Callers, t \in running,
         UNCHANGED graphVars, FinishCopy(t)
  PROVE  IInv'
<1> DEFINE s == call[t].source
<1>1. /\ call[t] \in Asking
      /\ s \in Sources
  BY CallShape, GraphAssumption DEF IInv, TypeOK, FinishCopy, At
<1>2. /\ At(t, "copying")
      /\ directory' = With(directory, FileName[s], s)
      /\ map' = With(map, s, FileName[s])
      /\ mutex' = AfterExclusive(mutex, t)
      /\ call' = [call EXCEPT ![t] = Idle]
      /\ returned' \subseteq returned \cup {s}
  BY DEF FinishCopy, Give
<1> HIDE DEF s
<1>3. Sections'
  BY <1>2, CallShape, SectionsKept DEF IInv, At
<1>4. \A u \in Callers : call'[u] = IF u = t THEN Idle ELSE call[u]
  BY <1>2 DEF IInv, TypeOK
<1>5. TypeOK'
  BY <1>2, CallShape DEF IInv, TypeOK, graphVars
<1>6. Launched'
  BY <1>4, CallShape DEF IInv, Launched, graphVars
<1>7. /\ FileName[s] \in DOMAIN directory
      /\ directory[FileName[s]] = Nobody
      /\ s \notin DOMAIN map
      /\ \A u \in DOMAIN map : FileName[u] # FileName[s]
  <2>1. FileName[s] \in DOMAIN directory /\ directory[FileName[s]] = Nobody
    BY <1>2 DEF IInv, Whole, s
  <2>2. \A u \in DOMAIN map : FileName[u] # FileName[s]
    BY <2>1, ResourcesAssumption DEF IInv, Whole
  <2> QED BY <2>1, <2>2
<1>8. /\ DOMAIN map' = DOMAIN map \cup {s}
      /\ map'[s] = FileName[s]
      /\ \A u \in DOMAIN map : map'[u] = map[u]
  BY <1>2, <1>7 DEF With
<1>9. Whole'
  <2>1. ASSUME NEW u \in DOMAIN map'
        PROVE  /\ u \in Sources
               /\ map'[u] = FileName[u]
               /\ FileName[u] \in DOMAIN directory'
               /\ directory'[FileName[u]] = u
    <3>1. CASE u = s
      BY <1>1, <1>2, <1>8, <3>1 DEF With
    <3>2. CASE u \in DOMAIN map
      BY <1>2, <1>7, <1>8, <3>2 DEF With, IInv, Whole
    <3> QED BY <1>8, <3>1, <3>2
  <2>2. ASSUME NEW u \in Callers PROVE call'[u].at # "copying"
    BY <1>2, <1>4, CallShape DEF At, IInv, Sections
  <2> QED BY <2>1, <2>2 DEF Whole, At
<1>10. Given'
  BY <1>2, <1>8 DEF IInv, Given
<1>11. Manifested'
  <2>1. phase # "gone"
    BY DEF IInv, Launched
  <2> QED BY <1>8, <2>1 DEF IInv, Manifested, graphVars
<1> QED BY <1>3, <1>5, <1>6, <1>9, <1>10, <1>11 DEF IInv

-----------------------------------------------------------------------------
(* The port.                                                               *)

\* There is nothing in the map and nobody calls at first.
LEMMA InitKept == GraphAssumption /\ Init => IInv
<1> SUFFICES ASSUME GraphAssumption, Init PROVE IInv
  OBVIOUS
<1>1. /\ mutex = [readers |-> {}, writers |-> {}]
      /\ \A t \in Callers : call[t] = Idle
      /\ DOMAIN map = {}
  BY DEF Init, ResourcesInit, Unlocked
<1>2. TypeOK
  BY CallShape, GraphAssumption DEF Init, ResourcesInit, TypeOK
<1>3. Sections
  <2>1. mutex.readers = {} /\ mutex.writers = {}
    BY <1>1
  <2> QED BY <1>1, <2>1, CallShape DEF Sections, At
<1>4. Launched
  BY <1>1, CallShape DEF Init, Launched
<1>5. Whole
  BY <1>1, CallShape DEF Whole, At
<1>6. Given /\ Manifested
  BY DEF Init, ResourcesInit, Given, Manifested
<1> QED BY <1>2, <1>3, <1>4, <1>5, <1>6 DEF IInv

\* The constructor copies before anyone can call.
LEMMA CopyNamedKept ==
  ASSUME ResourcesAssumption, IInv, CopyNamed
  PROVE  IInv'
<1> DEFINE s == Head(named)
<1>1. /\ s \in Sources
      /\ named' \in Seq(Sources)
      /\ running = {}
      /\ running' = {}
      /\ phase = "copying"
      /\ UNCHANGED <<mutex, call, returned, files>>
  BY DEF CopyNamed, IInv, TypeOK, Launched
<1>2. \A t \in Callers : call[t].at \in {"idle", "threw"}
  BY <1>1 DEF IInv, Launched
<1>3. Sections'
  BY <1>1 DEF IInv, Sections, At
<1>4. CASE phase' = "failed" /\ UNCHANGED <<map, directory>>
  BY <1>1, <1>2, <1>3, <1>4
     DEF IInv, TypeOK, Launched, Whole, At, Given, Manifested
<1>5. CASE /\ ~Refused(s)
           /\ ~Occupied(s)
           /\ directory' = With(directory, FileName[s], s)
           /\ map' = With(map, s, FileName[s])
           /\ phase' = phase
  <2> HIDE DEF s
  <2>1. /\ s \notin DOMAIN map
        /\ \A u \in DOMAIN map : FileName[u] # FileName[s]
    BY <1>5, FreshName DEF Refused, IInv
  <2>2. /\ DOMAIN map' = DOMAIN map \cup {s}
        /\ map'[s] = FileName[s]
        /\ \A u \in DOMAIN map : map'[u] = map[u]
    BY <1>5, <2>1 DEF With
  <2>3. Whole'
    <3>1. ASSUME NEW u \in DOMAIN map'
          PROVE  /\ u \in Sources
                 /\ map'[u] = FileName[u]
                 /\ FileName[u] \in DOMAIN directory'
                 /\ directory'[FileName[u]] = u
      <4>1. CASE u = s
        BY <1>1, <1>5, <2>2, <4>1 DEF With
      <4>2. CASE u \in DOMAIN map
        BY <1>5, <2>1, <2>2, <4>2 DEF With, IInv, Whole
      <4> QED BY <2>2, <4>1, <4>2
    <3> QED BY <1>1, <1>2, <3>1 DEF Whole, At
  <2>4. TypeOK' /\ Launched'
    BY <1>1, <1>2, <1>5 DEF IInv, TypeOK, Launched
  <2>5. Given' /\ Manifested'
    BY <1>1, <1>5, <2>2 DEF IInv, Given, Manifested
  <2> QED BY <1>3, <2>3, <2>4, <2>5 DEF IInv
<1>6. CASE /\ ~Occupied(s)
           /\ directory' = With(directory, FileName[s], Nobody)
           /\ phase' = "failed"
           /\ map' = map
  <2> HIDE DEF s
  <2>1. \A u \in DOMAIN map : FileName[u] # FileName[s]
    BY <1>6, FreshName DEF IInv
  <2>2. Whole'
    BY <1>1, <1>2, <1>6, <2>1 DEF With, IInv, Whole, At
  <2>3. TypeOK' /\ Launched'
    BY <1>1, <1>2, <1>6 DEF IInv, TypeOK, Launched
  <2>4. Given' /\ Manifested'
    BY <1>1, <1>6 DEF IInv, Given, Manifested
  <2> QED BY <1>3, <2>2, <2>3, <2>4 DEF IInv
<1> QED BY <1>4, <1>5, <1>6 DEF CopyNamed

\* The run's own files: resources.json is the map as it is then.
LEMMA WriteKept ==
  ASSUME ResourcesAssumption, GraphAssumption, NamesUnreserved, IInv,
         WriteInitial \/ RewriteResources \/ WriteTopics \/ WriteSchemas
  PROVE  IInv'
<1>1. CASE WriteInitial \/ RewriteResources
  <2>1. /\ Written("resources", "resources.json", map)
        /\ phase' \in {"setup", "gone"}
        /\ phase' = "gone" => running = {}
        /\ UNCHANGED <<mutex, map, call, returned, named, running>>
    BY <1>1 DEF WriteInitial, RewriteResources, WriteResources, Joined, fixed
  <2>2. Whole'
    BY <2>1, WrittenKeepsWhole DEF IInv
  <2>3. TypeOK' /\ Sections' /\ Launched'
    BY <2>1 DEF Written, IInv, TypeOK, Sections, At, Launched
  <2>4. Given' /\ Manifested'
    BY <2>1 DEF Written, IInv, TypeOK, Given, Manifested
  <2> QED BY <2>2, <2>3, <2>4 DEF IInv
<1>2. ASSUME NEW f, \/ Written("topics", "topics.json", f)
                    \/ Written("schemas", "schemas.bin", f),
             phase' \in {"topics", "running"},
             UNCHANGED <<mutex, map, call, returned, fixed, running, topics, nodes, opened,
                         playback>>
      PROVE  IInv'
  <2>1. Whole'
    BY <1>2, WrittenKeepsWhole DEF IInv
  <2>2. TypeOK' /\ Sections' /\ Launched'
    BY <1>2 DEF Written, IInv, TypeOK, Sections, At, Launched, fixed
  <2>3. files'.resources = files.resources
    BY <1>2 DEF Written, IInv, TypeOK
  <2>4. Given' /\ Manifested'
    BY <1>2, <2>3 DEF IInv, Given, Manifested
  <2> QED BY <2>1, <2>2, <2>4 DEF IInv
<1>3. CASE WriteTopics
  <2>1. PICK f \in TopicFiles(topics) : Written("topics", "topics.json", f)
    BY <1>3 DEF WriteTopics
  <2> QED BY <1>2, <1>3, <2>1 DEF WriteTopics
<1>4. CASE WriteSchemas
  <2>1. PICK f \in SchemaFiles(nodes) : Written("schemas", "schemas.bin", f)
    BY <1>4 DEF WriteSchemas
  <2> QED BY <1>2, <1>4, <2>1 DEF WriteSchemas
<1> QED BY <1>1, <1>3, <1>4

\* The steps of the port that leave the resources alone.
LEMMA PortKept ==
  ASSUME IInv, UNCHANGED <<resourceVars, fixed, files, running>>,
         \/ phase' \in {"setup", "unwinding", "wired", "clearing"}
         \/ phase' = "failed" /\ running = {}
         \/ phase' = phase
  PROVE  IInv'
<1>1. TypeOK' /\ Sections' /\ Launched' /\ Whole' /\ Given'
  BY DEF resourceVars, fixed, IInv, TypeOK, Sections, At, Launched, Whole, Given
<1>2. Manifested'
  BY DEF resourceVars, IInv, Manifested
<1> QED BY <1>1, <1>2 DEF IInv

\* A runner is joined only once its call has ended.
LEMMA LaunchKept ==
  ASSUME IInv, NEW t \in Callers, Launch(t) \/ JoinRunner(t)
  PROVE  IInv'
<1>1. /\ UNCHANGED <<resourceVars, phase, fixed, files>>
      /\ phase \in {"setup", "clearing", "unwinding"}
      /\ \A u \in Callers : u \in running /\ u \notin running' => call[u].at \in {"idle", "threw"}
  BY DEF Launch, JoinRunner
<1>2. TypeOK' /\ Sections' /\ Launched' /\ Whole' /\ Given' /\ Manifested'
  BY <1>1 DEF resourceVars, fixed, IInv, TypeOK, Sections, At, Launched, Whole, Given, Manifested
<1> QED BY <1>2 DEF IInv

\* What the process held is gone, what it copied stays.
LEMMA KillKept ==
  ASSUME IInv, Kill
  PROVE  IInv'
<1>1. /\ \A t \in Callers : call'[t] = Idle
      /\ call' \in [Callers -> Resting \cup Asking]
      /\ mutex' = [readers |-> {}, writers |-> {}]
      /\ phase' = "killed"
      /\ running' = {}
      /\ UNCHANGED <<map, directory, returned, fixed, files>>
  BY CallShape DEF Kill, Unlocked
<1>2. Sections'
  <2>1. mutex'.readers = {} /\ mutex'.writers = {}
    BY <1>1
  <2> QED BY <1>1, <2>1, CallShape DEF Sections, At
<1>3. TypeOK' /\ Launched' /\ Whole' /\ Given' /\ Manifested'
  BY <1>1, CallShape DEF fixed, IInv, TypeOK, Launched, Whole, At, Given, Manifested
<1> QED BY <1>2, <1>3 DEF IInv

\* Every step keeps the invariant.
LEMMA StepKept ==
  ResourcesAssumption /\ GraphAssumption /\ NamesUnreserved /\ IInv /\ [Next]_vars => IInv'
<1> SUFFICES ASSUME ResourcesAssumption, GraphAssumption, NamesUnreserved, IInv, [Next]_vars
             PROVE  IInv'
  OBVIOUS
<1>1. CASE CopyNamed
  BY <1>1, CopyNamedKept
<1>2. CASE WriteInitial \/ RewriteResources \/ WriteTopics \/ WriteSchemas
  BY <1>2, WriteKept
<1>3. CASE SetupThrows \/ SetupReturns \/ Destroy \/ EndUnrecorded \/ \E o \in Offers : OpenPublisher(o)
  <2>1. /\ UNCHANGED <<resourceVars, fixed, files, running>>
        /\ \/ phase' \in {"setup", "unwinding", "wired", "clearing"}
           \/ phase' = "failed" /\ running = {}
           \/ phase' = phase
    BY <1>3 DEF SetupThrows, SetupReturns, Destroy, EndUnrecorded, Joined, OpenPublisher
  <2> QED BY <2>1, PortKept
<1>4. CASE Adopt
  <2>1. UNCHANGED <<resourceVars, fixed, files, running>> /\ phase' = phase
    BY <1>4 DEF Adopt
  <2> QED BY <2>1, PortKept
<1>5. ASSUME NEW t \in Callers, Launch(t) \/ JoinRunner(t) PROVE IInv'
  BY <1>5, LaunchKept
<1>6. ASSUME NEW t \in Callers, Request(t) PROVE IInv'
  <2>1. t \in running /\ UNCHANGED graphVars
    BY <1>6 DEF Request
  <2>2. ASSUME NEW s \in Requested, NEW request \in {"add", "acquire", "find"},
               Call(t, request, s)
        PROVE  IInv'
    BY <2>1, <2>2, CallKept
  <2>3. CASE Look(t) \/ Found(t) \/ Missed(t)
    BY <2>1, <2>3, LookKept
  <2>4. CASE Lock(t) \/ FoundAfterAll(t) \/ CopyRefused(t) \/ CopyFails(t)
    BY <2>1, <2>4, LockKept
  <2>5. CASE StartCopy(t)
    BY <2>1, <2>5, StartCopyKept
  <2>6. CASE FinishCopy(t)
    BY <2>1, <2>6, FinishCopyKept
  <2> QED BY <1>6, <2>2, <2>3, <2>4, <2>5, <2>6 DEF Request, CallerStep
<1>7. CASE Kill
  BY <1>7, KillKept
<1>8. CASE UNCHANGED vars
  <2>1. TypeOK' /\ Sections' /\ Launched' /\ Whole' /\ Given' /\ Manifested'
    BY <1>8 DEF vars, resourceVars, graphVars, IInv, TypeOK, Sections, At, Launched, Whole, Given,
                Manifested
  <2> QED BY <2>1 DEF IInv
<1> QED BY <1>1, <1>2, <1>3, <1>4, <1>5, <1>6, <1>7, <1>8 DEF Next

\* The invariant of the proof holds throughout.
LEMMA Kept == NamesUnreserved => (Spec => []IInv)
<1> SUFFICES ASSUME NamesUnreserved PROVE Spec => []IInv
  OBVIOUS
<1>1. Init => IInv
  BY InitKept, GraphAssumption
<1>2. IInv /\ [Next]_vars => IInv'
  BY StepKept, ResourcesAssumption, GraphAssumption
<1> QED BY <1>1, <1>2, PTL DEF Spec

\* No thread is given, and no other thread can look up, a file that is not
\* there whole: whichever of addResource and acquireResource they are in, and
\* whichever copy fails (port.cpp: copyResource, acquireResource).
THEOREM ResourcesAreWhole == NamesUnreserved => (Spec => []ResourcesIntact)
<1> SUFFICES ASSUME NamesUnreserved PROVE Spec => []ResourcesIntact
  OBVIOUS
<1>1. IInv => ResourcesIntact
  BY DEF IInv, Whole, Given, ResourcesIntact
<1>2. Spec => []IInv
  BY Kept
<1> QED BY <1>1, <1>2, PTL

\* What resources.json names at any time is there whole, and the destructor's
\* last write leaves out nothing, since no runner is left to add to the map
\* (port.cpp: ~Port).
THEOREM ManifestIsTrue == NamesUnreserved => (Spec => []ManifestTrue)
<1> SUFFICES ASSUME NamesUnreserved PROVE Spec => []ManifestTrue
  OBVIOUS
<1>1. IInv => ManifestTrue
  BY DEF IInv, Whole, Manifested, ManifestTrue
<1>2. Spec => []IInv
  BY Kept
<1> QED BY <1>1, <1>2, PTL

\* acquireResource throws for no source that the map has by the time it is in
\* its exclusive section, whoever put it there since it looked (port.cpp).
THEOREM AcquireNeverDisagrees == NamesUnreserved => (Spec => AcquireAgrees)
<1> SUFFICES ASSUME NamesUnreserved PROVE Spec => AcquireAgrees
  OBVIOUS
<1> DEFINE Agrees == \A t \in Callers :
             At(t, "locked") /\ call'[t].at = "threw" /\ call[t].request = "acquire"
               => call[t].source \notin DOMAIN map
<1>1. ASSUME IInv, [Next]_vars PROVE [Agrees]_vars
  <2> SUFFICES ASSUME Next, NEW t \in Callers, At(t, "locked"), call'[t].at = "threw",
                      call[t].request = "acquire"
               PROVE  call[t].source \notin DOMAIN map
    BY <1>1
  <2>1. PICK u \in Callers : Request(u)
    BY CallShape DEF At, Next, CopyNamed, WriteInitial, RewriteResources, WriteResources,
       SetupThrows, SetupReturns, OpenPublisher, Launch, JoinRunner, WriteTopics, WriteSchemas,
       Destroy, EndUnrecorded, Kill, Adopt, resourceVars
  <2>2. u = t
    BY <1>1, <2>1 DEF IInv, TypeOK, At, Request, CallerStep, Call, Look, Found, Missed, Lock,
       FoundAfterAll, CopyRefused, StartCopy, FinishCopy, CopyFails, Give, Throw
  <2>3. FoundAfterAll(t) \/ CopyRefused(t) \/ StartCopy(t)
    BY <2>1, <2>2 DEF At, Request, CallerStep, Call, Look, Found, Missed, Lock, FinishCopy,
       CopyFails
  <2>4. ~FoundAfterAll(t)
    BY <1>1, CallShape DEF FoundAfterAll, Give, IInv, TypeOK
  <2>5. ~StartCopy(t)
    <3>1. ASSUME StartCopy(t) PROVE FALSE
      <4>1. call'[t] = [call[t] EXCEPT !.at = "copying"]
        BY <1>1, <3>1 DEF StartCopy, IInv, TypeOK
      <4>2. call[t] \in Asking
        BY <1>1, CallShape DEF IInv, TypeOK, At
      <4> QED BY <4>1, <4>2, CallShape
    <3> QED BY <3>1
  <2> QED BY <2>3, <2>4, <2>5 DEF CopyRefused, AlreadyThere
<1>2. Spec => []IInv
  BY Kept
<1> QED BY <1>1, <1>2, PTL DEF Spec, AcquireAgrees

-----------------------------------------------------------------------------
(* The registries, from the setup to a replay.                             *)

\* One topic per channel opened, and the nodes of their schemas.
Registered ==
  /\ IsFiniteSet(topics) /\ IsFiniteSet(nodes) /\ Unreadable \notin nodes
  /\ \A t \in topics : /\ t = Topic(t.channel, t.name, t.schema)
                       /\ t.name \in Nat
                       /\ Closure[t.schema] \subseteq nodes
  /\ \A t, u \in topics : t.channel = u.channel => t = u
  /\ opened = {t.channel : t \in topics}

\* The files are of what the registries hold once no publisher can be opened.
Filed ==
  /\ DOMAIN files = {"resources", "topics", "schemas"}
  /\ \A f \in files.topics : files.topics = {f} /\ f \in TopicFiles(topics)
  /\ \A f \in files.schemas : files.schemas = {f} /\ f \in SchemaFiles(nodes)
  /\ files.schemas # {} => files.topics # {}
  /\ phase \in {"copying", "setup"} => files.topics = {}
  /\ phase = "topics" => files.topics # {}

RInv == /\ Registered /\ Filed /\ ReplayKnowsTopics
        /\ playback # {} => phase \in Ended

-----------------------------------------------------------------------------
\* Distinct records enough for all of a finite set are all of it.
LEMMA FileHoldsAll ==
  ASSUME NEW S, IsFiniteSet(S), NEW f \in [1 .. Cardinality(S) -> S],
         \A i, j \in DOMAIN f : i # j => f[i] # f[j]
  PROVE  /\ Cardinality(S) \in Nat
         /\ \A x \in S : \E i \in 1 .. Cardinality(S) : f[i] = x
<1> DEFINE n == Cardinality(S)
<1>1. n \in Nat
  BY FS_CardinalityType
<1>2. IsFiniteSet(1 .. n) /\ Cardinality(1 .. n) = n
  BY <1>1, FS_Interval
<1>3. f \in Injection(1 .. n, S)
  BY DEF Injection, IsInjective
<1>4. f \in Surjection(1 .. n, S)
  BY <1>2, <1>3, FS_Injection
<1> QED BY <1>1, <1>4 DEF Surjection

\* A topic is no damaged record.
LEMMA TopicReadable ==
  ASSUME NEW c, NEW n, NEW s
  PROVE  Topic(c, n, s) # Unreadable
<1>1. "name" \in DOMAIN Topic(c, n, s)
  BY DEF Topic
<1>2. "name" \notin DOMAIN Unreadable
  BY DEF Unreadable
<1> QED BY <1>1, <1>2

\* What is adopted of a file of topics, whole or damaged, are the first of them.
LEMMA AdoptedFacts ==
  ASSUME Registered, NEW f \in TopicFiles(topics), NEW t \in Damaged(f)
  PROVE  /\ Adopted(t) \subseteq topics
         /\ \A x \in Adopted(t), u \in topics : u.name < x.name => u \in Adopted(t)
         /\ t = f => Adopted(t) = topics
<1> DEFINE n == Cardinality(topics)
<1>1. /\ n \in Nat
      /\ f \in [1 .. n -> topics]
      /\ \A i, j \in 1 .. n : i # j => f[i] # f[j]
      /\ \A i, j \in 1 .. n : i < j => f[i].name <= f[j].name
      /\ \A x \in topics : \E i \in 1 .. n : f[i] = x
  BY FileHoldsAll DEF TopicFiles, Registered
<1> HIDE DEF n
<1>2. /\ DOMAIN t \subseteq 1 .. n
      /\ \A i \in DOMAIN t : t[i] # Unreadable => t[i] = f[i]
      /\ \A i \in DOMAIN t : DOMAIN t = 1 .. n
  BY <1>1 DEF Damaged
<1> DEFINE Good(j) == \A k \in 1 .. j : /\ t[k] # Unreadable
                                        /\ \A l \in 1 .. k - 1 : t[l].channel # t[k].channel
<1>3. Adopted(t) = {t[i] : i \in {j \in DOMAIN t : Good(j)}}
  BY DEF Adopted
<1>4. ASSUME NEW i \in DOMAIN t, Good(i)
      PROVE  \A k \in 1 .. i : k \in DOMAIN t /\ Good(k) /\ t[k] = f[k]
  <2>1. i \in 1 .. n /\ DOMAIN t = 1 .. n
    BY <1>2
  <2> SUFFICES ASSUME NEW k \in 1 .. i PROVE k \in DOMAIN t /\ Good(k) /\ t[k] = f[k]
    OBVIOUS
  <2>2. k \in DOMAIN t
    BY <1>1, <2>1
  <2>3. \A l \in 1 .. k : l \in 1 .. i
    BY <1>1, <2>1
  <2>4. Good(k)
    BY <1>4, <2>3
  <2> QED BY <1>2, <1>4, <2>2, <2>4
<1>5. Adopted(t) \subseteq topics
  <2> SUFFICES ASSUME NEW i \in DOMAIN t, Good(i) PROVE t[i] \in topics
    BY <1>3
  <2>1. i \in 1 .. n
    BY <1>2
  <2>2. i \in 1 .. i
    BY <1>1, <2>1
  <2> QED BY <1>1, <1>4, <2>1, <2>2
<1>6. ASSUME NEW x \in Adopted(t), NEW u \in topics, u.name < x.name
      PROVE  u \in Adopted(t)
  <2>1. PICK i \in DOMAIN t : Good(i) /\ x = t[i]
    BY <1>3
  <2>2. i \in 1 .. n /\ i \in 1 .. i
    BY <1>1, <1>2, <2>1
  <2>3. x = f[i] /\ x \in topics
    BY <1>1, <1>4, <2>1, <2>2
  <2>4. PICK j \in 1 .. n : f[j] = u
    BY <1>1
  <2>5. j < i
    <3>1. u.name \in Nat /\ x.name \in Nat
      BY <2>3 DEF Registered
    <3>2. j # i
      BY <1>6, <2>3, <2>4, <3>1
    <3>3. ~(i < j)
      BY <1>1, <1>6, <2>2, <2>3, <2>4, <3>1
    <3> QED BY <1>1, <2>2, <3>2, <3>3
  <2>6. j \in DOMAIN t /\ Good(j) /\ t[j] = f[j]
    BY <1>1, <1>4, <2>1, <2>2, <2>5
  <2> QED BY <1>3, <2>4, <2>6
<1>7. ASSUME t = f PROVE Adopted(t) = topics
  <2>1. \A k \in 1 .. n : t[k] \in topics /\ t[k] # Unreadable
    BY <1>1, <1>7, TopicReadable DEF Registered
  <2>2. \A k, l \in 1 .. n : l # k => t[l].channel # t[k].channel
    BY <1>1, <1>7, <2>1 DEF Registered
  <2>3. ASSUME NEW j \in 1 .. n PROVE Good(j)
    <3> SUFFICES ASSUME NEW k \in 1 .. j
                 PROVE  /\ t[k] # Unreadable
                        /\ \A l \in 1 .. k - 1 : t[l].channel # t[k].channel
      OBVIOUS
    <3>1. k \in 1 .. n
      BY <1>1
    <3>2. ASSUME NEW l \in 1 .. k - 1 PROVE l \in 1 .. n /\ l # k
      BY <1>1, <3>1
    <3> QED BY <2>1, <2>2, <3>1, <3>2
  <2>4. DOMAIN t = 1 .. n
    BY <1>1, <1>7
  <2>5. ASSUME NEW u \in topics PROVE u \in Adopted(t)
    <3>1. PICK i \in 1 .. n : f[i] = u
      BY <1>1
    <3>2. i \in DOMAIN t /\ Good(i) /\ t[i] = u
      BY <1>7, <2>3, <2>4, <3>1
    <3> QED BY <1>3, <3>2
  <2> QED BY <1>5, <2>5
<1> QED BY <1>5, <1>6, <1>7

\* A file of schemas that is not damaged is adopted as it is.
LEMMA AdoptedNodesFacts ==
  ASSUME Registered, NEW f \in SchemaFiles(nodes)
  PROVE  AdoptedNodes(f) = nodes
<1> DEFINE n == Cardinality(nodes)
<1>1. /\ n \in Nat
      /\ f \in [1 .. n -> nodes]
      /\ \A x \in nodes : \E i \in 1 .. n : f[i] = x
  BY FileHoldsAll DEF SchemaFiles, Registered
<1> HIDE DEF n
<1>2. \A i \in 1 .. n : f[i] \in nodes /\ f[i] # Unreadable
  BY <1>1 DEF Registered
<1>3. DOMAIN f = 1 .. n
  BY <1>1
<1>4. \A j \in DOMAIN f : \A k \in 1 .. j : f[k] # Unreadable
  <2> SUFFICES ASSUME NEW j \in 1 .. n, NEW k \in 1 .. j PROVE k \in 1 .. n
    BY <1>2, <1>3
  <2> QED BY <1>1
<1>5. AdoptedNodes(f) = {f[i] : i \in 1 .. n}
  BY <1>3, <1>4 DEF AdoptedNodes
<1> QED BY <1>1, <1>2, <1>5

\* The step that adopts.
LEMMA AdoptTrue ==
  ASSUME RInv, Adopt
  PROVE  RInv'
<1>1. Registered' /\ Filed' /\ phase' \in Ended
  BY DEF Adopt, RInv, Registered, Filed, fixed
<1>2. PICK t \in Readable(files.topics) : \E n \in Readable(files.schemas) :
        playback' = {[topics |-> Adopted(t), nodes |-> AdoptedNodes(n),
                      damaged |-> t \notin files.topics \/ n \notin files.schemas]}
  BY DEF Adopt
<1>3. PICK n \in Readable(files.schemas) :
        playback' = {[topics |-> Adopted(t), nodes |-> AdoptedNodes(n),
                      damaged |-> t \notin files.topics \/ n \notin files.schemas]}
  BY <1>2
<1> DEFINE p == [topics |-> Adopted(t), nodes |-> AdoptedNodes(n),
                 damaged |-> t \notin files.topics \/ n \notin files.schemas]
<1>4. /\ p.topics = Adopted(t)
      /\ p.nodes = AdoptedNodes(n)
      /\ ~p.damaged => t \in files.topics /\ n \in files.schemas
      /\ playback' = {p}
  BY <1>3
<1> HIDE DEF p
<1>5. /\ Adopted(t) \subseteq topics
      /\ \A x \in Adopted(t), u \in topics : u.name < x.name => u \in Adopted(t)
      /\ t \in files.topics => Adopted(t) = topics
  <2>1. CASE files.topics = {}
    <3>1. Adopted(t) = {}
      BY <2>1 DEF Readable, Adopted
    <3> QED BY <2>1, <3>1
  <2>2. CASE files.topics # {}
    <3>1. PICK f \in files.topics : files.topics = {f} /\ f \in TopicFiles(topics)
      BY <2>2 DEF RInv, Filed
    <3>2. t \in Damaged(f)
      BY <2>2, <3>1 DEF Readable
    <3> QED BY <3>1, <3>2, AdoptedFacts DEF RInv
  <2> QED BY <2>1, <2>2
<1>6. ASSUME n \in files.schemas PROVE AdoptedNodes(n) = nodes
  BY <1>6, AdoptedNodesFacts DEF RInv, Filed
<1>7. UNCHANGED <<topics, nodes, opened, files>>
  BY DEF Adopt
<1>8. ReplayKnowsTopics'
  <2>1. /\ p.topics \subseteq topics
        /\ \A x \in p.topics, u \in topics : u.name < x.name => u \in p.topics
    BY <1>4, <1>5
  <2>2. ASSUME ~p.damaged
        PROVE  /\ {x.channel : x \in p.topics} = opened
               /\ \A x \in p.topics : Closure[x.schema] \subseteq p.nodes
    BY <1>4, <1>5, <1>6, <2>2 DEF RInv, Registered
  <2> QED BY <1>4, <1>7, <2>1, <2>2 DEF ReplayKnowsTopics
<1> QED BY <1>1, <1>8 DEF RInv

\* A step that adopts nothing, ended or not.
LEMMA UnadoptedTrue ==
  ASSUME RInv, Registered', Filed', playback' = playback,
         \/ phase \notin Ended
         \/ UNCHANGED <<phase, topics, nodes, opened, files>>
  PROVE  RInv'
<1>1. CASE phase \notin Ended
  BY <1>1 DEF RInv, ReplayKnowsTopics
<1>2. CASE UNCHANGED <<phase, topics, nodes, opened, files>>
  BY <1>2 DEF RInv, ReplayKnowsTopics
<1> QED BY <1>1, <1>2

\* The registries are as they were, and so are the files but for resources.json.
LEMMA SameRegistries ==
  ASSUME RInv, UNCHANGED <<topics, nodes, opened, playback>>, DOMAIN files' = DOMAIN files,
         files'.topics = files.topics, files'.schemas = files.schemas,
         \/ phase' = phase
         \/ phase \notin Ended /\ phase' \notin {"copying", "topics"}
            /\ (phase' = "setup" => phase = "copying"),
         \/ phase \notin Ended
         \/ UNCHANGED files
  PROVE  RInv'
<1>1. Registered' /\ Filed'
  BY DEF RInv, Registered, Filed
<1> QED BY <1>1, UnadoptedTrue

\* A publisher records its topic under a channel of its own, with the closure
\* of its schema.
LEMMA PublisherTrue ==
  ASSUME GraphAssumption, RInv, NEW o \in Offers, OpenPublisher(o)
  PROVE  RInv'
<1> DEFINE c == ChannelOf[o]
           t == Topic(c, o[2], o[1])
<1>1. CASE phase' = "unwinding" /\ UNCHANGED <<topics, nodes, opened>>
  BY <1>1, SameRegistries DEF OpenPublisher, Ended
<1>2. CASE /\ ~Carried(topics, c)
           /\ topics' = Record(topics, t)
           /\ nodes' = RecordSchema(nodes, Closure[o[1]])
           /\ opened' = opened \cup {c}
           /\ phase' = phase
  <2>1. /\ phase = "setup"
        /\ UNCHANGED <<files, playback>>
        /\ files.topics = {}
        /\ files.schemas = {}
    BY DEF OpenPublisher, RInv, Filed
  <2>2. /\ t.channel = c /\ t.name = o[2] /\ t.schema = o[1]
        /\ o[2] \in Nat /\ IsFiniteSet(Closure[o[1]])
        /\ Unreadable \notin Closure[o[1]]
    BY GraphAssumption DEF Topic
  <2> DEFINE C == Closure[o[1]]
  <2>3. t = Topic(t.channel, t.name, t.schema)
    BY <2>2
  <2> HIDE DEF t, c
  <2>4. topics' = topics \cup {t} /\ nodes' = nodes \cup C /\ opened' = opened \cup {t.channel}
    BY <1>2, <2>2 DEF Record, RecordSchema
  <2>5. \A u \in topics : u.channel # t.channel
    BY <1>2, <2>2 DEF Carried
  <2>6. IsFiniteSet(topics') /\ IsFiniteSet(nodes')
    BY <2>2, <2>4, FS_AddElement, FS_Union DEF RInv, Registered
  <2>7. /\ Unreadable \notin nodes'
        /\ \A u \in topics' : /\ u = Topic(u.channel, u.name, u.schema)
                              /\ u.name \in Nat
                              /\ Closure[u.schema] \subseteq nodes'
    BY <2>2, <2>3, <2>4 DEF RInv, Registered
  <2>8. /\ \A u, v \in topics' : u.channel = v.channel => u = v
        /\ opened' = {u.channel : u \in topics'}
    BY <2>4, <2>5 DEF RInv, Registered
  <2>9. Registered'
    BY <2>6, <2>7, <2>8 DEF Registered
  <2>10. Filed'
    BY <1>2, <2>1 DEF RInv, Filed
  <2> QED BY <2>1, <2>9, <2>10, UnadoptedTrue DEF Ended
<1> QED BY <1>1, <1>2 DEF OpenPublisher

\* The registries go into the files as they are then.
LEMMA FilesTrue ==
  ASSUME RInv, WriteTopics \/ WriteSchemas
  PROVE  RInv'
<1>1. CASE WriteTopics
  <2>1. PICK f \in TopicFiles(topics) : files' = [files EXCEPT !.topics = {f}]
    BY <1>1 DEF WriteTopics, Written
  <2>2. /\ DOMAIN files' = DOMAIN files
        /\ files'.topics = {f}
        /\ files'.schemas = files.schemas
    BY <2>1 DEF RInv, Filed
  <2>3. phase = "wired" /\ phase' = "topics" /\ UNCHANGED <<topics, nodes, opened, playback>>
    BY <1>1 DEF WriteTopics
  <2>4. Registered' /\ Filed'
    BY <2>2, <2>3 DEF RInv, Registered, Filed
  <2> QED BY <2>3, <2>4, UnadoptedTrue DEF Ended
<1>2. CASE WriteSchemas
  <2>1. PICK f \in SchemaFiles(nodes) : files' = [files EXCEPT !.schemas = {f}]
    BY <1>2 DEF WriteSchemas, Written
  <2>2. /\ DOMAIN files' = DOMAIN files
        /\ files'.schemas = {f}
        /\ files'.topics = files.topics
    BY <2>1 DEF RInv, Filed
  <2>3. phase = "topics" /\ phase' = "running" /\ UNCHANGED <<topics, nodes, opened, playback>>
    BY <1>2 DEF WriteSchemas
  <2>4. Registered' /\ Filed'
    BY <2>2, <2>3 DEF RInv, Registered, Filed
  <2> QED BY <2>3, <2>4, UnadoptedTrue DEF Ended
<1> QED BY <1>1, <1>2

\* Every step keeps them.
LEMMA RegistriesKept ==
  GraphAssumption /\ RInv /\ [Next]_vars => RInv'
<1> SUFFICES ASSUME GraphAssumption, RInv, [Next]_vars PROVE RInv'
  OBVIOUS
<1>1. CASE CopyNamed \/ SetupThrows \/ SetupReturns \/ Destroy \/ EndUnrecorded \/ Kill
  BY <1>1, SameRegistries DEF CopyNamed, SetupThrows, SetupReturns, Destroy, EndUnrecorded,
     Kill, Ended
<1>2. CASE WriteInitial \/ RewriteResources
  <2>1. files' = [files EXCEPT !.resources = {map}]
    BY <1>2 DEF WriteInitial, RewriteResources, WriteResources, Written
  <2>2. /\ DOMAIN files' = DOMAIN files
        /\ files'.topics = files.topics
        /\ files'.schemas = files.schemas
    BY <2>1 DEF RInv, Filed
  <2> QED BY <1>2, <2>2, SameRegistries DEF WriteInitial, RewriteResources, WriteResources, Ended
<1>3. CASE WriteTopics \/ WriteSchemas
  BY <1>3, FilesTrue
<1>4. ASSUME NEW o \in Offers, OpenPublisher(o) PROVE RInv'
  BY <1>4, PublisherTrue
<1>5. ASSUME NEW t \in Callers, Launch(t) \/ JoinRunner(t) \/ Request(t) PROVE RInv'
  BY <1>5, SameRegistries DEF Launch, JoinRunner, Request, graphVars
<1>6. CASE Adopt
  BY <1>6, AdoptTrue
<1>7. CASE UNCHANGED vars
  BY <1>7, SameRegistries DEF vars, graphVars
<1> QED BY <1>1, <1>2, <1>3, <1>4, <1>5, <1>6, <1>7 DEF Next

\* A port that adopts a recording knows the topics and schemas the recorder
\* wrote, all of them when nothing is damaged, and the first by name otherwise
\* (topicRegistry.cpp, schemaRegistry.cpp).
THEOREM ReplayLearnsTopics == Spec => []ReplayKnowsTopics
<1>1. Init => RInv
  <2> SUFFICES ASSUME Init PROVE RInv
    OBVIOUS
  <2>1. Registered
    BY FS_EmptySet DEF Init, Registered
  <2> QED BY <2>1 DEF Init, RInv, Filed, ReplayKnowsTopics
<1>2. RInv /\ [Next]_vars => RInv'
  BY RegistriesKept, GraphAssumption
<1>3. RInv => ReplayKnowsTopics
  BY DEF RInv
<1> QED BY <1>1, <1>2, <1>3, PTL DEF Spec
=============================================================================
