-------------------------- MODULE RecordingProofs ---------------------------
(***************************************************************************)
(* What a run leaves and what a replay makes of it. The last layer to      *)
(* speak of a field decides it, and a replay configures its routines as    *)
(* the recorded run did; every record holds the payload its producer       *)
(* built, wherever Cap'n Proto put the words of it; and the report is that *)
(* of the recording. For any files, assignments and schemas of             *)
(* configurations, any payloads and any recording.                         *)
(***************************************************************************)
EXTENDS MCRecording, FiniteSetTheorems, SequenceTheorems, TLAPS

-----------------------------------------------------------------------------
(* Documents.                                                               *)

\* The provers do not know that these are strings.
Keys == STRING \cup {"routines", "components", "drivers"}
Paths == Seq(Keys)
NonNull(d) == [p \in {q \in DOMAIN d : d[q] # Null} |-> d[p]]

\* A path is what it goes through and what remains.
LEMMA PathSplits ==
  ASSUME NEW a \in Paths, NEW p \in Paths, Under(a, p)
  PROVE  a \o SubSeq(p, Len(a) + 1, Len(p)) = p
<1> DEFINE r == SubSeq(p, Len(a) + 1, Len(p))
<1>1. Len(a) \in Nat /\ Len(p) \in Nat /\ Len(a) <= Len(p)
  BY LenProperties DEF Under, Paths
<1>2. \A i \in Len(a) + 1 .. Len(p) : p[i] \in Keys
  <2>1. \A i \in 1 .. Len(p) : p[i] \in Keys
    BY LenProperties DEF Paths
  <2> QED
    BY <1>1, <2>1
<1>3. /\ r \in Seq(Keys)
      /\ Len(r) = IF Len(a) + 1 <= Len(p) THEN Len(p) - (Len(a) + 1) + 1 ELSE 0
      /\ \A i \in 1 .. Len(p) - (Len(a) + 1) + 1 : r[i] = p[(Len(a) + 1) + i - 1]
  BY <1>1, <1>2, SubSeqProperties
<1>4. Len(r) = Len(p) - Len(a)
  BY <1>1, <1>3
<1>5. \A i \in 1 .. Len(r) : r[i] = p[Len(a) + i]
  BY <1>1, <1>3, <1>4
<1> HIDE DEF r
<1>6. /\ a \o r \in Seq(Keys) /\ Len(a \o r) = Len(a) + Len(r)
      /\ \A i \in 1 .. Len(a) + Len(r) : (a \o r)[i] = IF i <= Len(a) THEN a[i] ELSE r[i - Len(a)]
  BY <1>3, ConcatProperties DEF Paths
<1>7. \A i \in 1 .. Len(a) : a[i] = p[i]
  <2>1. SubSeq(p, 1, Len(a)) = a
    BY DEF Under
  <2>2. \A i \in 1 .. Len(a) : p[i] \in Keys
    BY <1>1, LenProperties DEF Paths
  <2>3. \A i \in 1 .. Len(a) - 1 + 1 : SubSeq(p, 1, Len(a))[i] = p[1 + i - 1]
    BY <1>1, <2>2, SubSeqProperties
  <2> QED
    BY <1>1, <2>1, <2>3
<1>8. Len(a \o r) = Len(p)
  BY <1>1, <1>4, <1>6
<1>9. ASSUME NEW i \in 1 .. Len(p) PROVE (a \o r)[i] = p[i]
  <2>1. CASE i <= Len(a)
    BY <1>1, <1>4, <1>6, <1>7, <2>1
  <2>2. CASE ~(i <= Len(a))
    <3>1. i - Len(a) \in 1 .. Len(r) /\ Len(a) + (i - Len(a)) = i
      BY <1>1, <1>4, <2>2
    <3>2. r[i - Len(a)] = p[i]
      BY <1>5, <3>1
    <3> QED
      BY <1>1, <1>4, <1>6, <2>2, <3>2
  <2> QED
    BY <2>1, <2>2
<1> QED
  BY <1>6, <1>8, <1>9, SeqEqual DEF Paths, r

\* A document merged onto nothing loses its nulls and nothing else.
LEMMA MergedOntoNothing ==
  ASSUME NEW d
  PROVE  MergePatch(Empty, d) = NonNull(d)
BY DEF MergePatch, Empty, NonNull

LEMMA BelowNonNull ==
  ASSUME NEW d, DOMAIN d \subseteq Paths, NEW a \in Paths
  PROVE  Below(NonNull(d), a) = NonNull(Below(d, a))
<1> DEFINE rest(p) == SubSeq(p, Len(a) + 1, Len(p))
           N == NonNull(d)
           B == Below(d, a)
           U == {p \in DOMAIN d : Under(a, p)}
           V == {p \in DOMAIN N : Under(a, p)}
<1>1. DOMAIN N = {q \in DOMAIN d : d[q] # Null} /\ \A q \in DOMAIN N : N[q] = d[q]
  BY DEF NonNull
<1>2. \A p \in U : a \o rest(p) = p
  BY PathSplits
<1>3. B = [q \in {rest(p) : p \in U} |-> d[a \o q]]
  BY DEF Below
<1>4. Below(N, a) = [q \in {rest(p) : p \in V} |-> N[a \o q]]
  BY DEF Below
<1>5. \A p : p \in V <=> p \in U /\ d[p] # Null
  BY <1>1
<1> HIDE DEF rest, N, B, U, V
<1>6. \A p \in U : B[rest(p)] = d[p]
  BY <1>2, <1>3
<1>7. \A q : q \in {rest(p) : p \in V} <=> q \in DOMAIN B /\ B[q] # Null
  <2>1. \A q : q \in DOMAIN B <=> \E p \in U : q = rest(p)
    BY <1>3
  <2> QED
    BY <1>5, <1>6, <2>1
<1>8. {rest(p) : p \in V} = {q \in DOMAIN B : B[q] # Null}
  BY <1>7
<1>9. \A p \in V : N[a \o rest(p)] = B[rest(p)] /\ p \in DOMAIN N
  BY <1>1, <1>2, <1>5, <1>6 DEF V
<1>10. \A q \in {rest(p) : p \in V} : N[a \o q] = B[q]
  BY <1>9
<1>11. NonNull(B) = [q \in {rest(p) : p \in V} |-> B[q]]
  BY <1>8 DEF NonNull
<1> QED
  BY <1>4, <1>10, <1>11 DEF N, B

LEMMA SectionPath ==
  ASSUME NEW s \in Keys, NEW n \in Keys
  PROVE  /\ Section(s) \in Paths /\ Len(Section(s)) = 2
         /\ Section(s)[1] = "routines" /\ Section(s)[2] = s
         /\ Append(Section(s), n) \in Paths /\ Len(Append(Section(s), n)) = 3
         /\ Append(Section(s), n)[1] = "routines" /\ Append(Section(s), n)[2] = s
         /\ Append(Section(s), n)[3] = n
<1> DEFINE b == Section(s)
<1>1. "routines" \in Keys
  BY DEF Keys
<1>2. b \in Seq(Keys) /\ Len(b) = 2 /\ b[1] = "routines" /\ b[2] = s
  BY <1>1 DEF Section
<1> HIDE DEF b
<1>3. /\ Append(b, n) \in Seq(Keys) /\ Len(Append(b, n)) = Len(b) + 1
      /\ \A i \in 1 .. Len(b) : Append(b, n)[i] = b[i]
      /\ Append(b, n)[Len(b) + 1] = n
  <2>1. \A q \in Seq(Keys) : \A k \in Keys :
          /\ Append(q, k) \in Seq(Keys) /\ Len(Append(q, k)) = Len(q) + 1
          /\ \A i \in 1 .. Len(q) : Append(q, k)[i] = q[i]
          /\ Append(q, k)[Len(q) + 1] = k
    BY AppendProperties
  <2> QED
    BY <1>2, <2>1, Zenon
<1> QED
  BY <1>2, <1>3 DEF Paths, b

\* Nothing of a document belongs to a routine that it does not name.
LEMMA NothingBelow ==
  ASSUME NEW d, DOMAIN d \subseteq Paths, NEW s \in Keys, NEW n \in Keys, n \notin NamesIn(d, s)
  PROVE  Below(d, Append(Section(s), n)) = [q \in {} |-> Null]
<1> DEFINE a == Append(Section(s), n)
<1>1. /\ Len(a) = 3 /\ a[1] = "routines" /\ a[2] = s /\ a[3] = n /\ a \in Paths
      /\ Len(Section(s)) = 2 /\ Section(s) \in Paths
      /\ Section(s)[1] = "routines" /\ Section(s)[2] = s
  BY SectionPath
<1> HIDE DEF a
<1>2. ASSUME NEW p \in DOMAIN d, Under(a, p) PROVE FALSE
  <2>1. p \in Seq(Keys) /\ Len(p) \in Nat /\ 3 <= Len(p) /\ SubSeq(p, 1, 3) = a
    BY <1>1, <1>2, LenProperties DEF Under, Paths
  <2>2. \A i \in 1 .. Len(p) : p[i] \in Keys
    BY <2>1, LenProperties
  <2>3. \A i \in 1 .. 3 : p[i] \in Keys
    BY <2>1, <2>2
  <2>4. \A i \in 1 .. 3 - 1 + 1 : SubSeq(p, 1, 3)[i] = p[1 + i - 1]
    BY <2>3, SubSeqProperties
  <2>5. p[1] = "routines" /\ p[2] = s /\ p[3] = n
    <3>1. \A i \in 1 .. 3 : a[i] = p[i]
      BY <2>1, <2>4
    <3> QED
      BY <1>1, <3>1
  <2>6. SubSeq(p, 1, 2) = Section(s)
    <3>1. /\ SubSeq(p, 1, 2) \in Seq(Keys) /\ Len(SubSeq(p, 1, 2)) = 2
          /\ \A i \in 1 .. 2 - 1 + 1 : SubSeq(p, 1, 2)[i] = p[1 + i - 1]
      BY <2>3, SubSeqProperties
    <3>2. SubSeq(p, 1, 2)[1] = "routines" /\ SubSeq(p, 1, 2)[2] = s
      BY <2>5, <3>1
    <3>3. Section(s) \in Seq(Keys) /\ Section(s)[1] = "routines" /\ Section(s)[2] = s
      BY <1>1 DEF Paths
    <3>4. \A i \in 1 .. 2 : SubSeq(p, 1, 2)[i] = Section(s)[i]
      BY <3>2, <3>3
    <3> QED
      BY <1>1, <3>1, <3>3, <3>4, SeqEqual
  <2>7. Under(Section(s), p) /\ Len(p) > 2
    BY <1>1, <2>1, <2>6 DEF Under
  <2> QED
    BY <1>2, <2>5, <2>7 DEF NamesIn
<1>3. {p \in DOMAIN d : Under(a, p)} = {}
  BY <1>2
<1> QED
  BY <1>3 DEF Below, a

\* What a document overrides survives its being merged.
LEMMA OverridesReplayed ==
  ASSUME NEW d, DOMAIN d \subseteq Paths, Unique(d), NEW n \in Keys
  PROVE  Overrides(NonNull(d), n) = NonNull(Overrides(d, n))
<1> DEFINE N == NonNull(d)
           at(s) == Append(Section(s), n)
<1>1. DOMAIN N \subseteq DOMAIN d
  BY DEF NonNull
<1>2. DOMAIN N \subseteq Paths
  BY <1>1
<1>3. \A s \in Keys : at(s) \in Paths
  BY SectionPath
<1>s. "components" \in Keys /\ "drivers" \in Keys
  BY DEF Keys
<1>4. \A s \in Keys : NamesIn(N, s) \subseteq NamesIn(d, s)
  BY <1>1 DEF NamesIn
<1>5. \A s \in Keys : Below(N, at(s)) = NonNull(Below(d, at(s)))
  BY <1>3, BelowNonNull
<1>6. ~(n \in NamesIn(d, "components") /\ n \in NamesIn(d, "drivers"))
  BY DEF Unique
<1>7. NonNull([q \in {} |-> Null]) = [q \in {} |-> Null]
  BY DEF NonNull
<1>8. ASSUME NEW s \in Keys, n \notin NamesIn(d, s)
      PROVE  Below(d, at(s)) = [q \in {} |-> Null] /\ Below(N, at(s)) = [q \in {} |-> Null]
  <2>1. Below(d, at(s)) = [q \in {} |-> Null]
    BY <1>8, NothingBelow
  <2>2. n \notin NamesIn(N, s)
    BY <1>4, <1>8
  <2>3. Below(N, at(s)) = [q \in {} |-> Null]
    BY <1>2, <2>2, NothingBelow
  <2> QED
    BY <2>1, <2>3
<1> HIDE DEF N, at
<1>9. /\ Overrides(d, n) = Below(d, at(SectionOf(d, n)))
      /\ Overrides(N, n) = Below(N, at(SectionOf(N, n)))
  BY DEF Overrides, at
<1>10. CASE SectionOf(d, n) = SectionOf(N, n)
  <2>1. SectionOf(d, n) \in Keys
    BY <1>s DEF SectionOf
  <2> QED
    BY <1>5, <1>9, <1>10, <2>1 DEF N
<1>11. CASE SectionOf(d, n) # SectionOf(N, n)
  <2>1. /\ n \in NamesIn(d, "components") /\ n \notin NamesIn(N, "components")
        /\ SectionOf(d, n) = "components" /\ SectionOf(N, n) = "drivers"
    <3>1. NamesIn(N, "components") \subseteq NamesIn(d, "components")
      BY <1>s, <1>4
    <3> QED
      BY <3>1, <1>11 DEF SectionOf
  <2>2. n \notin NamesIn(d, "drivers")
    BY <1>6, <2>1
  <2>3. Below(N, at("components")) = [q \in {} |-> Null]
    BY <1>s, <1>2, <2>1, NothingBelow DEF at
  <2>4. Below(N, at("drivers")) = [q \in {} |-> Null]
    BY <1>s, <1>8, <2>2
  <2> QED
    BY <1>s, <1>5, <1>9, <2>1, <2>3, <2>4 DEF N
<1> QED
  BY <1>10, <1>11

\* Nulls are as good as absent to a routine.
LEMMA NullsRevert ==
  ASSUME NEW n \in DOMAIN SchemaOf, NEW o, Accepted(o, SchemaOf[n])
  PROVE  /\ Accepted(NonNull(o), SchemaOf[n])
         /\ Effective(NonNull(o), SchemaOf[n]) = Effective(o, SchemaOf[n])
<1> DEFINE schema == SchemaOf[n]
           N == NonNull(o)
           set == {q \in DOMAIN o : o[q] # Null}
           kept == {p \in DOMAIN schema : \A q \in DOMAIN o : ~Clash(p, q)}
           more == {p \in DOMAIN schema : \A q \in DOMAIN N : ~Clash(p, q)}
           m == MergePatch(schema, o)
           w == MergePatch(schema, N)
<1>1. DOMAIN N = set /\ \A q \in set : N[q] = o[q] /\ N[q] # Null
  BY DEF NonNull
<1>2. {q \in DOMAIN N : N[q] # Null} = set
  BY <1>1
<1>3. DOMAIN m = kept \cup set /\ \A p \in DOMAIN m : m[p] = IF p \in set THEN o[p] ELSE schema[p]
  BY DEF MergePatch
<1>4. DOMAIN w = more \cup set /\ \A p \in DOMAIN w : w[p] = IF p \in set THEN o[p] ELSE schema[p]
  BY <1>1, <1>2 DEF MergePatch
<1>5. \A f, g \in DOMAIN schema : Clash(f, g) => f = g
  BY OverlayAssumption
<1> HIDE DEF N, m, w, set, kept, more
<1>6. <<>> \notin DOMAIN o /\ Decodes(m, schema)
  BY DEF Accepted, m
<1>7. <<>> \notin DOMAIN N
  BY <1>1, <1>6 DEF set
<1>8. Decodes(w, schema)
  <2>1. \A p \in more, f \in DOMAIN schema : Clash(p, f) => p = f
    BY <1>5 DEF more
  <2>2. \A p \in set, f \in DOMAIN schema : Clash(p, f) => p = f
    BY <1>3, <1>6 DEF Decodes
  <2> QED
    BY <1>4, <2>1, <2>2 DEF Decodes
<1>9. \A f \in DOMAIN schema :
        /\ (IF f \in DOMAIN m THEN m[f] ELSE schema[f]) = (IF f \in set THEN o[f] ELSE schema[f])
        /\ (IF f \in DOMAIN w THEN w[f] ELSE schema[f]) = (IF f \in set THEN o[f] ELSE schema[f])
  BY <1>3, <1>4
<1>10. Decode(w, schema) = Decode(m, schema)
  BY <1>9 DEF Decode
<1> QED
  BY <1>7, <1>8, <1>10 DEF Accepted, Effective, N, m, w

-----------------------------------------------------------------------------
(* Runs.                                                                    *)

Fields == {"input", "layers", "overlay", "manifest", "effective"}
SoundRun(x) ==
  /\ DOMAIN x = Fields
  /\ Len(x.layers) \in Nat
  /\ \A i \in 1 .. Len(x.layers) : x.layers[i] \in Layers
  /\ \A d, e \in x.overlay : d = e
  /\ \A d \in x.overlay : DOMAIN d \subseteq Paths /\ Unique(d)
  /\ x.manifest \/ x.effective # Empty => x.overlay # {}
  /\ \A n \in DOMAIN x.effective :
       /\ n \in DOMAIN SchemaOf
       /\ \A d \in x.overlay : /\ Accepted(Overrides(d, n), SchemaOf[n])
                               /\ x.effective[n] = Effective(Overrides(d, n), SchemaOf[n])

\* A run that adds nothing to a recording has its overlay, but for the nulls.
FromItsInput(r) ==
  Replays(r) => \A e \in runs[r].overlay : \E d \in runs[runs[r].input].overlay : e = NonNull(d)

Recordings ==
  /\ runs \in Seq({runs[r] : r \in DOMAIN runs})
  /\ \A r \in DOMAIN runs : SoundRun(runs[r]) /\ runs[r].input \in 0 .. r - 1 /\ FromItsInput(r)

\* What the launch under way has assembled and left.
Staged ==
  /\ DOMAIN document \subseteq Paths
  /\ stage # <<"idle">> => runs # <<>>
  /\ stage = <<"recorded">> => document = Empty
  /\ stage[1] = "layer" => stage[2] \in Nat \ {0}
  /\ stage[1] \in {"recorded", "layer", "valid"} =>
       Current.overlay = {} /\ Current.effective = Empty
  /\ stage[1] \in {"valid", "written", "running"} => Unique(document)
  /\ stage[1] \in {"written", "running"} => Current.overlay = {document}
  /\ stage[1] \in {"layer", "valid", "written", "running"} /\ Replays(Len(runs)) =>
       \E d \in runs[Current.input].overlay : document = NonNull(d)

OInv == Recordings /\ Staged

LEMMA MergedDomain ==
  ASSUME NEW d, NEW p, DOMAIN d \subseteq Paths, DOMAIN p \subseteq Paths
  PROVE  DOMAIN MergePatch(d, p) \subseteq Paths
BY DEF MergePatch

LEMMA LargerSet ==
  ASSUME NEW S, NEW T, S \subseteq T, NEW q \in Seq(S)
  PROVE  q \in Seq(T)
<1>1. q \in [1 .. Len(q) -> S] /\ Len(q) \in Nat
  BY LenProperties
<1>2. q \in [1 .. Len(q) -> T]
  BY <1>1
<1> QED
  BY <1>1, <1>2

LEMMA AssignedDomain ==
  ASSUME NEW d, DOMAIN d \subseteq Paths, NEW a \in Assignments
  PROVE  DOMAIN Assign(d, a.path, a.value) \subseteq Paths
<1>1. a.path \in Paths /\ DOMAIN a.value \subseteq Paths
  <2>1. \A q \in Seq(STRING) : q \in Seq(Keys)
    <3>1. STRING \subseteq Keys
      BY DEF Keys
    <3> QED
      BY <3>1, LargerSet
  <2> QED
    BY <2>1, OverlayAssumption DEF Paths
<1>2. \A q \in DOMAIN a.value : a.path \o q \in Paths
  BY <1>1, ConcatProperties DEF Paths
<1> QED
  BY <1>2 DEF Assign

LEMMA LayerDocuments ==
  ASSUME NEW x \in Layers
  PROVE  /\ IsFile(x) => DOMAIN x.file \subseteq Paths
         /\ ~IsFile(x) => x.assignment \in Assignments
<1>1. CASE \E f \in Files : x = [file |-> f]
  <2>1. PICK f \in Files : x = [file |-> f]
    BY <1>1
  <2>2. IsFile(x) /\ x.file = f
    BY <2>1 DEF IsFile
  <2>3. \A q \in Seq(STRING) : q \in Seq(Keys)
    <3>1. STRING \subseteq Keys
      BY DEF Keys
    <3> QED
      BY <3>1, LargerSet
  <2> QED
    BY <2>2, <2>3, OverlayAssumption DEF Paths
<1>2. CASE \E a \in Assignments : x = [assignment |-> a]
  <2>1. PICK a \in Assignments : x = [assignment |-> a]
    BY <1>2
  <2>2. ~IsFile(x) /\ x.assignment = a
    BY <2>1 DEF IsFile
  <2> QED
    BY <2>2
<1> QED
  BY <1>1, <1>2 DEF Layers

LEMMA Listed ==
  ASSUME Recordings
  PROVE  Len(runs) \in Nat /\ DOMAIN runs = 1 .. Len(runs)
BY LenProperties DEF Recordings

\* A sequence is one of its elements.
LEMMA OfItsElements ==
  ASSUME NEW S, NEW q \in Seq(S)
  PROVE  q \in Seq({q[i] : i \in DOMAIN q})
<1> DEFINE E == {q[i] : i \in DOMAIN q}
<1>1. q \in [1 .. Len(q) -> S] /\ DOMAIN q = 1 .. Len(q) /\ Len(q) \in Nat
  BY LenProperties
<1>2. \A i \in 1 .. Len(q) : q[i] \in E
  BY <1>1
<1> HIDE DEF E
<1>3. q \in [1 .. Len(q) -> E]
  BY <1>1, <1>2
<1>4. q \in Seq(E)
  BY <1>1, <1>3
<1> QED
  BY <1>4 DEF E

\* Runs that are left alone stay what they were.
LEMMA EarlierRuns ==
  ASSUME Recordings, NEW n \in 0 .. Len(runs), \A r \in 1 .. n : runs'[r] = runs[r]
  PROVE  \A r \in 1 .. n : SoundRun(runs'[r]) /\ runs'[r].input \in 0 .. r - 1 /\ FromItsInput(r)'
<1>1. Len(runs) \in Nat /\ DOMAIN runs = 1 .. Len(runs)
  BY Listed
<1> SUFFICES ASSUME NEW r \in 1 .. n
             PROVE  SoundRun(runs'[r]) /\ runs'[r].input \in 0 .. r - 1 /\ FromItsInput(r)'
  OBVIOUS
<1>2. r \in DOMAIN runs /\ runs'[r] = runs[r]
  BY <1>1
<1>3. SoundRun(runs[r]) /\ runs[r].input \in 0 .. r - 1 /\ FromItsInput(r)
  BY <1>2 DEF Recordings
<1>4. runs[r].input # 0 => runs[r].input \in 1 .. n
  BY <1>1, <1>3
<1>5. FromItsInput(r)'
  <2>1. Replays(r)' <=> Replays(r)
    BY <1>2 DEF Replays
  <2>2. SUFFICES ASSUME Replays(r)
                 PROVE  \A e \in runs'[r].overlay :
                          \E d \in runs'[runs'[r].input].overlay : e = NonNull(d)
    BY <2>1 DEF FromItsInput, NonNull
  <2>3. runs'[runs'[r].input] = runs[runs[r].input]
    BY <1>2, <1>4, <2>2 DEF Replays
  <2> QED
    BY <1>2, <1>3, <2>2, <2>3 DEF FromItsInput
<1> QED
  BY <1>2, <1>3, <1>5

\* A launch.
LEMMA RunAdded ==
  ASSUME Recordings, NEW x, runs' = Append(runs, x), SoundRun(x), x.input \in 0 .. Len(runs),
         x.overlay = {}
  PROVE  Recordings' /\ Len(runs') = Len(runs) + 1 /\ runs'[Len(runs')] = x /\ runs' # <<>>
<1>1. Len(runs) \in Nat /\ DOMAIN runs = 1 .. Len(runs)
  BY Listed
<1>n. PICK n \in Nat : n = Len(runs) + 1
  BY <1>1
<1> DEFINE S == {runs[r] : r \in DOMAIN runs} \cup {x}
<1>2. runs \in Seq(S) /\ x \in S
  <2>1. runs \in Seq({runs[r] : r \in DOMAIN runs})
    BY DEF Recordings
  <2>2. {runs[r] : r \in DOMAIN runs} \subseteq S
    OBVIOUS
  <2> QED
    BY <2>1, <2>2
<1> HIDE DEF S
<1>3. /\ runs' \in Seq(S) /\ Len(runs') = Len(runs) + 1
      /\ \A i \in 1 .. Len(runs) : runs'[i] = runs[i]
      /\ runs'[Len(runs) + 1] = x
  BY <1>2, AppendProperties
<1>4. DOMAIN runs' = 1 .. Len(runs) + 1
  BY <1>3, LenProperties
<1>5. runs' \in Seq({runs'[r] : r \in DOMAIN runs'})
  BY <1>3, OfItsElements
<1>6. Len(runs) \in 0 .. Len(runs)
  BY <1>1
<1>7. \A r \in 1 .. Len(runs) :
        SoundRun(runs'[r]) /\ runs'[r].input \in 0 .. r - 1 /\ FromItsInput(r)'
  BY <1>3, <1>6, EarlierRuns
<1>8. FromItsInput(n)'
  <2>1. runs'[n].overlay = {}
    BY <1>3, <1>n
  <2> QED
    BY <2>1 DEF FromItsInput
<1>9. \A r \in DOMAIN runs' : r \in 1 .. Len(runs) \/ r = n
  BY <1>1, <1>4, <1>n
<1>10. x.input \in 0 .. n - 1 /\ runs'[n] = x
  BY <1>1, <1>3, <1>n
<1>11. \A r \in DOMAIN runs' :
         SoundRun(runs'[r]) /\ runs'[r].input \in 0 .. r - 1 /\ FromItsInput(r)'
  BY <1>3, <1>7, <1>8, <1>9, <1>10
<1>12. Recordings'
  BY <1>5, <1>11 DEF Recordings, SoundRun
<1> QED
  BY <1>1, <1>3, <1>4, <1>12

\* What the last run leaves.
LEMMA RunLeft ==
  ASSUME Recordings, runs # <<>>, NEW x, runs' = [runs EXCEPT ![Len(runs)] = x], SoundRun(x),
         x.input = Current.input, x.layers = Current.layers,
         Replays(Len(runs)) =>
           \A e \in x.overlay : \E d \in runs[Current.input].overlay : e = NonNull(d)
  PROVE  /\ Recordings' /\ Len(runs') = Len(runs) /\ Current' = x
         /\ Replays(Len(runs))' <=> Replays(Len(runs))
         /\ Current.input # 0 => runs'[Current.input] = runs[Current.input]
<1>n. PICK n \in Nat : n = Len(runs)
  BY Listed
<1>1. n \in Nat /\ DOMAIN runs = 1 .. n /\ n >= 1
  BY Listed, EmptySeq, <1>n DEF Recordings
<1> DEFINE S == {runs[r] : r \in DOMAIN runs} \cup {x}
<1>2. runs \in Seq(S) /\ x \in S
  <2>1. runs \in Seq({runs[r] : r \in DOMAIN runs})
    BY DEF Recordings
  <2>2. {runs[r] : r \in DOMAIN runs} \subseteq S
    OBVIOUS
  <2> QED
    BY <2>1, <2>2
<1> HIDE DEF S
<1>3. /\ runs' \in Seq(S) /\ Len(runs') = n /\ DOMAIN runs' = 1 .. n /\ runs'[n] = x
      /\ \A i \in 1 .. n : i # n => runs'[i] = runs[i]
  <2>1. n \in 1 .. Len(runs)
    BY <1>1, <1>n
  <2>2. /\ [runs EXCEPT ![n] = x] \in Seq(S) /\ Len([runs EXCEPT ![n] = x]) = Len(runs)
        /\ \A j \in 1 .. Len(runs) : [runs EXCEPT ![n] = x][j] = IF j = n THEN x ELSE runs[j]
    BY <1>2, <2>1, ExceptSeq
  <2>3. runs' = [runs EXCEPT ![n] = x]
    BY <1>n
  <2>4. runs' \in Seq(S) /\ Len(runs') = n
    BY <1>n, <2>2, <2>3
  <2>5. DOMAIN runs' = 1 .. n
    BY <2>4, LenProperties
  <2>6. \A j \in 1 .. n : runs'[j] = IF j = n THEN x ELSE runs[j]
    BY <1>n, <2>2, <2>3
  <2>7. runs'[n] = x
    BY <1>n, <2>1, <2>6
  <2> QED
    BY <2>4, <2>5, <2>6, <2>7
<1>4. runs' \in Seq({runs'[r] : r \in DOMAIN runs'})
  <2>1. runs' \in Seq(S)
    BY <1>3
  <2>2. \A q \in Seq(S) : q \in Seq({q[r] : r \in DOMAIN q})
    BY OfItsElements
  <2> QED
    BY <2>1, <2>2, Zenon
<1>5. n - 1 \in 0 .. Len(runs) /\ \A r \in 1 .. n - 1 : runs'[r] = runs[r]
  <2>1. n - 1 \in 0 .. n /\ \A r \in 1 .. n - 1 : r \in 1 .. n /\ r # n
    BY <1>1
  <2> QED
    BY <1>3, <1>n, <2>1
<1>6. \A r \in 1 .. n - 1 :
        SoundRun(runs'[r]) /\ runs'[r].input \in 0 .. r - 1 /\ FromItsInput(r)'
  BY <1>5, EarlierRuns
<1>7. Current = runs[n] /\ Current.input \in 0 .. n - 1 /\ Current' = x
  <2>1. n \in DOMAIN runs
    BY <1>1
  <2> QED
    BY <1>3, <1>n, <2>1 DEF Current, Recordings
<1>8. Current.input # 0 => runs'[Current.input] = runs[Current.input]
  BY <1>1, <1>5, <1>7
<1>9. Replays(n)' <=> Replays(n)
  BY <1>3, <1>7 DEF Replays
<1>10. FromItsInput(n)'
  <2>0. Replays(n) => \A e \in x.overlay : \E d \in runs[Current.input].overlay : e = NonNull(d)
    BY <1>n
  <2>1. SUFFICES ASSUME Replays(n)
                 PROVE  \A e \in x.overlay : \E d \in runs'[Current.input].overlay : e = NonNull(d)
    BY <1>3, <1>7, <1>9 DEF FromItsInput
  <2>2. Current.input # 0
    BY <1>7, <2>1 DEF Replays
  <2> QED
    BY <1>8, <2>0, <2>1, <2>2
<1>11. \A r \in DOMAIN runs' : r \in 1 .. n - 1 \/ r = n
  BY <1>1, <1>3
<1>12. \A r \in DOMAIN runs' :
         SoundRun(runs'[r]) /\ runs'[r].input \in 0 .. r - 1 /\ FromItsInput(r)'
  BY <1>3, <1>6, <1>7, <1>10, <1>11
<1>13. Recordings'
  BY <1>4, <1>12 DEF Recordings, SoundRun
<1> QED
  BY <1>3, <1>7, <1>8, <1>9, <1>13, <1>n

LEMMA RunsKept ==
  ASSUME Recordings, runs' = runs
  PROVE  /\ Recordings' /\ Current' = Current /\ Len(runs') = Len(runs)
         /\ \A n : Replays(n)' <=> Replays(n)
<1>1. \A n : (Replays(n)' <=> Replays(n)) /\ (FromItsInput(n)' <=> FromItsInput(n))
  BY DEF Replays, FromItsInput
<1> QED
  BY <1>1 DEF Recordings, Current

\* The run under way.
LEMMA RunUnderWay ==
  ASSUME Recordings, runs # <<>>
  PROVE  /\ Len(runs) \in DOMAIN runs /\ SoundRun(Current) /\ FromItsInput(Len(runs))
         /\ Current.input # 0 => Current.input \in DOMAIN runs /\ SoundRun(runs[Current.input])
         /\ Replays(Len(runs)) <=> Current.input # 0 /\ Current.layers = <<>>
<1>1. Len(runs) \in Nat /\ DOMAIN runs = 1 .. Len(runs) /\ Len(runs) # 0
  BY Listed, EmptySeq DEF Recordings
<1>2. Len(runs) \in DOMAIN runs
  BY <1>1
<1>3. /\ SoundRun(Current) /\ FromItsInput(Len(runs)) /\ Current.input \in 0 .. Len(runs) - 1
  BY <1>2 DEF Recordings, Current
<1>4. Current.input # 0 => Current.input \in DOMAIN runs
  BY <1>1, <1>3
<1> QED
  BY <1>2, <1>3, <1>4 DEF Recordings, Replays, Current

LEMMA OverlayInit == Init => OInv
<1> SUFFICES ASSUME Init PROVE OInv
  OBVIOUS
<1>1. runs = <<>> /\ stage = <<"idle">> /\ document = Empty
  BY DEF Init
<1>2. Recordings
  BY <1>1 DEF Recordings
<1>3. stage[1] = "idle" /\ DOMAIN document = {}
  BY <1>1 DEF Empty
<1>4. Staged
  BY <1>1, <1>3 DEF Staged
<1> QED
  BY <1>2, <1>4 DEF OInv

LEMMA FailKeeps ==
  ASSUME OInv, Fail
  PROVE  OInv'
<1>1. runs' = runs /\ document' = document /\ stage' = <<"idle">> /\ stage'[1] = "idle"
  BY DEF Fail
<1>2. Recordings'
  BY <1>1, RunsKept DEF OInv
<1>3. Staged'
  BY <1>1 DEF OInv, Staged
<1> QED
  BY <1>2, <1>3 DEF OInv

LEMMA LaunchKeeps ==
  ASSUME OInv, NEW input \in 0 .. Len(runs), NEW n \in Nat, NEW layers \in [1 .. n -> Layers],
         Launch(input, layers)
  PROVE  OInv'
<1> DEFINE x == Run(input, layers)
<1>1. Recordings /\ runs' = Append(runs, x) /\ stage' = <<"recorded">> /\ document' = Empty
  BY DEF OInv, Launch
<1>2. /\ DOMAIN x = Fields /\ x.input = input /\ x.layers = layers /\ x.overlay = {}
      /\ x.manifest = FALSE /\ x.effective = Empty
  BY DEF Run, Fields
<1>3. DOMAIN Empty = {}
  BY DEF Empty
<1>4. Len(layers) = n
  BY LenProperties
<1> HIDE DEF x
<1>5. SoundRun(x)
  BY <1>2, <1>3, <1>4 DEF SoundRun
<1>6. Recordings' /\ runs'[Len(runs')] = x /\ runs' # <<>>
  BY <1>1, <1>2, <1>5, RunAdded
<1>7. Staged'
  <2>1. Current' = x /\ stage'[1] = "recorded" /\ DOMAIN document' = {}
    BY <1>1, <1>3, <1>6 DEF Current
  <2> QED
    BY <1>1, <1>2, <1>6, <2>1 DEF Staged
<1> QED
  BY <1>6, <1>7 DEF OInv

LEMMA LayerRecordedKeeps ==
  ASSUME OInv, LayerRecorded
  PROVE  OInv'
<1>1. Recordings /\ Staged /\ stage = <<"recorded">> /\ stage[1] = "recorded"
  BY DEF OInv, LayerRecorded
<1>2. runs # <<>> /\ document = Empty /\ Current.overlay = {} /\ Current.effective = Empty
      /\ DOMAIN document \subseteq Paths
  BY <1>1 DEF Staged
<1>3. /\ Current.input # 0 => SoundRun(runs[Current.input])
      /\ Replays(Len(runs)) => Current.input # 0
  BY <1>1, <1>2, RunUnderWay
<1>4. CASE Fail
  BY <1>4, FailKeeps
<1>5. ASSUME runs' = runs, stage' = <<"layer", 1>>, DOMAIN document' \subseteq Paths,
             Replays(Len(runs)) => \E d \in runs[Current.input].overlay : document' = NonNull(d)
      PROVE  OInv'
  <2>1. /\ Recordings' /\ Current' = Current /\ Len(runs') = Len(runs)
        /\ Replays(Len(runs))' <=> Replays(Len(runs))
    BY <1>1, <1>5, RunsKept DEF Replays
  <2>2. stage'[1] = "layer" /\ stage'[2] = 1 /\ stage' # <<"recorded">>
    BY <1>5
  <2>3. Replays(Len(runs))' =>
          \E d \in runs'[Current'.input].overlay : document' = NonNull(d)
    BY <1>5, <2>1
  <2>4. stage'[1] \notin {"valid", "written", "running"} /\ stage'[2] \in Nat \ {0} /\ runs' # <<>>
    BY <1>2, <1>5, <2>2
  <2>5. Current'.overlay = {} /\ Current'.effective = Empty
    BY <1>2, <2>1
  <2>6. Staged'
    BY <1>5, <2>2, <2>3, <2>4, <2>5 DEF Staged
  <2> QED
    BY <2>1, <2>6 DEF OInv
<1>6. CASE Current.input = 0 /\ stage' = <<"layer", 1>> /\ UNCHANGED <<runs, document>>
  BY <1>2, <1>3, <1>5, <1>6
<1>7. ASSUME Current.input # 0, NEW d \in runs[Current.input].overlay, runs' = runs,
             document' = MergePatch(document, d), stage' = <<"layer", 1>>
      PROVE  OInv'
  <2>1. document' = NonNull(d)
    BY <1>2, <1>7, MergedOntoNothing
  <2>2. DOMAIN d \subseteq Paths
    BY <1>3, <1>7 DEF SoundRun
  <2>3. DOMAIN document' \subseteq Paths
    BY <2>1, <2>2 DEF NonNull
  <2> QED
    BY <1>5, <1>7, <2>1, <2>3
<1> QED
  BY <1>4, <1>6, <1>7 DEF LayerRecorded

LEMMA AppliedKeeps ==
  ASSUME OInv, Layering, NEW d, Applied(d), DOMAIN d \subseteq Paths
  PROVE  OInv'
<1>1. Recordings /\ Staged /\ stage[1] = "layer" /\ stage[2] <= Len(Current.layers)
  BY DEF OInv, Layering
<1>2. runs' = runs /\ document' = d /\ stage' = <<"layer", stage[2] + 1>>
  BY DEF Applied
<1>3. stage # <<"idle">>
  BY <1>1
<1>4. runs # <<>> /\ stage[2] \in Nat \ {0} /\ Current.overlay = {} /\ Current.effective = Empty
  BY <1>1, <1>3 DEF Staged
<1>5. ~Replays(Len(runs))
  <2>1. Len(Current.layers) \in Nat
    BY <1>1, <1>4, RunUnderWay DEF SoundRun
  <2>2. Current.layers # <<>>
    BY <1>1, <1>4, <2>1
  <2> QED
    BY <1>1, <1>4, <2>2, RunUnderWay
<1>6. /\ Recordings' /\ Current' = Current /\ Len(runs') = Len(runs)
      /\ Replays(Len(runs))' <=> Replays(Len(runs))
  BY <1>1, <1>2, RunsKept DEF Replays
<1>7. stage'[1] = "layer" /\ stage'[2] \in Nat \ {0} /\ stage' # <<"recorded">>
  BY <1>2, <1>4
<1>8. Staged'
  BY <1>2, <1>4, <1>5, <1>6, <1>7 DEF Staged
<1> QED
  BY <1>6, <1>8 DEF OInv

\* The layer that is applied next.
LEMMA NextLayer ==
  ASSUME OInv, Layering
  PROVE  Layer \in Layers /\ DOMAIN document \subseteq Paths
<1>1. Recordings /\ Staged /\ stage[1] = "layer" /\ stage[2] <= Len(Current.layers)
  BY DEF OInv, Layering
<1>2. stage # <<"idle">>
  BY <1>1
<1>3. runs # <<>> /\ stage[2] \in Nat \ {0} /\ DOMAIN document \subseteq Paths
  BY <1>1, <1>2 DEF Staged
<1>4. /\ Len(Current.layers) \in Nat
      /\ \A i \in 1 .. Len(Current.layers) : Current.layers[i] \in Layers
  BY <1>1, <1>3, RunUnderWay DEF SoundRun
<1>5. stage[2] \in 1 .. Len(Current.layers)
  BY <1>1, <1>3, <1>4
<1> QED
  BY <1>3, <1>4, <1>5 DEF Layer

LEMMA ValidateKeeps ==
  ASSUME OInv, Validate
  PROVE  OInv'
<1>1. CASE Fail
  BY <1>1, FailKeeps
<1>2. CASE Unique(document) /\ stage' = <<"valid">> /\ UNCHANGED <<runs, document>>
  <2>1. Recordings /\ Staged /\ stage[1] = "layer"
    BY DEF OInv, Validate
  <2>2. stage # <<"idle">>
    BY <2>1
  <2>3. /\ Recordings' /\ Current' = Current /\ Len(runs') = Len(runs)
        /\ Replays(Len(runs))' <=> Replays(Len(runs))
    BY <1>2, <2>1, RunsKept DEF Replays
  <2>4. stage'[1] = "valid" /\ stage' # <<"recorded">>
    BY <1>2
  <2>5. Unique(document)'
    BY <1>2 DEF Unique, NamesIn
  <2>6. Replays(Len(runs)) => \E d \in runs[Current.input].overlay : document = NonNull(d)
    BY <2>1 DEF Staged
  <2>7. Staged'
    BY <1>2, <2>1, <2>2, <2>3, <2>4, <2>5, <2>6 DEF Staged, NonNull
  <2> QED
    BY <2>3, <2>7 DEF OInv
<1> QED
  BY <1>1, <1>2 DEF Validate

\* The routines and files of a valid run.
LEMMA LeftKeeps ==
  ASSUME OInv, stage[1] \in {"valid", "written", "running"}, document' = document,
         stage'[1] \in {"written", "running"}, NEW x, Left(x), SoundRun(x), DOMAIN x = Fields,
         x.input = Current.input, x.layers = Current.layers, x.overlay = {document}
  PROVE  OInv'
<1>1. Recordings /\ Staged /\ stage # <<"idle">>
  BY DEF OInv
<1>2. runs # <<>> /\ Unique(document) /\ DOMAIN document \subseteq Paths
  BY <1>1 DEF Staged
<1>3. Replays(Len(runs)) => \E d \in runs[Current.input].overlay : document = NonNull(d)
  BY <1>1 DEF Staged
<1>4. runs' = [runs EXCEPT ![Len(runs)] = x]
  BY DEF Left
<1>5. /\ Recordings' /\ Len(runs') = Len(runs) /\ Current' = x
      /\ Replays(Len(runs))' <=> Replays(Len(runs))
      /\ Current.input # 0 => runs'[Current.input] = runs[Current.input]
  BY <1>1, <1>2, <1>3, <1>4, RunLeft
<1>6. Replays(Len(runs)) => Current.input # 0
  BY <1>1, <1>2, RunUnderWay
<1>7. stage' # <<"recorded">> /\ runs' # <<>>
  <2>1. Len(runs) # 0
    BY <1>1, <1>2, Listed, EmptySeq DEF Recordings
  <2> QED
    BY <1>5, <2>1
<1>8. Unique(document)'
  BY <1>2 DEF Unique, NamesIn
<1>9. Staged'
  BY <1>2, <1>3, <1>5, <1>6, <1>7, <1>8 DEF Staged, NonNull
<1> QED
  BY <1>5, <1>9 DEF OInv

LEMMA OverlayNext == OInv /\ [Next]_vars => OInv'
<1> SUFFICES ASSUME OInv, [Next]_vars PROVE OInv'
  OBVIOUS
<1>0. Recordings /\ Staged
  BY DEF OInv
<1>1. ASSUME NEW input \in 0 .. Len(runs), NEW n \in 0 .. MaxLayers - Used,
             NEW layers \in [1 .. n -> Layers], Launch(input, layers)
      PROVE  OInv'
  <2>1. n \in Nat
    OBVIOUS
  <2> QED
    BY <1>1, <2>1, LaunchKeeps
<1>2. CASE LayerRecorded
  BY <1>2, LayerRecordedKeeps
<1>3. CASE LayerFile
  <2>1. Layering /\ IsFile(Layer) /\ Applied(MergePatch(document, Layer.file))
    BY <1>3 DEF LayerFile
  <2>2. DOMAIN MergePatch(document, Layer.file) \subseteq Paths
    BY <2>1, NextLayer, LayerDocuments, MergedDomain
  <2> QED
    BY <2>1, <2>2, AppliedKeeps
<1>4. CASE ApplyOverride
  <2>1. Layering /\ ~IsFile(Layer)
    BY <1>4 DEF ApplyOverride
  <2>2. CASE Fail
    BY <2>2, FailKeeps
  <2>3. CASE Applied(Assign(document, Layer.assignment.path, Layer.assignment.value))
    <3>1. DOMAIN Assign(document, Layer.assignment.path, Layer.assignment.value) \subseteq Paths
      BY <2>1, NextLayer, LayerDocuments, AssignedDomain
    <3> QED
      BY <2>1, <2>3, <3>1, AppliedKeeps
  <2> QED
    BY <1>4, <2>2, <2>3 DEF ApplyOverride
<1>5. CASE Validate
  BY <1>5, ValidateKeeps
<1>6. CASE WriteOverlay
  <2> DEFINE x == [Current EXCEPT !.overlay = {document}]
  <2>1. stage = <<"valid">> /\ stage[1] = "valid" /\ stage' = <<"written">> /\ stage'[1] = "written"
        /\ Left(x) /\ document' = document
    BY <1>6 DEF WriteOverlay
  <2>2. /\ runs # <<>> /\ Unique(document) /\ DOMAIN document \subseteq Paths
        /\ Current.effective = Empty
    BY <1>0, <2>1 DEF Staged
  <2>3. SoundRun(Current)
    BY <1>0, <2>2, RunUnderWay
  <2>4. /\ DOMAIN x = Fields /\ x.overlay = {document} /\ x.input = Current.input
        /\ x.layers = Current.layers /\ x.effective = Current.effective
    BY <2>3 DEF SoundRun, Fields
  <2>5. DOMAIN Empty = {}
    BY DEF Empty
  <2> HIDE DEF x
  <2>6. SoundRun(x)
    BY <2>2, <2>3, <2>4, <2>5 DEF SoundRun
  <2> QED
    BY <2>1, <2>4, <2>6, LeftKeeps
<1>7. CASE WriteManifest
  <2> DEFINE x == [Current EXCEPT !.manifest = TRUE]
  <2>1. /\ stage = <<"written">> /\ stage[1] = "written"
        /\ stage' = <<"running">> /\ stage'[1] = "running"
        /\ Left(x) /\ document' = document
    BY <1>7 DEF WriteManifest
  <2>2. runs # <<>> /\ Current.overlay = {document}
    BY <1>0, <2>1 DEF Staged
  <2>3. SoundRun(Current)
    BY <1>0, <2>2, RunUnderWay
  <2>4. /\ DOMAIN x = Fields /\ x.overlay = {document} /\ x.input = Current.input
        /\ x.layers = Current.layers /\ x.effective = Current.effective
    BY <2>2, <2>3 DEF SoundRun, Fields
  <2> HIDE DEF x
  <2>5. SoundRun(x)
    BY <2>2, <2>3, <2>4 DEF SoundRun
  <2> QED
    BY <2>1, <2>4, <2>5, LeftKeeps
<1>8. ASSUME NEW name \in DOMAIN SchemaOf, Materialize(name) PROVE OInv'
  <2> DEFINE o == Overrides(document, name)
             schema == SchemaOf[name]
             old == Current.effective
             new == [n \in DOMAIN old \cup {name} |->
                       IF n = name THEN Effective(o, schema) ELSE old[n]]
             x == [Current EXCEPT !.effective = new]
  <2>1. CASE Fail
    BY <2>1, FailKeeps
  <2>2. CASE Accepted(o, schema) /\ Left(x) /\ UNCHANGED <<stage, document>>
    <3>1. stage = <<"running">> /\ stage[1] = "running" /\ stage'[1] = "running"
      BY <1>8, <2>2 DEF Materialize
    <3>2. runs # <<>> /\ Current.overlay = {document}
      BY <1>0, <3>1 DEF Staged
    <3>3. SoundRun(Current)
      BY <1>0, <3>2, RunUnderWay
    <3>4. /\ DOMAIN x = Fields /\ x.overlay = {document} /\ x.input = Current.input
          /\ x.layers = Current.layers /\ x.effective = new
      BY <3>2, <3>3 DEF SoundRun, Fields
    <3>5. /\ DOMAIN new = DOMAIN old \cup {name} /\ new[name] = Effective(o, schema)
          /\ \A n \in DOMAIN old : n # name => new[n] = old[n]
      OBVIOUS
    <3> HIDE DEF x, new, schema, old
    <3>6. \A n \in DOMAIN new :
            /\ n \in DOMAIN SchemaOf
            /\ Accepted(Overrides(document, n), SchemaOf[n])
            /\ new[n] = Effective(Overrides(document, n), SchemaOf[n])
      <4>1. new[name] = Effective(Overrides(document, name), SchemaOf[name])
            /\ Accepted(Overrides(document, name), SchemaOf[name])
        BY <2>2, <3>5 DEF schema
      <4>2. \A n \in DOMAIN old :
              /\ n \in DOMAIN SchemaOf
              /\ Accepted(Overrides(document, n), SchemaOf[n])
              /\ old[n] = Effective(Overrides(document, n), SchemaOf[n])
        BY <3>2, <3>3 DEF SoundRun, old
      <4> QED
        BY <3>5, <4>1, <4>2
    <3>7. SoundRun(x)
      BY <3>2, <3>3, <3>4, <3>6 DEF SoundRun
    <3>8. Left(x) /\ document' = document
      BY <2>2
    <3> QED
      BY <3>1, <3>4, <3>7, <3>8, LeftKeeps
  <2> QED
    BY <1>8, <2>1, <2>2 DEF Materialize
<1>9. CASE End
  BY <1>9, FailKeeps DEF End
<1>10. CASE UNCHANGED vars
  <2>1. runs' = runs /\ stage' = stage /\ document' = document
    BY <1>10 DEF vars
  <2>2. /\ Recordings' /\ Current' = Current /\ Len(runs') = Len(runs)
        /\ Replays(Len(runs))' <=> Replays(Len(runs))
    BY <1>0, <2>1, RunsKept DEF Replays
  <2>3. Unique(document)' <=> Unique(document)
    BY <2>1 DEF Unique, NamesIn
  <2>4. Staged'
    BY <1>0, <2>1, <2>2, <2>3 DEF Staged, NonNull
  <2> QED
    BY <2>2, <2>4 DEF OInv
<1> QED
  BY <1>1, <1>2, <1>3, <1>4, <1>5, <1>6, <1>7, <1>8, <1>9, <1>10 DEF Next

LEMMA ReplayFollows == OInv => ReplayFaithful
<1> SUFFICES ASSUME OInv, NEW r \in DOMAIN runs, Replays(r),
                    NEW n \in DOMAIN runs[runs[r].input].effective
             PROVE  /\ n \in DOMAIN runs[r].effective =>
                         runs[r].effective[n] = runs[runs[r].input].effective[n]
                    /\ r = Len(runs) /\ stage = <<"running">> =>
                         Accepted(Overrides(document, n), SchemaOf[n])
  BY DEF ReplayFaithful
<1> DEFINE x == runs[r]
           y == runs[runs[r].input]
<1>1. Recordings /\ Staged
  BY DEF OInv
<1>2. SoundRun(x) /\ SoundRun(y) /\ FromItsInput(r) /\ x.input # 0
  <2>1. r \in 1 .. Len(runs) /\ Len(runs) \in Nat /\ DOMAIN runs = 1 .. Len(runs)
    BY <1>1, Listed
  <2>2. x.input \in 0 .. r - 1 /\ x.input # 0
    BY <1>1 DEF Recordings, Replays
  <2>3. x.input \in DOMAIN runs
    BY <2>1, <2>2
  <2> QED
    BY <1>1, <2>2, <2>3 DEF Recordings
<1> HIDE DEF x, y
<1>3. DOMAIN Empty = {} /\ n \in DOMAIN y.effective
  BY DEF Empty, y
<1>4. PICK d \in y.overlay : TRUE
  BY <1>2, <1>3 DEF SoundRun
<1>5. /\ n \in DOMAIN SchemaOf /\ DOMAIN d \subseteq Paths /\ Unique(d)
      /\ Accepted(Overrides(d, n), SchemaOf[n])
      /\ y.effective[n] = Effective(Overrides(d, n), SchemaOf[n])
  BY <1>2, <1>3, <1>4 DEF SoundRun
<1>6. /\ Accepted(Overrides(NonNull(d), n), SchemaOf[n])
      /\ Effective(Overrides(NonNull(d), n), SchemaOf[n]) = y.effective[n]
  <2>1. n \in Keys
    BY <1>5, OverlayAssumption DEF Keys
  <2>2. Overrides(NonNull(d), n) = NonNull(Overrides(d, n))
    BY <1>5, <2>1, OverridesReplayed
  <2> QED
    BY <1>5, <2>2, NullsRevert
<1>7. \A e \in y.overlay : e = d
  BY <1>2, <1>4 DEF SoundRun
<1>8. ASSUME n \in DOMAIN x.effective PROVE x.effective[n] = y.effective[n]
  <2>1. PICK e \in x.overlay : TRUE
    BY <1>2, <1>3, <1>8 DEF SoundRun
  <2>2. e = NonNull(d)
    BY <1>2, <1>7, <2>1 DEF FromItsInput, x, y
  <2>3. x.effective[n] = Effective(Overrides(e, n), SchemaOf[n])
    BY <1>2, <1>8, <2>1 DEF SoundRun
  <2> QED
    BY <1>6, <2>2, <2>3
<1>9. ASSUME r = Len(runs), stage = <<"running">>
      PROVE  Accepted(Overrides(document, n), SchemaOf[n])
  <2>1. stage[1] = "running" /\ Current = x
    BY <1>9 DEF Current, x
  <2>2. document = NonNull(d)
    BY <1>1, <1>7, <1>9, <2>1 DEF Staged, x, y
  <2> QED
    BY <1>6, <2>2
<1> QED
  BY <1>8, <1>9 DEF x, y

LEMMA DirectoriesFollow == OInv => DirectoriesReplayable
<1> SUFFICES ASSUME OInv, NEW r \in DOMAIN runs
             PROVE  /\ runs[r].manifest \/ runs[r].effective # Empty => runs[r].overlay # {}
                    /\ \A d \in runs[r].overlay : \A n \in DOMAIN runs[r].effective :
                         Cardinality({s \in {"components", "drivers"} : n \in NamesIn(d, s)}) <= 1
  BY DEF DirectoriesReplayable
<1>1. SoundRun(runs[r])
  BY DEF OInv, Recordings
<1>2. ASSUME NEW d \in runs[r].overlay, NEW n
      PROVE  Cardinality({s \in {"components", "drivers"} : n \in NamesIn(d, s)}) <= 1
  <2> DEFINE T == {s \in {"components", "drivers"} : n \in NamesIn(d, s)}
  <2>1. ~(n \in NamesIn(d, "components") /\ n \in NamesIn(d, "drivers"))
    BY <1>1 DEF SoundRun, Unique
  <2>2. T = {} \/ T = {"components"} \/ T = {"drivers"}
    BY <2>1
  <2>3. Cardinality({}) = 0 /\ Cardinality({"components"}) = 1 /\ Cardinality({"drivers"}) = 1
    BY FS_EmptySet, FS_Singleton
  <2> HIDE DEF T
  <2>4. Cardinality(T) <= 1
    BY <2>2, <2>3
  <2> QED
    BY <2>4 DEF T
<1> QED
  BY <1>1, <1>2 DEF SoundRun

-----------------------------------------------------------------------------
(* The lineage of a run: the layers it descends from, in their order. That  *)
(* they can be listed is an invariant, since inputs are earlier runs; and a *)
(* document tells of every path what the last layer of the list says.       *)

\* The last of the first n layers of s to speak of p says v.
Heard(s, n, p, v) ==
  \/ v = Null /\ \A i \in 1 .. n : ~Mentions(s[i], p)
  \/ \E i \in 1 .. n : /\ Mentions(s[i], p) /\ v = Says(s[i], p, Null)
                       /\ \A j \in 1 .. n : i < j => ~Mentions(s[j], p)
Value(d, p) == IF p \in DOMAIN d THEN d[p] ELSE Null
Tells(d, s, n) == \A p \in Paths : Heard(s, n, p, Value(d, p))

Lineage(A) ==
  /\ A = [r \in 0 .. Len(runs) |-> A[r]] /\ DOMAIN A = 0 .. Len(runs) /\ A[0] = <<>>
  /\ \A r \in DOMAIN runs : A[r] = A[runs[r].input] \o runs[r].layers

Told(A) ==
  /\ \A r \in DOMAIN A : A[r] \in Seq(Layers)
  /\ \A r \in DOMAIN runs : \A d \in runs[r].overlay : Tells(d, A[r], Len(A[r]))
  /\ stage[1] = "layer" =>
       /\ stage[2] <= Len(Current.layers) + 1
       /\ Tells(document, A[Len(runs)], Len(A[Current.input]) + stage[2] - 1)
  /\ stage[1] \in {"valid", "written", "running"} =>
       Tells(document, A[Len(runs)], Len(A[Len(runs)]))

LInv ==
  /\ \A r \in DOMAIN runs : runs[r].layers \in Seq(Layers)
  /\ \E A : Lineage(A)
  /\ \A A : Lineage(A) => Told(A)

LEMMA Joined ==
  ASSUME NEW a \in Paths, NEW q \in Paths
  PROVE  /\ a \o q \in Paths /\ Under(a, a \o q)
         /\ SubSeq(a \o q, Len(a) + 1, Len(a \o q)) = q
<1> DEFINE p == a \o q
           r == SubSeq(p, Len(a) + 1, Len(p))
<1>1. /\ p \in Seq(Keys) /\ Len(p) = Len(a) + Len(q) /\ Len(a) \in Nat /\ Len(q) \in Nat
      /\ \A i \in 1 .. Len(a) + Len(q) : p[i] = IF i <= Len(a) THEN a[i] ELSE q[i - Len(a)]
  BY ConcatProperties, LenProperties DEF Paths
<1>2. \A i \in 1 .. Len(p) : p[i] \in Keys
  BY <1>1, LenProperties
<1> HIDE DEF p
<1>3. SubSeq(p, 1, Len(a)) = a
  <2>1. \A i \in 1 .. Len(a) : p[i] \in Keys
    BY <1>1, <1>2
  <2>2. /\ SubSeq(p, 1, Len(a)) \in Seq(Keys)
        /\ Len(SubSeq(p, 1, Len(a))) = IF 1 <= Len(a) THEN Len(a) - 1 + 1 ELSE 0
        /\ \A i \in 1 .. Len(a) - 1 + 1 : SubSeq(p, 1, Len(a))[i] = p[1 + i - 1]
    BY <1>1, <2>1, SubSeqProperties
  <2>3. Len(SubSeq(p, 1, Len(a))) = Len(a)
    BY <1>1, <2>2
  <2>4. \A i \in 1 .. Len(a) : SubSeq(p, 1, Len(a))[i] = a[i]
    BY <1>1, <2>2
  <2> QED
    BY <2>2, <2>3, <2>4, SeqEqual DEF Paths
<1>4. r = q
  <2>1. \A i \in Len(a) + 1 .. Len(p) : p[i] \in Keys
    BY <1>1, <1>2
  <2>2. /\ r \in Seq(Keys)
        /\ Len(r) = IF Len(a) + 1 <= Len(p) THEN Len(p) - (Len(a) + 1) + 1 ELSE 0
        /\ \A i \in 1 .. Len(p) - (Len(a) + 1) + 1 : r[i] = p[(Len(a) + 1) + i - 1]
    BY <1>1, <2>1, SubSeqProperties
  <2>3. Len(r) = Len(q)
    BY <1>1, <2>2
  <2>4. \A i \in 1 .. Len(q) : r[i] = q[i]
    BY <1>1, <2>2
  <2> QED
    BY <2>2, <2>3, <2>4, SeqEqual DEF Paths
<1> QED
  BY <1>1, <1>3, <1>4 DEF Under, Paths, p

LEMMA OfItself ==
  ASSUME NEW p \in Paths
  PROVE  Clash(p, p)
<1>1. Len(p) \in Nat /\ p \in Seq(Keys) /\ \A i \in 1 .. Len(p) : p[i] \in Keys
  BY LenProperties DEF Paths
<1>2. /\ SubSeq(p, 1, Len(p)) \in Seq(Keys)
      /\ Len(SubSeq(p, 1, Len(p))) = IF 1 <= Len(p) THEN Len(p) - 1 + 1 ELSE 0
      /\ \A i \in 1 .. Len(p) - 1 + 1 : SubSeq(p, 1, Len(p))[i] = p[1 + i - 1]
  BY <1>1, SubSeqProperties
<1>3. Len(SubSeq(p, 1, Len(p))) = Len(p) /\ \A i \in 1 .. Len(p) : SubSeq(p, 1, Len(p))[i] = p[i]
  BY <1>1, <1>2
<1> QED
  BY <1>1, <1>2, <1>3, SeqEqual DEF Clash, Under

\* A file decides what it mentions and leaves the rest.
LEMMA Patched ==
  ASSUME NEW x \in Layers, IsFile(x), NEW d, NEW p \in Paths
  PROVE  Value(MergePatch(d, x.file), p) =
           IF Mentions(x, p) THEN Says(x, p, Null) ELSE Value(d, p)
<1> DEFINE c == x.file
           set == {q \in DOMAIN c : c[q] # Null}
           kept == {k \in DOMAIN d : \A q \in DOMAIN c : ~Clash(k, q)}
           m == MergePatch(d, c)
<1>1. DOMAIN m = kept \cup set /\ \A k \in kept \cup set : m[k] = IF k \in set THEN c[k] ELSE d[k]
  BY DEF MergePatch
<1>2. Mentions(x, p) <=> \E q \in DOMAIN c : Clash(p, q)
  BY DEF Mentions
<1>3. Says(x, p, Null) = IF p \in DOMAIN c /\ c[p] # Null THEN c[p] ELSE Null
  BY DEF Says
<1>4. p \in DOMAIN c => Mentions(x, p)
  BY <1>2, OfItself
<1>5. Value(m, p) = IF p \in kept \cup set THEN m[p] ELSE Null
  BY <1>1 DEF Value
<1>6. p \in kept <=> p \in DOMAIN d /\ ~Mentions(x, p)
  BY <1>2
<1>7. p \in set <=> p \in DOMAIN c /\ c[p] # Null
  OBVIOUS
<1>8. p \in set => Mentions(x, p)
  BY <1>4
<1> HIDE DEF set, kept, m, c
<1>9. CASE Mentions(x, p)
  <2>1. p \notin kept
    BY <1>6, <1>9
  <2> QED
    BY <1>1, <1>3, <1>5, <1>7, <1>9, <2>1 DEF m, c
<1>10. CASE ~Mentions(x, p)
  <2>1. p \notin set /\ (p \in kept <=> p \in DOMAIN d)
    BY <1>6, <1>8, <1>10
  <2>2. Value(m, p) = Value(d, p)
    BY <1>1, <1>5, <2>1 DEF Value
  <2> QED
    BY <1>10, <2>2 DEF m, c
<1> QED
  BY <1>9, <1>10

\* So does an assignment.
LEMMA AssignmentDecides ==
  ASSUME NEW x \in Layers, ~IsFile(x), NEW d, NEW p \in Paths
  PROVE  Value(Assign(d, x.assignment.path, x.assignment.value), p) =
           IF Mentions(x, p) THEN Says(x, p, Null) ELSE Value(d, p)
<1> DEFINE a == x.assignment.path
           v == x.assignment.value
           set == {a \o q : q \in DOMAIN v}
           kept == {k \in DOMAIN d : ~Clash(k, a)}
           rest(k) == SubSeq(k, Len(a) + 1, Len(k))
           m == Assign(d, a, v)
           c == Assign(Empty, a, v)
<1>1. DOMAIN m = kept \cup set
      /\ \A k \in kept \cup set : m[k] = IF k \in set THEN v[rest(k)] ELSE d[k]
  BY DEF Assign
<1>2. DOMAIN c = set /\ \A k \in set : c[k] = v[rest(k)]
  <2>1. DOMAIN Empty = {}
    BY DEF Empty
  <2>2. {k \in DOMAIN Empty : ~Clash(k, a)} \cup set = set
    BY <2>1
  <2> QED
    BY <2>2 DEF Assign
<1>3. Mentions(x, p) <=> Clash(p, a)
  BY DEF Mentions
<1>4. Says(x, p, Null) = IF p \in DOMAIN c /\ c[p] # Null THEN c[p] ELSE Null
  BY DEF Says
<1>5. a \in Paths /\ DOMAIN v \subseteq Paths
  <2>1. x.assignment \in Assignments
    BY LayerDocuments
  <2>2. STRING \subseteq Keys
    BY DEF Keys
  <2>3. \A q \in Seq(STRING) : q \in Seq(Keys)
    BY <2>2, LargerSet
  <2> QED
    BY <2>1, <2>3, OverlayAssumption DEF Paths
<1>6. \A q \in DOMAIN v : Clash(a \o q, a)
  BY <1>5, Joined DEF Clash
<1>7. p \in set => Mentions(x, p)
  BY <1>3, <1>6
<1>8. p \in kept <=> p \in DOMAIN d /\ ~Mentions(x, p)
  BY <1>3
<1> HIDE DEF set, kept, rest, m, c, a, v
<1>9. CASE Mentions(x, p)
  <2>1. p \notin kept
    BY <1>8, <1>9
  <2>2. Value(m, p) = Says(x, p, Null)
    BY <1>1, <1>2, <1>4, <2>1 DEF Value
  <2> QED
    BY <1>9, <2>2 DEF m, a, v
<1>10. CASE ~Mentions(x, p)
  <2>1. p \notin set /\ (p \in kept <=> p \in DOMAIN d)
    BY <1>7, <1>8, <1>10
  <2>2. Value(m, p) = Value(d, p)
    BY <1>1, <2>1 DEF Value
  <2> QED
    BY <1>10, <2>2 DEF m, a, v
<1> QED
  BY <1>9, <1>10

LEMMA HeardNext ==
  ASSUME NEW s, NEW n \in Nat, NEW p, NEW v, NEW w, Heard(s, n, p, v),
         w = IF Mentions(s[n + 1], p) THEN Says(s[n + 1], p, Null) ELSE v
  PROVE  Heard(s, n + 1, p, w)
<1>1. \A i : i \in 1 .. n + 1 <=> i \in 1 .. n \/ i = n + 1
  OBVIOUS
<1>2. \A i \in 1 .. n : i < n + 1
  OBVIOUS
<1>3. CASE Mentions(s[n + 1], p)
  <2>1. n + 1 \in 1 .. n + 1 /\ \A j \in 1 .. n + 1 : ~(n + 1 < j)
    OBVIOUS
  <2> QED
    BY <1>3, <2>1 DEF Heard
<1>4. CASE ~Mentions(s[n + 1], p)
  <2>1. w = v
    BY <1>4
  <2>2. CASE v = Null /\ \A i \in 1 .. n : ~Mentions(s[i], p)
    BY <1>1, <1>4, <2>1, <2>2 DEF Heard
  <2>3. ASSUME NEW i \in 1 .. n, Mentions(s[i], p), v = Says(s[i], p, Null),
               \A j \in 1 .. n : i < j => ~Mentions(s[j], p)
        PROVE  Heard(s, n + 1, p, w)
    <3>1. i \in 1 .. n + 1 /\ \A j \in 1 .. n + 1 : i < j => ~Mentions(s[j], p)
      BY <1>1, <1>4, <2>3
    <3> QED
      BY <2>1, <2>3, <3>1 DEF Heard
  <2> QED
    BY <2>2, <2>3 DEF Heard
<1> QED
  BY <1>3, <1>4

\* What is heard is what the first n say.
LEMMA HeardAlike ==
  ASSUME NEW s, NEW t, NEW n, NEW p, NEW v, \A i \in 1 .. n : s[i] = t[i], Heard(s, n, p, v)
  PROVE  Heard(t, n, p, v)
BY DEF Heard


LEMMA Lined ==
  ASSUME Recordings, NEW A, Lineage(A)
  PROVE  /\ Len(runs) \in Nat /\ DOMAIN runs = 1 .. Len(runs) /\ A[0] = <<>>
         /\ \A r \in DOMAIN runs : runs[r].input \in DOMAIN A /\ r \in DOMAIN A
         /\ \A r \in DOMAIN runs : runs[r].input \in 0 .. r - 1
<1>1. Len(runs) \in Nat /\ DOMAIN runs = 1 .. Len(runs)
  BY Listed
<1>2. \A r \in DOMAIN runs : runs[r].input \in 0 .. r - 1
  BY DEF Recordings
<1>3. \A r \in DOMAIN runs : \A i \in 0 .. r - 1 : i \in 0 .. Len(runs)
  BY <1>1
<1>4. \A r \in DOMAIN runs : r \in 0 .. Len(runs)
  BY <1>1
<1> QED
  BY <1>1, <1>2, <1>3, <1>4 DEF Lineage

\* The lineage of the run under way: what it replays, and its own layers.
LEMMA Own ==
  ASSUME Recordings, LInv, runs # <<>>, NEW A, Lineage(A)
  PROVE  /\ Len(runs) \in DOMAIN runs /\ Current.input \in DOMAIN A
         /\ A[Current.input] \in Seq(Layers) /\ Current.layers \in Seq(Layers)
         /\ A[Len(runs)] = A[Current.input] \o Current.layers /\ A[Len(runs)] \in Seq(Layers)
         /\ Len(A[Current.input]) \in Nat /\ Len(Current.layers) \in Nat
         /\ Len(A[Len(runs)]) = Len(A[Current.input]) + Len(Current.layers)
         /\ \A i \in 1 .. Len(A[Current.input]) : A[Len(runs)][i] = A[Current.input][i]
         /\ \A k \in 1 .. Len(Current.layers) :
              A[Len(runs)][Len(A[Current.input]) + k] = Current.layers[k]
<1>1. Len(runs) \in DOMAIN runs
  BY RunUnderWay
<1>2. Current = runs[Len(runs)]
  BY DEF Current
<1>3. /\ Current.input \in DOMAIN A /\ Len(runs) \in DOMAIN A
      /\ A[Len(runs)] = A[Current.input] \o Current.layers
  BY <1>1, <1>2, Lined DEF Lineage
<1>4. /\ A[Current.input] \in Seq(Layers) /\ A[Len(runs)] \in Seq(Layers)
      /\ Current.layers \in Seq(Layers)
  BY <1>1, <1>2, <1>3 DEF LInv, Told
<1> DEFINE a == A[Current.input]
           b == Current.layers
<1>5. /\ Len(a \o b) = Len(a) + Len(b) /\ Len(a) \in Nat /\ Len(b) \in Nat
      /\ \A i \in 1 .. Len(a) + Len(b) : (a \o b)[i] = IF i <= Len(a) THEN a[i] ELSE b[i - Len(a)]
  BY <1>4, ConcatProperties, LenProperties
<1> HIDE DEF a, b
<1>6. \A i \in 1 .. Len(a) : (a \o b)[i] = a[i]
  BY <1>5
<1>7. \A k \in 1 .. Len(b) : (a \o b)[Len(a) + k] = b[k]
  <2>1. \A k \in 1 .. Len(b) : /\ Len(a) + k \in 1 .. Len(a) + Len(b) /\ ~(Len(a) + k <= Len(a))
                               /\ (Len(a) + k) - Len(a) = k
    BY <1>5
  <2> QED
    BY <1>5, <2>1
<1> QED
  BY <1>1, <1>3, <1>4, <1>5, <1>6, <1>7 DEF a, b

LEMMA SameLineage ==
  ASSUME DOMAIN runs' = DOMAIN runs, Len(runs') = Len(runs),
         \A r \in DOMAIN runs : runs'[r].input = runs[r].input /\ runs'[r].layers = runs[r].layers
  PROVE  \A A : Lineage(A)' <=> Lineage(A)
BY DEF Lineage

\* A step that changes no run.
LEMMA StagedOnly ==
  ASSUME OInv, LInv, runs' = runs,
         ASSUME NEW A, Lineage(A), Told(A)
         PROVE  /\ stage'[1] = "layer" =>
                     /\ stage'[2] <= Len(Current.layers) + 1
                     /\ Tells(document', A[Len(runs)], Len(A[Current.input]) + stage'[2] - 1)
                /\ stage'[1] \in {"valid", "written", "running"} =>
                     Tells(document', A[Len(runs)], Len(A[Len(runs)]))
  PROVE  LInv'
<1>1. \A A : Lineage(A)' <=> Lineage(A)
  BY DEF Lineage
<1>2. ASSUME NEW A, Lineage(A)' PROVE Told(A)'
  <2>1. Lineage(A) /\ Told(A)
    BY <1>1, <1>2 DEF LInv
  <2>2. Current' = Current
    BY DEF Current
  <2>3. /\ stage'[1] = "layer" =>
             /\ stage'[2] <= Len(Current.layers) + 1
             /\ Tells(document', A[Len(runs)], Len(A[Current.input]) + stage'[2] - 1)
        /\ stage'[1] \in {"valid", "written", "running"} =>
             Tells(document', A[Len(runs)], Len(A[Len(runs)]))
    BY <2>1
  <2>4. /\ \A r \in DOMAIN A : A[r] \in Seq(Layers)
        /\ \A r \in DOMAIN runs : \A d \in runs[r].overlay : Tells(d, A[r], Len(A[r]))
    BY <2>1 DEF Told
  <2> QED
    BY <2>2, <2>3, <2>4 DEF Told
<1>3. \E A : Lineage(A)'
  BY <1>1 DEF LInv
<1> QED
  BY <1>2, <1>3 DEF LInv

LEMMA LineageFails ==
  ASSUME OInv, LInv, Fail
  PROVE  LInv'
<1>1. runs' = runs /\ stage'[1] = "idle"
  BY DEF Fail
<1> QED
  BY <1>1, StagedOnly

LEMMA LineageInit == Init => LInv
<1> SUFFICES ASSUME Init PROVE LInv
  OBVIOUS
<1>1. runs = <<>> /\ stage[1] = "idle" /\ DOMAIN runs = {} /\ Len(runs) = 0
  BY DEF Init
<1>2. Lineage([r \in 0 .. 0 |-> <<>>])
  BY <1>1 DEF Lineage
<1>3. \A A : Lineage(A) => Told(A)
  <2>1. \A r : r \in 0 .. 0 <=> r = 0
    OBVIOUS
  <2>2. <<>> \in Seq(Layers)
    OBVIOUS
  <2> QED
    BY <1>1, <2>1, <2>2 DEF Lineage, Told
<1> QED
  BY <1>1, <1>2, <1>3 DEF LInv

LEMMA LineageRecorded ==
  ASSUME OInv, LInv, LayerRecorded
  PROVE  LInv'
<1>1. Recordings /\ Staged /\ stage = <<"recorded">> /\ stage # <<"idle">>
  BY DEF OInv, LayerRecorded
<1>2. runs # <<>> /\ document = Empty
  BY <1>1 DEF Staged
<1>3. CASE Fail
  BY <1>3, LineageFails
<1>4. ASSUME runs' = runs, stage' = <<"layer", 1>>,
             ASSUME NEW A, Lineage(A), Told(A)
             PROVE  Tells(document', A[Current.input], Len(A[Current.input]))
      PROVE  LInv'
  <2>1. stage'[1] = "layer" /\ stage'[2] = 1
    BY <1>4
  <2>2. ASSUME NEW A, Lineage(A), Told(A)
        PROVE  /\ stage'[2] <= Len(Current.layers) + 1
               /\ Tells(document', A[Len(runs)], Len(A[Current.input]) + stage'[2] - 1)
    <3>1. /\ Len(A[Current.input]) \in Nat /\ Len(Current.layers) \in Nat
          /\ \A i \in 1 .. Len(A[Current.input]) : A[Len(runs)][i] = A[Current.input][i]
      BY <1>1, <1>2, <2>2, Own
    <3>2. Tells(document', A[Current.input], Len(A[Current.input]))
      BY <1>4, <2>2
    <3>3. Tells(document', A[Len(runs)], Len(A[Current.input]))
      BY <3>1, <3>2, HeardAlike DEF Tells
    <3>4. Len(A[Current.input]) + stage'[2] - 1 = Len(A[Current.input])
      BY <2>1, <3>1
    <3> QED
      BY <2>1, <3>1, <3>3, <3>4
  <2> QED
    BY <1>4, <2>1, <2>2, StagedOnly
<1>5. CASE Current.input = 0 /\ stage' = <<"layer", 1>> /\ UNCHANGED <<runs, document>>
  <2>1. ASSUME NEW A, Lineage(A), Told(A)
        PROVE  Tells(document', A[Current.input], Len(A[Current.input]))
    <3>1. A[Current.input] = <<>>
      BY <1>5, <2>1 DEF Lineage
    <3>2. Len(A[Current.input]) = 0 /\ \A i : i \notin 1 .. 0
      BY <3>1
    <3>3. DOMAIN document' = {}
      BY <1>2, <1>5 DEF Empty
    <3>4. \A p \in Paths : Value(document', p) = Null
      BY <3>3 DEF Value
    <3>5. \A p \in Paths : Heard(A[Current.input], 0, p, Null)
      BY <3>2 DEF Heard
    <3> QED
      BY <3>2, <3>4, <3>5 DEF Tells
  <2> QED
    BY <1>4, <1>5, <2>1
<1>6. ASSUME Current.input # 0, NEW d \in runs[Current.input].overlay, runs' = runs,
             document' = MergePatch(document, d), stage' = <<"layer", 1>>
      PROVE  LInv'
  <2>1. document' = NonNull(d)
    BY <1>2, <1>6, MergedOntoNothing
  <2>2. \A p : Value(document', p) = Value(d, p)
    BY <2>1 DEF Value, NonNull
  <2>3. Current.input \in DOMAIN runs
    BY <1>1, <1>2, <1>6, RunUnderWay
  <2>4. ASSUME NEW A, Lineage(A), Told(A)
        PROVE  Tells(document', A[Current.input], Len(A[Current.input]))
    <3>1. Tells(d, A[Current.input], Len(A[Current.input]))
      BY <1>6, <2>3, <2>4 DEF Told
    <3> QED
      BY <2>2, <3>1 DEF Tells
  <2> QED
    BY <1>4, <1>6, <2>4
<1> QED
  BY <1>3, <1>5, <1>6 DEF LayerRecorded

LEMMA LineageApplied ==
  ASSUME OInv, LInv, Layering, NEW e, Applied(e),
         \A p \in Paths : Value(e, p) = IF Mentions(Layer, p) THEN Says(Layer, p, Null)
                                        ELSE Value(document, p)
  PROVE  LInv'
<1>1. Recordings /\ Staged /\ stage[1] = "layer" /\ stage[2] <= Len(Current.layers)
  BY DEF OInv, Layering
<1>2. runs' = runs /\ document' = e /\ stage' = <<"layer", stage[2] + 1>>
  BY DEF Applied
<1>3. stage # <<"idle">> /\ stage'[1] = "layer" /\ stage'[2] = stage[2] + 1
  BY <1>1, <1>2
<1>4. runs # <<>> /\ stage[2] \in Nat \ {0}
  BY <1>1, <1>3 DEF Staged
<1>5. ASSUME NEW A, Lineage(A), Told(A)
      PROVE  /\ stage'[2] <= Len(Current.layers) + 1
             /\ Tells(e, A[Len(runs)], Len(A[Current.input]) + stage'[2] - 1)
  <2>1. /\ Len(A[Current.input]) \in Nat /\ Len(Current.layers) \in Nat
        /\ \A k \in 1 .. Len(Current.layers) :
              A[Len(runs)][Len(A[Current.input]) + k] = Current.layers[k]
    BY <1>1, <1>4, <1>5, Own
  <2> DEFINE s == A[Len(runs)]
             n == Len(A[Current.input]) + stage[2] - 1
  <2>2. Tells(document, s, n)
    BY <1>1, <1>5 DEF Told
  <2>3. s[Len(A[Current.input]) + stage[2]] = Layer
    <3>1. stage[2] \in 1 .. Len(Current.layers)
      BY <1>1, <1>4, <2>1
    <3> QED
      BY <2>1, <3>1 DEF Layer
  <2>4. n \in Nat /\ n + 1 = Len(A[Current.input]) + stage[2]
        /\ n + 1 = Len(A[Current.input]) + stage'[2] - 1
    <3>1. PICK a \in Nat : a = Len(A[Current.input])
      BY <2>1
    <3>2. PICK k \in Nat : k = stage[2] /\ k >= 1
      BY <1>4
    <3>3. \A i, j \in Nat : j >= 1 =>
            i + j - 1 \in Nat /\ (i + j - 1) + 1 = i + j /\ (i + j - 1) + 1 = i + (j + 1) - 1
      OBVIOUS
    <3>4. n = a + k - 1 /\ stage'[2] = k + 1
      BY <1>3, <3>1, <3>2
    <3>5. a + k - 1 \in Nat /\ (a + k - 1) + 1 = a + k /\ (a + k - 1) + 1 = a + (k + 1) - 1
      BY <3>2, <3>3
    <3> HIDE DEF n
    <3> QED
      BY <3>1, <3>2, <3>4, <3>5
  <2> HIDE DEF n, s
  <2>5. ASSUME NEW p \in Paths PROVE Heard(s, n + 1, p, Value(e, p))
    <3>1. Heard(s, n, p, Value(document, p))
      BY <2>2 DEF Tells
    <3>2. Value(e, p) = IF Mentions(s[n + 1], p) THEN Says(s[n + 1], p, Null)
                        ELSE Value(document, p)
      BY <2>3, <2>4
    <3> QED
      BY <2>4, <3>1, <3>2, HeardNext
  <2>6. stage'[2] <= Len(Current.layers) + 1
    BY <1>1, <1>3, <1>4, <2>1
  <2> QED
    BY <2>4, <2>5, <2>6 DEF Tells, s
<1> QED
  BY <1>2, <1>3, <1>5, StagedOnly

LEMMA LineageValid ==
  ASSUME OInv, LInv, Validate
  PROVE  LInv'
<1>1. CASE Fail
  BY <1>1, LineageFails
<1>2. CASE stage' = <<"valid">> /\ UNCHANGED <<runs, document>>
  <2>1. Recordings /\ Staged /\ stage[1] = "layer" /\ stage[2] = Len(Current.layers) + 1
    BY DEF OInv, Validate
  <2>2. stage # <<"idle">>
    BY <2>1
  <2>3. runs # <<>>
    BY <2>1, <2>2 DEF Staged
  <2>4. ASSUME NEW A, Lineage(A), Told(A) PROVE Tells(document', A[Len(runs)], Len(A[Len(runs)]))
    <3>1. /\ Len(A[Current.input]) \in Nat /\ Len(Current.layers) \in Nat
          /\ Len(A[Len(runs)]) = Len(A[Current.input]) + Len(Current.layers)
      BY <2>1, <2>3, <2>4, Own
    <3>2. Len(A[Current.input]) + stage[2] - 1 = Len(A[Len(runs)])
      BY <2>1, <3>1
    <3>3. Tells(document, A[Len(runs)], Len(A[Len(runs)]))
      BY <2>1, <2>4, <3>2 DEF Told
    <3> QED
      BY <1>2, <3>3
  <2>5. stage'[1] = "valid"
    BY <1>2
  <2> QED
    BY <1>2, <2>4, <2>5, StagedOnly
<1> QED
  BY <1>1, <1>2 DEF Validate

\* The last run leaves something.
LEMMA LineageLeft ==
  ASSUME OInv, LInv, stage[1] \in {"valid", "written", "running"}, document' = document,
         stage'[1] \in {"written", "running"}, NEW x, Left(x),
         x.input = Current.input, x.layers = Current.layers, x.overlay = {document}
  PROVE  LInv'
<1>1. Recordings /\ Staged /\ stage # <<"idle">>
  BY DEF OInv
<1>n. PICK n \in Nat : n = Len(runs)
  BY <1>1, Listed
<1>2. runs # <<>>
  BY <1>1 DEF Staged
<1>3. n \in DOMAIN runs /\ DOMAIN runs = 1 .. n
  BY <1>1, <1>2, <1>n, Listed, RunUnderWay
<1>4. runs' = [runs EXCEPT ![n] = x]
  BY <1>n DEF Left
<1>5. /\ DOMAIN runs' = DOMAIN runs /\ runs'[n] = x
      /\ \A r \in DOMAIN runs : r # n => runs'[r] = runs[r]
  BY <1>3, <1>4
<1>6. Len(runs') = Len(runs)
  <2>1. runs \in Seq({runs[r] : r \in DOMAIN runs} \cup {x})
    <3>1. runs \in Seq({runs[r] : r \in DOMAIN runs})
      BY <1>1 DEF Recordings
    <3> QED
      BY <3>1
  <2>2. n \in 1 .. Len(runs)
    BY <1>3, <1>n
  <2> QED
    BY <1>4, <2>1, <2>2, ExceptSeq
<1>7. Current = runs[n] /\ Current' = x
  BY <1>5, <1>6, <1>n DEF Current
<1>8. \A r \in DOMAIN runs : runs'[r].input = runs[r].input /\ runs'[r].layers = runs[r].layers
  BY <1>5, <1>7
<1>9. \A A : Lineage(A)' <=> Lineage(A)
  BY <1>5, <1>6, <1>8, SameLineage
<1>10. ASSUME NEW A, Lineage(A)' PROVE Told(A)'
  <2>1. Lineage(A) /\ Told(A)
    BY <1>9, <1>10 DEF LInv
  <2>2. Tells(document, A[n], Len(A[n]))
    BY <1>n, <2>1 DEF Told
  <2>3. \A r \in DOMAIN runs' : \A d \in runs'[r].overlay : Tells(d, A[r], Len(A[r]))
    BY <1>5, <2>1, <2>2 DEF Told
  <2>4. stage'[1] # "layer"
    OBVIOUS
  <2>5. \A r \in DOMAIN A : A[r] \in Seq(Layers)
    BY <2>1 DEF Told
  <2>6. Tells(document', A[Len(runs')], Len(A[Len(runs')]))
    BY <1>6, <1>n, <2>2
  <2> QED
    BY <2>3, <2>4, <2>5, <2>6 DEF Told
<1>11. \E A : Lineage(A)'
  BY <1>9 DEF LInv
<1>12. \A r \in DOMAIN runs' : runs'[r].layers \in Seq(Layers)
  BY <1>5, <1>8 DEF LInv
<1> QED
  BY <1>10, <1>11, <1>12 DEF LInv

LEMMA LineageLaunched ==
  ASSUME OInv, LInv, NEW input \in 0 .. Len(runs), NEW k \in Nat, NEW layers \in [1 .. k -> Layers],
         Launch(input, layers)
  PROVE  LInv'
<1> DEFINE x == Run(input, layers)
<1>1. Recordings /\ runs' = Append(runs, x) /\ stage'[1] = "recorded"
  BY DEF OInv, Launch
<1>2. x.input = input /\ x.layers = layers /\ x.overlay = {}
  BY DEF Run
<1> HIDE DEF x
<1>n. PICK n \in Nat : n = Len(runs)
  BY <1>1, Listed
<1>3. /\ DOMAIN runs = 1 .. n /\ Len(runs') = n + 1 /\ DOMAIN runs' = 1 .. n + 1
      /\ \A i \in 1 .. n : runs'[i] = runs[i]
      /\ runs'[n + 1] = x
  <2> DEFINE S == {runs[r] : r \in DOMAIN runs} \cup {x}
  <2>1. runs \in Seq(S) /\ x \in S
    <3>1. runs \in Seq({runs[r] : r \in DOMAIN runs})
      BY <1>1 DEF Recordings
    <3> QED
      BY <3>1
  <2> HIDE DEF S
  <2>2. /\ runs' \in Seq(S) /\ Len(runs') = n + 1
        /\ \A i \in 1 .. Len(runs) : runs'[i] = runs[i]
        /\ runs'[n + 1] = x
    BY <1>1, <1>n, <2>1, AppendProperties
  <2> QED
    BY <1>1, <1>n, <2>2, Listed, LenProperties
<1>4. \A r : r \in 1 .. n + 1 <=> r \in 1 .. n \/ r = n + 1
  OBVIOUS
<1>5. /\ \A r : r \in 0 .. n + 1 <=> r \in 0 .. n \/ r = n + 1
      /\ 0 \in 0 .. n /\ n + 1 \notin 0 .. n
      /\ \A r \in 1 .. n : r \in 0 .. n
  OBVIOUS
<1>6. layers \in Seq(Layers)
  OBVIOUS
<1>7. \A r \in 1 .. n : runs[r].input \in 0 .. n
  <2>1. \A r \in 1 .. n : runs[r].input \in 0 .. r - 1
    BY <1>1, <1>3 DEF Recordings
  <2>2. \A r \in 1 .. n : \A i \in 0 .. r - 1 : i \in 0 .. n
    OBVIOUS
  <2> QED
    BY <2>1, <2>2
<1>8. \E A : Lineage(A)'
  <2>1. PICK A : Lineage(A)
    BY DEF LInv
  <2> DEFINE B == [r \in 0 .. n + 1 |-> IF r = n + 1 THEN A[input] \o layers ELSE A[r]]
  <2>2. /\ DOMAIN B = 0 .. n + 1 /\ B[n + 1] = A[input] \o layers
        /\ \A r \in 0 .. n : B[r] = A[r]
    BY <1>5
  <2>f. B = [r \in 0 .. n + 1 |-> B[r]]
    OBVIOUS
  <2>3. input \in 0 .. n
    BY <1>n
  <2> HIDE DEF B
  <2>4. \A r \in 1 .. n : B[r] = B[runs[r].input] \o runs[r].layers
    BY <1>3, <1>5, <1>7, <2>1, <2>2 DEF Lineage
  <2>5. B[0] = <<>>
    BY <1>5, <2>1, <2>2 DEF Lineage
  <2>6. \A r \in DOMAIN runs' : B[r] = B[runs'[r].input] \o runs'[r].layers
    BY <1>2, <1>3, <1>4, <2>2, <2>3, <2>4
  <2>7. Lineage(B)'
    BY <1>3, <2>2, <2>f, <2>5, <2>6 DEF Lineage
  <2> QED
    BY <2>7
<1>9. ASSUME NEW A, Lineage(A)' PROVE Told(A)'
  <2>1. /\ DOMAIN A = 0 .. n + 1 /\ A[0] = <<>>
        /\ \A r \in 1 .. n + 1 : A[r] = A[runs'[r].input] \o runs'[r].layers
    BY <1>3, <1>9 DEF Lineage
  <2> DEFINE B == [r \in 0 .. n |-> A[r]]
  <2>2. DOMAIN B = 0 .. n /\ \A r \in 0 .. n : B[r] = A[r]
    OBVIOUS
  <2>f. B = [r \in 0 .. n |-> B[r]]
    OBVIOUS
  <2> HIDE DEF B
  <2>3. \A r \in 1 .. n : B[r] = B[runs[r].input] \o runs[r].layers
    BY <1>3, <1>4, <1>5, <1>7, <2>1, <2>2, ZenonT(30)
  <2>4. Lineage(B) /\ Told(B)
    <3>1. Lineage(B)
      BY <1>3, <1>5, <1>n, <2>1, <2>2, <2>f, <2>3 DEF Lineage
    <3> QED
      BY <3>1 DEF LInv
  <2>5. \A r \in 0 .. n : A[r] \in Seq(Layers)
    BY <2>2, <2>4 DEF Told
  <2>6. A[n + 1] \in Seq(Layers)
    <3>1. A[n + 1] = A[input] \o layers /\ A[input] \in Seq(Layers)
      BY <1>2, <1>3, <1>4, <1>n, <2>1, <2>5
    <3> QED
      BY <1>6, <3>1, ConcatProperties
  <2>7. \A r \in DOMAIN A : A[r] \in Seq(Layers)
    BY <1>5, <2>1, <2>5, <2>6
  <2>8. \A r \in 1 .. n : \A d \in runs[r].overlay : Tells(d, A[r], Len(A[r]))
    BY <1>3, <1>5, <2>2, <2>4 DEF Told
  <2>9. \A r \in DOMAIN runs' : \A d \in runs'[r].overlay : Tells(d, A[r], Len(A[r]))
    BY <1>2, <1>3, <1>4, <2>8
  <2> QED
    BY <1>1, <2>7, <2>9 DEF Told
<1>10. \A r \in DOMAIN runs' : runs'[r].layers \in Seq(Layers)
  BY <1>2, <1>3, <1>4, <1>6 DEF LInv
<1> QED
  BY <1>8, <1>9, <1>10 DEF LInv

LEMMA LineageNext == OInv /\ LInv /\ [Next]_vars => LInv'
<1> SUFFICES ASSUME OInv, LInv, [Next]_vars PROVE LInv'
  OBVIOUS
<1>1. ASSUME NEW input \in 0 .. Len(runs), NEW n \in 0 .. MaxLayers - Used,
             NEW layers \in [1 .. n -> Layers], Launch(input, layers)
      PROVE  LInv'
  <2>1. n \in Nat
    OBVIOUS
  <2> QED
    BY <1>1, <2>1, LineageLaunched
<1>2. CASE LayerRecorded
  BY <1>2, LineageRecorded
<1>3. CASE LayerFile
  <2>1. Layering /\ IsFile(Layer) /\ Applied(MergePatch(document, Layer.file))
    BY <1>3 DEF LayerFile
  <2>2. Layer \in Layers
    BY <2>1, NextLayer
  <2>3. \A p \in Paths : Value(MergePatch(document, Layer.file), p) =
          IF Mentions(Layer, p) THEN Says(Layer, p, Null) ELSE Value(document, p)
    BY <2>1, <2>2, Patched
  <2> QED
    BY <2>1, <2>3, LineageApplied
<1>4. CASE ApplyOverride
  <2>1. Layering /\ ~IsFile(Layer)
    BY <1>4 DEF ApplyOverride
  <2>2. CASE Fail
    BY <2>2, LineageFails
  <2>3. CASE Applied(Assign(document, Layer.assignment.path, Layer.assignment.value))
    <3>1. Layer \in Layers
      BY <2>1, NextLayer
    <3>2. \A p \in Paths :
            Value(Assign(document, Layer.assignment.path, Layer.assignment.value), p) =
              IF Mentions(Layer, p) THEN Says(Layer, p, Null) ELSE Value(document, p)
      BY <2>1, <3>1, AssignmentDecides
    <3> QED
      BY <2>1, <2>3, <3>2, LineageApplied
  <2> QED
    BY <1>4, <2>2, <2>3 DEF ApplyOverride
<1>5. CASE Validate
  BY <1>5, LineageValid
<1>6. ASSUME Recordings, Staged, stage[1] \in {"valid", "written", "running"}, stage # <<"idle">>
      PROVE  runs # <<>> /\ DOMAIN Current = Fields
  BY <1>6, RunUnderWay DEF Staged, SoundRun
<1>7. Recordings /\ Staged
  BY DEF OInv
<1>8. CASE WriteOverlay
  <2> DEFINE x == [Current EXCEPT !.overlay = {document}]
  <2>1. stage[1] = "valid" /\ stage # <<"idle">> /\ stage'[1] = "written" /\ Left(x)
        /\ document' = document
    BY <1>8 DEF WriteOverlay
  <2>2. DOMAIN Current = Fields
    BY <1>6, <1>7, <2>1
  <2>3. x.overlay = {document} /\ x.input = Current.input /\ x.layers = Current.layers
    BY <2>2 DEF Fields
  <2> HIDE DEF x
  <2> QED
    BY <2>1, <2>3, LineageLeft
<1>9. CASE WriteManifest
  <2> DEFINE x == [Current EXCEPT !.manifest = TRUE]
  <2>1. stage[1] = "written" /\ stage # <<"idle">> /\ stage'[1] = "running" /\ Left(x)
        /\ document' = document
    BY <1>9 DEF WriteManifest
  <2>2. DOMAIN Current = Fields /\ Current.overlay = {document}
    BY <1>6, <1>7, <2>1 DEF Staged
  <2>3. x.overlay = {document} /\ x.input = Current.input /\ x.layers = Current.layers
    BY <2>2 DEF Fields
  <2> HIDE DEF x
  <2> QED
    BY <2>1, <2>3, LineageLeft
<1>10. ASSUME NEW name \in DOMAIN SchemaOf, Materialize(name) PROVE LInv'
  <2> DEFINE new == [n \in DOMAIN Current.effective \cup {name} |->
                       IF n = name THEN Effective(Overrides(document, name), SchemaOf[name])
                       ELSE Current.effective[n]]
             x == [Current EXCEPT !.effective = new]
  <2>1. CASE Fail
    BY <2>1, LineageFails
  <2>2. CASE Left(x) /\ UNCHANGED <<stage, document>>
    <3>1. stage[1] = "running" /\ stage # <<"idle">> /\ stage' = stage /\ document' = document
      BY <1>10, <2>2 DEF Materialize
    <3>2. DOMAIN Current = Fields /\ Current.overlay = {document}
      BY <1>6, <1>7, <3>1 DEF Staged
    <3>3. x.overlay = {document} /\ x.input = Current.input /\ x.layers = Current.layers
      BY <3>2 DEF Fields
    <3> HIDE DEF x
    <3> QED
      BY <2>2, <3>1, <3>3, LineageLeft
  <2> QED
    BY <1>10, <2>1, <2>2 DEF Materialize
<1>11. CASE End
  BY <1>11, LineageFails DEF End
<1>12. CASE UNCHANGED vars
  <2>1. runs' = runs /\ stage' = stage /\ document' = document
    BY <1>12 DEF vars
  <2>2. ASSUME NEW A, Lineage(A), Told(A)
        PROVE  /\ stage'[1] = "layer" =>
                    /\ stage'[2] <= Len(Current.layers) + 1
                    /\ Tells(document', A[Len(runs)], Len(A[Current.input]) + stage'[2] - 1)
               /\ stage'[1] \in {"valid", "written", "running"} =>
                    Tells(document', A[Len(runs)], Len(A[Len(runs)]))
    BY <2>1, <2>2 DEF Told
  <2> QED
    BY <2>1, <2>2, StagedOnly
<1> QED
  BY <1>1, <1>2, <1>3, <1>4, <1>5, <1>8, <1>9, <1>10, <1>11, <1>12 DEF Next

\* The layers a run descends from are a lineage.
LEMMA AllLayersListed ==
  ASSUME Recordings, NEW A, Lineage(A)
  PROVE  Lineage(AllLayers)
<1>1. /\ Len(runs) \in Nat /\ DOMAIN runs = 1 .. Len(runs) /\ A[0] = <<>>
      /\ \A r \in DOMAIN runs : runs[r].input \in 0 .. r - 1
  BY Lined
<1>2. \A r \in 0 .. Len(runs) : r = 0 \/ r \in DOMAIN runs
  BY <1>1
<1>3. A = [r \in 0 .. Len(runs) |-> IF r = 0 THEN <<>> ELSE A[runs[r].input] \o runs[r].layers]
  <2>1. \A r \in 0 .. Len(runs) :
          A[r] = IF r = 0 THEN <<>> ELSE A[runs[r].input] \o runs[r].layers
    BY <1>1, <1>2 DEF Lineage
  <2> QED
    BY <2>1 DEF Lineage
<1>4. AllLayers = [r \in 0 .. Len(runs) |->
                     IF r = 0 THEN <<>> ELSE AllLayers[runs[r].input] \o runs[r].layers]
  BY <1>3, Zenon DEF AllLayers
<1> DEFINE B == AllLayers
<1>f. B = [r \in 0 .. Len(runs) |-> B[r]]
  BY <1>4
<1> HIDE DEF B
<1>5. DOMAIN B = 0 .. Len(runs)
      /\ \A r \in 0 .. Len(runs) : B[r] = IF r = 0 THEN <<>> ELSE B[runs[r].input] \o runs[r].layers
  BY <1>4 DEF B
<1>6. 0 \in 0 .. Len(runs) /\ \A r \in DOMAIN runs : r \in 0 .. Len(runs) /\ r # 0
  BY <1>1
<1>7. Lineage(B)
  BY <1>f, <1>5, <1>6 DEF Lineage
<1> QED
  BY <1>7 DEF B

\* A routine gets what the overlay says of its field, or the default.
LEMMA FieldValue ==
  ASSUME NEW d, DOMAIN d \subseteq Paths, NEW n \in DOMAIN SchemaOf, NEW f \in DOMAIN SchemaOf[n]
  PROVE  LET p == <<"routines", SectionOf(d, n), n>> \o f
         IN  /\ p \in Paths
             /\ Effective(Overrides(d, n), SchemaOf[n])[f] =
                  IF Value(d, p) # Null THEN Value(d, p) ELSE SchemaOf[n][f]
<1> DEFINE s == SectionOf(d, n)
           a == Append(Section(s), n)
           p == <<"routines", s, n>> \o f
           o == Overrides(d, n)
           schema == SchemaOf[n]
           set == {q \in DOMAIN o : o[q] # Null}
           kept == {k \in DOMAIN schema : \A q \in DOMAIN o : ~Clash(k, q)}
           m == MergePatch(schema, o)
           rest(k) == SubSeq(k, Len(a) + 1, Len(k))
           inside == {k \in DOMAIN d : Under(a, k)}
<1>0. STRING \subseteq Keys /\ n \in STRING
  BY OverlayAssumption DEF Keys
<1>1. s \in Keys /\ n \in Keys /\ f \in Paths
  <2>1. s \in Keys
    BY DEF SectionOf, Keys
  <2>2. \A q \in Seq(STRING) : q \in Seq(Keys)
    BY <1>0, LargerSet
  <2>3. f \in Seq(STRING)
    BY OverlayAssumption
  <2> QED
    BY <1>0, <2>1, <2>2, <2>3 DEF Paths
<1> HIDE DEF s
<1>2. a \in Paths /\ a = <<"routines", s, n>>
  <2>1. /\ a \in Paths /\ Len(a) = 3 /\ a[1] = "routines" /\ a[2] = s /\ a[3] = n
    BY <1>1, SectionPath
  <2>2. "routines" \in Keys
    BY DEF Keys
  <2> DEFINE b == <<"routines", s, n>>
  <2>3. b \in Seq(Keys) /\ Len(b) = 3 /\ b[1] = "routines" /\ b[2] = s /\ b[3] = n
    BY <1>1, <2>2
  <2> HIDE DEF a, b
  <2>4. \A i \in 1 .. 3 : a[i] = b[i]
    BY <2>1, <2>3
  <2>5. a = b
    BY <2>1, <2>3, <2>4, SeqEqual DEF Paths
  <2> QED
    BY <2>1, <2>5 DEF b
<1>3. p = a \o f
  BY <1>2
<1>4. o = [q \in {rest(k) : k \in inside} |-> d[a \o q]]
  BY DEF Overrides, Below, s
<1> HIDE DEF a, p, o, rest, inside
<1>5. p \in Paths /\ Under(a, p) /\ rest(p) = f
  BY <1>1, <1>2, <1>3, Joined DEF rest
<1>6. \A k \in inside : a \o rest(k) = k
  <2>1. \A k \in inside : k \in Paths /\ Under(a, k)
    BY DEF inside
  <2> QED
    BY <1>2, <2>1, PathSplits DEF rest
<1>7. f \in DOMAIN o <=> p \in DOMAIN d
  <2>1. p \in DOMAIN d => p \in inside
    BY <1>5 DEF inside
  <2>2. \A k \in inside : rest(k) = f => k = p
    BY <1>3, <1>6
  <2>3. inside \subseteq DOMAIN d
    BY DEF inside
  <2> QED
    BY <1>4, <1>5, <2>1, <2>2, <2>3
<1>8. f \in DOMAIN o => o[f] = d[p]
  BY <1>3, <1>4
<1>9. Value(d, p) # Null <=> f \in DOMAIN o /\ o[f] # Null
  BY <1>7, <1>8 DEF Value
<1>10. f \in DOMAIN o => Value(d, p) = o[f]
  BY <1>7, <1>8 DEF Value
<1>11. DOMAIN m = kept \cup set /\ \A k \in DOMAIN m : m[k] = IF k \in set THEN o[k] ELSE schema[k]
  BY DEF MergePatch
<1> HIDE DEF m, set, kept, schema
<1>12. Effective(o, schema)[f] = IF f \in DOMAIN m THEN m[f] ELSE schema[f]
  BY DEF Effective, Decode, m, schema
<1>13. f \in set <=> f \in DOMAIN o /\ o[f] # Null
  BY DEF set
<1>14. Effective(o, schema)[f] = IF f \in set THEN o[f] ELSE schema[f]
  BY <1>11, <1>12
<1>15. Effective(o, schema)[f] = IF Value(d, p) # Null THEN Value(d, p) ELSE schema[f]
  BY <1>9, <1>10, <1>13, <1>14
<1> QED
  BY <1>5, <1>15 DEF p, s, o, schema

LEMMA LayersFollow == OInv /\ LInv => LastLayerWins
<1> SUFFICES ASSUME OInv, LInv, NEW r \in DOMAIN runs, NEW n \in DOMAIN runs[r].effective,
                    NEW f \in DOMAIN SchemaOf[n]
             PROVE  LET p == Field(r, n, f)
                        layers == AllLayers[r]
                        speaking == {i \in DOMAIN layers : Mentions(layers[i], p)}
                        default == SchemaOf[n][f]
                    IN  runs[r].effective[n][f] =
                          IF speaking = {} THEN default
                          ELSE Says(layers[CHOOSE i \in speaking : \A j \in speaking : j <= i],
                                    p, default)
  BY DEF LastLayerWins
<1>1. Recordings /\ SoundRun(runs[r])
  BY DEF OInv, Recordings
<1>2. Lineage(AllLayers) /\ Told(AllLayers)
  BY <1>1, AllLayersListed DEF LInv
<1>3. runs[r].overlay # {} /\ n \in DOMAIN SchemaOf
  <2>1. runs[r].effective # Empty
    BY DEF Empty
  <2> QED
    BY <1>1, <2>1 DEF SoundRun
<1> DEFINE d == CHOOSE e \in runs[r].overlay : TRUE
           p == Field(r, n, f)
           layers == AllLayers[r]
           speaking == {i \in DOMAIN layers : Mentions(layers[i], p)}
           default == SchemaOf[n][f]
           last == CHOOSE i \in speaking : \A j \in speaking : j <= i
           v == Value(d, p)
<1>4. d \in runs[r].overlay
  BY <1>3
<1>5. p = <<"routines", SectionOf(d, n), n>> \o f
  BY DEF Field
<1> HIDE DEF d, p
<1>6. /\ DOMAIN d \subseteq Paths
      /\ runs[r].effective[n] = Effective(Overrides(d, n), SchemaOf[n])
  BY <1>1, <1>4 DEF SoundRun
<1>7. p \in Paths /\ runs[r].effective[n][f] = IF v # Null THEN v ELSE default
  BY <1>3, <1>5, <1>6, FieldValue, SMTT(30)
<1>8. layers \in Seq(Layers) /\ DOMAIN layers = 1 .. Len(layers) /\ Len(layers) \in Nat
  <2>1. r \in DOMAIN AllLayers
    BY <1>1, <1>2, Lined
  <2>2. layers \in Seq(Layers)
    BY <1>2, <2>1 DEF Told
  <2> HIDE DEF layers
  <2> QED
    BY <2>2, LenProperties
<1>9. Heard(layers, Len(layers), p, v)
  BY <1>2, <1>4, <1>7 DEF Told, Tells
<1> HIDE DEF layers, v
<1>10. CASE v = Null /\ \A i \in 1 .. Len(layers) : ~Mentions(layers[i], p)
  <2>1. speaking = {}
    BY <1>8, <1>10
  <2> QED
    BY <1>7, <1>10, <2>1 DEF layers, p
<1>11. ASSUME NEW i \in 1 .. Len(layers), Mentions(layers[i], p), v = Says(layers[i], p, Null),
              \A j \in 1 .. Len(layers) : i < j => ~Mentions(layers[j], p)
       PROVE  runs[r].effective[n][f] =
                IF speaking = {} THEN default ELSE Says(layers[last], p, default)
  <2>1. i \in speaking /\ i \in Int /\ \A j \in speaking : j \in Int /\ j <= i
    <3>1. \A j \in speaking : j \in 1 .. Len(layers) /\ ~(i < j)
      BY <1>8, <1>11
    <3> QED
      BY <1>8, <1>11, <3>1
  <2> HIDE DEF speaking
  <2>2. last \in speaking /\ \A j \in speaking : j <= last
    BY <2>1
  <2> HIDE DEF last
  <2>3. last = i
    <3>1. last \in Int /\ last <= i /\ i <= last
      BY <2>1, <2>2
    <3> QED
      BY <2>1, <3>1
  <2>4. Says(layers[i], p, default) = IF v # Null THEN v ELSE default
    BY <1>11 DEF Says
  <2> QED
    BY <1>7, <2>1, <2>3, <2>4
<1>12. runs[r].effective[n][f] =
         IF speaking = {} THEN default ELSE Says(layers[last], p, default)
  BY <1>9, <1>10, <1>11 DEF Heard, layers, p
<1> QED
  BY <1>12 DEF layers, p

-----------------------------------------------------------------------------
(* What a draft knows of itself and of the roll.                            *)

DraftRecord ==
  [is : {"draft"}, start : Nat, words : Nat, number : Nat, objects : Nat, used : Nat,
   home : Seq(Int), default : BOOLEAN, largest : Nat, dirty : BOOLEAN]
MessageRecord == [is : {"message"}, bytes : Nat]
Frame == [start : Nat, words : Nat, number : Nat, means : Seq(Nat \X Nat)]

\* Every word lies where the draft says.
Placed(d, mem) ==
  \A i \in 1 .. Len(d.home) :
    \/ d.home[i] = D!Heap
    \/ d.home[i] \in 1 .. d.used /\ mem[d.start + 1 + d.home[i]] = <<d.number, i>>
\* Without an overflow the words lie in their order.
Unspilled(d) ==
  ~D!Overflowed(d) => d.used = Len(d.home) /\ \A i \in 1 .. Len(d.home) : d.home[i] = i
\* With one there are more of them than the arena has.
Spilled(d) == D!Overflowed(d) => Len(d.home) > D!ArenaWords(d)
InArena(d) == d.used <= D!ArenaWords(d)

Sound(d, mem) == Placed(d, mem) /\ Unspilled(d) /\ Spilled(d) /\ InArena(d)

LEMMA LaidOut ==
  ASSUME NEW mem, NEW from \in Nat, NEW words, Len(words) \in Nat
  PROVE  \A w \in 1 .. RollWords :
           D!Laid(mem, from, words)[w] =
             IF w \in from + 1 .. from + Len(words) THEN words[w - from] ELSE mem[w]
BY DEF D!Laid

LEMMA ContentIs ==
  ASSUME NEW number \in Nat, NEW after \in Nat, NEW n \in Nat
  PROVE  /\ D!Content(number, after, n) \in Seq(Nat \X Nat)
         /\ Len(D!Content(number, after, n)) = n
         /\ \A i \in 1 .. n : D!Content(number, after, n)[i] = <<number, after + i>>
<1>1. \A i \in 1 .. n : <<number, after + i>> \in Nat \X Nat
  OBVIOUS
<1>2. D!Content(number, after, n) \in [1 .. n -> Nat \X Nat]
  BY <1>1 DEF D!Content
<1> QED
  BY <1>2 DEF D!Content

LEMMA Homing ==
  ASSUME NEW d \in DraftRecord, NEW n \in Nat, NEW home \in Int
  PROVE  LET e == D!WithObject(d, n, home)
         IN  /\ e \in DraftRecord
             /\ e.start = d.start /\ e.words = d.words /\ e.number = d.number
             /\ e.default = d.default /\ e.largest = d.largest
             /\ e.used = IF home = D!Heap THEN d.used ELSE d.used + n
             /\ Len(e.home) = Len(d.home) + n
             /\ \A i \in 1 .. Len(d.home) + n :
                  e.home[i] = IF i <= Len(d.home) THEN d.home[i]
                              ELSE IF home = D!Heap THEN D!Heap ELSE home + (i - Len(d.home))
<1> DEFINE more == [i \in 1 .. n |-> IF home = D!Heap THEN D!Heap ELSE home + i]
           e == D!WithObject(d, n, home)
<1>1. d.home \in Seq(Int) /\ Len(d.home) \in Nat
  BY LenProperties DEF DraftRecord
<1>2. more \in [1 .. n -> Int]
  BY DEF D!Heap
<1>3. more \in Seq(Int) /\ Len(more) = n
  BY <1>2
<1>4. \A i \in 1 .. n : more[i] = IF home = D!Heap THEN D!Heap ELSE home + i
  OBVIOUS
<1>5. e = [d EXCEPT !.objects = @ + 1,
                    !.used = IF home = D!Heap THEN @ ELSE @ + n, !.home = @ \o more]
  BY DEF D!WithObject
<1> HIDE DEF more, e
<1>6. /\ d.home \o more \in Seq(Int) /\ Len(d.home \o more) = Len(d.home) + n
      /\ \A i \in 1 .. Len(d.home) + n :
           (d.home \o more)[i] = IF i <= Len(d.home) THEN d.home[i] ELSE more[i - Len(d.home)]
  BY <1>1, <1>3, ConcatProperties
<1>7. \A i \in 1 .. Len(d.home) + n : i <= Len(d.home) \/ i - Len(d.home) \in 1 .. n
  BY <1>1
<1>8. /\ e.home = d.home \o more /\ e.used = IF home = D!Heap THEN d.used ELSE d.used + n
      /\ e.objects = d.objects + 1 /\ e.is = d.is
      /\ e.start = d.start /\ e.words = d.words /\ e.number = d.number
      /\ e.default = d.default /\ e.largest = d.largest /\ e.dirty = d.dirty
  BY <1>5 DEF DraftRecord
<1>9. e \in DraftRecord
  <2>1. e = [is |-> e.is, start |-> e.start, words |-> e.words, number |-> e.number,
             objects |-> e.objects, used |-> e.used, home |-> e.home, default |-> e.default,
             largest |-> e.largest, dirty |-> e.dirty]
    BY <1>5 DEF DraftRecord
  <2>2. e.used \in Nat /\ e.objects \in Nat
    BY <1>8 DEF DraftRecord
  <2>3. e.home \in Seq(Int)
    BY <1>6, <1>8
  <2> QED
    BY <2>1, <2>2, <2>3, <1>8 DEF DraftRecord
<1>10. \A i \in 1 .. Len(d.home) + n :
         e.home[i] = IF i <= Len(d.home) THEN d.home[i]
                     ELSE IF home = D!Heap THEN D!Heap ELSE home + (i - Len(d.home))
  BY <1>4, <1>6, <1>7, <1>8
<1> QED
  BY <1>6, <1>8, <1>9, <1>10 DEF e

LEMMA Space ==
  ASSUME NEW d \in DraftRecord
  PROVE  /\ D!ArenaWords(d) \in Nat /\ D!ArenaWords(d) + 1 >= d.words
         /\ D!ArenaWords(d) = 0 \/ D!ArenaWords(d) + 1 = d.words
BY DEF D!ArenaWords, D!HeaderWords, DraftRecord

LEMMA Homely ==
  ASSUME NEW d \in DraftRecord, NEW n, NEW home \in D!Homes(d, n)
  PROVE  /\ home \in Int
         /\ home = D!Heap \/ home = d.used
         /\ home = D!Heap => ~(d.used + n <= D!ArenaWords(d)) \/ D!Overflowed(d)
         /\ home # D!Heap => d.used + n <= D!ArenaWords(d) /\ home = d.used
         /\ d.used # D!Heap
BY DEF D!Homes, D!Heap, DraftRecord

\* Offsets into an arena of so many words, of which so many are used.
LEMMA InUse ==
  ASSUME NEW s \in Nat, NEW w \in Nat, NEW u \in Nat, NEW a \in Nat, NEW r \in Nat,
         a = 0 \/ a + 1 = w, s + w <= r, u <= a, NEW h \in 1 .. u
  PROVE  /\ s + 1 + h \in 1 .. r
         /\ \A n \in Nat : s + 1 + h \notin s + 1 + u + 1 .. s + 1 + u + n
OBVIOUS

LEMMA NextInUse ==
  ASSUME NEW s \in Nat, NEW w \in Nat, NEW u \in Nat, NEW a \in Nat, NEW r \in Nat,
         a = 0 \/ a + 1 = w, s + w <= r, NEW n \in Nat, u + n <= a, NEW i \in 1 .. n
  PROVE  /\ s + 1 + (u + i) \in 1 .. r
         /\ s + 1 + (u + i) \in s + 1 + u + 1 .. s + 1 + u + n
OBVIOUS

\* One more object leaves a draft sound, and writes into its own arena.
LEMMA ObjectAdded ==
  ASSUME NEW d \in DraftRecord, NEW mem, NEW n \in Nat, NEW home \in D!Homes(d, n),
         Sound(d, mem), d.words >= 1, d.start + d.words <= RollWords
  PROVE  /\ Sound(D!WithObject(d, n, home), D!Built(mem, d, n, home))
         /\ \A w \in 1 .. RollWords : w \notin d.start + 1 .. d.start + d.words
              => D!Built(mem, d, n, home)[w] = mem[w]
<1> DEFINE e == D!WithObject(d, n, home)
           m == D!Built(mem, d, n, home)
           L == Len(d.home)
<1>1. /\ home \in Int
      /\ home = D!Heap => ~(d.used + n <= D!ArenaWords(d)) \/ D!Overflowed(d)
      /\ home # D!Heap => d.used + n <= D!ArenaWords(d) /\ home = d.used
      /\ d.used # D!Heap
  BY Homely
<1>2. /\ e \in DraftRecord
      /\ e.start = d.start /\ e.words = d.words /\ e.number = d.number
      /\ e.used = IF home = D!Heap THEN d.used ELSE d.used + n
      /\ Len(e.home) = L + n
      /\ \A i \in 1 .. L + n :
           e.home[i] = IF i <= L THEN d.home[i]
                       ELSE IF home = D!Heap THEN D!Heap ELSE home + (i - L)
  BY <1>1, Homing
<1>3. /\ d.start \in Nat /\ d.words \in Nat /\ d.used \in Nat /\ d.number \in Nat
      /\ L \in Nat /\ DOMAIN d.home = 1 .. L /\ RollWords \in Nat
      /\ DOMAIN e.home = 1 .. L + n
  BY <1>2, LenProperties, RecordingAssumption DEF DraftRecord
<1>4. D!ArenaWords(e) = D!ArenaWords(d)
  BY <1>2 DEF D!ArenaWords
<1>5. /\ D!ArenaWords(d) \in Nat
      /\ d.used <= D!ArenaWords(d)
      /\ D!ArenaWords(d) = 0 \/ D!ArenaWords(d) + 1 = d.words
  BY Space DEF Sound, InArena
<1>6. home = D!Heap => m = mem
  BY DEF D!Built
<1>7. home # D!Heap => \A w \in 1 .. RollWords :
        m[w] = IF w \in d.start + 1 + d.used + 1 .. d.start + 1 + d.used + n
               THEN <<d.number, L + (w - (d.start + 1 + d.used))>> ELSE mem[w]
  <2>1. ASSUME home # D!Heap PROVE m = D!Laid(mem, d.start + 1 + d.used, D!Content(d.number, L, n))
    BY <1>1, <2>1 DEF D!Built, D!HeaderWords, D!MessageWords
  <2>2. /\ Len(D!Content(d.number, L, n)) = n
        /\ \A i \in 1 .. n : D!Content(d.number, L, n)[i] = <<d.number, L + i>>
    BY <1>3, ContentIs, ZenonT(30)
  <2>3. ASSUME NEW w \in 1 .. RollWords
        PROVE  LET from == d.start + 1 + d.used
               IN  w \in from + 1 .. from + n => w - from \in 1 .. n
    BY <1>3, SMTT(30)
  <2>4. d.start + 1 + d.used \in Nat
    BY <1>3
  <2>5. \A words : Len(words) \in Nat => \A w \in 1 .. RollWords :
          D!Laid(mem, d.start + 1 + d.used, words)[w] =
            IF w \in d.start + 1 + d.used + 1 .. d.start + 1 + d.used + Len(words)
            THEN words[w - (d.start + 1 + d.used)] ELSE mem[w]
    BY <2>4, LaidOut
  <2> DEFINE c == D!Content(d.number, L, n)
  <2> HIDE DEF m, c
  <2>6. ASSUME home # D!Heap, NEW w \in 1 .. RollWords
        PROVE  m[w] = IF w \in d.start + 1 + d.used + 1 .. d.start + 1 + d.used + n
                      THEN c[w - (d.start + 1 + d.used)] ELSE mem[w]
    BY <1>3, <2>1, <2>2, <2>5, <2>6 DEF c
  <2> QED
    BY <2>2, <2>3, <2>6 DEF c
<1>b. ASSUME NEW h \in 1 .. d.used
      PROVE  /\ d.start + 1 + h \in 1 .. RollWords
             /\ d.start + 1 + h \notin d.start + 1 + d.used + 1 .. d.start + 1 + d.used + n
  <2>1. d.start + d.words <= RollWords
    OBVIOUS
  <2> QED
    BY <1>3, <1>5, <2>1, InUse
<1>c. ASSUME NEW i \in 1 .. n, d.used + n <= D!ArenaWords(d)
      PROVE  /\ d.start + 1 + (d.used + i) \in 1 .. RollWords
             /\ d.start + 1 + (d.used + i)
                  \in d.start + 1 + d.used + 1 .. d.start + 1 + d.used + n
             /\ (d.start + 1 + (d.used + i)) - (d.start + 1 + d.used) = i
  <2>1. d.start + d.words <= RollWords
    OBVIOUS
  <2>2. (d.start + 1 + (d.used + i)) - (d.start + 1 + d.used) = i
    BY <1>3
  <2> QED
    BY <1>3, <1>5, <1>c, <2>1, <2>2, NextInUse
<1> HIDE DEF e, m
<1>o. D!Overflowed(e) <=> D!Overflowed(d) \/ (home = D!Heap /\ n > 0)
  <2>1. ASSUME D!Overflowed(d)
        PROVE  D!Overflowed(e)
    <3>1. PICK i \in 1 .. L : d.home[i] = D!Heap
      BY <1>3, <2>1 DEF D!Overflowed
    <3>2. i \in 1 .. L + n /\ i <= L
      BY <1>3
    <3>3. e.home[i] = D!Heap
      BY <1>2, <3>1, <3>2
    <3> QED
      BY <1>3, <3>2, <3>3 DEF D!Overflowed
  <2>2. ASSUME home = D!Heap, n > 0
        PROVE  D!Overflowed(e)
    <3>1. L + 1 \in 1 .. L + n /\ ~(L + 1 <= L)
      BY <1>3, <2>2
    <3>2. e.home[L + 1] = D!Heap
      BY <1>2, <2>2, <3>1
    <3> QED
      BY <1>3, <3>1, <3>2 DEF D!Overflowed
  <2>3. ASSUME D!Overflowed(e), ~D!Overflowed(d)
        PROVE  home = D!Heap /\ n > 0
    <3>1. PICK i \in 1 .. L + n : e.home[i] = D!Heap
      BY <1>3, <2>3 DEF D!Overflowed
    <3>2. ~(i <= L)
      <4>1. ASSUME i <= L PROVE d.home[i] = D!Heap /\ i \in DOMAIN d.home
        BY <1>2, <1>3, <3>1, <4>1
      <4> QED
        BY <2>3, <4>1 DEF D!Overflowed
    <3>3. n > 0
      BY <1>3, <3>2
    <3>4. home = D!Heap \/ home + (i - L) = D!Heap
      BY <1>2, <3>1, <3>2
    <3>5. home # D!Heap => home + (i - L) # -1
      BY <1>1, <1>3, <3>2
    <3> QED
      BY <3>3, <3>4, <3>5 DEF D!Heap
  <2> QED
    BY <2>1, <2>2, <2>3
<1>8. Placed(e, m)
  <2>1. SUFFICES ASSUME NEW i \in 1 .. L + n, e.home[i] # D!Heap
                 PROVE  e.home[i] \in 1 .. e.used /\ m[d.start + 1 + e.home[i]] = <<d.number, i>>
    BY <1>2 DEF Placed
  <2>2. CASE i <= L
    <3>1. i \in 1 .. L /\ e.home[i] = d.home[i]
      BY <1>2, <1>3, <2>2
    <3>2. d.home[i] \in 1 .. d.used /\ mem[d.start + 1 + d.home[i]] = <<d.number, i>>
      BY <2>1, <3>1 DEF Sound, Placed
    <3>3. d.start + 1 + d.home[i] \in 1 .. RollWords
      BY <1>5, <1>b, <3>2
    <3>4. m[d.start + 1 + d.home[i]] = mem[d.start + 1 + d.home[i]]
      <4>1. d.start + 1 + d.home[i] \notin d.start + 1 + d.used + 1 .. d.start + 1 + d.used + n
        BY <1>b, <3>2
      <4> QED
        BY <1>6, <1>7, <3>3, <4>1
    <3>5. e.home[i] \in 1 .. e.used
      BY <1>2, <1>3, <3>1, <3>2
    <3> QED
      BY <3>1, <3>2, <3>4, <3>5
  <2>3. CASE ~(i <= L)
    <3>1. home # D!Heap /\ e.home[i] = home + (i - L)
      BY <1>2, <2>1, <2>3
    <3>2. home = d.used /\ e.used = d.used + n /\ d.used + n <= D!ArenaWords(d)
      BY <1>1, <1>2, <3>1
    <3>3. e.home[i] = d.used + (i - L) /\ i - L \in 1 .. n
      BY <1>3, <2>3, <3>1, <3>2
    <3>4. e.home[i] \in 1 .. e.used
      BY <1>3, <3>2, <3>3, SMTT(30)
    <3> DEFINE w == d.start + 1 + (d.used + (i - L))
    <3>5. /\ w \in 1 .. RollWords
          /\ w \in d.start + 1 + d.used + 1 .. d.start + 1 + d.used + n
          /\ L + (w - (d.start + 1 + d.used)) = i
      <4>1. L + (i - L) = i
        BY <1>3
      <4>2. w - (d.start + 1 + d.used) = i - L
        BY <1>c, <3>2, <3>3
      <4> QED
        BY <1>c, <3>2, <3>3, <4>1, <4>2
    <3> HIDE DEF w
    <3>6. m[w] = <<d.number, i>>
      BY <1>7, <3>1, <3>5
    <3> QED
      BY <3>3, <3>4, <3>6 DEF w
  <2> QED
    BY <2>2, <2>3
<1>9. Unspilled(e)
  <2>1. SUFFICES ASSUME ~D!Overflowed(e)
                 PROVE  e.used = L + n /\ \A i \in 1 .. L + n : e.home[i] = i
    BY <1>2 DEF Unspilled
  <2>2. d.used = L /\ \A i \in 1 .. L : d.home[i] = i
    BY <1>o, <2>1 DEF Sound, Unspilled
  <2>3. CASE home # D!Heap
    <3>1. home = d.used /\ e.used = L + n
      BY <1>1, <1>2, <2>2, <2>3
    <3>2. ASSUME NEW i \in 1 .. L + n
          PROVE  e.home[i] = i
      <4>1. CASE i <= L
        <5>1. i \in 1 .. L /\ e.home[i] = d.home[i]
          BY <1>2, <1>3, <4>1
        <5> QED
          BY <2>2, <5>1
      <4>2. CASE ~(i <= L)
        <5>1. e.home[i] = L + (i - L)
          BY <1>2, <2>2, <2>3, <3>1, <4>2
        <5> QED
          BY <1>3, <5>1
      <4> QED
        BY <4>1, <4>2
    <3> QED
      BY <3>1, <3>2
  <2>4. CASE home = D!Heap
    <3>1. n = 0
      BY <1>o, <2>1, <2>4
    <3>2. e.used = L + n
      BY <1>2, <1>3, <2>2, <2>4, <3>1
    <3>3. ASSUME NEW i \in 1 .. L + n
          PROVE  e.home[i] = i
      <4>1. i \in 1 .. L /\ i <= L
        BY <1>3, <3>1
      <4> QED
        BY <1>2, <2>2, <4>1
    <3> QED
      BY <3>2, <3>3
  <2> QED
    BY <2>3, <2>4
<1>10. Spilled(e)
  <2>1. SUFFICES ASSUME D!Overflowed(e)
                 PROVE  L + n > D!ArenaWords(d)
    BY <1>2, <1>4 DEF Spilled
  <2>2. CASE D!Overflowed(d)
    <3>1. L > D!ArenaWords(d)
      BY <2>2 DEF Sound, Spilled
    <3> QED
      BY <1>3, <1>5, <3>1
  <2>3. CASE ~D!Overflowed(d)
    <3>1. home = D!Heap /\ ~(d.used + n <= D!ArenaWords(d))
      BY <1>1, <1>o, <2>1, <2>3
    <3>2. d.used = L
      BY <2>3 DEF Sound, Unspilled
    <3> QED
      BY <1>3, <1>5, <3>1, <3>2
  <2> QED
    BY <2>2, <2>3
<1>11. InArena(e)
  BY <1>1, <1>2, <1>4, <1>5 DEF InArena
<1>12. ASSUME NEW w \in 1 .. RollWords, w \notin d.start + 1 .. d.start + d.words
       PROVE  m[w] = mem[w]
  <2>1. CASE home = D!Heap
    BY <1>6, <2>1
  <2>2. CASE home # D!Heap
    <3>1. d.used + n <= D!ArenaWords(d)
      BY <1>1, <2>2
    <3>2. w \notin d.start + 1 + d.used + 1 .. d.start + 1 + d.used + n
      BY <1>3, <1>5, <1>12, <3>1
    <3> QED
      BY <1>7, <2>2, <3>2
  <2> QED
    BY <2>1, <2>2
<1> QED
  BY <1>8, <1>9, <1>10, <1>11, <1>12 DEF Sound, e, m

-----------------------------------------------------------------------------
(* The roll: slots do not overlap, and nothing lies above the cursor.       *)

Drafting(h) == held[h].is = "draft"
Clear(s, n, t, m) == s + n <= t \/ t + m <= s

\* A frame of the roll is a header and the message's words.
Whole(r, mem) ==
  /\ r.words = Len(r.means) + 1
  /\ mem[r.start + 1] = D!Header(Len(r.means))
  /\ \A i \in 1 .. Len(r.means) : mem[r.start + 1 + i] = r.means[i]

RollTyped ==
  /\ cursor \in 0 .. RollWords
  /\ held \in [Handles -> DraftRecord \cup MessageRecord \cup {D!Nothing}]
  /\ records \in Seq(Frame)

BelowCursor ==
  /\ \A h \in Handles :
       Drafting(h) => held[h].words >= 1 /\ held[h].start + held[h].words <= cursor
  /\ \A k \in DOMAIN records :
       records[k].words >= 1 /\ records[k].start + records[k].words <= cursor

Disjoint ==
  /\ \A g, h \in Handles : g # h /\ Drafting(g) /\ Drafting(h)
       => Clear(held[g].start, held[g].words, held[h].start, held[h].words)
  /\ \A h \in Handles : \A k \in DOMAIN records : Drafting(h)
       => Clear(records[k].start, records[k].words, held[h].start, held[h].words)

DraftsSound == \A h \in Handles : Drafting(h) => Sound(held[h], memory)
RecordsWhole == \A k \in DOMAIN records : Whole(records[k], memory)

RollInv == RollTyped /\ BelowCursor /\ Disjoint /\ DraftsSound /\ RecordsWhole

LEMMA DraftsAre ==
  ASSUME RollTyped, NEW h \in Handles
  PROVE  /\ Drafting(h) => held[h] \in DraftRecord
         /\ held[h].is = "message" => held[h] \in MessageRecord
BY DEF RollTyped, Drafting, DraftRecord, MessageRecord, D!Nothing

LEMMA RecordsAre ==
  ASSUME RollTyped, NEW k \in DOMAIN records
  PROVE  /\ records[k] \in Frame
         /\ records[k].start \in Nat /\ records[k].words \in Nat
         /\ Len(records[k].means) \in Nat
<1>1. records[k] \in Frame
  BY LenProperties DEF RollTyped
<1> QED
  BY <1>1, LenProperties DEF Frame

\* What is written elsewhere does not touch a draft ...
LEMMA SoundElsewhere ==
  ASSUME NEW d \in DraftRecord, NEW mem, NEW mem2, Sound(d, mem),
         d.start + d.words <= RollWords, NEW a \in Nat, NEW n \in Nat,
         Clear(d.start, d.words, a, n),
         \A w \in 1 .. RollWords : w \notin a + 1 .. a + n => mem2[w] = mem[w]
  PROVE  Sound(d, mem2)
<1>1. /\ d.start \in Nat /\ d.words \in Nat /\ d.used \in Nat /\ RollWords \in Nat
      /\ D!ArenaWords(d) \in Nat /\ d.used <= D!ArenaWords(d)
      /\ D!ArenaWords(d) = 0 \/ D!ArenaWords(d) + 1 = d.words
  BY Space, RecordingAssumption DEF DraftRecord, Sound, InArena
<1>2. ASSUME NEW j \in 1 .. d.used
      PROVE  mem2[d.start + 1 + j] = mem[d.start + 1 + j]
  <2>1. d.start + d.words <= RollWords
    OBVIOUS
  <2>2. d.start + 1 + j \in 1 .. RollWords
    BY <1>1, <2>1, InUse
  <2>3. d.start + 1 + j \notin a + 1 .. a + n
    BY <1>1 DEF Clear
  <2> QED
    BY <2>2, <2>3
<1> QED
  BY <1>2 DEF Sound, Placed

\* ... nor a frame.
LEMMA WholeElsewhere ==
  ASSUME NEW r \in Frame, NEW mem, NEW mem2, Whole(r, mem),
         r.start + r.words <= RollWords, NEW a \in Nat, NEW n \in Nat,
         Clear(r.start, r.words, a, n),
         \A w \in 1 .. RollWords : w \notin a + 1 .. a + n => mem2[w] = mem[w]
  PROVE  Whole(r, mem2)
<1>1. /\ r.start \in Nat /\ Len(r.means) \in Nat /\ r.words = Len(r.means) + 1
      /\ RollWords \in Nat
  BY LenProperties, RecordingAssumption DEF Frame, Whole
<1>2. ASSUME NEW i \in 0 .. Len(r.means)
      PROVE  mem2[r.start + 1 + i] = mem[r.start + 1 + i]
  <2>1. r.start + 1 + i \in 1 .. RollWords
    BY <1>1
  <2>2. r.start + 1 + i \notin a + 1 .. a + n
    BY <1>1 DEF Clear
  <2> QED
    BY <2>1, <2>2
<1>3. 0 \in 0 .. Len(r.means) /\ r.start + 1 + 0 = r.start + 1
  BY <1>1
<1>4. \A i \in 1 .. Len(r.means) : i \in 0 .. Len(r.means)
  BY <1>1
<1> QED
  BY <1>2, <1>3, <1>4 DEF Whole

\* The others leave so many words there alone, or end below.
Beside(h, a, n) ==
  /\ \A g \in Handles \ {h} : Drafting(g) => Clear(held[g].start, held[g].words, a, n)
  /\ \A k \in DOMAIN records : Clear(records[k].start, records[k].words, a, n)
OthersBelow(h, c) ==
  /\ \A g \in Handles \ {h} : Drafting(g) => held[g].start + held[g].words <= c
  /\ \A k \in DOMAIN records : records[k].start + records[k].words <= c

\* The slot of a handle changes, and nothing is written beside it.
LEMMA SlotStep ==
  ASSUME RollInv, NEW h \in Handles, NEW e \in DraftRecord \cup MessageRecord \cup {D!Nothing},
         NEW a \in Nat, NEW n \in Nat,
         held' = [held EXCEPT ![h] = e],
         \A w \in 1 .. RollWords : w \notin a + 1 .. a + n => memory'[w] = memory[w],
         Beside(h, a, n), cursor' \in 0 .. RollWords, OthersBelow(h, cursor'),
         e.is = "draft" => /\ e.words >= 1 /\ e.start + e.words <= cursor'
                           /\ e.start = a /\ e.words = n /\ Sound(e, memory')
  PROVE  /\ held' \in [Handles -> DraftRecord \cup MessageRecord \cup {D!Nothing}]
         /\ \A g \in Handles : Drafting(g)' => held'[g].words >= 1
                                  /\ held'[g].start + held'[g].words <= cursor'
         /\ \A f, g \in Handles : f # g /\ Drafting(f)' /\ Drafting(g)'
              => Clear(held'[f].start, held'[f].words, held'[g].start, held'[g].words)
         /\ \A g \in Handles : \A k \in DOMAIN records : Drafting(g)'
              => Clear(records[k].start, records[k].words, held'[g].start, held'[g].words)
         /\ DraftsSound'
         /\ \A k \in DOMAIN records : Whole(records[k], memory')
<1>1. /\ held'[h] = e /\ \A g \in Handles \ {h} : held'[g] = held[g]
      /\ held' \in [Handles -> DraftRecord \cup MessageRecord \cup {D!Nothing}]
  BY DEF RollInv, RollTyped
<1>2. /\ Drafting(h)' <=> e.is = "draft"
      /\ \A g \in Handles \ {h} : Drafting(g)' <=> Drafting(g)
  BY <1>1 DEF Drafting
<1>3. ASSUME NEW g \in Handles, Drafting(g)'
      PROVE  held'[g].words >= 1 /\ held'[g].start + held'[g].words <= cursor'
  <2>1. CASE g = h
    BY <1>1, <1>2, <1>3, <2>1
  <2>2. CASE g # h
    BY <1>1, <1>2, <1>3, <2>2 DEF OthersBelow, RollInv, BelowCursor
  <2> QED
    BY <2>1, <2>2
<1>4. ASSUME NEW f \in Handles, NEW g \in Handles, f # g, Drafting(f)', Drafting(g)'
      PROVE  Clear(held'[f].start, held'[f].words, held'[g].start, held'[g].words)
  <2>1. CASE f # h /\ g # h
    BY <1>1, <1>2, <1>4, <2>1 DEF RollInv, Disjoint
  <2>2. CASE g = h
    BY <1>1, <1>2, <1>4, <2>2 DEF Beside
  <2>3. CASE f = h
    <3>1. Clear(held'[g].start, held'[g].words, held'[f].start, held'[f].words)
      BY <1>1, <1>2, <1>4, <2>3 DEF Beside
    <3> QED
      BY <3>1 DEF Clear
  <2> QED
    BY <2>1, <2>2, <2>3
<1>5. ASSUME NEW g \in Handles, NEW k \in DOMAIN records, Drafting(g)'
      PROVE  Clear(records[k].start, records[k].words, held'[g].start, held'[g].words)
  <2>1. CASE g # h
    BY <1>1, <1>2, <1>5, <2>1 DEF RollInv, Disjoint
  <2>2. CASE g = h
    BY <1>1, <1>2, <1>5, <2>2 DEF Beside
  <2> QED
    BY <2>1, <2>2
<1>6. RollTyped /\ cursor \in Nat /\ RollWords \in Nat /\ cursor <= RollWords
  BY RecordingAssumption DEF RollInv, RollTyped
<1>7. ASSUME NEW g \in Handles, Drafting(g)'
      PROVE  Sound(held'[g], memory')
  <2>1. CASE g = h
    BY <1>1, <1>2, <1>7, <2>1
  <2>2. CASE g # h
    <3>1. Drafting(g) /\ held'[g] = held[g] /\ held[g] \in DraftRecord
      BY <1>1, <1>2, <1>6, <1>7, <2>2, DraftsAre
    <3>2. /\ Sound(held[g], memory) /\ Clear(held[g].start, held[g].words, a, n)
          /\ held[g].start + held[g].words <= cursor
      BY <2>2, <3>1 DEF RollInv, DraftsSound, Beside, BelowCursor
    <3>3. held[g].start + held[g].words <= RollWords
      BY <1>6, <3>1, <3>2, SMTT(30) DEF DraftRecord
    <3> QED
      BY <3>1, <3>2, <3>3, SoundElsewhere
  <2> QED
    BY <2>1, <2>2
<1>8. ASSUME NEW k \in DOMAIN records
      PROVE  Whole(records[k], memory')
  <2>1. /\ records[k] \in Frame /\ records[k].start \in Nat /\ records[k].words \in Nat
        /\ Whole(records[k], memory)
        /\ Clear(records[k].start, records[k].words, a, n)
        /\ records[k].start + records[k].words <= cursor
    BY <1>6, RecordsAre DEF RollInv, RecordsWhole, Beside, BelowCursor
  <2> DEFINE r == records[k]
  <2> HIDE DEF r
  <2>2. /\ r \in Frame /\ Whole(r, memory) /\ Clear(r.start, r.words, a, n)
        /\ r.start + r.words <= RollWords
    BY <1>6, <2>1 DEF r
  <2>3. Whole(r, memory')
    BY <2>2, WholeElsewhere
  <2> QED
    BY <2>3 DEF r
<1> QED
  BY <1>1, <1>3, <1>4, <1>5, <1>7, <1>8 DEF DraftsSound

\* ... with the timeline as it was ...
LEMMA SlotStepQuiet ==
  ASSUME RollInv, NEW h \in Handles, NEW e \in DraftRecord \cup MessageRecord \cup {D!Nothing},
         NEW a \in Nat, NEW n \in Nat,
         held' = [held EXCEPT ![h] = e], records' = records,
         \A w \in 1 .. RollWords : w \notin a + 1 .. a + n => memory'[w] = memory[w],
         Beside(h, a, n), cursor' \in 0 .. RollWords, OthersBelow(h, cursor'),
         e.is = "draft" => /\ e.words >= 1 /\ e.start + e.words <= cursor'
                           /\ e.start = a /\ e.words = n /\ Sound(e, memory')
  PROVE  RollInv'
BY SlotStep DEF RollInv, RollTyped, BelowCursor, Disjoint, RecordsWhole, OthersBelow

\* ... or with a frame in the place of the draft.
LEMMA SlotStepRecorded ==
  ASSUME RollInv, NEW h \in Handles, NEW e \in MessageRecord,
         NEW a \in Nat, NEW n \in Nat, NEW r \in Frame,
         held' = [held EXCEPT ![h] = e], records' = Append(records, r),
         \A w \in 1 .. RollWords : w \notin a + 1 .. a + n => memory'[w] = memory[w],
         Beside(h, a, n), cursor' \in 0 .. RollWords, OthersBelow(h, cursor'),
         r.start = a, r.words <= n, r.words >= 1, r.start + r.words <= cursor',
         Whole(r, memory')
  PROVE  RollInv'
<1>1. e.is # "draft"
  BY DEF MessageRecord
<1>2. /\ held' \in [Handles -> DraftRecord \cup MessageRecord \cup {D!Nothing}]
      /\ \A g \in Handles : Drafting(g)' => held'[g].words >= 1
                               /\ held'[g].start + held'[g].words <= cursor'
      /\ \A f, g \in Handles : f # g /\ Drafting(f)' /\ Drafting(g)'
           => Clear(held'[f].start, held'[f].words, held'[g].start, held'[g].words)
      /\ \A g \in Handles : \A k \in DOMAIN records : Drafting(g)'
           => Clear(records[k].start, records[k].words, held'[g].start, held'[g].words)
      /\ DraftsSound'
      /\ \A k \in DOMAIN records : Whole(records[k], memory')
  BY <1>1, SlotStep
<1>3. /\ records' \in Seq(Frame)
      /\ \A k \in DOMAIN records' : k \in DOMAIN records \/ k = Len(records) + 1
      /\ \A k \in DOMAIN records : records'[k] = records[k]
      /\ records'[Len(records) + 1] = r
  <2>1. records \in Seq(Frame)
    BY DEF RollInv, RollTyped
  <2>2. /\ records' \in Seq(Frame) /\ Len(records') = Len(records) + 1
        /\ \A k \in 1 .. Len(records) : records'[k] = records[k]
        /\ records'[Len(records) + 1] = r
    BY <2>1, AppendProperties
  <2>3. /\ DOMAIN records = 1 .. Len(records) /\ DOMAIN records' = 1 .. Len(records')
        /\ Len(records) \in Nat
    BY <2>1, <2>2, LenProperties
  <2> QED
    BY <2>2, <2>3
<1>4. /\ held'[h] = e /\ \A g \in Handles \ {h} : held'[g] = held[g]
  BY DEF RollInv, RollTyped
<1>5. ASSUME NEW g \in Handles, Drafting(g)'
      PROVE  Clear(r.start, r.words, held'[g].start, held'[g].words)
  <2>1. g # h /\ held'[g] = held[g] /\ Drafting(g)
    BY <1>1, <1>4, <1>5 DEF Drafting
  <2>2. Clear(held[g].start, held[g].words, a, n)
    BY <2>1 DEF Beside
  <2>3. held[g].start \in Nat /\ held[g].words \in Nat /\ r.start \in Nat /\ r.words \in Nat
    BY <2>1, DraftsAre DEF RollInv, DraftRecord, Frame
  <2> QED
    BY <2>1, <2>2, <2>3 DEF Clear
<1>6. RollTyped'
  BY <1>2, <1>3 DEF RollTyped
<1>7. BelowCursor'
  BY <1>2, <1>3 DEF BelowCursor, OthersBelow, RollInv
<1>8. Disjoint'
  BY <1>2, <1>3, <1>5 DEF Disjoint
<1>9. RecordsWhole'
  BY <1>2, <1>3 DEF RecordsWhole
<1> QED
  BY <1>2, <1>6, <1>7, <1>8, <1>9 DEF RollInv

-----------------------------------------------------------------------------
(* The operations, seen by the roll.                                        *)

LEMMA Numbers ==
  ASSUME RollInv
  PROVE  /\ RollWords \in Nat /\ cursor \in Nat /\ cursor <= RollWords
         /\ \A h \in Handles : Drafting(h) =>
              /\ held[h] \in DraftRecord /\ held[h].start \in Nat /\ held[h].words \in Nat
              /\ held[h].used \in Nat /\ held[h].number \in Nat
              /\ Len(held[h].home) \in Nat /\ DOMAIN held[h].home = 1 .. Len(held[h].home)
              /\ held[h].words >= 1 /\ held[h].start + held[h].words <= cursor
         /\ \A k \in DOMAIN records :
              /\ records[k].start \in Nat /\ records[k].words \in Nat
              /\ records[k].words >= 1 /\ records[k].start + records[k].words <= cursor
<1>1. RollTyped /\ RollWords \in Nat /\ cursor \in Nat /\ cursor <= RollWords
  BY RecordingAssumption DEF RollInv, RollTyped
<1>2. ASSUME NEW h \in Handles, Drafting(h)
      PROVE  /\ held[h] \in DraftRecord /\ held[h].start \in Nat /\ held[h].words \in Nat
             /\ held[h].used \in Nat /\ held[h].number \in Nat
             /\ Len(held[h].home) \in Nat /\ DOMAIN held[h].home = 1 .. Len(held[h].home)
             /\ held[h].words >= 1 /\ held[h].start + held[h].words <= cursor
  <2>1. held[h] \in DraftRecord
    BY <1>1, <1>2, DraftsAre
  <2>2. held[h].home \in Seq(Int)
    BY <2>1 DEF DraftRecord
  <2> QED
    BY <1>2, <2>1, <2>2, LenProperties DEF RollInv, BelowCursor, DraftRecord
<1>3. \A k \in DOMAIN records : records[k].start \in Nat /\ records[k].words \in Nat
  BY <1>1, RecordsAre
<1> QED
  BY <1>1, <1>2, <1>3 DEF RollInv, BelowCursor

\* Above the cursor there is nobody.
LEMMA RoomAbove ==
  ASSUME RollInv, NEW h \in Handles, ~Drafting(h), NEW n \in Nat
  PROVE  Beside(h, cursor, n) /\ OthersBelow(h, cursor) /\ OthersBelow(h, cursor + n)
<1>1. \A g \in Handles : Drafting(g) =>
        /\ held[g].start + held[g].words <= cursor
        /\ held[g].start + held[g].words <= cursor + n
  BY Numbers
<1>2. \A k \in DOMAIN records :
        /\ records[k].start + records[k].words <= cursor
        /\ records[k].start + records[k].words <= cursor + n
  BY Numbers
<1> QED
  BY <1>1, <1>2 DEF Beside, OthersBelow, Clear

\* What a slot gives back is nobody else's.
LEMMA GivesBack ==
  ASSUME RollInv, NEW h \in Handles, Drafting(h), NEW keep \in 0 .. held[h].words
  PROVE  LET c == D!Rewound(cursor, held[h], keep)
         IN  /\ c \in 0 .. RollWords /\ c <= cursor /\ held[h].start + keep <= c
             /\ OthersBelow(h, c) /\ OthersBelow(h, cursor)
             /\ Beside(h, held[h].start, held[h].words)
<1> DEFINE d == held[h]
           c == D!Rewound(cursor, d, keep)
<1>1. /\ RollWords \in Nat /\ cursor \in Nat /\ cursor <= RollWords
      /\ d.start \in Nat /\ d.words \in Nat /\ d.words >= 1 /\ d.start + d.words <= cursor
  BY Numbers
<1>2. c = IF cursor = d.start + d.words THEN d.start + keep ELSE cursor
  BY DEF D!Rewound
<1> HIDE DEF c
<1>3. c \in 0 .. RollWords /\ c <= cursor /\ d.start + keep <= c
  BY <1>1, <1>2
<1>4. Beside(h, d.start, d.words)
  BY DEF RollInv, Disjoint, Beside
<1>5. ASSUME NEW s \in Nat, NEW m \in Nat, m >= 1, s + m <= cursor, Clear(s, m, d.start, d.words)
      PROVE  s + m <= c
  BY <1>1, <1>2, <1>5 DEF Clear
<1>6. OthersBelow(h, c)
  <2>1. \A g \in Handles \ {h} : Drafting(g) => held[g].start + held[g].words <= c
    BY <1>4, <1>5, Numbers DEF Beside
  <2>2. \A k \in DOMAIN records : records[k].start + records[k].words <= c
    BY <1>4, <1>5, Numbers DEF Beside
  <2> QED
    BY <2>1, <2>2 DEF OthersBelow
<1>7. OthersBelow(h, cursor)
  BY Numbers DEF OthersBelow
<1> QED
  BY <1>3, <1>4, <1>6, <1>7 DEF c

LEMMA RoundedUp ==
  ASSUME NEW bytes \in Nat, bytes >= 1
  PROVE  D!Rounded(bytes) \in Nat /\ D!Rounded(bytes) >= 1 /\ 8 * D!Rounded(bytes) >= bytes
BY DEF D!Rounded, D!Word

LEMMA Asked ==
  ASSUME estimate \in Nat, NEW override \in ReservationOverrides \cup {0}
  PROVE  /\ D!DraftBytes(override) \in Nat /\ D!DraftBytes(override) >= 1
         /\ override = 0 => D!DraftBytes(override) > estimate
<1>1. CASE override = 0
  <2>1. D!DraftBytes(override) = (estimate * 1025) \div 1000 + 1
    BY <1>1 DEF D!DraftBytes
  <2>2. (estimate * 1025) \div 1000 \in Nat /\ (estimate * 1025) \div 1000 >= estimate
    OBVIOUS
  <2> QED
    BY <2>1, <2>2
<1>2. CASE override # 0
  BY <1>2, RecordingAssumption DEF D!DraftBytes
<1> QED
  BY <1>1, <1>2

\* A draft as it begins: without a word.
Blank(override) ==
  [is |-> "draft", start |-> cursor, words |-> D!Rounded(D!DraftBytes(override)),
   number |-> sequence + 1, objects |-> 0, used |-> 0, home |-> <<>>,
   default |-> override = 0, largest |-> largest,
   dirty |-> \E i \in D!HeaderWords + 1 .. D!Rounded(D!DraftBytes(override)) :
               memory[cursor + i] # D!Zero]

LEMMA BlankSound ==
  ASSUME RollInv, estimate \in Nat, sequence \in Nat, largest \in Nat,
         NEW override \in ReservationOverrides \cup {0}
  PROVE  Blank(override) \in DraftRecord /\ Sound(Blank(override), memory)
<1> DEFINE b == Blank(override)
<1>1. D!Rounded(D!DraftBytes(override)) \in Nat
  BY Asked, RoundedUp
<1>2. <<>> \in Seq(Int) /\ Len(<<>>) = 0 /\ DOMAIN <<>> = {}
  OBVIOUS
<1>3. b \in DraftRecord
  BY <1>1, <1>2, Numbers DEF Blank, DraftRecord
<1>4. b.home = <<>> /\ b.used = 0
  BY DEF Blank
<1> HIDE DEF b
<1>5. ~D!Overflowed(b)
  BY <1>2, <1>4 DEF D!Overflowed
<1>6. Placed(b, memory) /\ Unspilled(b) /\ Spilled(b)
  BY <1>2, <1>4, <1>5 DEF Placed, Unspilled, Spilled
<1>7. InArena(b)
  BY <1>3, <1>4, Space DEF InArena
<1> QED
  BY <1>3, <1>6, <1>7 DEF Sound, b

\* What draft() hands out, and the draft it leaves.
LEMMA DraftIs ==
  ASSUME RollInv, estimate \in Nat, sequence \in Nat, largest \in Nat,
         NEW h \in Handles, NEW override \in ReservationOverrides \cup {0}, D!Draft(h, override)
  PROVE  \E e \in DraftRecord :
           /\ held' = [held EXCEPT ![h] = e]
           /\ e.start = cursor /\ e.words = D!Rounded(D!DraftBytes(override))
           /\ e.default = (override = 0) /\ e.largest = largest
           /\ Sound(e, memory')
           /\ \A w \in 1 .. RollWords : w \notin cursor + 1 .. cursor + e.words
                => memory'[w] = memory[w]
<1> DEFINE b == Blank(override)
<1>1. /\ b \in DraftRecord /\ Sound(b, memory)
      /\ b.start = cursor /\ b.words = D!Rounded(D!DraftBytes(override))
      /\ b.default = (override = 0) /\ b.largest = largest
      /\ b.words >= 1
  BY BlankSound, Asked, RoundedUp DEF Blank
<1>2. b.start + b.words <= RollWords
  BY <1>1 DEF D!Draft
<1>3. PICK root \in D!Homes(b, D!RootWords) :
        \E envelope \in D!Homes(D!WithObject(b, D!RootWords, root), D!EnvelopeWords) :
          /\ held' = [held EXCEPT ![h] =
                        D!WithObject(D!WithObject(b, D!RootWords, root), D!EnvelopeWords, envelope)]
          /\ memory' = D!Built(D!Built(memory, b, D!RootWords, root),
                             D!WithObject(b, D!RootWords, root), D!EnvelopeWords, envelope)
  BY DEF D!Draft, Blank
<1> DEFINE r == D!WithObject(b, D!RootWords, root)
           m == D!Built(memory, b, D!RootWords, root)
<1>4. PICK envelope \in D!Homes(r, D!EnvelopeWords) :
        /\ held' = [held EXCEPT ![h] = D!WithObject(r, D!EnvelopeWords, envelope)]
        /\ memory' = D!Built(m, r, D!EnvelopeWords, envelope)
  BY <1>3
<1> HIDE DEF b
<1>5. root \in Int /\ D!RootWords \in Nat /\ D!EnvelopeWords \in Nat
  BY <1>1, Homely DEF D!RootWords, D!EnvelopeWords
<1>6. /\ r \in DraftRecord /\ r.start = b.start /\ r.words = b.words
      /\ r.default = b.default /\ r.largest = b.largest
  <2>1. b \in DraftRecord /\ D!RootWords \in Nat /\ root \in Int
    BY <1>1, <1>5
  <2> QED
    BY <2>1, Homing
<1>7. /\ Sound(r, m)
      /\ \A w \in 1 .. RollWords : w \notin b.start + 1 .. b.start + b.words => m[w] = memory[w]
  BY <1>1, <1>2, <1>5, ObjectAdded
<1> DEFINE e == D!WithObject(r, D!EnvelopeWords, envelope)
<1> HIDE DEF r, m
<1>8. envelope \in Int
  BY <1>6, Homely
<1>9. /\ e \in DraftRecord /\ e.start = r.start /\ e.words = r.words
      /\ e.default = r.default /\ e.largest = r.largest
  BY <1>5, <1>6, <1>8, Homing, ZenonT(30)
<1>10. r.start + r.words <= RollWords /\ r.words >= 1
  BY <1>1, <1>2, <1>6
<1>11. /\ Sound(e, memory')
       /\ \A w \in 1 .. RollWords : w \notin r.start + 1 .. r.start + r.words
            => memory'[w] = m[w]
  BY <1>4, <1>5, <1>6, <1>7, <1>10, ObjectAdded, SMTT(30)
<1>12. held' = [held EXCEPT ![h] = e]
  BY <1>4
<1> HIDE DEF e
<1> QED
  BY <1>1, <1>6, <1>7, <1>9, <1>11, <1>12, ZenonT(30)

DInv ==
  /\ RollInv
  /\ estimate \in Nat /\ sequence \in Nat /\ largest \in Nat
  /\ largest <= estimate
  /\ \A h \in Handles : Drafting(h) /\ held[h].default => 8 * held[h].words > held[h].largest

LEMMA DraftsInit == D!Init => DInv
<1> SUFFICES ASSUME D!Init PROVE DInv
  OBVIOUS
<1> USE DEF D!Init
<1>1. \A h \in Handles : ~Drafting(h)
  BY DEF Drafting, D!Nothing
<1>2. records = <<>> /\ records \in Seq(Frame) /\ DOMAIN records = {}
  OBVIOUS
<1>3. RollTyped
  BY <1>2, RecordingAssumption DEF RollTyped
<1>4. BelowCursor /\ Disjoint /\ DraftsSound /\ RecordsWhole
  BY <1>1, <1>2 DEF BelowCursor, Disjoint, DraftsSound, RecordsWhole
<1> QED
  BY <1>1, <1>3, <1>4, RecordingAssumption DEF DInv, RollInv

LEMMA DraftKeeps ==
  ASSUME DInv, NEW h \in Handles, NEW override \in ReservationOverrides \cup {0},
         D!Draft(h, override)
  PROVE  DInv'
<1>0. /\ RollInv /\ estimate \in Nat /\ sequence \in Nat /\ largest \in Nat
      /\ largest <= estimate
  BY DEF DInv
<1> DEFINE n == D!Rounded(D!DraftBytes(override))
<1>1. /\ cursor' = cursor + n /\ cursor + n <= RollWords /\ held[h] = D!Nothing
      /\ sequence' = sequence + 1 /\ UNCHANGED <<estimate, records, largest>>
  BY DEF D!Draft
<1>2. /\ n \in Nat /\ n >= 1
      /\ override = 0 => 8 * n > estimate
  <2>1. /\ D!DraftBytes(override) \in Nat /\ D!DraftBytes(override) >= 1
        /\ override = 0 => D!DraftBytes(override) > estimate
    BY <1>0, Asked
  <2>2. n \in Nat /\ n >= 1 /\ 8 * n >= D!DraftBytes(override)
    BY <2>1, RoundedUp
  <2> HIDE DEF n
  <2> QED
    BY <1>0, <2>1, <2>2
<1>3. PICK e \in DraftRecord :
        /\ held' = [held EXCEPT ![h] = e]
        /\ e.start = cursor /\ e.words = n
        /\ e.default = (override = 0) /\ e.largest = largest
        /\ Sound(e, memory')
        /\ \A w \in 1 .. RollWords : w \notin cursor + 1 .. cursor + e.words
             => memory'[w] = memory[w]
  BY <1>0, DraftIs
<1> HIDE DEF n
<1>4. ~Drafting(h)
  BY <1>1 DEF Drafting, D!Nothing
<1>5. RollWords \in Nat /\ cursor \in Nat
  BY <1>0, Numbers
<1>6. Beside(h, cursor, n) /\ OthersBelow(h, cursor')
  BY <1>0, <1>1, <1>2, <1>4, RoomAbove
<1>7. RollInv'
  <2>1. cursor' \in 0 .. RollWords
    BY <1>1, <1>2, <1>5
  <2>2. e.words >= 1 /\ e.start + e.words <= cursor'
    BY <1>1, <1>2, <1>3, <1>5
  <2>3. e \in DraftRecord \cup MessageRecord \cup {D!Nothing}
    OBVIOUS
  <2>4. records' = records
    BY <1>1
  <2>5. \A w \in 1 .. RollWords : w \notin cursor + 1 .. cursor + n => memory'[w] = memory[w]
    BY <1>3
  <2> QED
    BY <1>0, <1>2, <1>3, <1>5, <1>6, <2>1, <2>2, <2>3, <2>4, <2>5, SlotStepQuiet
<1>8. ASSUME NEW g \in Handles, Drafting(g)', held'[g].default
      PROVE  8 * held'[g].words > held'[g].largest
  <2>1. /\ held'[h] = e /\ \A f \in Handles \ {h} : held'[f] = held[f]
    BY <1>0, <1>3 DEF RollInv, RollTyped
  <2>2. CASE g = h
    <3>1. override = 0
      BY <1>3, <1>8, <2>1, <2>2
    <3>2. held'[g].words = n /\ held'[g].largest = largest
      BY <1>3, <2>1, <2>2
    <3> QED
      BY <1>0, <1>2, <3>1, <3>2
  <2>3. CASE g # h
    BY <1>8, <2>1, <2>3 DEF DInv, Drafting
  <2> QED
    BY <2>2, <2>3
<1> QED
  BY <1>0, <1>1, <1>7, <1>8 DEF DInv

LEMMA FillKeeps ==
  ASSUME DInv, NEW h \in Handles, NEW n \in ObjectSizes, D!Fill(h, n)
  PROVE  DInv'
<1> DEFINE d == held[h]
<1>0. /\ RollInv /\ Drafting(h)
      /\ UNCHANGED <<estimate, sequence, cursor, records, largest>>
  BY DEF DInv, D!Fill, Drafting
<1>1. PICK home \in D!Homes(d, n) :
        /\ held' = [held EXCEPT ![h] = D!WithObject(d, n, home)]
        /\ memory' = D!Built(memory, d, n, home)
  BY DEF D!Fill
<1>2. /\ d \in DraftRecord /\ d.start \in Nat /\ d.words \in Nat /\ d.words >= 1
      /\ d.start + d.words <= cursor /\ cursor \in 0 .. RollWords
      /\ cursor \in Nat /\ RollWords \in Nat /\ n \in Nat
  BY <1>0, Numbers, RecordingAssumption
<1>3. Sound(d, memory) /\ d.start + d.words <= RollWords
  BY <1>0, <1>2 DEF RollInv, DraftsSound
<1> HIDE DEF d
<1> DEFINE e == D!WithObject(d, n, home)
<1>4. home \in Int
  BY <1>2, Homely
<1>5. /\ e \in DraftRecord /\ e.start = d.start /\ e.words = d.words
      /\ e.default = d.default /\ e.largest = d.largest
  <2>1. \A k \in Nat : \A at \in Int :
          LET x == D!WithObject(d, k, at)
          IN  /\ x \in DraftRecord /\ x.start = d.start /\ x.words = d.words
              /\ x.default = d.default /\ x.largest = d.largest
    <3>1. d \in DraftRecord
      BY <1>2
    <3> QED
      BY <3>1, Homing
  <2> QED
    BY <1>2, <1>4, <2>1, Zenon
<1>6. /\ Sound(e, memory')
      /\ \A w \in 1 .. RollWords : w \notin d.start + 1 .. d.start + d.words
           => memory'[w] = memory[w]
  BY <1>1, <1>2, <1>3, ObjectAdded
<1>7. held' = [held EXCEPT ![h] = e]
  BY <1>1
<1> HIDE DEF e
<1>8. Beside(h, d.start, d.words) /\ OthersBelow(h, cursor')
  <2>1. 0 \in 0 .. d.words
    BY <1>2
  <2> QED
    BY <1>0, <2>1, GivesBack DEF d
<1>9. RollInv'
  <2>1. e.words >= 1 /\ e.start + e.words <= cursor' /\ cursor' \in 0 .. RollWords
    BY <1>0, <1>2, <1>5
  <2>2. e \in DraftRecord \cup MessageRecord \cup {D!Nothing}
    BY <1>5
  <2>3. records' = records
    BY <1>0
  <2> QED
    BY <1>0, <1>2, <1>5, <1>6, <1>7, <1>8, <2>1, <2>2, <2>3, SlotStepQuiet
<1>10. ASSUME NEW g \in Handles, Drafting(g)', held'[g].default
       PROVE  8 * held'[g].words > held'[g].largest
  <2>1. /\ held'[h] = e /\ \A f \in Handles \ {h} : held'[f] = held[f]
    BY <1>0, <1>7 DEF RollInv, RollTyped
  <2>2. CASE g = h
    BY <1>0, <1>5, <1>10, <2>1, <2>2 DEF DInv, d
  <2>3. CASE g # h
    BY <1>10, <2>1, <2>3 DEF DInv, Drafting
  <2> QED
    BY <2>2, <2>3
<1> QED
  BY <1>0, <1>9, <1>10 DEF DInv

\* Sealing and dropping leave nothing to build in.
LEMMA NoLongerDrafting ==
  ASSUME DInv, NEW h \in Handles, NEW e, e.is # "draft",
         held' = [held EXCEPT ![h] = e], RollInv',
         estimate' \in Nat, sequence' \in Nat, largest' \in Nat, largest' <= estimate'
  PROVE  DInv'
<1>1. /\ held'[h] = e /\ \A f \in Handles \ {h} : held'[f] = held[f]
  BY DEF DInv, RollInv, RollTyped
<1>2. \A g \in Handles : Drafting(g)' => g # h /\ Drafting(g) /\ held'[g] = held[g]
  BY <1>1 DEF Drafting
<1> QED
  BY <1>2 DEF DInv

LEMMA AbandonKeeps ==
  ASSUME DInv, NEW h \in Handles, D!Abandon(h)
  PROVE  DInv'
<1>0. /\ RollInv /\ Drafting(h)
      /\ cursor' = D!Rewound(cursor, held[h], 0) /\ held' = [held EXCEPT ![h] = D!Nothing]
      /\ UNCHANGED <<estimate, sequence, memory, records, largest>>
  BY DEF DInv, D!Abandon, Drafting
<1>1. held[h].start \in Nat /\ held[h].words \in Nat /\ 0 \in 0 .. held[h].words
  BY <1>0, Numbers
<1>2. /\ cursor' \in 0 .. RollWords /\ OthersBelow(h, cursor')
      /\ Beside(h, held[h].start, held[h].words)
  BY <1>0, <1>1, GivesBack
<1>3. D!Nothing.is # "draft" /\ D!Nothing \in DraftRecord \cup MessageRecord \cup {D!Nothing}
  BY DEF D!Nothing
<1>4. RollInv'
  <2>1. records' = records /\ memory' = memory
    BY <1>0
  <2> QED
    BY <1>0, <1>1, <1>2, <1>3, <2>1, SlotStepQuiet
<1> QED
  BY <1>0, <1>3, <1>4, NoLongerDrafting DEF DInv

LEMMA PublishKeeps ==
  ASSUME DInv, NEW h \in Handles, D!Publish(h)
  PROVE  DInv'
<1>0. /\ RollInv /\ held[h].is = "message" /\ ~Drafting(h)
      /\ held' = [held EXCEPT ![h] = D!Nothing]
      /\ UNCHANGED <<sequence, cursor, memory, records>>
  BY DEF DInv, D!Publish, Drafting
<1>1. held[h].bytes \in Nat
  BY <1>0, DraftsAre DEF RollInv, MessageRecord
<1>2. cursor \in Nat /\ RollWords \in Nat /\ cursor \in 0 .. RollWords
  BY <1>0, Numbers
<1>3. Beside(h, cursor, 0) /\ OthersBelow(h, cursor')
  BY <1>0, RoomAbove
<1>4. D!Nothing.is # "draft" /\ D!Nothing \in DraftRecord \cup MessageRecord \cup {D!Nothing}
  BY DEF D!Nothing
<1>5. RollInv'
  <2>1. records' = records /\ memory' = memory /\ cursor' \in 0 .. RollWords /\ 0 \in Nat
    BY <1>0, <1>2
  <2> QED
    BY <1>0, <1>2, <1>3, <1>4, <2>1, SlotStepQuiet
<1>6. estimate' \in Nat /\ largest' \in Nat /\ largest' <= estimate' /\ sequence' \in Nat
  BY <1>0, <1>1 DEF D!Publish, D!EstimateWith, DInv
<1> QED
  BY <1>0, <1>4, <1>5, <1>6, NoLongerDrafting

-----------------------------------------------------------------------------
(* Sealing.                                                                 *)

LEMMA EntryIs ==
  ASSUME NEW d \in DraftRecord, NEW start \in Nat
  PROVE  LET r == D!Entry(d, start)
         IN  /\ r \in Frame /\ r.start = start /\ r.words = Len(d.home) + 1
             /\ Len(r.means) = Len(d.home)
             /\ \A i \in 1 .. Len(d.home) : r.means[i] = <<d.number, i>>
             /\ [is |-> "message", bytes |-> D!Word * r.words] \in MessageRecord
<1> DEFINE r == D!Entry(d, start)
           c == D!Content(d.number, 0, Len(d.home))
<1>1. d.number \in Nat /\ Len(d.home) \in Nat
  BY LenProperties DEF DraftRecord
<1>2. /\ c \in Seq(Nat \X Nat) /\ Len(c) = Len(d.home)
      /\ \A i \in 1 .. Len(d.home) : c[i] = <<d.number, 0 + i>>
  BY <1>1, ContentIs, ZenonT(30)
<1>3. /\ r.start = start /\ r.words = Len(d.home) + 1 /\ r.number = d.number /\ r.means = c
      /\ r = [start |-> r.start, words |-> r.words, number |-> r.number, means |-> r.means]
  BY <1>1 DEF D!Entry, D!FrameWords, D!HeaderWords, D!MessageWords
<1> HIDE DEF r, c
<1>4. r \in Frame
  BY <1>1, <1>2, <1>3 DEF Frame
<1>5. \A i \in 1 .. Len(d.home) : r.means[i] = <<d.number, i>>
  BY <1>2, <1>3
<1>6. D!Word * r.words \in Nat
  BY <1>1, <1>3 DEF D!Word
<1> QED
  BY <1>2, <1>3, <1>4, <1>5, <1>6 DEF r, MessageRecord

LEMMA SealInPlaceKeeps ==
  ASSUME DInv, NEW h \in Handles, D!SealInPlace(h)
  PROVE  DInv'
<1> DEFINE d == held[h]
           r == D!Entry(d, d.start)
           e == [is |-> "message", bytes |-> D!Word * r.words]
           L == Len(d.home)
<1>0. /\ RollInv /\ Drafting(h) /\ ~D!Overflowed(d)
      /\ memory' = D!Laid(memory, d.start, <<D!Header(d.used)>>)
      /\ cursor' = D!Rewound(cursor, d, D!FrameWords(d.used))
      /\ records' = Append(records, r) /\ held' = [held EXCEPT ![h] = e]
      /\ UNCHANGED <<estimate, sequence, largest>>
  BY DEF DInv, D!SealInPlace, Drafting, D!Recorded
<1>1. /\ d \in DraftRecord /\ d.start \in Nat /\ d.words \in Nat /\ d.words >= 1
      /\ d.start + d.words <= cursor /\ L \in Nat /\ d.used \in Nat
      /\ cursor \in Nat /\ RollWords \in Nat /\ cursor <= RollWords
  BY <1>0, Numbers
<1>2. Sound(d, memory)
  BY <1>0 DEF RollInv, DraftsSound
<1>3. d.used = L /\ \A i \in 1 .. L : d.home[i] = i
  BY <1>0, <1>2 DEF Sound, Unspilled
<1>4. L + 1 <= d.words
  <2>1. L <= D!ArenaWords(d)
    BY <1>2, <1>3 DEF Sound, InArena
  <2>2. D!ArenaWords(d) \in Nat /\ (D!ArenaWords(d) = 0 \/ D!ArenaWords(d) + 1 = d.words)
    BY <1>1, Space
  <2> QED
    BY <1>1, <2>1, <2>2
<1>5. /\ r \in Frame /\ r.start = d.start /\ r.words = L + 1 /\ Len(r.means) = L
      /\ \A i \in 1 .. L : r.means[i] = <<d.number, i>>
      /\ e \in MessageRecord
  BY <1>1, EntryIs
<1>6. D!FrameWords(d.used) = L + 1 /\ L + 1 \in 0 .. d.words
  BY <1>1, <1>3, <1>4 DEF D!FrameWords, D!HeaderWords
<1>7. /\ cursor' \in 0 .. RollWords /\ d.start + (L + 1) <= cursor'
      /\ OthersBelow(h, cursor') /\ Beside(h, d.start, d.words)
  BY <1>0, <1>6, GivesBack
<1>8. \A w \in 1 .. RollWords :
        memory'[w] = IF w = d.start + 1 THEN D!Header(L) ELSE memory[w]
  <2>1. \A w \in 1 .. RollWords :
          memory'[w] = IF w \in d.start + 1 .. d.start + Len(<<D!Header(d.used)>>)
                       THEN <<D!Header(d.used)>>[w - d.start] ELSE memory[w]
    <3>1. Len(<<D!Header(d.used)>>) \in Nat
      OBVIOUS
    <3>2. \A words : Len(words) \in Nat => \A w \in 1 .. RollWords :
            D!Laid(memory, d.start, words)[w] =
              IF w \in d.start + 1 .. d.start + Len(words) THEN words[w - d.start] ELSE memory[w]
      BY <1>1, LaidOut
    <3> QED
      BY <1>0, <3>1, <3>2
  <2>2. Len(<<D!Header(d.used)>>) = 1 /\ <<D!Header(d.used)>>[1] = D!Header(L)
    BY <1>3
  <2>3. \A w \in 1 .. RollWords :
          /\ w \in d.start + 1 .. d.start + 1 <=> w = d.start + 1
          /\ w = d.start + 1 => w - d.start = 1
    BY <1>1
  <2> QED
    BY <2>1, <2>2, <2>3
<1> HIDE DEF d, r, e, L
<1>9. Whole(r, memory')
  <2>1. d.start + 1 \in 1 .. RollWords
    BY <1>1
  <2>2. ASSUME NEW i \in 1 .. L
        PROVE  memory'[d.start + 1 + i] = r.means[i]
    <3>1. d.start + 1 + i \in 1 .. RollWords /\ d.start + 1 + i # d.start + 1
      BY <1>1, <1>4
    <3>2. i # D!Heap
      BY <1>1 DEF D!Heap
    <3>3. memory[d.start + 1 + i] = <<d.number, i>>
      BY <1>2, <1>3, <3>2 DEF Sound, Placed, L
    <3> QED
      BY <1>5, <1>8, <3>1, <3>3
  <2> QED
    BY <1>5, <1>8, <2>1, <2>2 DEF Whole
<1>10. RollInv'
  <2>1. \A w \in 1 .. RollWords : w \notin d.start + 1 .. d.start + d.words
          => memory'[w] = memory[w]
    <3>1. d.start + 1 \in d.start + 1 .. d.start + d.words
      BY <1>1
    <3> QED
      BY <1>8, <3>1
  <2>2. r.words <= d.words /\ r.words >= 1 /\ r.start + r.words <= cursor'
    BY <1>1, <1>4, <1>5, <1>7
  <2> QED
    BY <1>0, <1>1, <1>5, <1>7, <1>9, <2>1, <2>2, SlotStepRecorded
<1> QED
  <2>1. e.is # "draft"
    BY DEF e
  <2>2. estimate' \in Nat /\ sequence' \in Nat /\ largest' \in Nat /\ largest' <= estimate'
    BY <1>0 DEF DInv
  <2> QED
    BY <1>0, <1>10, <2>1, <2>2, NoLongerDrafting

\* The slot a collapsed draft ends up with is its own, or above everybody's.
LEMMA SlotFound ==
  ASSUME RollInv, NEW h \in Handles, Drafting(h), NEW n \in Nat, n >= 1,
         NEW slot, slot = D!Modified(held[h], n), slot.start + n <= RollWords,
         cursor' = D!Rewound(slot.cursor, slot, n)
  PROVE  /\ slot.start \in Nat /\ cursor' \in 0 .. RollWords /\ slot.start + n <= cursor'
         /\ OthersBelow(h, cursor') /\ Beside(h, slot.start, n)
<1> DEFINE d == held[h]
<1>1. /\ d.start \in Nat /\ d.words \in Nat /\ d.words >= 1
      /\ d.start + d.words <= cursor
      /\ cursor \in Nat /\ RollWords \in Nat /\ cursor <= RollWords
  BY Numbers
<1>2. CASE n <= d.words
  <2> DEFINE c == D!Rewound(cursor, d, n)
  <2>1. slot = [start |-> d.start, words |-> d.words, cursor |-> c]
    BY <1>2 DEF D!Modified
  <2>2. n \in 0 .. d.words
    BY <1>1, <1>2
  <2>3. /\ c \in 0 .. RollWords /\ c <= cursor /\ d.start + n <= c /\ OthersBelow(h, c)
        /\ Beside(h, d.start, d.words)
    BY <2>2, GivesBack
  <2>4. cursor' = c
    <3>1. c = IF cursor = d.start + d.words THEN d.start + n ELSE cursor
      BY DEF D!Rewound
    <3>2. cursor' = IF c = d.start + d.words THEN d.start + n ELSE c
      BY <2>1 DEF D!Rewound
    <3> HIDE DEF c
    <3> QED
      BY <1>1, <1>2, <3>1, <3>2
  <2> HIDE DEF c, d
  <2>5. ASSUME NEW s \in Nat, NEW m \in Nat, Clear(s, m, d.start, d.words)
        PROVE  Clear(s, m, d.start, n)
    BY <1>1, <1>2, <2>5 DEF Clear
  <2>6. Beside(h, d.start, n)
    <3>1. \A g \in Handles : Drafting(g) => held[g].start \in Nat /\ held[g].words \in Nat
      BY Numbers
    <3>2. \A k \in DOMAIN records : records[k].start \in Nat /\ records[k].words \in Nat
      BY Numbers
    <3> QED
      BY <2>3, <2>5, <3>1, <3>2 DEF Beside
  <2> QED
    BY <1>1, <2>1, <2>3, <2>4, <2>6
<1>3. CASE ~(n <= d.words)
  <2> DEFINE c == D!Rewound(cursor, d, 0)
  <2>1. slot = [start |-> c, words |-> n, cursor |-> c + n]
    BY <1>3 DEF D!Modified
  <2>2. 0 \in 0 .. d.words
    BY <1>1
  <2>3. c \in 0 .. RollWords /\ OthersBelow(h, c)
    BY <2>2, GivesBack
  <2> HIDE DEF c, d
  <2>4. cursor' = c + n /\ c \in Nat /\ c + n <= RollWords
    BY <1>1, <2>1, <2>3 DEF D!Rewound
  <2>5. ASSUME NEW s \in Nat, NEW m \in Nat, s + m <= c
        PROVE  s + m <= c + n /\ Clear(s, m, c, n)
    BY <2>4, <2>5 DEF Clear
  <2>6. OthersBelow(h, c + n) /\ Beside(h, c, n)
    <3>1. \A g \in Handles : Drafting(g) => held[g].start \in Nat /\ held[g].words \in Nat
      BY Numbers
    <3>2. \A k \in DOMAIN records : records[k].start \in Nat /\ records[k].words \in Nat
      BY Numbers
    <3> QED
      BY <2>3, <2>5, <3>1, <3>2 DEF Beside, OthersBelow
  <2> QED
    BY <1>1, <2>1, <2>4, <2>6
<1> QED
  BY <1>2, <1>3

LEMMA SealCollapsedKeeps ==
  ASSUME DInv, NEW h \in Handles, D!SealCollapsed(h)
  PROVE  DInv'
<1> DEFINE d == held[h]
           L == Len(d.home)
           segment == D!Collapsed(d)
           slot == D!Modified(d, D!FrameWords(Len(segment)))
           r == D!Entry(d, slot.start)
           e == [is |-> "message", bytes |-> D!Word * r.words]
<1>0. /\ RollInv /\ Drafting(h)
      /\ slot.start + D!FrameWords(Len(segment)) <= RollWords
      /\ memory' = D!Laid(memory, slot.start, <<D!Header(Len(segment))>> \o segment)
      /\ cursor' = D!Rewound(slot.cursor, slot, D!FrameWords(Len(segment)))
      /\ records' = Append(records, r) /\ held' = [held EXCEPT ![h] = e]
      /\ UNCHANGED <<estimate, sequence, largest>>
  BY DEF DInv, D!SealCollapsed, Drafting, D!Recorded
<1>1. /\ d \in DraftRecord /\ d.start \in Nat /\ L \in Nat /\ d.number \in Nat
      /\ RollWords \in Nat
  BY <1>0, Numbers
<1>2. Sound(d, memory)
  BY <1>0 DEF RollInv, DraftsSound
<1>3. /\ Len(segment) = L /\ segment \in [1 .. L -> Nat \X Nat]
      /\ \A i \in 1 .. L : segment[i] = <<d.number, i>>
  <2>1. segment = [i \in 1 .. L |-> IF d.home[i] = D!Heap THEN <<d.number, i>>
                                    ELSE memory[d.start + 1 + d.home[i]]]
    BY DEF D!Collapsed, D!MessageWords, D!HeaderWords
  <2>2. \A i \in 1 .. L : (IF d.home[i] = D!Heap THEN <<d.number, i>>
                           ELSE memory[d.start + 1 + d.home[i]]) = <<d.number, i>>
    BY <1>2 DEF Sound, Placed
  <2>3. segment = [i \in 1 .. L |-> <<d.number, i>>]
    BY <2>1, <2>2
  <2> HIDE DEF segment, L
  <2> QED
    BY <1>1, <2>3
<1>4. D!FrameWords(Len(segment)) = L + 1
  BY <1>1, <1>3 DEF D!FrameWords, D!HeaderWords
<1>5. /\ slot.start \in Nat /\ cursor' \in 0 .. RollWords /\ slot.start + (L + 1) <= cursor'
      /\ OthersBelow(h, cursor') /\ Beside(h, slot.start, L + 1)
  <2> DEFINE n == D!FrameWords(Len(segment))
  <2>1. n \in Nat /\ n >= 1 /\ n = L + 1
    BY <1>1, <1>4
  <2>2. slot = D!Modified(held[h], n) /\ slot.start + n <= RollWords
        /\ cursor' = D!Rewound(slot.cursor, slot, n)
    BY <1>0
  <2> HIDE DEF n, slot, L
  <2>3. /\ slot.start \in Nat /\ cursor' \in 0 .. RollWords /\ slot.start + n <= cursor'
        /\ OthersBelow(h, cursor') /\ Beside(h, slot.start, n)
    BY <1>0, <2>1, <2>2, SlotFound
  <2> QED
    BY <2>1, <2>3
<1>6. /\ r \in Frame /\ r.start = slot.start /\ r.words = L + 1 /\ Len(r.means) = L
      /\ \A i \in 1 .. L : r.means[i] = <<d.number, i>>
      /\ e \in MessageRecord
  BY <1>1, <1>5, EntryIs
<1> DEFINE words == <<D!Header(Len(segment))>> \o segment
<1>7. /\ Len(words) = L + 1 /\ words[1] = D!Header(L)
      /\ \A i \in 1 .. L : words[1 + i] = <<d.number, i>>
  <2> HIDE DEF segment, L
  <2>1. D!Header(L) \in Nat \X Nat
    BY <1>1 DEF D!Header
  <2>2. /\ <<D!Header(L)>> \in Seq(Nat \X Nat) /\ Len(<<D!Header(L)>>) = 1
        /\ <<D!Header(L)>>[1] = D!Header(L)
    BY <2>1
  <2>3. segment \in Seq(Nat \X Nat)
    BY <1>1, <1>3
  <2>4. /\ Len(words) = 1 + L
        /\ \A i \in 1 .. 1 + L :
             words[i] = IF i <= 1 THEN <<D!Header(L)>>[i] ELSE segment[i - 1]
    BY <1>3, <2>2, <2>3, ConcatProperties
  <2>5. words[1] = D!Header(L) /\ Len(words) = L + 1
    BY <1>1, <2>2, <2>4
  <2>6. ASSUME NEW i \in 1 .. L
        PROVE  words[1 + i] = <<d.number, i>>
    <3>1. 1 + i \in 1 .. 1 + L /\ ~(1 + i <= 1) /\ (1 + i) - 1 = i
      BY <1>1
    <3>2. words[1 + i] = segment[i]
      BY <2>4, <3>1
    <3> QED
      BY <1>3, <3>2
  <2> QED
    BY <2>5, <2>6
<1>8. \A w \in 1 .. RollWords :
        memory'[w] = IF w \in slot.start + 1 .. slot.start + (L + 1)
                     THEN words[w - slot.start] ELSE memory[w]
  <2>1. Len(words) \in Nat
    BY <1>1, <1>7
  <2>2. memory' = D!Laid(memory, slot.start, words)
    BY <1>0
  <2> HIDE DEF words, slot
  <2>3. \A w \in 1 .. RollWords :
          memory'[w] = IF w \in slot.start + 1 .. slot.start + Len(words)
                       THEN words[w - slot.start] ELSE memory[w]
    BY <1>5, <2>1, <2>2, LaidOut, ZenonT(30)
  <2> QED
    BY <1>7, <2>3
<1> HIDE DEF d, L, segment, slot, r, e, words
<1>b. slot.start + (L + 1) <= RollWords
  BY <1>0, <1>4
<1>9. Whole(r, memory')
  <2> DEFINE s == slot.start
  <2>1. /\ s + 1 \in 1 .. RollWords /\ s + 1 \in s + 1 .. s + (L + 1)
        /\ (s + 1) - s = 1
    BY <1>1, <1>5, <1>b
  <2>2. memory'[s + 1] = D!Header(L)
    BY <1>7, <1>8, <2>1
  <2>3. ASSUME NEW i \in 1 .. L
        PROVE  memory'[s + 1 + i] = r.means[i]
    <3>1. /\ s + 1 + i \in 1 .. RollWords /\ s + 1 + i \in s + 1 .. s + (L + 1)
          /\ (s + 1 + i) - s = 1 + i
      BY <1>1, <1>5, <1>b
    <3>2. memory'[s + 1 + i] = words[1 + i]
      BY <1>8, <3>1
    <3> QED
      BY <1>6, <1>7, <3>2
  <2> QED
    BY <1>6, <2>2, <2>3 DEF Whole
<1>10. RollInv'
  <2>1. L + 1 \in Nat /\ r.words <= L + 1 /\ r.words >= 1 /\ r.start + r.words <= cursor'
    BY <1>1, <1>5, <1>6
  <2>2. \A w \in 1 .. RollWords : w \notin slot.start + 1 .. slot.start + (L + 1)
          => memory'[w] = memory[w]
    BY <1>8
  <2> QED
    BY <1>0, <1>5, <1>6, <1>9, <2>1, <2>2, SlotStepRecorded
<1> QED
  <2>1. e.is # "draft"
    BY DEF e
  <2>2. estimate' \in Nat /\ sequence' \in Nat /\ largest' \in Nat /\ largest' <= estimate'
    BY <1>0 DEF DInv
  <2> QED
    BY <1>0, <1>10, <2>1, <2>2, NoLongerDrafting

-----------------------------------------------------------------------------
LEMMA DraftsNext == DInv /\ [D!Next]_(D!vars) => DInv'
<1> SUFFICES ASSUME DInv, [D!Next]_(D!vars) PROVE DInv'
  OBVIOUS
<1>1. CASE D!Next
  BY <1>1, DraftKeeps, FillKeeps, SealInPlaceKeeps, SealCollapsedKeeps, AbandonKeeps, PublishKeeps
     DEF D!Next
<1>2. CASE UNCHANGED D!vars
  <2>1. RollInv'
    BY <1>2 DEF D!vars, DInv, RollInv, RollTyped, BelowCursor, Disjoint, DraftsSound, RecordsWhole,
                Drafting
  <2> QED
    BY <1>2, <2>1 DEF D!vars, DInv, Drafting
<1> QED
  BY <1>1, <1>2

LEMMA WholeFrames == DInv => D!FramesWhole
<1> SUFFICES ASSUME DInv, NEW k \in DOMAIN records
             PROVE  D!Slice(records[k].start, records[k].words)
                      = <<D!Header(Len(records[k].means))>> \o records[k].means
  BY DEF D!FramesWhole
<1> DEFINE r == records[k]
           m == r.means
<1>1. r \in Frame /\ r.start \in Nat /\ Len(m) \in Nat
  BY RecordsAre DEF DInv, RollInv
<1>2. Whole(r, memory)
  BY DEF DInv, RollInv, RecordsWhole
<1> HIDE DEF r
<1>3. m \in Seq(Nat \X Nat)
  BY <1>1 DEF Frame
<1> DEFINE S == Nat \X Nat
           a == D!Slice(r.start, r.words)
           b == <<D!Header(Len(m))>> \o m
<1>4. D!Header(Len(m)) \in S /\ <<D!Header(Len(m))>> \in Seq(S)
  BY <1>1 DEF D!Header
<1>5. /\ b \in Seq(S) /\ Len(b) = 1 + Len(m)
      /\ \A i \in 1 .. 1 + Len(m) : b[i] = IF i <= 1 THEN <<D!Header(Len(m))>>[i] ELSE m[i - 1]
  <2>1. Len(<<D!Header(Len(m))>>) = 1
    OBVIOUS
  <2> HIDE DEF S, m
  <2> QED
    BY <1>3, <1>4, <2>1, ConcatProperties DEF S
<1>6. r.words = 1 + Len(m)
  BY <1>1, <1>2 DEF Whole
<1>7. a = [i \in 1 .. 1 + Len(m) |-> memory[r.start + i]]
  BY <1>6 DEF D!Slice
<1>8. ASSUME NEW i \in 1 .. 1 + Len(m)
      PROVE  memory[r.start + i] = b[i]
  <2>1. CASE i = 1
    BY <1>1, <1>2, <1>5, <2>1 DEF Whole
  <2>2. CASE i # 1
    <3>1. i - 1 \in 1 .. Len(m) /\ r.start + 1 + (i - 1) = r.start + i /\ ~(i <= 1)
      BY <1>1, <2>2
    <3>2. memory[r.start + 1 + (i - 1)] = m[i - 1]
      BY <1>2, <3>1 DEF Whole
    <3> QED
      BY <1>5, <3>1, <3>2
  <2> QED
    BY <2>1, <2>2
<1>9. a = b
  <2>1. DOMAIN b = 1 .. 1 + Len(m) /\ b = [i \in 1 .. 1 + Len(m) |-> b[i]]
    <3> HIDE DEF S, b, m
    <3> QED
      BY <1>5, LenProperties
  <2> HIDE DEF a, b
  <2> QED
    BY <1>7, <1>8, <2>1
<1> QED
  BY <1>9 DEF r

LEMMA Settled == DInv => D!SteadyStateFits
<1> SUFFICES ASSUME DInv, NEW h \in Handles, Drafting(h), held[h].default, D!Overflowed(held[h])
             PROVE  8 * (1 + Len(held[h].home)) > held[h].largest
  BY DEF D!SteadyStateFits, Drafting, D!Word, D!FrameWords, D!HeaderWords, D!MessageWords
<1> DEFINE d == held[h]
<1>1. d \in DraftRecord /\ d.words \in Nat /\ Len(d.home) \in Nat /\ d.largest \in Nat
  BY Numbers DEF DInv, DraftRecord
<1>2. Len(d.home) > D!ArenaWords(d) /\ 8 * d.words > d.largest
  BY DEF DInv, RollInv, DraftsSound, Sound, Spilled
<1>3. D!ArenaWords(d) \in Nat /\ D!ArenaWords(d) + 1 >= d.words
  BY <1>1, Space
<1> HIDE DEF d
<1>4. 1 + Len(d.home) > d.words
  BY <1>1, <1>2, <1>3
<1> QED
  BY <1>1, <1>2, <1>4 DEF d

-----------------------------------------------------------------------------
(* What a topic's statistics say of the samples measured so far.            *)

Statistics == [count : Nat, first : Int, last : Int, shortest : Int, longest : Int]

Before(S, k) == \A i \in S : i < k
Describes(s, S) ==
  /\ s \in Statistics
  /\ s.count = Cardinality(S)
  /\ S = {} => s = C!NoSamples
  /\ \A i \in S : (\A k \in S : i <= k) => s.first = C!Instant(i)
  /\ \A j \in S : (\A k \in S : k <= j) => s.last = C!Instant(j)
  /\ S # {} => s.count >= 1 /\ \E j \in S : \A k \in S : k <= j
  /\ \A i, j \in S : i # j => s.count > 1
  /\ C!Forward(S) = {} => s.shortest = C!Never /\ s.longest = 0
  /\ C!Forward(S) # {} => /\ s.shortest \in C!Forward(S) /\ \A v \in C!Forward(S) : s.shortest <= v
                        /\ s.longest \in C!Forward(S) /\ \A v \in C!Forward(S) : v <= s.longest


LEMMA IntervalsAdded ==
  ASSUME NEW S \in SUBSET Int, NEW k \in Int, Before(S, k),
         NEW m \in S, \A i \in S : i <= m
  PROVE  C!Intervals(S \cup {k}) = C!Intervals(S) \cup {<<m, k>>}
<1> DEFINE T == S \cup {k}
<1>1. ASSUME NEW p \in C!Intervals(T)
      PROVE  p \in C!Intervals(S) \cup {<<m, k>>}
  <2>0. p \in T \X T /\ p[1] < p[2] /\ \A c \in T : c <= p[1] \/ p[2] <= c
    BY <1>1 DEF C!Intervals
  <2>1. PICK a \in T, b \in T : p = <<a, b>> /\ a < b /\ \A c \in T : c <= a \/ b <= c
    <3>1. p[1] \in T /\ p[2] \in T /\ p = <<p[1], p[2]>>
      BY <2>0
    <3> QED
      BY <2>0, <3>1
  <2>2. a \in Int /\ b \in Int /\ m \in Int
    BY <2>1
  <2>3. CASE b = k
    <3>1. a \in S
      BY <2>1, <2>2, <2>3
    <3>2. m < k
      BY DEF Before
    <3>3. m <= a
      BY <2>1, <2>2, <2>3, <3>2
    <3>4. a = m
      BY <2>2, <3>1, <3>3
    <3> QED
      BY <2>1, <2>3, <3>4
  <2>4. CASE b \in S
    <3>1. a # k
      BY <2>1, <2>2, <2>4 DEF Before
    <3>2. a \in S
      BY <2>1, <3>1
    <3>3. \A c \in S : c <= a \/ b <= c
      BY <2>1
    <3> QED
      BY <2>1, <2>4, <3>2, <3>3 DEF C!Intervals
  <2> QED
    BY <2>1, <2>3, <2>4
<1>2. ASSUME NEW p \in C!Intervals(S)
      PROVE  p \in C!Intervals(T)
  <2>0. p \in S \X S /\ p[1] < p[2] /\ \A c \in S : c <= p[1] \/ p[2] <= c
    BY <1>2 DEF C!Intervals
  <2>1. PICK a \in S, b \in S : p = <<a, b>> /\ a < b /\ \A c \in S : c <= a \/ b <= c
    <3>1. p[1] \in S /\ p[2] \in S /\ p = <<p[1], p[2]>>
      BY <2>0
    <3> QED
      BY <2>0, <3>1
  <2>2. b <= k
    BY <2>1 DEF Before
  <2>3. \A c \in T : c <= a \/ b <= c
    BY <2>1, <2>2
  <2> QED
    BY <2>1, <2>3 DEF C!Intervals
<1>3. <<m, k>> \in C!Intervals(T)
  <2>1. m < k /\ \A c \in T : c <= m \/ k <= c
    BY DEF Before
  <2> QED
    BY <2>1 DEF C!Intervals
<1> QED
  BY <1>1, <1>2, <1>3

LEMMA ForwardAdded ==
  ASSUME NEW S \in SUBSET Int, NEW k \in Int, Before(S, k),
         NEW m \in S, \A i \in S : i <= m
  PROVE  C!Forward(S \cup {k}) =
           C!Forward(S) \cup
              (IF C!Instant(m) <= C!Instant(k) THEN {C!Instant(k) - C!Instant(m)} ELSE {})
<1>1. C!Intervals(S \cup {k}) = C!Intervals(S) \cup {<<m, k>>}
  BY IntervalsAdded
<1> DEFINE q == <<m, k>>
<1>2. q[1] = m /\ q[2] = k
  OBVIOUS
<1>3. \A v : v \in C!Forward(S \cup {k}) <=>
        \E p \in C!Intervals(S) \cup {q} :
          C!Instant(p[1]) <= C!Instant(p[2]) /\ v = C!Instant(p[2]) - C!Instant(p[1])
  BY <1>1 DEF C!Forward
<1>4. \A v : v \in C!Forward(S) <=>
        \E p \in C!Intervals(S) :
          C!Instant(p[1]) <= C!Instant(p[2]) /\ v = C!Instant(p[2]) - C!Instant(p[1])
  BY DEF C!Forward
<1> HIDE DEF q
<1>5. \A v : v \in C!Forward(S \cup {k}) <=>
        v \in C!Forward(S) \/ (C!Instant(m) <= C!Instant(k) /\ v = C!Instant(k) - C!Instant(m))
  BY <1>2, <1>3, <1>4
<1> QED
  BY <1>5

LEMMA ForwardOfNone ==
  ASSUME NEW k \in Int
  PROVE  C!Forward({}) = {} /\ C!Forward({k}) = {}
<1>1. C!Intervals({}) = {}
  BY DEF C!Intervals
<1>2. C!Intervals({k}) = {}
  <2>1. \A p \in {k} \X {k} : p[1] = k /\ p[2] = k
    OBVIOUS
  <2> QED
    BY <2>1 DEF C!Intervals
<1> QED
  BY <1>1, <1>2 DEF C!Forward

\* One observation more.
LEMMA ObservedSample ==
  ASSUME NEW S \in SUBSET Int, IsFiniteSet(S), NEW k \in Int, Before(S, k),
         \A i \in S \cup {k} : C!Instant(i) \in Int,
         NEW s, Describes(s, S)
  PROVE  Describes(C!Observed(s, C!Instant(k)), S \cup {k})
<1> DEFINE T == S \cup {k}
           o == C!Observed(s, C!Instant(k))
           at == C!Instant(k)
<1>1. k \notin S /\ at \in Int /\ s \in Statistics
  BY DEF Before, Describes
<1>2. Cardinality(T) = Cardinality(S) + 1
  BY <1>1, FS_AddElement
<1>3. \A j \in T : (\A i \in T : i <= j) => j = k
  BY DEF Before
<1>4. ASSUME S = {} PROVE Describes(o, T)
  <2>1. s = C!NoSamples
    BY <1>4 DEF Describes
  <2>2. /\ o \in Statistics /\ o.count = 1 /\ o.first = at /\ o.last = at
        /\ o.shortest = C!Never /\ o.longest = 0
    BY <1>1, <2>1 DEF C!Observed, C!NoSamples, Statistics, C!Never
  <2>3. C!Forward(T) = {}
    BY <1>4, ForwardOfNone
  <2>4. Cardinality(S) = 0
    BY <1>4, FS_EmptySet
  <2>5. T = {k}
    BY <1>4
  <2> HIDE DEF T, o
  <2> QED
    BY <1>2, <2>2, <2>3, <2>4, <2>5 DEF Describes
<1>5. ASSUME S # {} PROVE Describes(o, T)
  <2>1. PICK m \in S : \A i \in S : i <= m
    BY <1>5 DEF Describes
  <2>2. s.last = C!Instant(m) /\ C!Instant(m) \in Int /\ s.count >= 1 /\ s.count \in Nat
    BY <1>1, <1>5, <2>1 DEF Describes, Statistics
  <2>3. /\ o.count = s.count + 1 /\ o.first = s.first /\ o.last = at
        /\ o.shortest = IF at < s.last THEN s.shortest ELSE C!Shorter(s.shortest, at - s.last)
        /\ o.longest = IF at < s.last THEN s.longest ELSE C!Longer(s.longest, at - s.last)
        /\ o = [count |-> o.count, first |-> o.first, last |-> o.last,
                shortest |-> o.shortest, longest |-> o.longest]
    <3>1. s.count # 0
      BY <2>2
    <3> QED
      BY <1>1, <3>1 DEF C!Observed, Statistics
  <2> DEFINE gap == at - C!Instant(m)
  <2>4. C!Forward(T) = C!Forward(S) \cup (IF C!Instant(m) <= at THEN {gap} ELSE {})
    BY <2>1, ForwardAdded
  <2>5. gap \in Int
    BY <1>1, <2>2
  <2>6. \A v \in C!Forward(S) : v \in Int /\ v >= 0
    <3>1. \A p \in C!Intervals(S) : p[1] \in S /\ p[2] \in S
      BY DEF C!Intervals
    <3>2. \A p \in C!Intervals(S) : C!Instant(p[1]) \in Int /\ C!Instant(p[2]) \in Int
      BY <3>1
    <3>3. ASSUME NEW v \in C!Forward(S)
          PROVE  v \in Int /\ v >= 0
      <4>1. PICK p \in C!Intervals(S) :
              C!Instant(p[1]) <= C!Instant(p[2]) /\ v = C!Instant(p[2]) - C!Instant(p[1])
        BY DEF C!Forward
      <4> QED
        BY <3>2, <4>1
    <3> QED
      BY <3>3
  <2>t. T # {}
    OBVIOUS
  <2> HIDE DEF T, o, at, gap
  <2>7. o \in Statistics
    BY <1>1, <2>2, <2>3, <2>5 DEF Statistics, C!Shorter, C!Longer, gap
  <2>8. o.count = Cardinality(T) /\ o.count > 1 /\ o.count >= 1
    BY <1>2, <2>2, <2>3 DEF Describes
  <2>9. \A i \in T : (\A j \in T : i <= j) => o.first = C!Instant(i)
    <3>1. SUFFICES ASSUME NEW i \in T, \A j \in T : i <= j
                   PROVE  s.first = C!Instant(i)
      BY <2>3
    <3>2. i # k
      BY <2>1, <3>1 DEF T, Before
    <3>3. i \in S /\ \A j \in S : i <= j
      BY <3>1, <3>2 DEF T
    <3> QED
      BY <3>3 DEF Describes
  <2>10. \A j \in T : (\A i \in T : i <= j) => o.last = C!Instant(j)
    BY <1>3, <2>3 DEF at
  <2>11. \E j \in T : \A i \in T : i <= j
    BY DEF T, Before
  <2>12. CASE ~(C!Instant(m) <= at)
    <3>1. C!Forward(T) = C!Forward(S) /\ at < s.last
      BY <1>1, <2>2, <2>4, <2>12
    <3>2. o.shortest = s.shortest /\ o.longest = s.longest
      BY <2>3, <3>1
    <3>3. /\ C!Forward(T) = {} => o.shortest = C!Never /\ o.longest = 0
          /\ C!Forward(T) # {} =>
               /\ o.shortest \in C!Forward(T) /\ \A v \in C!Forward(T) : o.shortest <= v
               /\ o.longest \in C!Forward(T) /\ \A v \in C!Forward(T) : v <= o.longest
      BY <3>1, <3>2 DEF Describes
    <3> QED
      BY <2>t, <2>7, <2>8, <2>9, <2>10, <2>11, <3>3 DEF Describes
  <2>13. CASE C!Instant(m) <= at
    <3>1. C!Forward(T) = C!Forward(S) \cup {gap} /\ ~(at < s.last) /\ gap >= 0
      BY <1>1, <2>2, <2>4, <2>13 DEF gap
    <3>2. o.shortest = C!Shorter(s.shortest, gap) /\ o.longest = C!Longer(s.longest, gap)
      BY <2>2, <2>3, <3>1 DEF gap
    <3>3. CASE C!Forward(S) = {}
      <4>1. s.shortest = C!Never /\ s.longest = 0
        BY <3>3 DEF Describes
      <4>2. o.shortest = gap /\ o.longest = gap
        BY <2>5, <3>1, <3>2, <4>1 DEF C!Shorter, C!Longer
      <4>3. C!Forward(T) = {gap}
        BY <3>1, <3>3
      <4>4. \A v \in C!Forward(T) : v <= o.longest /\ o.shortest <= v
        BY <2>5, <4>2, <4>3
      <4> QED
        BY <2>t, <2>7, <2>8, <2>9, <2>10, <2>11, <4>2, <4>3, <4>4 DEF Describes
    <3>4. CASE C!Forward(S) # {}
      <4>1. /\ s.shortest \in C!Forward(S) /\ \A v \in C!Forward(S) : s.shortest <= v
            /\ s.longest \in C!Forward(S) /\ \A v \in C!Forward(S) : v <= s.longest
        BY <3>4 DEF Describes
      <4>2. s.shortest # C!Never
        BY <2>6, <4>1 DEF C!Never
      <4>3. /\ o.shortest = IF gap < s.shortest THEN gap ELSE s.shortest
            /\ o.longest = IF gap > s.longest THEN gap ELSE s.longest
        BY <3>2, <4>2 DEF C!Shorter, C!Longer
      <4>4. o.shortest \in C!Forward(T) /\ o.longest \in C!Forward(T)
        BY <3>1, <4>1, <4>3
      <4>5. s.shortest \in Int /\ s.longest \in Int
        BY <2>6, <4>1
      <4>6. \A v \in C!Forward(T) : o.shortest <= v /\ v <= o.longest
        <5>1. ASSUME NEW v \in C!Forward(S) PROVE o.shortest <= v /\ v <= o.longest
          BY <2>5, <2>6, <4>1, <4>3, <4>5
        <5>2. o.shortest <= gap /\ gap <= o.longest
          BY <2>5, <4>3, <4>5
        <5> QED
          BY <3>1, <5>1, <5>2
      <4>7. C!Forward(T) # {}
        BY <3>1
      <4> QED
        BY <2>t, <2>7, <2>8, <2>9, <2>10, <2>11, <4>4, <4>6, <4>7 DEF Describes
    <3> QED
      BY <3>3, <3>4
  <2> QED
    BY <2>12, <2>13
<1> QED
  BY <1>4, <1>5 DEF T, o

LEMMA NoSamplesDescribe == Describes(C!NoSamples, {})
<1>1. C!Forward({}) = {}
  <2>1. \A k \in Int : C!Forward({}) = {}
    BY ForwardOfNone
  <2> QED
    BY <2>1
<1>2. Cardinality({}) = 0
  BY FS_EmptySet
<1> QED
  BY <1>1, <1>2 DEF Describes, C!NoSamples, Statistics, C!Never

-----------------------------------------------------------------------------
(* Queues of places in the log.                                             *)

Elements(q) == {q[i] : i \in DOMAIN q}
Increasing(q) == \A i, j \in DOMAIN q : i < j => q[i] < q[j]

LEMMA QueueTail ==
  ASSUME NEW q \in Seq(Int), q # <<>>, Increasing(q)
  PROVE  /\ Tail(q) \in Seq(Int) /\ Increasing(Tail(q)) /\ Head(q) \in Elements(q)
         /\ Elements(Tail(q)) = Elements(q) \ {Head(q)}
         /\ \A e \in Elements(Tail(q)) : Head(q) < e
<1> DEFINE r == Tail(q)
           h == Head(q)
<1>1. /\ Len(r) = Len(q) - 1 /\ r \in Seq(Int) /\ h = q[1]
      /\ \A i \in 1 .. Len(r) : r[i] = q[i + 1]
  BY HeadTailProperties
<1>2. DOMAIN q = 1 .. Len(q) /\ DOMAIN r = 1 .. Len(r) /\ Len(q) \in Nat /\ Len(q) > 0
  BY <1>1, LenProperties, EmptySeq
<1> HIDE DEF r, h
<1>3. 1 \in DOMAIN q /\ h \in Elements(q)
  <2>1. 1 \in DOMAIN q
    BY <1>2
  <2> QED
    BY <1>1, <2>1 DEF Elements
<1>4. ASSUME NEW i \in DOMAIN r
      PROVE  i + 1 \in DOMAIN q /\ r[i] = q[i + 1] /\ h < r[i] /\ r[i] \in Int
  <2>1. i \in 1 .. Len(r) /\ i + 1 \in 1 .. Len(q) /\ 1 < i + 1
    BY <1>1, <1>2, SMTT(30)
  <2>2. r[i] = q[i + 1] /\ q[1] < q[i + 1]
    BY <1>1, <1>2, <1>3, <2>1 DEF Increasing
  <2> QED
    BY <1>1, <1>2, <2>1, <2>2
<1>5. ASSUME NEW i \in DOMAIN q, q[i] # h
      PROVE  i - 1 \in DOMAIN r /\ r[i - 1] = q[i]
  <2>1. i \in 1 .. Len(q) /\ i # 1
    BY <1>1, <1>2, <1>5
  <2>2. i - 1 \in 1 .. Len(r) /\ (i - 1) + 1 = i
    BY <1>1, <1>2, <2>1, SMTT(30)
  <2> QED
    BY <1>1, <1>2, <2>2
<1>6. h \in Int
  BY <1>1, <1>2, <1>3
<1>7. Elements(r) = Elements(q) \ {h}
  <2>1. ASSUME NEW e \in Elements(r) PROVE e \in Elements(q) \ {h}
    <3>1. PICK i \in DOMAIN r : e = r[i]
      BY DEF Elements
    <3> QED
      BY <1>4, <1>6, <3>1 DEF Elements
  <2>2. ASSUME NEW e \in Elements(q) \ {h} PROVE e \in Elements(r)
    <3>1. PICK i \in DOMAIN q : e = q[i]
      BY DEF Elements
    <3> QED
      BY <1>5, <3>1 DEF Elements
  <2> QED
    BY <2>1, <2>2
<1>8. Increasing(r)
  <2>1. SUFFICES ASSUME NEW i \in DOMAIN r, NEW j \in DOMAIN r, i < j
                 PROVE  r[i] < r[j]
    BY DEF Increasing
  <2>2. i \in Int /\ j \in Int
    BY <1>2
  <2>3. i + 1 < j + 1 /\ i + 1 \in DOMAIN q /\ j + 1 \in DOMAIN q
    BY <1>4, <2>1, <2>2
  <2> QED
    BY <1>4, <2>3 DEF Increasing
<1>9. \A e \in Elements(r) : h < e
  BY <1>4 DEF Elements
<1> QED
  BY <1>1, <1>3, <1>7, <1>8, <1>9 DEF r, h

LEMMA QueueAppend ==
  ASSUME NEW q \in Seq(Int), Increasing(q), NEW k \in Int, \A e \in Elements(q) : e < k
  PROVE  /\ Append(q, k) \in Seq(Int) /\ Increasing(Append(q, k))
         /\ Elements(Append(q, k)) = Elements(q) \cup {k}
<1> DEFINE r == Append(q, k)
<1>1. /\ Len(r) = Len(q) + 1 /\ r \in Seq(Int)
      /\ \A i \in 1 .. Len(q) : r[i] = q[i]
      /\ r[Len(q) + 1] = k
  BY AppendProperties
<1>2. DOMAIN q = 1 .. Len(q) /\ DOMAIN r = 1 .. Len(q) + 1 /\ Len(q) \in Nat
  BY <1>1, LenProperties
<1> HIDE DEF r
<1>3. /\ \A i : i \in DOMAIN r <=> i \in DOMAIN q \/ i = Len(q) + 1
      /\ \A i \in DOMAIN q : i < Len(q) + 1 /\ i \in Int
  BY <1>2
<1>4. /\ \A i \in DOMAIN q : r[i] = q[i] /\ q[i] \in Elements(q)
      /\ r[Len(q) + 1] = k
  BY <1>1, <1>2 DEF Elements
<1>5. Elements(r) = Elements(q) \cup {k}
  BY <1>3, <1>4 DEF Elements
<1>6. Increasing(r)
  <2>1. SUFFICES ASSUME NEW i \in DOMAIN r, NEW j \in DOMAIN r, i < j
                 PROVE  r[i] < r[j]
    BY DEF Increasing
  <2>2. i \in DOMAIN q
    BY <1>2, <1>3, <2>1
  <2>3. CASE j \in DOMAIN q
    BY <1>4, <2>1, <2>2, <2>3 DEF Increasing
  <2>4. CASE j = Len(q) + 1
    BY <1>4, <2>2, <2>4
  <2> QED
    BY <1>3, <2>3, <2>4
<1> QED
  BY <1>1, <1>5, <1>6 DEF r

-----------------------------------------------------------------------------
(* The monitor.                                                             *)

Entry == [topic : Topics, sample : C!Instants]
Waiting == Elements(inbox)
Measured(t) == C!Samples(t) \ Waiting

Typed ==
  /\ log \in Seq(Entry) /\ position \in 1 .. Len(log) + 1
  /\ inbox \in Seq(Int) /\ DOMAIN tally = Known /\ gaps \in Nat

\* What waits was delivered after all that is measured, and in its order.
InTurn ==
  /\ Increasing(inbox)
  /\ \A k \in Waiting : k \in C!Delivered /\ log[k].topic \in C!Subscribed
  /\ \A k \in C!Delivered \ Waiting :
       log[k].topic \in C!Subscribed => \A w \in Waiting : k < w

Tallied ==
  /\ \A t \in C!Subscribed : Describes(tally[t], Measured(t))
  /\ \A t \in Known \ C!Subscribed : tally[t] = C!NoSamples
  /\ gaps = Cardinality(C!Gaps \ Waiting)

Finished == player = "done" => shutdown \/ position = Len(log) + 1

Reported ==
  report # <<>> =>
    /\ player = "done" /\ inbox = <<>>
    /\ report[1] = [rows |-> [t \in Known |-> C!Columns(tally[t])], gaps |-> gaps]

CInv == Typed /\ InTurn /\ Tallied /\ Finished /\ Reported

LEMMA Places ==
  ASSUME Typed
  PROVE  /\ position \in Nat /\ Len(log) \in Nat /\ position <= Len(log) + 1
         /\ C!Delivered \subseteq DOMAIN log /\ C!Delivered \subseteq Int
         /\ position \notin C!Delivered /\ \A k \in C!Delivered : k < position
         /\ IsFiniteSet(C!Delivered)
         /\ \A i \in DOMAIN log : log[i] \in Entry /\ C!Instant(i) \in Int
         /\ \A t : C!Samples(t) \subseteq C!Delivered
         /\ C!Gaps \subseteq C!Delivered
<1>1. /\ position \in Nat /\ Len(log) \in Nat /\ DOMAIN log = 1 .. Len(log)
      /\ position <= Len(log) + 1 /\ position >= 1
  BY LenProperties DEF Typed
<1>2. C!Delivered = 1 .. position - 1 /\ position - 1 \in Int
  BY <1>1 DEF C!Delivered
<1>3. IsFiniteSet(C!Delivered)
  BY <1>2, FS_Interval
<1>4. \A i \in DOMAIN log : log[i] \in Entry
  BY LenProperties DEF Typed
<1>5. \A i \in DOMAIN log : C!Instant(i) \in Int
  <2>1. \A x \in C!Instants : x.at \in Int
    <3>1. \A x \in [gap : {FALSE}, at : Stamps] : x.at \in Int
      BY RecordingAssumption
    <3>2. \A x \in {[gap |-> TRUE, at |-> 0]} : x.at \in Int
      OBVIOUS
    <3> QED
      BY <3>1, <3>2 DEF C!Instants
  <2>2. \A i \in DOMAIN log : log[i].sample \in C!Instants
    BY <1>4 DEF Entry
  <2> QED
    BY <2>1, <2>2 DEF C!Instant
<1>6. \A k \in C!Delivered : k < position /\ k \in DOMAIN log /\ k \in Int
  BY <1>1, <1>2
<1>7. position \notin C!Delivered
  BY <1>1, <1>2
<1> QED
  BY <1>1, <1>3, <1>4, <1>5, <1>6, <1>7 DEF C!Samples, C!Gaps

LEMMA DescribesKept ==
  ASSUME log' = log, NEW s, NEW S, Describes(s, S), NEW t, tally'[t] = s, Measured(t)' = S
  PROVE  Describes(tally[t], Measured(t))'
<1>1. \A i : C!Instant(i)' = C!Instant(i)
  BY DEF C!Instant
<1>2. \A T : C!Forward(T)' = C!Forward(T)
  BY <1>1 DEF C!Forward, C!Intervals
<1> QED
  BY <1>1, <1>2 DEF Describes

LEMMA SamplesKept ==
  ASSUME Typed, Tallied, log' = log, UNCHANGED <<tally, gaps>>, NEW S, S = Waiting',
         \A t \in C!Subscribed : (C!Samples(t) \ Waiting)' = C!Samples(t) \ Waiting,
         (C!Gaps \ Waiting)' = C!Gaps \ Waiting
  PROVE  Tallied'
<1>0. C!Subscribed' = C!Subscribed /\ C!NoSamples' = C!NoSamples
  BY DEF C!Subscribed, C!Extractors, C!NoSamples
<1>1. ASSUME NEW t \in C!Subscribed PROVE Describes(tally[t], Measured(t))'
  <2>1. Describes(tally[t], Measured(t)) /\ tally'[t] = tally[t] /\ Measured(t)' = Measured(t)
    BY DEF Tallied, Measured
  <2> QED
    BY <2>1, DescribesKept
<1> QED
  BY <1>0, <1>1 DEF Tallied

LEMMA CadenceInit == C!Init => CInv
<1> SUFFICES ASSUME C!Init PROVE CInv
  OBVIOUS
<1>1. PICK n \in 0 .. MaxRecords : log \in [1 .. n -> [topic : Topics, sample : C!Instants]]
  BY DEF C!Init
<1>2. n \in Nat
  BY RecordingAssumption
<1>3. log \in Seq(Entry) /\ Len(log) = n
  <2>1. log \in [1 .. n -> Entry]
    BY <1>1 DEF Entry
  <2> HIDE DEF Entry
  <2>2. log \in Seq(Entry)
    BY <1>2, <2>1
  <2> QED
    BY <1>2, <2>1, <2>2, LenProperties
<1>4. position = 1 /\ inbox = <<>> /\ report = <<>> /\ player = "ticked" /\ gaps = 0
  BY DEF C!Init
<1>5. tally = [t \in Known |-> C!NoSamples]
  BY DEF C!Init
<1>6. Waiting = {} /\ C!Delivered = {}
  BY <1>4 DEF Waiting, Elements, C!Delivered
<1>7. Typed
  BY <1>2, <1>3, <1>4, <1>5 DEF Typed
<1>8. InTurn
  BY <1>4, <1>6 DEF InTurn, Increasing
<1>9. Tallied
  <2>1. \A t : Measured(t) = {}
    BY <1>6 DEF Measured, C!Samples
  <2>2. C!Gaps \ Waiting = {} /\ Cardinality({}) = 0
    BY <1>6, FS_EmptySet DEF C!Gaps
  <2>3. \A t \in Known : tally[t] = C!NoSamples
    BY <1>5
  <2>4. C!Subscribed \subseteq Known
    BY DEF C!Subscribed
  <2> QED
    BY <1>4, <2>1, <2>2, <2>3, <2>4, NoSamplesDescribe DEF Tallied
<1> QED
  BY <1>4, <1>7, <1>8, <1>9 DEF CInv, Finished, Reported

LEMMA PlayKeeps ==
  ASSUME CInv, C!Play
  PROVE  CInv'
<1> DEFINE p == position
<1>0. C!Subscribed' = C!Subscribed /\ C!NoSamples' = C!NoSamples
  BY DEF C!Subscribed, C!Extractors, C!NoSamples
<1>1. Typed /\ InTurn /\ Tallied /\ Finished /\ Reported
  BY DEF CInv
<1>2. /\ player = "ticked" /\ position <= Len(log) /\ position' = position + 1
      /\ log' = log /\ shutdown' = shutdown /\ tally' = tally /\ gaps' = gaps /\ report' = report
      /\ player' = IF position = Len(log) THEN "done" ELSE "ticked"
      /\ inbox' = IF log[position].topic \in C!Subscribed THEN Append(inbox, position) ELSE inbox
  BY DEF C!Play
<1>3. position \in Nat /\ Len(log) \in Nat /\ position >= 1
  BY <1>1, Places DEF Typed
<1>4. C!Delivered' = C!Delivered \cup {p} /\ p \notin C!Delivered /\ \A k \in C!Delivered : k < p
  <2>1. position' - 1 = position
    BY <1>2, <1>3
  <2> QED
    BY <1>3, <2>1 DEF C!Delivered
<1>5. p \notin Waiting /\ \A k \in Waiting : k < p
  BY <1>1, <1>4 DEF InTurn
<1>6. /\ Waiting' = IF log[p].topic \in C!Subscribed THEN Waiting \cup {p} ELSE Waiting
      /\ inbox' \in Seq(Int) /\ Increasing(inbox')
  <2>1. inbox \in Seq(Int) /\ Increasing(inbox) /\ p \in Int
    BY <1>1, <1>3 DEF Typed, InTurn
  <2>2. \A k \in Elements(inbox) : k < p
    BY <1>5 DEF Waiting
  <2>3. /\ Append(inbox, p) \in Seq(Int) /\ Increasing(Append(inbox, p))
        /\ Elements(Append(inbox, p)) = Elements(inbox) \cup {p}
    BY <2>1, <2>2, QueueAppend
  <2>4. Waiting' = Elements(inbox')
    BY DEF Waiting, Elements
  <2> QED
    BY <1>2, <2>1, <2>3, <2>4 DEF Waiting
<1> HIDE DEF p
<1>7. Typed'
  <2>1. position' \in 1 .. Len(log) + 1
    BY <1>2, <1>3
  <2> QED
    BY <1>1, <1>2, <1>6, <2>1 DEF Typed
<1>8. InTurn'
  <2>1. \A k \in Waiting' : k \in C!Delivered' /\ log[k].topic \in C!Subscribed
    BY <1>1, <1>4, <1>6 DEF InTurn
  <2>2. ASSUME NEW k \in (C!Delivered \ Waiting)', log[k].topic \in C!Subscribed, NEW w \in Waiting'
        PROVE  k < w
    <3>1. k \in C!Delivered \ Waiting
      BY <1>4, <1>6, <2>2
    <3>2. CASE w \in Waiting
      BY <1>1, <2>2, <3>1, <3>2 DEF InTurn
    <3>3. CASE w = p
      BY <1>4, <3>1, <3>3
    <3> QED
      BY <1>6, <3>2, <3>3
  <2> QED
    BY <1>0, <1>2, <1>6, <2>1, <2>2 DEF InTurn
<1>9. Tallied'
  <2>1. \A t : C!Samples(t)' = C!Samples(t) \cup
                 {i \in {p} : log[i].topic = t /\ ~log[i].sample.gap}
    BY <1>2, <1>4 DEF C!Samples
  <2>2. C!Gaps' = C!Gaps \cup {i \in {p} : log[i].topic \in C!Subscribed /\ log[i].sample.gap}
    BY <1>0, <1>2, <1>4 DEF C!Gaps
  <2>3. \A t : p \notin C!Samples(t)
    BY <1>4 DEF C!Samples
  <2>4. p \notin C!Gaps
    BY <1>4 DEF C!Gaps
  <2>5. \A t \in C!Subscribed : Measured(t)' = Measured(t)
    BY <1>5, <1>6, <2>1, <2>3 DEF Measured
  <2>6. (C!Gaps \ Waiting)' = C!Gaps \ Waiting
    BY <1>5, <1>6, <2>2, <2>4
  <2> QED
    BY <1>1, <1>2, <2>5, <2>6, SamplesKept DEF Measured
<1>10. Finished'
  BY <1>2, <1>3 DEF Finished
<1>11. Reported'
  BY <1>1, <1>2 DEF Reported
<1> QED
  BY <1>7, <1>8, <1>9, <1>10, <1>11 DEF CInv

LEMMA MeasureKeeps ==
  ASSUME CInv, C!Measure
  PROVE  CInv'
<1> DEFINE k == Head(inbox)
           r == log[k]
<1>0. C!Subscribed' = C!Subscribed /\ C!NoSamples' = C!NoSamples
  BY DEF C!Subscribed, C!Extractors, C!NoSamples
<1>1. Typed /\ InTurn /\ Tallied /\ Finished /\ Reported
  BY DEF CInv
<1>2. /\ inbox # <<>> /\ inbox' = Tail(inbox)
      /\ log' = log /\ position' = position /\ player' = player /\ shutdown' = shutdown
      /\ report' = report
  BY DEF C!Measure
<1>3. /\ r.sample.gap => gaps' = gaps + 1 /\ tally' = tally
      /\ ~r.sample.gap =>
           tally' = [tally EXCEPT ![r.topic] = C!Observed(@, r.sample.at)] /\ gaps' = gaps
  BY DEF C!Measure
<1> HIDE DEF k, r
<1>4. /\ inbox' \in Seq(Int) /\ Increasing(inbox') /\ k \in Waiting
      /\ Waiting' = Waiting \ {k} /\ \A w \in Waiting' : k < w
  <2>1. inbox \in Seq(Int) /\ Increasing(inbox)
    BY <1>1 DEF Typed, InTurn
  <2>2. /\ Tail(inbox) \in Seq(Int) /\ Increasing(Tail(inbox)) /\ Head(inbox) \in Elements(inbox)
        /\ Elements(Tail(inbox)) = Elements(inbox) \ {Head(inbox)}
        /\ \A e \in Elements(Tail(inbox)) : Head(inbox) < e
    BY <1>2, <2>1, QueueTail
  <2>3. Waiting' = Elements(Tail(inbox))
    BY <1>2 DEF Waiting, Elements
  <2> QED
    BY <1>2, <2>2, <2>3 DEF Waiting, k
<1>5. k \in C!Delivered /\ r.topic \in C!Subscribed /\ k \in DOMAIN log /\ k \in Int
  BY <1>1, <1>4, Places DEF InTurn, r
<1>6. C!Delivered' = C!Delivered
  BY <1>2 DEF C!Delivered
<1>7. (\A t : C!Samples(t)' = C!Samples(t)) /\ C!Gaps' = C!Gaps
  BY <1>0, <1>2, <1>6 DEF C!Samples, C!Gaps
<1>8. Typed'
  BY <1>1, <1>2, <1>3, <1>4 DEF Typed
<1>9. InTurn'
  <2>1. \A i \in Waiting' : i \in C!Delivered /\ log[i].topic \in C!Subscribed
    BY <1>1, <1>4 DEF InTurn
  <2>2. ASSUME NEW i \in C!Delivered \ Waiting', log[i].topic \in C!Subscribed, NEW w \in Waiting'
        PROVE  i < w
    <3>1. CASE i = k
      BY <1>4, <3>1
    <3>2. CASE i # k
      <4>1. i \in C!Delivered \ Waiting /\ w \in Waiting
        BY <1>4, <2>2, <3>2
      <4> QED
        BY <1>1, <2>2, <4>1 DEF InTurn
    <3> QED
      BY <3>1, <3>2
  <2> QED
    BY <1>0, <1>2, <1>4, <1>6, <2>1, <2>2 DEF InTurn
<1>10. Tallied'
  <2>1. \A t : k \in C!Samples(t) <=> t = r.topic /\ ~r.sample.gap
    BY <1>5 DEF C!Samples, r
  <2>2. k \in C!Gaps <=> r.sample.gap
    BY <1>5 DEF C!Gaps, r
  <2>3. CASE r.sample.gap
    <3>1. \A t \in C!Subscribed : (C!Samples(t) \ Waiting)' = C!Samples(t) \ Waiting
      BY <1>4, <1>7, <2>1, <2>3
    <3>2. (C!Gaps \ Waiting)' = (C!Gaps \ Waiting) \cup {k} /\ k \notin C!Gaps \ Waiting
      BY <1>4, <1>7, <2>2, <2>3
    <3>3. IsFiniteSet(C!Gaps \ Waiting)
      BY <1>1, Places, FS_Subset
    <3>4. Cardinality((C!Gaps \ Waiting) \cup {k}) = Cardinality(C!Gaps \ Waiting) + 1
      BY <3>2, <3>3, FS_AddElement
    <3>5. gaps' = Cardinality((C!Gaps \ Waiting)')
      BY <1>1, <1>3, <2>3, <3>2, <3>4 DEF Tallied
    <3>6. ASSUME NEW t \in C!Subscribed PROVE Describes(tally[t], Measured(t))'
      <4>1. Describes(tally[t], Measured(t)) /\ tally'[t] = tally[t] /\ Measured(t)' = Measured(t)
        BY <1>1, <1>3, <2>3, <3>1 DEF Tallied, Measured
      <4> QED
        BY <1>2, <4>1, DescribesKept
    <3> QED
      BY <1>0, <1>1, <1>3, <2>3, <3>5, <3>6 DEF Tallied
  <2>4. CASE ~r.sample.gap
    <3>1. (C!Gaps \ Waiting)' = C!Gaps \ Waiting /\ gaps' = gaps
      BY <1>3, <1>4, <1>7, <2>2, <2>4
    <3>2. /\ C!Subscribed \subseteq Known /\ DOMAIN tally = Known
          /\ tally' = [tally EXCEPT ![r.topic] = C!Observed(tally[r.topic], r.sample.at)]
      BY <1>1, <1>3, <2>4 DEF C!Subscribed, Typed
    <3>3. tally'[r.topic] = C!Observed(tally[r.topic], C!Instant(k))
      BY <1>5, <3>2 DEF C!Instant, r
    <3>4. \A t \in Known : t # r.topic => tally'[t] = tally[t]
      BY <3>2
    <3>5. ASSUME NEW t \in C!Subscribed PROVE Describes(tally[t], Measured(t))'
      <4>0. Describes(tally[t], Measured(t))
        BY <1>1 DEF Tallied
      <4>1. CASE t # r.topic
        <5>1. tally'[t] = tally[t] /\ Measured(t)' = Measured(t)
          BY <1>4, <1>7, <2>1, <3>2, <3>4, <4>1 DEF Measured
        <5> QED
          BY <1>2, <4>0, <5>1, DescribesKept
      <4>2. CASE t = r.topic
        <5>1. Measured(t)' = Measured(t) \cup {k}
          BY <1>4, <1>7, <2>1, <2>4, <4>2 DEF Measured
        <5>2. Measured(t) \in SUBSET Int /\ IsFiniteSet(Measured(t))
          BY <1>1, Places, FS_Subset DEF Measured
        <5>3. Before(Measured(t), k)
          <6>1. \A i \in Measured(t) : i \in C!Delivered \ Waiting /\ log[i].topic = t
            BY DEF Measured, C!Samples
          <6> QED
            BY <1>1, <1>4, <6>1 DEF InTurn, Before
        <5>4. \A i \in Measured(t) \cup {k} : C!Instant(i) \in Int
          BY <1>1, <1>5, Places DEF Measured
        <5>5. Describes(C!Observed(tally[t], C!Instant(k)), Measured(t) \cup {k})
          BY <1>5, <4>0, <5>2, <5>3, <5>4, ObservedSample
        <5> QED
          BY <1>2, <3>3, <4>2, <5>1, <5>5, DescribesKept
      <4> QED
        BY <4>1, <4>2
    <3>6. \A t \in Known \ C!Subscribed : tally'[t] = C!NoSamples
      BY <1>1, <1>5, <3>4 DEF Tallied
    <3>7. gaps' = Cardinality((C!Gaps \ Waiting)')
      BY <1>1, <3>1 DEF Tallied
    <3> QED
      BY <1>0, <3>5, <3>6, <3>7 DEF Tallied
  <2> QED
    BY <2>3, <2>4
<1>11. Finished'
  BY <1>1, <1>2 DEF Finished
<1>12. Reported'
  BY <1>1, <1>2 DEF Reported
<1> QED
  BY <1>8, <1>9, <1>10, <1>11, <1>12 DEF CInv

LEMMA QuietKeeps ==
  ASSUME CInv, log' = log, position' = position, inbox' = inbox, tally' = tally, gaps' = gaps
  PROVE  Typed' /\ InTurn' /\ Tallied'
<1>0. C!Subscribed' = C!Subscribed /\ C!NoSamples' = C!NoSamples
  BY DEF C!Subscribed, C!Extractors, C!NoSamples
<1>1. Typed /\ InTurn /\ Tallied
  BY DEF CInv
<1>2. C!Delivered' = C!Delivered /\ Waiting' = Waiting /\ Elements(inbox)' = Elements(inbox)
  BY DEF C!Delivered, Waiting, Elements
<1>3. (\A t : C!Samples(t)' = C!Samples(t)) /\ C!Gaps' = C!Gaps
  BY <1>0, <1>2 DEF C!Samples, C!Gaps
<1>4. Typed'
  BY <1>1 DEF Typed
<1>5. InTurn'
  BY <1>0, <1>1, <1>2 DEF InTurn, Increasing
<1>6. Tallied'
  BY <1>1, <1>2, <1>3, SamplesKept
<1> QED
  BY <1>4, <1>5, <1>6

LEMMA CadenceNext == CInv /\ [C!Next]_(C!vars) => CInv'
<1> SUFFICES ASSUME CInv, [C!Next]_(C!vars) PROVE CInv'
  OBVIOUS
<1>0. Typed /\ InTurn /\ Tallied /\ Finished /\ Reported
  BY DEF CInv
<1>1. CASE C!Stop
  <2>1. /\ log' = log /\ position' = position /\ inbox' = inbox /\ tally' = tally /\ gaps' = gaps
        /\ shutdown' = shutdown /\ report' = report /\ player = "ticked" /\ player' = "done"
        /\ shutdown \/ position > Len(log)
    BY <1>1 DEF C!Stop
  <2>2. Finished'
    <3>1. position \in Nat /\ Len(log) \in Nat /\ position <= Len(log) + 1
      BY <1>0, Places
    <3> QED
      BY <2>1, <3>1 DEF Finished
  <2>3. Reported'
    BY <1>0, <2>1 DEF Reported
  <2> QED
    BY <2>1, <2>2, <2>3, QuietKeeps DEF CInv
<1>2. CASE C!Play
  BY <1>2, PlayKeeps
<1>3. CASE C!Shutdown
  <2>1. /\ log' = log /\ position' = position /\ inbox' = inbox /\ tally' = tally /\ gaps' = gaps
        /\ shutdown' /\ report' = report /\ report = <<>> /\ player' = player
    BY <1>3 DEF C!Shutdown
  <2>2. Finished' /\ Reported'
    BY <2>1 DEF Finished, Reported
  <2> QED
    BY <2>1, <2>2, QuietKeeps DEF CInv
<1>4. CASE C!Measure
  BY <1>4, MeasureKeeps
<1>5. CASE C!Report
  <2>1. /\ log' = log /\ position' = position /\ inbox' = inbox /\ tally' = tally /\ gaps' = gaps
        /\ shutdown' = shutdown /\ player' = player /\ player = "done" /\ inbox = <<>>
        /\ report' = <<[rows |-> [t \in Known |-> C!Columns(tally[t])], gaps |-> gaps]>>
    BY <1>5 DEF C!Report
  <2>2. Finished'
    BY <1>0, <2>1 DEF Finished
  <2>3. Reported'
    BY <2>1 DEF Reported, C!Columns, C!Rate, C!NoRate, C!Shortest
  <2> QED
    BY <2>1, <2>2, <2>3, QuietKeeps DEF CInv
<1>6. CASE UNCHANGED C!vars
  <2>1. /\ log' = log /\ position' = position /\ inbox' = inbox /\ tally' = tally /\ gaps' = gaps
        /\ shutdown' = shutdown /\ player' = player /\ report' = report
    BY <1>6 DEF C!vars
  <2>2. Finished' /\ Reported'
    BY <1>0, <2>1 DEF Finished, Reported, C!Columns, C!Rate, C!NoRate, C!Shortest
  <2> QED
    BY <2>1, <2>2, QuietKeeps DEF CInv
<1> QED
  BY <1>1, <1>2, <1>3, <1>4, <1>5, <1>6 DEF C!Next

\* The part counts as this module does.
LEMMA SameCount == \A X : C!Cardinality(X) = Cardinality(X)
BY DEF C!Cardinality, Cardinality

LEMMA ReportFollows == CInv => ReportMatchesRecording
<1> SUFFICES ASSUME CInv, report # <<>> PROVE C!ReportMatchesRecording
  BY DEF ReportMatchesRecording, C!ReportMatchesRecording
<1>1. Typed /\ InTurn /\ Tallied /\ Finished /\ Reported
  BY DEF CInv
<1>2. player = "done" /\ inbox = <<>> /\ Waiting = {}
  BY <1>1 DEF Reported, Waiting, Elements
<1>3. report[1] = [rows |-> [t \in Known |-> C!Columns(tally[t])], gaps |-> gaps]
  BY <1>1 DEF Reported
<1>4. ~shutdown => position = Len(log) + 1
  BY <1>1, <1>2 DEF Finished
<1>5. report[1].gaps = Cardinality(C!Gaps)
  <2>1. C!Gaps \ Waiting = C!Gaps /\ gaps = Cardinality(C!Gaps \ Waiting)
    BY <1>1, <1>2 DEF Tallied
  <2>2. report[1].gaps = gaps
    BY <1>3
  <2> HIDE DEF C!Gaps, Waiting
  <2> QED
    BY <2>1, <2>2
<1>6. ASSUME NEW t \in Known, NEW S, S = IF t \in C!Subscribed THEN C!Samples(t) ELSE {}
      PROVE  LET row == report[1].rows[t]
                 f   == C!Forward(S)
             IN  /\ row.samples = Cardinality(S)
                 /\ f = {} => row.longest = 0
                 /\ f # {} => /\ row.shortest \in f /\ \A i \in f : row.shortest <= i
                              /\ row.longest \in f /\ \A i \in f : i <= row.longest
                 /\ S = {} => row.rate = C!NoRate
                 /\ \A i, j \in S :
                      (\A k \in S : i <= k /\ k <= j) =>
                        row.rate = IF C!Instant(i) < C!Instant(j)
                                     THEN <<Cardinality(S) - 1, C!Instant(j) - C!Instant(i)>>
                                     ELSE C!NoRate
  <2> DEFINE s == tally[t]
             row == report[1].rows[t]
             f == C!Forward(S)
  <2>1. row = C!Columns(s)
    BY <1>3
  <2>2. Describes(s, S)
    <3>1. CASE t \in C!Subscribed
      BY <1>1, <1>2, <1>6, <3>1 DEF Tallied, Measured
    <3>2. CASE t \notin C!Subscribed
      BY <1>1, <1>6, <3>2, NoSamplesDescribe DEF Tallied
    <3> QED
      BY <3>1, <3>2
  <2>3. /\ row.samples = s.count /\ row.rate = C!Rate(s)
        /\ row.shortest = C!Shortest(s) /\ row.longest = s.longest
    BY <2>1 DEF C!Columns
  <2>s. S \subseteq Int
    BY <1>1, <1>6, Places
  <2> HIDE DEF s, row
  <2>4. s \in Statistics /\ s.count = Cardinality(S)
    BY <2>2 DEF Describes
  <2>5. f # {} => s.count > 1
    <3>1. ASSUME f # {} PROVE \E i, j \in S : i # j
      <4>1. PICK q \in C!Intervals(S) : TRUE
        BY <3>1 DEF C!Forward
      <4>2. q[1] \in S /\ q[2] \in S /\ q[1] < q[2]
        BY DEF C!Intervals
      <4>3. \A i \in S : ~(i < i)
        BY <2>s
      <4>4. PICK i \in S, j \in S : i = q[1] /\ j = q[2] /\ i < j
        BY <4>2
      <4>5. i # j
        BY <4>3, <4>4
      <4> QED
        BY <4>5
    <3> QED
      BY <2>2, <3>1 DEF Describes
  <2>6. f = {} => row.longest = 0
    BY <2>2, <2>3 DEF Describes
  <2>7. f # {} => /\ row.shortest \in f /\ \A i \in f : row.shortest <= i
                  /\ row.longest \in f /\ \A i \in f : i <= row.longest
    BY <2>2, <2>3, <2>5 DEF Describes, C!Shortest
  <2>8. S = {} => row.rate = C!NoRate
    BY <2>2, <2>3 DEF Describes, C!Rate, C!NoSamples
  <2>9. ASSUME NEW i \in S, NEW j \in S, \A k \in S : i <= k /\ k <= j
        PROVE  row.rate = IF C!Instant(i) < C!Instant(j)
                            THEN <<Cardinality(S) - 1, C!Instant(j) - C!Instant(i)>>
                                     ELSE C!NoRate
    <3>1. s.first = C!Instant(i) /\ s.last = C!Instant(j)
      BY <2>2, <2>9 DEF Describes
    <3>2. s.count > 1 \/ i = j
      BY <2>2 DEF Describes
    <3>3. s.first \in Int /\ s.last \in Int
      BY <2>4 DEF Statistics
    <3>4. C!Rate(s) = IF s.first < s.last THEN <<s.count - 1, s.last - s.first>> ELSE C!NoRate
      <4>1. s.last > s.first <=> s.first < s.last
        BY <3>3
      <4>2. s.first < s.last => s.count > 1
        BY <3>1, <3>2, <3>3
      <4> QED
        BY <4>1, <4>2 DEF C!Rate
    <3> QED
      BY <2>3, <2>4, <3>1, <3>4
  <2> QED
    BY <2>3, <2>4, <2>6, <2>7, <2>8, <2>9 DEF row
<1> QED
  BY <1>4, <1>5, <1>6, SameCount DEF C!ReportMatchesRecording

-----------------------------------------------------------------------------
(* The theorems.                                                           *)

\* The part that was chosen moves, the others stand still.
LEMMA Parts ==
  ASSUME [MCNext]_<<vars, part, recorded, replayed>>
  PROVE  [Next]_vars /\ [D!Next]_(D!vars) /\ [C!Next]_(C!vars)
BY DEF MCNext, vars, recorded, replayed, D!vars, C!vars

\* A run that replays a recording and adds no layer accepts every config the
\* recorded run had and gives each field the same value, for every layer the
\* recorded run and those before it were assembled from, every schema, and
\* wherever earlier launches failed or were killed (configOverlay.cpp:57, 79).
THEOREM ReplayIsFaithful == MCSpec => []ReplayFaithful
<1>1. MCInit => OInv
  BY OverlayInit DEF MCInit
<1>2. OInv /\ [MCNext]_<<vars, part, recorded, replayed>> => OInv'
  BY OverlayNext, Parts
<1>3. OInv => ReplayFaithful
  BY ReplayFollows
<1> QED
  BY <1>1, <1>2, <1>3, PTL DEF MCSpec

\* Every field has the value of the last layer, of all the runs replayed one on
\* top of the other, that says anything about it, or its default, for any
\* number of runs and layers, files and assignments that set, revert, replace
\* and clash (configOverlay.cpp:62).
THEOREM LastWordCounts == MCSpec => []LastLayerWins
<1>1. MCInit => OInv /\ LInv
  BY OverlayInit, LineageInit DEF MCInit
<1>2. OInv /\ LInv /\ [MCNext]_<<vars, part, recorded, replayed>> => OInv' /\ LInv'
  BY OverlayNext, LineageNext, Parts
<1>3. OInv /\ LInv => LastLayerWins
  BY LayersFollow
<1> QED
  BY <1>1, <1>2, <1>3, PTL DEF MCSpec

\* Whatever write a run was killed at, a directory with a manifest has the
\* overlay to replay it by, and no routine is configured from two sections
\* (runContext.cpp:154).
THEOREM DirectoriesAreReplayable == MCSpec => []DirectoriesReplayable
<1>1. MCInit => OInv
  BY OverlayInit DEF MCInit
<1>2. OInv /\ [MCNext]_<<vars, part, recorded, replayed>> => OInv'
  BY OverlayNext, Parts
<1>3. OInv => DirectoriesReplayable
  BY DirectoriesFollow
<1> QED
  BY <1>1, <1>2, <1>3, PTL DEF MCSpec

\* Every record holds what its producer put in it, however the objects of the
\* payload were spread over the reservation and the heap, and however many
\* drafts are under way in the same roll (draft.cpp:19).
THEOREM FramesAreWhole == MCSpec => []FramesWhole
<1>1. MCInit => DInv
  BY DraftsInit DEF MCInit
<1>2. DInv /\ [MCNext]_<<vars, part, recorded, replayed>> => DInv'
  BY DraftsNext, Parts
<1>3. DInv => FramesWhole
  BY WholeFrames DEF FramesWhole
<1> QED
  BY <1>1, <1>2, <1>3, PTL DEF MCSpec

\* A draft as large as any published before stays in its reservation
\* (publisher.hpp:62).
THEOREM SteadyState == MCSpec => []SteadyStateFits
<1>1. MCInit => DInv
  BY DraftsInit DEF MCInit
<1>2. DInv /\ [MCNext]_<<vars, part, recorded, replayed>> => DInv'
  BY DraftsNext, Parts
<1>3. DInv => SteadyStateFits
  BY Settled DEF SteadyStateFits
<1> QED
  BY <1>1, <1>2, <1>3, PTL DEF MCSpec

\* The report is that of the recording, for every recording and registry, and
\* every order of deliveries, measurements and the shutdown
\* (cadenceMonitor.cpp:212).
THEOREM ReportIsTheRecordings == MCSpec => []ReportMatchesRecording
<1>1. MCInit => CInv
  BY CadenceInit DEF MCInit
<1>2. CInv /\ [MCNext]_<<vars, part, recorded, replayed>> => CInv'
  BY CadenceNext, Parts
<1>3. CInv => ReportMatchesRecording
  BY ReportFollows
<1> QED
  BY <1>1, <1>2, <1>3, PTL DEF MCSpec
=============================================================================
