---------------------------- MODULE ObjectsProofs ---------------------------
(***************************************************************************)
(* Every descriptor that a MmapRegion opened is held, and in the end       *)
(* closed, by exactly one region, and every mapping likewise, whichever    *)
(* system call fails and however regions are moved; and the exit action of *)
(* every RaiiToken runs once, through every chain of moves and             *)
(* assignments. A RigidTransform holds the pose its two frames are in,     *)
(* through every product, inverse and view of it, and so does its rotation *)
(* as Modified Rodrigues parameters. For any number of regions, files,     *)
(* descriptors and tokens, and for frames in any places of the lattice     *)
(* that Rotations is about.                                                *)
(***************************************************************************)
EXTENDS MCObjects, FiniteSetTheorems, WellFoundedInduction, TLAPS

\* The parts count as this module does.
LEMMA SameCount ==
  \A X : S!Cardinality(X) = Cardinality(X) /\ T!Cardinality(X) = Cardinality(X)
BY DEF S!Cardinality, T!Cardinality, Cardinality

-----------------------------------------------------------------------------
(* Mapped files.                                                           *)

Region == [stage : {"opened", "sized", "live"}, file : Files, access : {"read", "write"},
           fd : Descriptors \cup {-1}, bytes : Int]

FilesTyped ==
  /\ region \in [Regions -> Region \cup {S!Nothing}]
  /\ table \in [Descriptors -> Files \cup {S!Free}]
  /\ length \in [Files -> Int]
  /\ mappings \in [Files -> Int]

\* A region under construction has its descriptor; a finished one has a
\* descriptor and a mapping, or neither, after a move.
Whole(x) ==
  /\ x.stage # "live" => x.fd \in Descriptors
  /\ x.stage = "live" => (x.bytes > 0 <=> x.fd \in Descriptors)

Owned(d) ==
  IF table[d] = S!Free THEN S!Holders(d) = {}
  ELSE \E r \in Regions : S!Holders(d) = {r} /\ region[r].file = table[d]

DescriptorsOwned == \A d \in Descriptors : Owned(d)
MappingsCounted == \A f \in Files : mappings[f] = Cardinality(S!Mapped(f))

FilesOwned ==
  /\ FilesTyped
  /\ \A r \in Regions : region[r] # S!Nothing => Whole(region[r])
  /\ DescriptorsOwned
  /\ MappingsCounted

-----------------------------------------------------------------------------
(* Facts about one state.                                                  *)

\* The kernel's choice of the lowest free descriptor is a free descriptor.
LEMMA LowestIsMember ==
  ASSUME NEW X \in SUBSET Nat, X # {}
  PROVE  S!Lowest(X) \in X
<1>1. PICK x \in X : \A y \in X : ~ (<<y, x>> \in OpToRel(<, Nat))
  BY NatLessThanWellFounded, WFMin
<1>2. ASSUME NEW y \in X PROVE x <= y
  <2>1. ~ (y < x)
    BY <1>1 DEF OpToRel
  <2> QED BY <2>1
<1> QED BY <1>2 DEF S!Lowest

\* A region is under construction, finished, or not there.
LEMMA RegionShape ==
  /\ S!Nothing.stage = "none"
  /\ S!Nothing \notin Region
  /\ \A x \in Region : /\ x.stage \in {"opened", "sized", "live"}
                       /\ x.file \in Files
                       /\ x.fd \in Descriptors \cup {-1}
                       /\ x.bytes \in Int
<1>1. S!Nothing.stage = "none"
  BY DEF S!Nothing
<1>2. \A x \in Region : x.stage \in {"opened", "sized", "live"}
  BY DEF Region
<1>3. \A x \in Region : x.file \in Files /\ x.fd \in Descriptors \cup {-1} /\ x.bytes \in Int
  BY DEF Region
<1> QED BY <1>1, <1>2, <1>3

\* The descriptor of a region is open on the region's file, and no other
\* region has it.
LEMMA HolderAlone ==
  ASSUME FilesOwned, NEW r \in Regions, region[r] # S!Nothing, region[r].fd \in Descriptors
  PROVE  /\ table[region[r].fd] = region[r].file
         /\ table[region[r].fd] # S!Free
         /\ S!Holders(region[r].fd) = {r}
<1> DEFINE d == region[r].fd
<1>1. r \in S!Holders(d)
  BY DEF S!Holders
<1>2. Owned(d)
  BY DEF FilesOwned, DescriptorsOwned
<1> QED BY <1>1, <1>2 DEF Owned

\* Closed tells the descriptors from the mark of a moved-from region.
LEMMA DescriptorsAreNumbers ==
  ASSUME ObjectsAssumption
  PROVE  \A d \in Descriptors \cup {-1} : d >= 0 <=> d \in Descriptors
<1>1. ASSUME NEW d \in Descriptors PROVE d >= 0
  <2>1. d \in Nat
    BY DEF ObjectsAssumption
  <2> QED BY <2>1
<1>2. ~ (-1 >= 0)
  OBVIOUS
<1>3. -1 \notin Descriptors
  BY <1>1, <1>2
<1>4. ASSUME NEW d \in Descriptors \cup {-1} PROVE d >= 0 <=> d \in Descriptors
  <2>1. CASE d \in Descriptors
    BY <1>1, <2>1
  <2>2. CASE d = -1
    BY <1>2, <1>3, <2>2
  <2> QED BY <2>1, <2>2
<1> QED BY <1>4

\* Which regions are mapped on a file is counted.
LEMMA MappedFinite ==
  ASSUME ObjectsAssumption, NEW f
  PROVE  /\ IsFiniteSet(S!Mapped(f))
         /\ Cardinality(S!Mapped(f)) \in Int
<1>1. S!Mapped(f) \in SUBSET Regions
  BY DEF S!Mapped
<1>2. IsFiniteSet(S!Mapped(f))
  BY <1>1, FS_Subset DEF ObjectsAssumption
<1> QED BY <1>2, FS_CardinalityType

-----------------------------------------------------------------------------
(* The ways in which a step may change who holds what.                     *)

\* A constructor takes a free descriptor.
LEMMA TakesDescriptor ==
  ASSUME ObjectsAssumption, FilesOwned, NEW r \in Regions, NEW f \in Files,
         NEW access \in {"read", "write"}, NEW want \in Int, S!Opened(r, f, access, want)
  PROVE  /\ region' \in [Regions -> Region \cup {S!Nothing}]
         /\ table' \in [Descriptors -> Files \cup {S!Free}]
         /\ \A q \in Regions : region'[q] # S!Nothing => Whole(region'[q])
         /\ DescriptorsOwned'
         /\ \A g \in Files : S!Mapped(g)' = S!Mapped(g)
<1> DEFINE d == S!Lowest(S!FreeDescriptors)
           x == [stage |-> "opened", file |-> f, access |-> access, fd |-> d, bytes |-> want]
<1>1. /\ d \in Descriptors
      /\ table[d] = S!Free
  <2>1. S!FreeDescriptors \in SUBSET Nat
    BY DEF S!FreeDescriptors, ObjectsAssumption
  <2>2. d \in S!FreeDescriptors
    BY <2>1, LowestIsMember DEF S!Opened
  <2> QED BY <2>2 DEF S!FreeDescriptors
<1>2. /\ region[r] = S!Nothing
      /\ table' = [table EXCEPT ![d] = f]
      /\ region' = [region EXCEPT ![r] = x]
  BY DEF S!Opened
<1>3. /\ x \in Region
      /\ x # S!Nothing
      /\ x.fd = d
      /\ x.file = f
      /\ x.stage = "opened"
  BY <1>1, RegionShape DEF Region
<1> HIDE DEF x, d
<1>4. \A q \in Regions : region'[q] = IF q = r THEN x ELSE region[q]
  BY <1>2 DEF FilesOwned, FilesTyped
<1>5. \A e \in Descriptors : table'[e] = IF e = d THEN f ELSE table[e]
  BY <1>1, <1>2 DEF FilesOwned, FilesTyped
<1>6. /\ region' \in [Regions -> Region \cup {S!Nothing}]
      /\ table' \in [Descriptors -> Files \cup {S!Free}]
  BY <1>1, <1>2, <1>3 DEF FilesOwned, FilesTyped
<1>7. \A q \in Regions : region'[q] # S!Nothing => Whole(region'[q])
  BY <1>1, <1>3, <1>4 DEF FilesOwned, Whole
<1>8. ASSUME NEW e \in Descriptors PROVE Owned(e)'
  <2>1. S!Holders(e)' = IF e = d THEN S!Holders(e) \cup {r} ELSE S!Holders(e)
    BY <1>2, <1>3, <1>4 DEF S!Holders
  <2>2. Owned(e)
    BY DEF FilesOwned, DescriptorsOwned
  <2>3. CASE e = d
    <3>1. S!Holders(e)' = {r}
      BY <1>1, <2>1, <2>2, <2>3 DEF Owned
    <3>2. /\ table'[e] = f
          /\ f # S!Free
          /\ region'[r].file = f
      BY <1>3, <1>4, <1>5, <2>3 DEF ObjectsAssumption
    <3> QED BY <3>1, <3>2 DEF Owned
  <2>4. CASE e # d
    <3>1. /\ S!Holders(e)' = S!Holders(e)
          /\ table'[e] = table[e]
      BY <1>5, <2>1, <2>4
    <3>2. \A q \in S!Holders(e) : region'[q] = region[q]
      BY <1>2, <1>4 DEF S!Holders
    <3> QED BY <2>2, <3>1, <3>2 DEF Owned
  <2> QED BY <2>3, <2>4
<1>9. ASSUME NEW g \in Files PROVE S!Mapped(g)' = S!Mapped(g)
  BY <1>2, <1>3, <1>4, RegionShape DEF S!Mapped
<1> QED BY <1>6, <1>7, <1>8, <1>9 DEF DescriptorsOwned

\* A region goes and its descriptor, if it has one, is closed.
LEMMA ReleasesDescriptor ==
  ASSUME ObjectsAssumption, FilesOwned, NEW r \in Regions, region[r] # S!Nothing,
         region' = [region EXCEPT ![r] = S!Nothing], table' = S!Closed(region[r])
  PROVE  /\ region' \in [Regions -> Region \cup {S!Nothing}]
         /\ table' \in [Descriptors -> Files \cup {S!Free}]
         /\ \A q \in Regions : region'[q] # S!Nothing => Whole(region'[q])
         /\ DescriptorsOwned'
         /\ \A g \in Files : S!Mapped(g)' = S!Mapped(g) \ {r}
<1> DEFINE x == region[r]
<1>1. x \in Region
  BY DEF FilesOwned, FilesTyped
<1>2. \A q \in Regions : region'[q] = IF q = r THEN S!Nothing ELSE region[q]
  BY DEF FilesOwned, FilesTyped
<1>3. x.fd >= 0 <=> x.fd \in Descriptors
  BY <1>1, RegionShape, DescriptorsAreNumbers
<1>4. \A e \in Descriptors : table'[e] = IF e = x.fd THEN S!Free ELSE table[e]
  BY <1>3 DEF S!Closed, FilesOwned, FilesTyped
<1>5. /\ region' \in [Regions -> Region \cup {S!Nothing}]
      /\ table' \in [Descriptors -> Files \cup {S!Free}]
  BY <1>3 DEF S!Closed, FilesOwned, FilesTyped
<1>6. \A q \in Regions : region'[q] # S!Nothing => Whole(region'[q])
  BY <1>2 DEF FilesOwned
<1>7. ASSUME NEW e \in Descriptors PROVE Owned(e)'
  <2>1. S!Holders(e)' = S!Holders(e) \ {r}
    BY <1>2 DEF S!Holders
  <2>2. Owned(e)
    BY DEF FilesOwned, DescriptorsOwned
  <2>3. CASE e = x.fd
    <3>1. S!Holders(e) = {r}
      BY <2>3, HolderAlone
    <3> QED BY <1>4, <2>1, <2>3, <3>1 DEF Owned
  <2>4. CASE e # x.fd
    <3>1. /\ S!Holders(e)' = S!Holders(e)
          /\ r \notin S!Holders(e)
      BY <2>1, <2>4 DEF S!Holders
    <3>2. \A q \in Regions : q \in S!Holders(e) => region'[q] = region[q]
      BY <1>2, <3>1
    <3>3. table'[e] = table[e]
      BY <1>4, <2>4
    <3> QED BY <2>2, <3>1, <3>2, <3>3 DEF Owned
  <2> QED BY <2>3, <2>4
<1>8. ASSUME NEW g \in Files PROVE S!Mapped(g)' = S!Mapped(g) \ {r}
  BY <1>2, RegionShape DEF S!Mapped
<1> QED BY <1>5, <1>6, <1>7, <1>8 DEF DescriptorsOwned

\* A constructor gets on with a region it has opened: who holds what stays.
LEMMA KeepsDescriptor ==
  ASSUME ObjectsAssumption, FilesOwned, NEW r \in Regions, region[r] # S!Nothing,
         NEW x \in Region, Whole(x), x.fd = region[r].fd, x.file = region[r].file,
         region' = [region EXCEPT ![r] = x], table' = table
  PROVE  /\ region' \in [Regions -> Region \cup {S!Nothing}]
         /\ \A q \in Regions : region'[q] # S!Nothing => Whole(region'[q])
         /\ DescriptorsOwned'
<1>1. x # S!Nothing
  BY RegionShape
<1>2. \A q \in Regions : region'[q] = IF q = r THEN x ELSE region[q]
  BY DEF FilesOwned, FilesTyped
<1>3. region' \in [Regions -> Region \cup {S!Nothing}]
  BY DEF FilesOwned, FilesTyped
<1>4. \A q \in Regions : region'[q] # S!Nothing => Whole(region'[q])
  BY <1>2 DEF FilesOwned
<1>5. ASSUME NEW e \in Descriptors PROVE Owned(e)'
  <2>1. S!Holders(e)' = S!Holders(e)
    BY <1>1, <1>2 DEF S!Holders
  <2>2. \A q \in Regions : region'[q].file = region[q].file
    BY <1>2
  <2>3. Owned(e)
    BY DEF FilesOwned, DescriptorsOwned
  <2> QED BY <2>1, <2>2, <2>3 DEF Owned
<1> QED BY <1>3, <1>4, <1>5 DEF DescriptorsOwned

-----------------------------------------------------------------------------
(* The invariant, action by action.                                        *)

\* Nothing is open and nothing is held at first.
LEMMA InitOwned == ObjectsAssumption /\ S!Init => FilesOwned
<1> SUFFICES ASSUME ObjectsAssumption, S!Init PROVE FilesOwned
  OBVIOUS
<1>1. FilesTyped
  BY DEF S!Init, FilesTyped, S!Absent
<1>2. \A r \in Regions : region[r] = S!Nothing
  BY DEF S!Init
<1>3. DescriptorsOwned
  BY <1>2 DEF DescriptorsOwned, Owned, S!Holders, S!Init
<1>4. ASSUME NEW f \in Files PROVE mappings[f] = Cardinality(S!Mapped(f))
  <2>1. S!Mapped(f) = {}
    BY <1>2, RegionShape DEF S!Mapped
  <2> QED BY <2>1, FS_EmptySet DEF S!Init
<1> QED BY <1>1, <1>2, <1>3, <1>4 DEF FilesOwned, MappingsCounted

\* Opening takes a descriptor.
LEMMA OpenOwned ==
  ASSUME ObjectsAssumption, FilesOwned, NEW r \in Regions, NEW f \in Files,
         S!OpenForReading(r, f) \/ \E n \in Counts : S!OpenForWriting(r, f, n)
  PROVE  FilesOwned'
<1>1. CASE S!OpenForReading(r, f)
  <2>1. S!Opened(r, f, "read", 0) /\ UNCHANGED <<length, mappings>>
    BY <1>1 DEF S!OpenForReading
  <2>2. /\ region' \in [Regions -> Region \cup {S!Nothing}]
        /\ table' \in [Descriptors -> Files \cup {S!Free}]
        /\ \A q \in Regions : region'[q] # S!Nothing => Whole(region'[q])
        /\ DescriptorsOwned'
        /\ \A g \in Files : S!Mapped(g)' = S!Mapped(g)
    BY <2>1, TakesDescriptor
  <2> QED BY <2>1, <2>2 DEF FilesOwned, FilesTyped, MappingsCounted
<1>2. CASE \E n \in Counts : S!OpenForWriting(r, f, n)
  <2>1. PICK n \in Counts : S!OpenForWriting(r, f, n)
    BY <1>2
  <2>2. 2 * n \in Int
    BY DEF ObjectsAssumption
  <2>3. /\ S!Opened(r, f, "write", 2 * n)
        /\ length' = [length EXCEPT ![f] = 0]
        /\ UNCHANGED mappings
    BY <2>1 DEF S!OpenForWriting
  <2>4. /\ region' \in [Regions -> Region \cup {S!Nothing}]
        /\ table' \in [Descriptors -> Files \cup {S!Free}]
        /\ \A q \in Regions : region'[q] # S!Nothing => Whole(region'[q])
        /\ DescriptorsOwned'
        /\ \A g \in Files : S!Mapped(g)' = S!Mapped(g)
    BY <2>2, <2>3, TakesDescriptor
  <2> QED BY <2>3, <2>4 DEF FilesOwned, FilesTyped, MappingsCounted
<1> QED BY <1>1, <1>2

\* Abandon closes the descriptor of a region that is not mapped.
LEMMA AbandonOwned ==
  ASSUME ObjectsAssumption, FilesOwned, NEW r \in Regions, region[r].stage \in {"opened", "sized"},
         S!Abandon(r), length' = length, mappings' = mappings
  PROVE  FilesOwned'
<1>1. region[r] # S!Nothing
  BY RegionShape
<1>2. region[r].fd \in Descriptors
  BY <1>1, RegionShape DEF FilesOwned, Whole
<1>3. table' = S!Closed(region[r])
  <2>1. region[r].fd >= 0
    BY <1>2, DescriptorsAreNumbers
  <2> QED BY <2>1 DEF S!Abandon, S!Closed
<1>4. region' = [region EXCEPT ![r] = S!Nothing]
  BY DEF S!Abandon
<1>5. /\ region' \in [Regions -> Region \cup {S!Nothing}]
      /\ table' \in [Descriptors -> Files \cup {S!Free}]
      /\ \A q \in Regions : region'[q] # S!Nothing => Whole(region'[q])
      /\ DescriptorsOwned'
      /\ \A g \in Files : S!Mapped(g)' = S!Mapped(g) \ {r}
  BY <1>1, <1>3, <1>4, ReleasesDescriptor
<1>6. \A g \in Files : S!Mapped(g)' = S!Mapped(g)
  BY <1>5 DEF S!Mapped
<1> QED BY <1>5, <1>6 DEF FilesOwned, FilesTyped, MappingsCounted

\* SizeFile either goes on or abandons the region.
LEMMA SizeFileOwned ==
  ASSUME ObjectsAssumption, FilesOwned, NEW r \in Regions, S!SizeFile(r)
  PROVE  FilesOwned'
<1> DEFINE x == [region[r] EXCEPT !.stage = "sized"]
<1>1. /\ region[r].stage = "opened"
      /\ region[r] # S!Nothing
      /\ region[r] \in Region
      /\ mappings' = mappings
  BY RegionShape DEF S!SizeFile, FilesOwned, FilesTyped
<1>2. /\ region[r].fd \in Descriptors
      /\ length' \in [Files -> Int]
  BY <1>1, RegionShape DEF S!SizeFile, FilesOwned, FilesTyped, Whole, S!Abandon
<1>3. CASE /\ region' = [region EXCEPT ![r].stage = "sized"]
           /\ table' = table
  <2>1. /\ x \in Region
        /\ x.stage = "sized"
        /\ x.fd = region[r].fd
        /\ x.file = region[r].file
        /\ x.bytes = region[r].bytes
    BY <1>1 DEF Region
  <2>2. region' = [region EXCEPT ![r] = x]
    BY <1>3
  <2> HIDE DEF x
  <2>3. Whole(x)
    BY <1>2, <2>1 DEF Whole
  <2>4. /\ region' \in [Regions -> Region \cup {S!Nothing}]
        /\ \A q \in Regions : region'[q] # S!Nothing => Whole(region'[q])
        /\ DescriptorsOwned'
    BY <1>1, <1>3, <2>1, <2>2, <2>3, KeepsDescriptor
  <2>5. \A q \in Regions : region'[q] = IF q = r THEN x ELSE region[q]
    BY <2>2 DEF FilesOwned, FilesTyped
  <2>6. \A g \in Files : S!Mapped(g)' = S!Mapped(g)
    BY <1>1, <2>1, <2>5 DEF S!Mapped
  <2> QED BY <1>1, <1>2, <1>3, <2>4, <2>6 DEF FilesOwned, FilesTyped, MappingsCounted
<1>4. CASE S!Abandon(r) /\ length' = length
  BY <1>1, <1>4, AbandonOwned
<1> QED BY <1>3, <1>4 DEF S!SizeFile

\* StatFile likewise.
LEMMA StatFileOwned ==
  ASSUME ObjectsAssumption, FilesOwned, NEW r \in Regions, S!StatFile(r)
  PROVE  FilesOwned'
<1> DEFINE x == [region[r] EXCEPT !.stage = "sized", !.bytes = length[region[r].file]]
<1>1. /\ region[r].stage = "opened"
      /\ region[r] # S!Nothing
      /\ region[r] \in Region
      /\ mappings' = mappings
      /\ length' = length
  BY RegionShape DEF S!StatFile, FilesOwned, FilesTyped
<1>2. /\ region[r].fd \in Descriptors
      /\ length[region[r].file] \in Int
  BY <1>1, RegionShape DEF FilesOwned, FilesTyped, Whole
<1>3. CASE /\ region' = [region EXCEPT ![r].stage = "sized", ![r].bytes = length[region[r].file]]
           /\ table' = table
  <2>1. /\ x \in Region
        /\ x.stage = "sized"
        /\ x.fd = region[r].fd
        /\ x.file = region[r].file
    BY <1>1, <1>2 DEF Region
  <2>2. region' = [region EXCEPT ![r] = x]
    BY <1>3 DEF FilesOwned, FilesTyped
  <2> HIDE DEF x
  <2>3. Whole(x)
    BY <1>2, <2>1 DEF Whole
  <2>4. /\ region' \in [Regions -> Region \cup {S!Nothing}]
        /\ \A q \in Regions : region'[q] # S!Nothing => Whole(region'[q])
        /\ DescriptorsOwned'
    BY <1>1, <1>3, <2>1, <2>2, <2>3, KeepsDescriptor
  <2>5. \A q \in Regions : region'[q] = IF q = r THEN x ELSE region[q]
    BY <2>2 DEF FilesOwned, FilesTyped
  <2>6. \A g \in Files : S!Mapped(g)' = S!Mapped(g)
    BY <1>1, <2>1, <2>5 DEF S!Mapped
  <2> QED BY <1>1, <1>3, <2>4, <2>6 DEF FilesOwned, FilesTyped, MappingsCounted
<1>4. CASE S!Abandon(r)
  BY <1>1, <1>4, AbandonOwned
<1> QED BY <1>3, <1>4 DEF S!StatFile

\* MapMemory adds the region to those mapped on its file.
LEMMA MapMemoryOwned ==
  ASSUME ObjectsAssumption, FilesOwned, NEW r \in Regions, S!MapMemory(r)
  PROVE  FilesOwned'
<1> DEFINE x == [region[r] EXCEPT !.stage = "live"]
           f == region[r].file
<1>1. /\ region[r].stage = "sized"
      /\ region[r] # S!Nothing
      /\ region[r] \in Region
      /\ f \in Files
      /\ length' = length
  BY RegionShape DEF S!MapMemory, FilesOwned, FilesTyped
<1>2. region[r].fd \in Descriptors
  BY <1>1 DEF FilesOwned, Whole
<1>3. CASE /\ region[r].bytes > 0
           /\ region' = [region EXCEPT ![r].stage = "live"]
           /\ mappings' = [mappings EXCEPT ![region[r].file] = @ + 1]
           /\ table' = table
  <2>1. /\ x \in Region
        /\ x.stage = "live"
        /\ x.fd = region[r].fd
        /\ x.file = f
        /\ x.bytes > 0
    BY <1>1, <1>3 DEF Region
  <2>2. region' = [region EXCEPT ![r] = x]
    BY <1>3
  <2> HIDE DEF x
  <2>3. Whole(x)
    BY <1>2, <2>1 DEF Whole
  <2>4. /\ region' \in [Regions -> Region \cup {S!Nothing}]
        /\ \A q \in Regions : region'[q] # S!Nothing => Whole(region'[q])
        /\ DescriptorsOwned'
    BY <1>1, <1>3, <2>1, <2>2, <2>3, KeepsDescriptor
  <2>5. \A q \in Regions : region'[q] = IF q = r THEN x ELSE region[q]
    BY <2>2 DEF FilesOwned, FilesTyped
  <2>6. ASSUME NEW g \in Files PROVE mappings'[g] = Cardinality(S!Mapped(g))'
    <3>1. r \notin S!Mapped(g)
      BY <1>1 DEF S!Mapped
    <3>2. CASE g = f
      <4>1. S!Mapped(g)' = S!Mapped(g) \cup {r}
        BY <2>1, <2>5, <3>2 DEF S!Mapped
      <4>2. Cardinality(S!Mapped(g) \cup {r}) = Cardinality(S!Mapped(g)) + 1
        BY <3>1, MappedFinite, FS_AddElement
      <4> QED BY <1>1, <1>3, <3>2, <4>1, <4>2 DEF FilesOwned, FilesTyped, MappingsCounted
    <3>3. CASE g # f
      <4>1. S!Mapped(g)' = S!Mapped(g)
        BY <2>1, <2>5, <3>1, <3>3 DEF S!Mapped
      <4> QED BY <1>3, <3>3, <4>1 DEF FilesOwned, FilesTyped, MappingsCounted
    <3> QED BY <3>2, <3>3
  <2>7. mappings' \in [Files -> Int]
    BY <1>1, <1>3 DEF FilesOwned, FilesTyped
  <2> QED BY <1>1, <1>3, <2>4, <2>6, <2>7 DEF FilesOwned, FilesTyped, MappingsCounted
<1>4. CASE S!Abandon(r) /\ mappings' = mappings
  BY <1>1, <1>4, AbandonOwned
<1> QED BY <1>3, <1>4 DEF S!MapMemory

\* Destroy takes the region from those mapped on its file, if it was one.
LEMMA DestroyOwned ==
  ASSUME ObjectsAssumption, FilesOwned, NEW r \in Regions, S!Destroy(r)
  PROVE  FilesOwned'
<1> DEFINE x == region[r]
<1>1. /\ x.stage = "live"
      /\ x # S!Nothing
      /\ x \in Region
      /\ x.file \in Files
      /\ x.bytes \in Int
      /\ length' = length
  BY RegionShape DEF S!Destroy, FilesOwned, FilesTyped
<1>2. /\ mappings' = [mappings EXCEPT ![x.file] = @ - (IF x.bytes > 0 THEN 1 ELSE 0)]
      /\ table' = S!Closed(x)
      /\ region' = [region EXCEPT ![r] = S!Nothing]
  BY DEF S!Destroy, S!Unmapped
<1>3. /\ region' \in [Regions -> Region \cup {S!Nothing}]
      /\ table' \in [Descriptors -> Files \cup {S!Free}]
      /\ \A q \in Regions : region'[q] # S!Nothing => Whole(region'[q])
      /\ DescriptorsOwned'
      /\ \A g \in Files : S!Mapped(g)' = S!Mapped(g) \ {r}
  BY <1>1, <1>2, ReleasesDescriptor
<1> HIDE DEF x
<1>4. ASSUME NEW g \in Files PROVE mappings'[g] = Cardinality(S!Mapped(g))'
  <2>1. mappings[g] = Cardinality(S!Mapped(g))
    BY DEF FilesOwned, MappingsCounted
  <2>2. CASE g = x.file /\ x.bytes > 0
    <3>1. r \in S!Mapped(g)
      BY <1>1, <2>2 DEF S!Mapped, x
    <3>2. Cardinality(S!Mapped(g) \ {r}) = Cardinality(S!Mapped(g)) - 1
      BY <3>1, MappedFinite, FS_RemoveElement
    <3>3. mappings'[g] = mappings[g] - 1
      BY <1>1, <1>2, <2>2 DEF FilesOwned, FilesTyped
    <3> QED BY <1>3, <2>1, <3>2, <3>3
  <2>3. CASE ~ (g = x.file /\ x.bytes > 0)
    <3>1. r \notin S!Mapped(g)
      BY <2>3 DEF S!Mapped, x
    <3>2. mappings'[g] = mappings[g]
      BY <1>1, <1>2, <2>3 DEF FilesOwned, FilesTyped
    <3> QED BY <1>3, <2>1, <3>1, <3>2
  <2> QED BY <2>2, <2>3
<1>5. mappings' \in [Files -> Int]
  BY <1>1, <1>2 DEF FilesOwned, FilesTyped
<1> QED BY <1>1, <1>3, <1>4, <1>5 DEF FilesOwned, FilesTyped, MappingsCounted

\* Move hands the descriptor and the mapping of r, if it has them, to s.
LEMMA MoveOwned ==
  ASSUME ObjectsAssumption, FilesOwned, NEW r \in Regions, NEW s \in Regions, S!Move(r, s)
  PROVE  FilesOwned'
<1> DEFINE x == region[r]
           y == S!Emptied(region[r])
<1>1. /\ x.stage = "live"
      /\ x \in Region
      /\ region[s] = S!Nothing
      /\ UNCHANGED <<table, length, mappings>>
      /\ region' = [region EXCEPT ![s] = x, ![r] = y]
  BY RegionShape DEF S!Move, S!Usable, FilesOwned, FilesTyped
<1>2. /\ r # s
      /\ x # S!Nothing
  BY <1>1, RegionShape
<1>3. /\ y \in Region
      /\ y # S!Nothing
      /\ y.stage = "live"
      /\ y.fd = -1
      /\ y.bytes = 0
  <2>1. y = [x EXCEPT !.fd = -1, !.bytes = 0]
    BY DEF S!Emptied
  <2> HIDE DEF x, y
  <2>2. /\ -1 \in Descriptors \cup {-1}
        /\ 0 \in Int
    OBVIOUS
  <2>3. y \in Region
    BY <1>1, <2>1, <2>2 DEF Region
  <2>4. y.stage = "live" /\ y.fd = -1 /\ y.bytes = 0
    BY <1>1, <2>1 DEF Region
  <2> QED BY <2>3, <2>4, RegionShape
<1>4. Whole(x)
  BY <1>2 DEF FilesOwned
<1>5. -1 \notin Descriptors
  <2>1. ~ (-1 >= 0)
    OBVIOUS
  <2> QED BY <2>1, DescriptorsAreNumbers
<1> HIDE DEF y
<1>6. \A q \in Regions : region'[q] = IF q = r THEN y ELSE IF q = s THEN x ELSE region[q]
  BY <1>1, <1>2 DEF FilesOwned, FilesTyped
<1>7. region' \in [Regions -> Region \cup {S!Nothing}]
  BY <1>1, <1>3 DEF FilesOwned, FilesTyped
<1>8. \A q \in Regions : region'[q] # S!Nothing => Whole(region'[q])
  <2>1. Whole(y)
    <3>1. ~ (0 > 0)
      OBVIOUS
    <3> QED BY <1>3, <1>5, <3>1 DEF Whole
  <2> QED BY <1>4, <1>6, <2>1 DEF FilesOwned
<1>9. ASSUME NEW e \in Descriptors PROVE Owned(e)'
  <2>1. Owned(e)
    BY DEF FilesOwned, DescriptorsOwned
  <2>2. CASE x.fd = e
    <3>1. /\ table[e] = x.file
          /\ table[e] # S!Free
          /\ S!Holders(e) = {r}
      BY <1>2, <2>2, HolderAlone
    <3>2. S!Holders(e)' = {s}
      <4>1. \A q \in Regions : region[q] # S!Nothing /\ region[q].fd = e => q = r
        BY <3>1 DEF S!Holders
      <4>2. region'[s] # S!Nothing /\ region'[s].fd = e
        BY <1>2, <1>6, <2>2
      <4>3. ASSUME NEW q \in Regions, q # s PROVE ~ (region'[q] # S!Nothing /\ region'[q].fd = e)
        BY <1>3, <1>5, <1>6, <4>1, <4>3
      <4> QED BY <4>2, <4>3 DEF S!Holders
    <3>3. region'[s].file = table'[e]
      BY <1>1, <1>2, <1>6, <3>1
    <3> QED BY <1>1, <3>1, <3>2, <3>3 DEF Owned
  <2>3. CASE x.fd # e
    <3>1. S!Holders(e)' = S!Holders(e)
      BY <1>1, <1>2, <1>3, <1>5, <1>6, <2>3 DEF S!Holders
    <3>2. \A q \in Regions : q \in S!Holders(e) => region'[q] = region[q]
      BY <1>1, <1>6, <2>3 DEF S!Holders
    <3> QED BY <1>1, <2>1, <3>1, <3>2 DEF Owned
  <2> QED BY <2>2, <2>3
<1>10. /\ ~ (region'[r].bytes > 0)
       /\ region'[s] = x
       /\ \A q \in Regions : q # r /\ q # s => region'[q] = region[q]
  <2>1. ~ (0 > 0)
    OBVIOUS
  <2> QED BY <1>2, <1>3, <1>6, <2>1
<1>11. ASSUME NEW g \in Files PROVE mappings'[g] = Cardinality(S!Mapped(g))'
  <2>1. mappings[g] = Cardinality(S!Mapped(g))
    BY DEF FilesOwned, MappingsCounted
  <2>2. s \notin S!Mapped(g)
    BY <1>1, RegionShape DEF S!Mapped
  <2>3. CASE r \in S!Mapped(g)
    <3>1. S!Mapped(g)' = (S!Mapped(g) \ {r}) \cup {s}
      <4>1. ASSUME NEW q \in Regions PROVE q \in S!Mapped(g)' <=> q \in (S!Mapped(g) \ {r}) \cup {s}
        BY <1>2, <1>10, <2>3 DEF S!Mapped
      <4>2. S!Mapped(g)' \subseteq Regions /\ S!Mapped(g) \subseteq Regions
        BY DEF S!Mapped
      <4> QED BY <4>1, <4>2
    <3>2. Cardinality(S!Mapped(g) \ {r}) = Cardinality(S!Mapped(g)) - 1
      BY <2>3, MappedFinite, FS_RemoveElement
    <3>3. /\ IsFiniteSet(S!Mapped(g) \ {r})
          /\ s \notin S!Mapped(g) \ {r}
      BY <2>2, MappedFinite, FS_RemoveElement
    <3>4. Cardinality((S!Mapped(g) \ {r}) \cup {s}) = Cardinality(S!Mapped(g) \ {r}) + 1
      BY <3>3, FS_AddElement
    <3> QED BY <1>1, <2>1, <3>1, <3>2, <3>4, MappedFinite
  <2>4. CASE r \notin S!Mapped(g)
    <3>1. S!Mapped(g)' = S!Mapped(g)
      <4>1. ASSUME NEW q \in Regions PROVE q \in S!Mapped(g)' <=> q \in S!Mapped(g)
        BY <1>1, <1>10, <2>2, <2>4 DEF S!Mapped
      <4>2. S!Mapped(g)' \subseteq Regions /\ S!Mapped(g) \subseteq Regions
        BY DEF S!Mapped
      <4> QED BY <4>1, <4>2
    <3> QED BY <1>1, <2>1, <3>1
  <2> QED BY <2>3, <2>4
<1> QED BY <1>1, <1>7, <1>8, <1>9, <1>11 DEF FilesOwned, FilesTyped, DescriptorsOwned, MappingsCounted

\* A step that only changes how long a file is.
LEMMA LengthOwned ==
  ASSUME FilesOwned, NEW f, NEW n \in Int,
         length' = [length EXCEPT ![f] = n], UNCHANGED <<region, table, mappings>>
  PROVE  FilesOwned'
<1>1. FilesTyped'
  BY DEF FilesOwned, FilesTyped
<1>2. \A r \in Regions : region'[r] # S!Nothing => Whole(region'[r])
  BY DEF FilesOwned
<1>3. DescriptorsOwned'
  BY DEF FilesOwned, DescriptorsOwned, Owned, S!Holders
<1>4. MappingsCounted'
  BY DEF FilesOwned, MappingsCounted, S!Mapped
<1> QED BY <1>1, <1>2, <1>3, <1>4 DEF FilesOwned

\* Every step keeps the invariant.
LEMMA StepOwned == ObjectsAssumption /\ FilesOwned /\ [S!Next]_(S!vars) => FilesOwned'
<1> SUFFICES ASSUME ObjectsAssumption, FilesOwned, [S!Next]_(S!vars) PROVE FilesOwned'
  OBVIOUS
<1>1. ASSUME NEW r \in Regions, NEW f \in Files,
             S!OpenForReading(r, f) \/ \E n \in Counts : S!OpenForWriting(r, f, n)
      PROVE  FilesOwned'
  BY <1>1, OpenOwned
<1>2. ASSUME NEW r \in Regions, S!SizeFile(r) PROVE FilesOwned'
  BY <1>2, SizeFileOwned
<1>3. ASSUME NEW r \in Regions, S!StatFile(r) PROVE FilesOwned'
  BY <1>3, StatFileOwned
<1>4. ASSUME NEW r \in Regions, S!MapMemory(r) PROVE FilesOwned'
  BY <1>4, MapMemoryOwned
<1>5. ASSUME NEW r \in Regions, S!Destroy(r) PROVE FilesOwned'
  BY <1>5, DestroyOwned
<1>6. ASSUME NEW r \in Regions, NEW s \in Regions, S!Move(r, s) PROVE FilesOwned'
  BY <1>6, MoveOwned
<1>7. ASSUME NEW r \in Regions, NEW n \in Counts \cup {0}, S!Resize(r, n) PROVE FilesOwned'
  <2>1. 2 * n \in Int
    BY DEF ObjectsAssumption
  <2> QED BY <1>7, <2>1, LengthOwned DEF S!Resize
<1>8. ASSUME NEW f \in Files, S!ForeignWrite(f) PROVE FilesOwned'
  <2>1. HalfFile \in Int
    BY DEF ObjectsAssumption
  <2> QED BY <1>8, <2>1, LengthOwned DEF S!ForeignWrite
<1>9. CASE UNCHANGED S!vars
  BY <1>9 DEF S!vars, FilesOwned, FilesTyped, DescriptorsOwned, Owned, S!Holders, MappingsCounted, S!Mapped
<1> QED BY <1>1, <1>2, <1>3, <1>4, <1>5, <1>6, <1>7, <1>8, <1>9 DEF S!Next

\* Of any number of regions, files and descriptors, in every reachable state
\* an open descriptor has exactly one holder, which believes in the file it is
\* open on, and a file has one mapping for each region mapped on it
\* (mmapRegion.cpp: constructors, moves and destructor).
THEOREM HandlesHaveOneOwner == MCSpec => []HandlesOwnedOnce
<1>1. MCInit => FilesOwned
  BY InitOwned, ObjectsAssumption DEF MCInit
<1>2. FilesOwned /\ [MCNext]_<<vars, part, files, tokens>> => FilesOwned'
  <2>1. [MCNext]_<<vars, part, files, tokens>> => [S!Next]_(S!vars)
    BY DEF MCNext, files, S!vars
  <2> QED BY <2>1, StepOwned, ObjectsAssumption
<1>3. FilesOwned => HandlesOwnedOnce
  BY SameCount DEF FilesOwned, DescriptorsOwned, Owned, MappingsCounted, HandlesOwnedOnce,
     S!HandlesOwnedOnce
<1> QED BY <1>1, <1>2, <1>3, PTL DEF MCSpec

-----------------------------------------------------------------------------
(* Tokens.                                                                 *)

Token == [lives : {TRUE}, effect : Effects, engaged : BOOLEAN]

TokensTyped ==
  /\ token \in [Tokens -> Token \cup {T!Nowhere}]
  /\ entered \subseteq Effects
  /\ exited \in [Effects -> Nat]

\* ExitsOnce without counting: an effect is not yet entered, undone, or
\* still to be undone by one token.
Once(e) ==
  \/ e \notin entered /\ exited[e] = 0 /\ T!Engaged(e) = {}
  \/ e \in entered /\ exited[e] = 1 /\ T!Engaged(e) = {}
  \/ e \in entered /\ exited[e] = 0 /\ \E t \in Tokens : T!Engaged(e) = {t}

TokensOwned == TokensTyped /\ \A e \in Effects : Once(e)

-----------------------------------------------------------------------------

LEMMA InitOnce == T!Init => TokensOwned
<1> SUFFICES ASSUME T!Init PROVE TokensOwned
  OBVIOUS
<1>1. TokensTyped
  BY DEF T!Init, TokensTyped
<1>2. \A e \in Effects : T!Engaged(e) = {}
  BY DEF T!Init, T!Engaged, T!Nowhere
<1> QED BY <1>1, <1>2 DEF TokensOwned, Once, T!Init

\* A token that lives is a token, and one that does not is nowhere.
LEMMA TokenShape ==
  ASSUME TokensTyped, NEW t \in Tokens
  PROVE  /\ token[t].lives \in BOOLEAN
         /\ token[t].lives => token[t] \in Token
         /\ ~token[t].lives => token[t] = T!Nowhere
<1>1. T!Nowhere.lives = FALSE
  BY DEF T!Nowhere
<1>2. \A x \in Token : x.lives = TRUE
  BY DEF Token
<1>3. token[t] \in Token \cup {T!Nowhere}
  BY DEF TokensTyped
<1> QED BY <1>1, <1>2, <1>3

\* What a token that goes adds to the count of its own effect.
LEMMA RunsFacts ==
  ASSUME TokensTyped, NEW t \in Tokens, token[t] \in Token
  PROVE  /\ T!Runs(token[t]) \in [Effects -> Nat]
         /\ \A f \in Effects :
              T!Runs(token[t])[f] = IF t \in T!Engaged(f) THEN exited[f] + 1 ELSE exited[f]
<1>1. PICK e \in Effects : token[t].effect = e
  BY DEF Token
<1>2. /\ token[t].lives = TRUE
      /\ token[t].engaged \in BOOLEAN
  BY DEF Token
<1>3. PICK n \in Nat : n = (IF token[t].engaged THEN 1 ELSE 0)
  OBVIOUS
<1>4. T!Runs(token[t]) = [exited EXCEPT ![e] = exited[e] + n]
  BY <1>1, <1>3 DEF T!Runs, TokensTyped
<1>5. exited[e] \in Nat
  BY DEF TokensTyped
<1>6. T!Runs(token[t]) \in [Effects -> Nat]
  BY <1>4, <1>5 DEF TokensTyped
<1>7. ASSUME NEW f \in Effects
      PROVE  T!Runs(token[t])[f] = IF t \in T!Engaged(f) THEN exited[f] + 1 ELSE exited[f]
  <2>1. t \in T!Engaged(f) <=> f = e /\ token[t].engaged
    BY <1>1, <1>2 DEF T!Engaged
  <2>2. T!Runs(token[t])[f] = IF f = e THEN exited[e] + n ELSE exited[f]
    BY <1>4 DEF TokensTyped
  <2>3. exited[f] \in Nat
    BY DEF TokensTyped
  <2> QED BY <1>2, <1>3, <2>1, <2>2, <2>3
<1> QED BY <1>6, <1>7

\* The entry of an effect gives it its first holder.
LEMMA ConstructOnce ==
  ASSUME TokensOwned, NEW t \in Tokens, NEW e \in Effects, T!Construct(t, e)
  PROVE  TokensOwned'
<1> USE DEF TokensOwned
<1>1. TokensTyped'
  BY DEF TokensTyped, T!Construct, T!Holding, Token
<1>2. ASSUME NEW f \in Effects PROVE Once(f)'
  <2>1. T!Engaged(f)' = IF f = e THEN T!Engaged(f) \cup {t} ELSE T!Engaged(f)
    BY TokenShape DEF T!Construct, T!Engaged, T!Holding, TokensTyped
  <2>2. Once(f)
    OBVIOUS
  <2>3. CASE f = e
    <3>1. T!Engaged(f)' = {t}
      BY <2>1, <2>2, <2>3 DEF T!Construct, Once
    <3> QED BY <2>2, <2>3, <3>1 DEF T!Construct, Once
  <2>4. CASE f # e
    BY <2>1, <2>2, <2>4 DEF T!Construct, Once
  <2> QED BY <2>3, <2>4
<1> QED BY <1>1, <1>2

\* A move hands on what the source had pending, and nothing else.
LEMMA MoveConstructOnce ==
  ASSUME TokensOwned, NEW t \in Tokens, NEW s \in Tokens, T!MoveConstruct(t, s)
  PROVE  TokensOwned'
<1> USE DEF TokensOwned
<1>1. t # s
  BY DEF T!MoveConstruct
<1>2. /\ token[s] \in Token
      /\ token[t] = T!Nowhere
  BY TokenShape DEF T!MoveConstruct
<1>3. token' = [token EXCEPT ![t] = token[s], ![s] = T!Disengaged(token[s])]
  BY <1>1 DEF T!MoveConstruct, TokensTyped
<1>4. T!Disengaged(token[s]) \in Token
  BY <1>2 DEF T!Disengaged, Token
<1>5. TokensTyped'
  BY <1>2, <1>3, <1>4 DEF TokensTyped, T!MoveConstruct
<1>6. ASSUME NEW f \in Effects PROVE Once(f)'
  <2>1. T!Engaged(f)' = IF s \in T!Engaged(f) THEN (T!Engaged(f) \ {s}) \cup {t} ELSE T!Engaged(f)
    <3>1. ASSUME NEW x \in Tokens
          PROVE  token'[x] = IF x = s THEN T!Disengaged(token[s]) ELSE IF x = t THEN token[s]
                             ELSE token[x]
      BY <1>1, <1>3 DEF TokensTyped
    <3>2. ~T!Disengaged(token[s]).engaged
      BY <1>2 DEF T!Disengaged, Token
    <3>3. t \notin T!Engaged(f)
      BY <1>2 DEF T!Engaged, T!Nowhere
    <3> QED BY <1>1, <1>2, <3>1, <3>2, <3>3 DEF T!Engaged, Token
  <2>2. Once(f)
    OBVIOUS
  <2> QED BY <2>1, <2>2 DEF T!MoveConstruct, Once
<1> QED BY <1>5, <1>6

\* A token runs its own pending exit before it adopts another's.
LEMMA MoveAssignOnce ==
  ASSUME TokensOwned, NEW t \in Tokens, NEW s \in Tokens, T!MoveAssign(t, s)
  PROVE  TokensOwned'
<1> USE DEF TokensOwned
<1>1. t # s
  BY DEF T!MoveAssign
<1>2. /\ token[s] \in Token
      /\ token[t] \in Token
  BY TokenShape DEF T!MoveAssign
<1>3. token' = [token EXCEPT ![t] = token[s], ![s] = T!Disengaged(token[s])]
  BY <1>1 DEF T!MoveAssign, TokensTyped
<1>4. T!Disengaged(token[s]) \in Token
  BY <1>2 DEF T!Disengaged, Token
<1>5. /\ exited' \in [Effects -> Nat]
      /\ \A f \in Effects : exited'[f] = IF t \in T!Engaged(f) THEN exited[f] + 1 ELSE exited[f]
  BY <1>2, RunsFacts DEF T!MoveAssign
<1>6. TokensTyped'
  BY <1>2, <1>3, <1>4, <1>5 DEF TokensTyped, T!MoveAssign
<1>7. ASSUME NEW f \in Effects PROVE Once(f)'
  <2>1. T!Engaged(f)' = IF s \in T!Engaged(f) THEN (T!Engaged(f) \ {s}) \cup {t}
                      ELSE T!Engaged(f) \ {t}
    <3>1. ASSUME NEW x \in Tokens
          PROVE  token'[x] = IF x = s THEN T!Disengaged(token[s]) ELSE IF x = t THEN token[s]
                             ELSE token[x]
      BY <1>1, <1>3 DEF TokensTyped
    <3>2. ~T!Disengaged(token[s]).engaged
      BY <1>2 DEF T!Disengaged, Token
    <3> QED BY <1>1, <1>2, <3>1, <3>2 DEF T!Engaged, Token
  <2>2. exited'[f] = IF t \in T!Engaged(f) THEN exited[f] + 1 ELSE exited[f]
    BY <1>5
  <2>3. Once(f)
    OBVIOUS
  <2> QED BY <1>1, <2>1, <2>2, <2>3 DEF T!MoveAssign, Once
<1> QED BY <1>6, <1>7

LEMMA DestroyOnce ==
  ASSUME TokensOwned, NEW t \in Tokens, T!Destroy(t)
  PROVE  TokensOwned'
<1> USE DEF TokensOwned
<1>1. token[t] \in Token
  BY TokenShape DEF T!Destroy
<1>2. /\ exited' \in [Effects -> Nat]
      /\ \A f \in Effects : exited'[f] = IF t \in T!Engaged(f) THEN exited[f] + 1 ELSE exited[f]
  BY <1>1, RunsFacts DEF T!Destroy
<1>3. TokensTyped'
  BY <1>1, <1>2 DEF TokensTyped, T!Destroy
<1>4. ASSUME NEW f \in Effects PROVE Once(f)'
  <2>1. T!Engaged(f)' = T!Engaged(f) \ {t}
    BY <1>1 DEF T!Destroy, T!Engaged, T!Nowhere, TokensTyped
  <2>2. exited'[f] = IF t \in T!Engaged(f) THEN exited[f] + 1 ELSE exited[f]
    BY <1>2
  <2>3. Once(f)
    OBVIOUS
  <2> QED BY <2>1, <2>2, <2>3 DEF T!Destroy, Once
<1> QED BY <1>3, <1>4

-----------------------------------------------------------------------------

LEMMA StepOnce == TokensOwned /\ [T!Next]_(T!vars) => TokensOwned'
<1> SUFFICES ASSUME TokensOwned, [T!Next]_(T!vars) PROVE TokensOwned'
  OBVIOUS
<1>1. CASE UNCHANGED T!vars
  BY <1>1 DEF TokensOwned, TokensTyped, Once, T!Engaged, T!vars
<1>2. ASSUME NEW t \in Tokens, NEW e \in Effects, T!Construct(t, e) PROVE TokensOwned'
  BY <1>2, ConstructOnce
<1>3. ASSUME NEW t \in Tokens, NEW s \in Tokens, T!MoveConstruct(t, s) PROVE TokensOwned'
  BY <1>3, MoveConstructOnce
<1>4. ASSUME NEW t \in Tokens, NEW s \in Tokens, T!MoveAssign(t, s) PROVE TokensOwned'
  BY <1>4, MoveAssignOnce
<1>5. ASSUME NEW t \in Tokens, T!Destroy(t) PROVE TokensOwned'
  BY <1>5, DestroyOnce
<1> QED BY <1>1, <1>2, <1>3, <1>4, <1>5 DEF T!Next

\* Every effect entered is either still to be undone by exactly one token or
\* was undone exactly once (raiiToken.hpp:74, 84, 104).
THEOREM ActionsExitOnce == MCSpec => []ExitsOnce
<1>1. TokensOwned => ExitsOnce
  <2> SUFFICES ASSUME TokensOwned, NEW e \in Effects
               PROVE  Cardinality(T!Engaged(e)) + exited[e] = IF e \in entered THEN 1 ELSE 0
    BY SameCount DEF ExitsOnce, T!ExitsOnce
  <2>1. Once(e)
    BY DEF TokensOwned
  <2>2. CASE T!Engaged(e) = {}
    <3>1. Cardinality(T!Engaged(e)) = 0
      BY <2>2, FS_EmptySet
    <3> QED BY <2>1, <2>2, <3>1 DEF Once
  <2>3. CASE \E t \in Tokens : T!Engaged(e) = {t}
    <3>1. Cardinality(T!Engaged(e)) = 1
      BY <2>3, FS_Singleton
    <3> QED BY <2>1, <2>3, <3>1 DEF Once
  <2> QED BY <2>1, <2>2, <2>3 DEF Once
<1>2. MCInit => TokensOwned
  BY InitOnce DEF MCInit
<1>3. TokensOwned /\ [MCNext]_<<vars, part, files, tokens>> => TokensOwned'
  <2>1. [MCNext]_<<vars, part, files, tokens>> => [T!Next]_(T!vars)
    BY DEF MCNext, tokens, T!vars
  <2> QED BY <2>1, StepOnce
<1> QED BY <1>1, <1>2, <1>3, PTL DEF MCSpec

-----------------------------------------------------------------------------
(* Rotations: unit quaternions, coordinate by coordinate.                  *)

\* Vectors and quaternions of integers.
Vector == Vectors(Int)
Quaternion == [vec : Vector, w : Int]

\* Every coordinate is odd, or every one is even.
Odd(q) == q.w \in {-1, 1} /\ \A i \in Axes : q.vec[i] \in {-1, 1}
Even(q) == q.w \in {-2, 0, 2} /\ \A i \in Axes : q.vec[i] \in {-2, 0, 2}

\* What the members of Units are.
LEMMA UnitAt ==
  ASSUME NEW q \in Units
  PROVE  /\ q \in Quaternion
         /\ Odd(q) \/ Even(q)
         /\ q.vec["x"] * q.vec["x"] + q.vec["y"] * q.vec["y"] + q.vec["z"] * q.vec["z"]
              + q.w * q.w = 4
         /\ Norm2(q) = 4
<1>1. CASE q \in [vec : Vectors({-1, 0, 1}), w : {-1, 0, 1}]
  <2>1. IsUnit(q) BY DEF Units
  <2>2. q.w \in {-1, 0, 1} /\ \A i \in Axes : q.vec[i] \in {-1, 0, 1}
    BY <1>1 DEF Vectors
  <2>3. q \in Quaternion
    BY <1>1 DEF Quaternion, Vector, Vectors
  <2>4. q.vec["x"] * q.vec["x"] + q.vec["y"] * q.vec["y"] + q.vec["z"] * q.vec["z"]
              + q.w * q.w = 4
    BY <2>1, <2>3 DEF IsUnit, Norm2, Dot, Quaternion, Vector, Vectors, Axes
  <2>5. \A x \in {-1, 0, 1} : x * x = IF x = 0 THEN 0 ELSE 1
    OBVIOUS
  <2>6. Odd(q)
    BY <2>2, <2>4, <2>5 DEF Odd, Axes
  <2> QED BY <2>1, <2>3, <2>4, <2>6 DEF IsUnit
<1>2. CASE q \in [vec : Vectors({-2, 0, 2}), w : {-2, 0, 2}]
  <2>1. IsUnit(q) BY DEF Units
  <2>2. q.w \in {-2, 0, 2} /\ \A i \in Axes : q.vec[i] \in {-2, 0, 2}
    BY <1>2 DEF Vectors
  <2>3. q \in Quaternion
    BY <1>2 DEF Quaternion, Vector, Vectors
  <2>4. q.vec["x"] * q.vec["x"] + q.vec["y"] * q.vec["y"] + q.vec["z"] * q.vec["z"]
              + q.w * q.w = 4
    BY <2>1, <2>3 DEF IsUnit, Norm2, Dot, Quaternion, Vector, Vectors, Axes
  <2> QED BY <2>1, <2>2, <2>3, <2>4 DEF IsUnit, Even
<1> QED BY <1>1, <1>2 DEF Units

\* A quaternion of integers of norm 4 has one of the two shapes.
LEMMA UnitByNorm ==
  ASSUME NEW q \in Quaternion, Norm2(q) = 4
  PROVE  q \in Units
<1> DEFINE x == q.vec["x"]  y == q.vec["y"]  z == q.vec["z"]  w == q.w
<1>1. x \in Int /\ y \in Int /\ z \in Int /\ w \in Int
  BY DEF Quaternion, Vector, Vectors, Axes
<1>2. x * x + y * y + z * z + w * w = 4
  BY DEF Norm2, Dot, Quaternion, Vector, Vectors, Axes
<1>3. \A n \in Int : n * n >= 0 /\ (n * n <= 4 => n \in -2 .. 2)
  OBVIOUS
<1>4. \A n \in -2 .. 2 : n * n = IF n = 0 THEN 0 ELSE IF n \in {-1, 1} THEN 1 ELSE 4
  OBVIOUS
<1> HIDE DEF x, y, z, w
<1>5. /\ x * x >= 0 /\ y * y >= 0 /\ z * z >= 0 /\ w * w >= 0
      /\ x * x \in Int /\ y * y \in Int /\ z * z \in Int /\ w * w \in Int
  BY <1>1, <1>3
<1>6. x \in -2 .. 2 /\ y \in -2 .. 2 /\ z \in -2 .. 2 /\ w \in -2 .. 2
  <2>1. x * x <= 4 /\ y * y <= 4 /\ z * z <= 4 /\ w * w <= 4
    BY <1>2, <1>5
  <2> QED BY <2>1, <1>1, <1>3
<1>7. \/ x \in {-1, 1} /\ y \in {-1, 1} /\ z \in {-1, 1} /\ w \in {-1, 1}
      \/ x \in {-2, 0, 2} /\ y \in {-2, 0, 2} /\ z \in {-2, 0, 2} /\ w \in {-2, 0, 2}
  BY <1>2, <1>4, <1>6
<1>8. q \in [vec : Vectors({-1, 0, 1}), w : {-1, 0, 1}] \/ q \in [vec : Vectors({-2, 0, 2}), w : {-2, 0, 2}]
  BY <1>7 DEF x, y, z, w, Quaternion, Vector, Vectors, Axes
<1> QED BY <1>8 DEF Units, IsUnit

\* The vector operations, coordinate by coordinate.
LEMMA PlusAt ==
  ASSUME NEW a \in Vector, NEW b \in Vector
  PROVE  /\ Plus(a, b) \in Vector
         /\ Plus(a, b)["x"] = a["x"] + b["x"]
         /\ Plus(a, b)["y"] = a["y"] + b["y"]
         /\ Plus(a, b)["z"] = a["z"] + b["z"]
BY DEF Vector, Vectors, Axes, Plus

LEMMA TimesAt ==
  ASSUME NEW k \in Int, NEW a \in Vector
  PROVE  /\ Times(k, a) \in Vector
         /\ Times(k, a)["x"] = k * a["x"]
         /\ Times(k, a)["y"] = k * a["y"]
         /\ Times(k, a)["z"] = k * a["z"]
BY DEF Vector, Vectors, Axes, Times

LEMMA CrossAt ==
  ASSUME NEW a \in Vector, NEW b \in Vector
  PROVE  /\ Cross(a, b) \in Vector
         /\ Cross(a, b)["x"] = a["y"] * b["z"] - a["z"] * b["y"]
         /\ Cross(a, b)["y"] = a["z"] * b["x"] - a["x"] * b["z"]
         /\ Cross(a, b)["z"] = a["x"] * b["y"] - a["y"] * b["x"]
BY DEF Vector, Vectors, Axes, Cross

LEMMA DotAt ==
  ASSUME NEW a \in Vector, NEW b \in Vector
  PROVE  Dot(a, b) = a["x"] * b["x"] + a["y"] * b["y"] + a["z"] * b["z"]
BY DEF Vector, Vectors, Axes, Dot

LEMMA OriginAt ==
  Origin \in Vector /\ Origin["x"] = 0 /\ Origin["y"] = 0 /\ Origin["z"] = 0
BY DEF Vector, Vectors, Axes, Origin

LEMMA VectorIn ==
  ASSUME NEW a \in Vector
  PROVE  a["x"] \in Int /\ a["y"] \in Int /\ a["z"] \in Int
BY DEF Vector, Vectors, Axes

LEMMA VectorsEqual ==
  ASSUME NEW a \in Vector, NEW b \in Vector,
         a["x"] = b["x"], a["y"] = b["y"], a["z"] = b["z"]
  PROVE  a = b
BY DEF Vector, Vectors, Axes

LEMMA QuaternionsEqual ==
  ASSUME NEW a \in Quaternion, NEW b \in Quaternion, a.vec = b.vec, a.w = b.w
  PROVE  a = b
BY DEF Quaternion

\* Sums of four terms that are halved exactly.
Exact(Terms) ==
  \A t, u, v, s \in Terms : /\ 2 * ((t + u + (v - s)) \div 2) = t + u + (v - s)
                        /\ 2 * ((t - (u + v + s)) \div 2) = t - (u + v + s)

\* Products of the coordinates of two units are all odd or all even.
LEMMA ProductsOfCoordinates ==
  ASSUME NEW a \in Units, NEW b \in Units
  PROVE  \E Terms \in SUBSET Int :
           /\ Exact(Terms)
           /\ a.w * b.w \in Terms
           /\ \A i \in Axes : a.w * b.vec[i] \in Terms /\ a.vec[i] * b.w \in Terms
           /\ \A i, j \in Axes : a.vec[i] * b.vec[j] \in Terms
<1>1. Odd(a) \/ Even(a)
  BY UnitAt
<1>2. Odd(b) \/ Even(b)
  BY UnitAt
<1>3. \A u \in {-1, 1}, v \in {-1, 1} : u * v \in {-1, 1}
  OBVIOUS
<1>4. \A u \in {-2, 0, 2}, v \in {-2, -1, 0, 1, 2} :
        u * v \in {-4, -2, 0, 2, 4} /\ v * u \in {-4, -2, 0, 2, 4}
  OBVIOUS
<1>5. Exact({-1, 1})
  BY DEF Exact
<1>6. Exact({-4, -2, 0, 2, 4})
  BY DEF Exact
<1>7. {-1, 1} \in SUBSET Int /\ {-4, -2, 0, 2, 4} \in SUBSET Int
  OBVIOUS
<1>8. CASE Odd(a) /\ Odd(b)
  <2>1. /\ a.w * b.w \in {-1, 1}
        /\ \A i \in Axes : a.w * b.vec[i] \in {-1, 1} /\ a.vec[i] * b.w \in {-1, 1}
        /\ \A i, j \in Axes : a.vec[i] * b.vec[j] \in {-1, 1}
    BY <1>3, <1>8 DEF Odd
  <2> QED BY <1>5, <1>7, <2>1
<1>9. CASE Even(a) \/ Even(b)
  <2>1. /\ a.w * b.w \in {-4, -2, 0, 2, 4}
        /\ \A i \in Axes : /\ a.w * b.vec[i] \in {-4, -2, 0, 2, 4}
                            /\ a.vec[i] * b.w \in {-4, -2, 0, 2, 4}
        /\ \A i, j \in Axes : a.vec[i] * b.vec[j] \in {-4, -2, 0, 2, 4}
    BY <1>1, <1>2, <1>4, <1>9 DEF Odd, Even
  <2> QED BY <1>6, <1>7, <2>1
<1> QED BY <1>1, <1>2, <1>8, <1>9

\* The product of unit quaternions, coordinate by coordinate: the halves
\* are exact.
LEMMA ProductAt ==
  ASSUME NEW a \in Units, NEW b \in Units
  PROVE  /\ Product(a, b) \in Quaternion
         /\ 2 * Product(a, b).w = a.w * b.w - a.vec["x"] * b.vec["x"]
              - a.vec["y"] * b.vec["y"] - a.vec["z"] * b.vec["z"]
         /\ 2 * Product(a, b).vec["x"] = a.w * b.vec["x"] + b.w * a.vec["x"]
              + a.vec["y"] * b.vec["z"] - a.vec["z"] * b.vec["y"]
         /\ 2 * Product(a, b).vec["y"] = a.w * b.vec["y"] + b.w * a.vec["y"]
              + a.vec["z"] * b.vec["x"] - a.vec["x"] * b.vec["z"]
         /\ 2 * Product(a, b).vec["z"] = a.w * b.vec["z"] + b.w * a.vec["z"]
              + a.vec["x"] * b.vec["y"] - a.vec["y"] * b.vec["x"]
<1>1. a \in Quaternion /\ b \in Quaternion
  BY UnitAt
<1>2. a.vec \in Vector /\ b.vec \in Vector /\ a.w \in Int /\ b.w \in Int
  BY <1>1 DEF Quaternion
<1>3. /\ a.vec["x"] \in Int /\ a.vec["y"] \in Int /\ a.vec["z"] \in Int
      /\ b.vec["x"] \in Int /\ b.vec["y"] \in Int /\ b.vec["z"] \in Int
  BY <1>2, VectorIn
<1>4. PICK Terms \in SUBSET Int :
        /\ Exact(Terms)
        /\ a.w * b.w \in Terms
        /\ \A i \in Axes : a.w * b.vec[i] \in Terms /\ a.vec[i] * b.w \in Terms
        /\ \A i, j \in Axes : a.vec[i] * b.vec[j] \in Terms
  BY ProductsOfCoordinates
<1>5. /\ a.w * b.vec["x"] \in Terms /\ a.w * b.vec["y"] \in Terms /\ a.w * b.vec["z"] \in Terms
      /\ a.vec["x"] * b.w \in Terms /\ a.vec["y"] * b.w \in Terms /\ a.vec["z"] * b.w \in Terms
      /\ a.vec["x"] * b.vec["x"] \in Terms /\ a.vec["x"] * b.vec["y"] \in Terms
      /\ a.vec["x"] * b.vec["z"] \in Terms /\ a.vec["y"] * b.vec["x"] \in Terms
      /\ a.vec["y"] * b.vec["y"] \in Terms /\ a.vec["y"] * b.vec["z"] \in Terms
      /\ a.vec["z"] * b.vec["x"] \in Terms /\ a.vec["z"] * b.vec["y"] \in Terms
      /\ a.vec["z"] * b.vec["z"] \in Terms
  BY <1>4 DEF Axes
<1> DEFINE nw == a.w * b.w - (a.vec["x"] * b.vec["x"] + a.vec["y"] * b.vec["y"]
                                + a.vec["z"] * b.vec["z"])
           nx == a.w * b.vec["x"] + a.vec["x"] * b.w
                   + (a.vec["y"] * b.vec["z"] - a.vec["z"] * b.vec["y"])
           ny == a.w * b.vec["y"] + a.vec["y"] * b.w
                   + (a.vec["z"] * b.vec["x"] - a.vec["x"] * b.vec["z"])
           nz == a.w * b.vec["z"] + a.vec["z"] * b.w
                   + (a.vec["x"] * b.vec["y"] - a.vec["y"] * b.vec["x"])
           sum == Plus(Plus(Times(a.w, b.vec), Times(b.w, a.vec)), Cross(a.vec, b.vec))
<1>6. /\ 2 * (nw \div 2) = nw /\ 2 * (nx \div 2) = nx
      /\ 2 * (ny \div 2) = ny /\ 2 * (nz \div 2) = nz
  <2>1. 2 * (nw \div 2) = nw
    <3> DEFINE t == a.w * b.w  u == a.vec["x"] * b.vec["x"]
               v == a.vec["y"] * b.vec["y"]  s == a.vec["z"] * b.vec["z"]
    <3>1. Exact(Terms) /\ t \in Terms /\ u \in Terms /\ v \in Terms /\ s \in Terms
      BY <1>4, <1>5
    <3>2. nw = t - (u + v + s)
      OBVIOUS
    <3> HIDE DEF nw, t, u, v, s
    <3> QED BY <3>1, <3>2 DEF Exact
  <2>2. 2 * (nx \div 2) = nx
    <3> DEFINE t == a.w * b.vec["x"]  u == a.vec["x"] * b.w
               v == a.vec["y"] * b.vec["z"]  s == a.vec["z"] * b.vec["y"]
    <3>1. Exact(Terms) /\ t \in Terms /\ u \in Terms /\ v \in Terms /\ s \in Terms
      BY <1>4, <1>5
    <3>2. nx = t + u + (v - s)
      OBVIOUS
    <3> HIDE DEF nx, t, u, v, s
    <3> QED BY <3>1, <3>2 DEF Exact
  <2>3. 2 * (ny \div 2) = ny
    <3> DEFINE t == a.w * b.vec["y"]  u == a.vec["y"] * b.w
               v == a.vec["z"] * b.vec["x"]  s == a.vec["x"] * b.vec["z"]
    <3>1. Exact(Terms) /\ t \in Terms /\ u \in Terms /\ v \in Terms /\ s \in Terms
      BY <1>4, <1>5
    <3>2. ny = t + u + (v - s)
      OBVIOUS
    <3> HIDE DEF ny, t, u, v, s
    <3> QED BY <3>1, <3>2 DEF Exact
  <2>4. 2 * (nz \div 2) = nz
    <3> DEFINE t == a.w * b.vec["z"]  u == a.vec["z"] * b.w
               v == a.vec["x"] * b.vec["y"]  s == a.vec["y"] * b.vec["x"]
    <3>1. Exact(Terms) /\ t \in Terms /\ u \in Terms /\ v \in Terms /\ s \in Terms
      BY <1>4, <1>5
    <3>2. nz = t + u + (v - s)
      OBVIOUS
    <3> HIDE DEF nz, t, u, v, s
    <3> QED BY <3>1, <3>2 DEF Exact
  <2> QED BY <2>1, <2>2, <2>3, <2>4
<1>7. nw \in Int /\ nx \in Int /\ ny \in Int /\ nz \in Int
  BY <1>2, <1>3
<1>8. Product(a, b).w = nw \div 2
  BY <1>2, DotAt DEF Product
<1>9. sum \in Vector /\ sum["x"] = nx /\ sum["y"] = ny /\ sum["z"] = nz
  <2>1. /\ Times(a.w, b.vec) \in Vector /\ Times(b.w, a.vec) \in Vector
        /\ Cross(a.vec, b.vec) \in Vector
    BY <1>2, TimesAt, CrossAt
  <2>2. Plus(Times(a.w, b.vec), Times(b.w, a.vec)) \in Vector
    BY <2>1, PlusAt
  <2>3. sum \in Vector
    BY <2>1, <2>2, PlusAt
  <2>4. sum["x"] = Times(a.w, b.vec)["x"] + Times(b.w, a.vec)["x"] + Cross(a.vec, b.vec)["x"]
    BY <2>1, <2>2, PlusAt
  <2>5. sum["y"] = Times(a.w, b.vec)["y"] + Times(b.w, a.vec)["y"] + Cross(a.vec, b.vec)["y"]
    BY <2>1, <2>2, PlusAt
  <2>6. sum["z"] = Times(a.w, b.vec)["z"] + Times(b.w, a.vec)["z"] + Cross(a.vec, b.vec)["z"]
    BY <2>1, <2>2, PlusAt
  <2> HIDE DEF sum
  <2> QED BY <1>2, <1>3, <2>3, <2>4, <2>5, <2>6, TimesAt, CrossAt
<1>10. Product(a, b).vec = [i \in Axes |-> sum[i] \div 2]
  BY DEF Product, Over
<1>11. Product(a, b) = [vec |-> Product(a, b).vec, w |-> Product(a, b).w]
  BY DEF Product
<1> HIDE DEF sum, nw, nx, ny, nz
<1>12. /\ Product(a, b).vec \in Vector
       /\ Product(a, b).vec["x"] = nx \div 2
       /\ Product(a, b).vec["y"] = ny \div 2
       /\ Product(a, b).vec["z"] = nz \div 2
  BY <1>7, <1>9, <1>10 DEF Vector, Vectors, Axes
<1>13. Product(a, b) \in Quaternion
  BY <1>7, <1>8, <1>11, <1>12 DEF Quaternion
<1>14. /\ 2 * Product(a, b).w = nw /\ 2 * Product(a, b).vec["x"] = nx
       /\ 2 * Product(a, b).vec["y"] = ny /\ 2 * Product(a, b).vec["z"] = nz
  BY <1>6, <1>8, <1>12
<1> QED BY <1>2, <1>3, <1>13, <1>14 DEF nw, nx, ny, nz

\* What a rotated vector is, as q p q* expands: the half is exact.
LEMMA TurnedAt ==
  ASSUME NEW q \in Units, NEW p \in Vector
  PROVE  /\ Turned(q, p) \in Vector
         /\ 2 * (Turned(q, p)["x"] - p["x"]) =
              q.w * (q.vec["y"] * p["z"] - q.vec["z"] * p["y"])
              + (q.vec["y"] * (q.vec["x"] * p["y"] - q.vec["y"] * p["x"])
                 - q.vec["z"] * (q.vec["z"] * p["x"] - q.vec["x"] * p["z"]))
         /\ 2 * (Turned(q, p)["y"] - p["y"]) =
              q.w * (q.vec["z"] * p["x"] - q.vec["x"] * p["z"])
              + (q.vec["z"] * (q.vec["y"] * p["z"] - q.vec["z"] * p["y"])
                 - q.vec["x"] * (q.vec["x"] * p["y"] - q.vec["y"] * p["x"]))
         /\ 2 * (Turned(q, p)["z"] - p["z"]) =
              q.w * (q.vec["x"] * p["y"] - q.vec["y"] * p["x"])
              + (q.vec["x"] * (q.vec["z"] * p["x"] - q.vec["x"] * p["z"])
                 - q.vec["y"] * (q.vec["y"] * p["z"] - q.vec["z"] * p["y"]))
<1> DEFINE c == Cross(q.vec, p)
           sum == Plus(Times(q.w, c), Cross(q.vec, c))
<1>1. q \in Quaternion /\ (Odd(q) \/ Even(q))
  BY UnitAt
<1>2. q.vec \in Vector /\ q.w \in Int
  BY <1>1 DEF Quaternion
<1>3. /\ q.vec["x"] \in Int /\ q.vec["y"] \in Int /\ q.vec["z"] \in Int
      /\ p["x"] \in Int /\ p["y"] \in Int /\ p["z"] \in Int
  BY <1>2, VectorIn
<1>4. /\ c \in Vector
      /\ c["x"] = q.vec["y"] * p["z"] - q.vec["z"] * p["y"]
      /\ c["y"] = q.vec["z"] * p["x"] - q.vec["x"] * p["z"]
      /\ c["z"] = q.vec["x"] * p["y"] - q.vec["y"] * p["x"]
  BY <1>2, CrossAt
<1> HIDE DEF c
<1>5. /\ sum \in Vector
      /\ sum["x"] = q.w * c["x"] + (q.vec["y"] * c["z"] - q.vec["z"] * c["y"])
      /\ sum["y"] = q.w * c["y"] + (q.vec["z"] * c["x"] - q.vec["x"] * c["z"])
      /\ sum["z"] = q.w * c["z"] + (q.vec["x"] * c["y"] - q.vec["y"] * c["x"])
  <2>1. Times(q.w, c) \in Vector /\ Cross(q.vec, c) \in Vector
    BY <1>2, <1>4, TimesAt, CrossAt
  <2>2. /\ sum \in Vector
        /\ sum["x"] = Times(q.w, c)["x"] + Cross(q.vec, c)["x"]
        /\ sum["y"] = Times(q.w, c)["y"] + Cross(q.vec, c)["y"]
        /\ sum["z"] = Times(q.w, c)["z"] + Cross(q.vec, c)["z"]
    BY <2>1, PlusAt
  <2> HIDE DEF sum
  <2> QED BY <1>2, <1>4, <2>2, TimesAt, CrossAt
<1>6. Turned(q, p) = Plus(p, Over(sum, 2))
  BY DEF Turned, c
<1> HIDE DEF sum
<1>7. Turned(q, p) \in Vector /\ \A i \in Axes : Turned(q, p)[i] = p[i] + sum[i] \div 2
  BY <1>5, <1>6 DEF Vector, Vectors, Plus, Over
<1>8. sum["x"] % 2 = 0 /\ sum["y"] % 2 = 0 /\ sum["z"] % 2 = 0
  <2> DEFINE x == q.vec["x"]  y == q.vec["y"]  z == q.vec["z"]  w == q.w
             cx == c["x"]  cy == c["y"]  cz == c["z"]
  <2>1. cx \in Int /\ cy \in Int /\ cz \in Int
    BY <1>4, VectorIn
  <2>2. CASE Odd(q)
    <3>1. w \in {-1, 1} /\ x \in {-1, 1} /\ y \in {-1, 1} /\ z \in {-1, 1}
      BY <2>2 DEF Odd, Axes
    <3>2. /\ cx = y * p["z"] - z * p["y"]
          /\ cy = z * p["x"] - x * p["z"]
          /\ cz = x * p["y"] - y * p["x"]
      BY <1>4
    <3>3. /\ sum["x"] = w * cx + (y * cz - z * cy)
          /\ sum["y"] = w * cy + (z * cx - x * cz)
          /\ sum["z"] = w * cz + (x * cy - y * cx)
      BY <1>5
    <3> HIDE DEF x, y, z, w, cx, cy, cz
    <3>4. \A u \in {-1, 1} : \E k \in Int : u = 2 * k + 1
      <4>1. 1 = 2 * 0 + 1 /\ -1 = 2 * (-1) + 1 /\ 0 \in Int /\ -1 \in Int
        OBVIOUS
      <4> QED BY <4>1
    <3>5. PICK w1 \in Int : w = 2 * w1 + 1
      BY <3>1, <3>4
    <3>6. PICK x1 \in Int : x = 2 * x1 + 1
      BY <3>1, <3>4
    <3>7. PICK y1 \in Int : y = 2 * y1 + 1
      BY <3>1, <3>4
    <3>8. PICK z1 \in Int : z = 2 * z1 + 1
      BY <3>1, <3>4
    <3> DEFINE k == y1 * p["z"] - z1 * p["y"] + z1 * p["x"] - x1 * p["z"] + x1 * p["y"] - y1 * p["x"]
               kx == w1 * cx + y1 * cz - z1 * cy + k - cy
               ky == w1 * cy + z1 * cx - x1 * cz + k - cz
               kz == w1 * cz + x1 * cy - y1 * cx + k - cx
    <3>9. k \in Int /\ cx + cy + cz = 2 * k
      BY <1>3, <3>2, <3>6, <3>7, <3>8
    <3> HIDE DEF k
    <3>10. kx \in Int /\ ky \in Int /\ kz \in Int
      BY <2>1, <3>9
    <3>11. sum["x"] = 2 * kx /\ sum["y"] = 2 * ky /\ sum["z"] = 2 * kz
      <4>1. sum["x"] = 2 * (w1 * cx + y1 * cz - z1 * cy) + (cx + cy + cz) - 2 * cy
        BY <2>1, <3>3, <3>5, <3>7, <3>8
      <4>2. sum["y"] = 2 * (w1 * cy + z1 * cx - x1 * cz) + (cx + cy + cz) - 2 * cz
        BY <2>1, <3>3, <3>5, <3>6, <3>8
      <4>3. sum["z"] = 2 * (w1 * cz + x1 * cy - y1 * cx) + (cx + cy + cz) - 2 * cx
        BY <2>1, <3>3, <3>5, <3>6, <3>7
      <4> QED BY <2>1, <3>9, <4>1, <4>2, <4>3
    <3> HIDE DEF kx, ky, kz
    <3> QED BY <3>10, <3>11
  <2>3. CASE Even(q)
    <3>1. w \in {-2, 0, 2} /\ x \in {-2, 0, 2} /\ y \in {-2, 0, 2} /\ z \in {-2, 0, 2}
      BY <2>3 DEF Even, Axes
    <3>2. /\ sum["x"] = w * cx + (y * cz - z * cy)
          /\ sum["y"] = w * cy + (z * cx - x * cz)
          /\ sum["z"] = w * cz + (x * cy - y * cx)
      BY <1>5
    <3> HIDE DEF x, y, z, w, cx, cy, cz
    <3>3. \A u \in {-2, 0, 2} : \E k \in Int : u = 2 * k
      <4>1. 2 = 2 * 1 /\ 0 = 2 * 0 /\ -2 = 2 * (-1) /\ 0 \in Int /\ 1 \in Int /\ -1 \in Int
        OBVIOUS
      <4> QED BY <4>1
    <3>4. PICK w1 \in Int : w = 2 * w1
      BY <3>1, <3>3
    <3>5. PICK x1 \in Int : x = 2 * x1
      BY <3>1, <3>3
    <3>6. PICK y1 \in Int : y = 2 * y1
      BY <3>1, <3>3
    <3>7. PICK z1 \in Int : z = 2 * z1
      BY <3>1, <3>3
    <3> DEFINE kx == w1 * cx + y1 * cz - z1 * cy
               ky == w1 * cy + z1 * cx - x1 * cz
               kz == w1 * cz + x1 * cy - y1 * cx
    <3>8. sum["x"] = 2 * kx /\ sum["y"] = 2 * ky /\ sum["z"] = 2 * kz
      BY <2>1, <3>2, <3>4, <3>5, <3>6, <3>7
    <3>9. kx \in Int /\ ky \in Int /\ kz \in Int
      BY <2>1
    <3> HIDE DEF kx, ky, kz
    <3> QED BY <3>8, <3>9
  <2> QED BY <1>1, <2>2, <2>3
<1>9. \A n \in Int : n % 2 = 0 => 2 * (n \div 2) = n
  OBVIOUS
<1>10. sum["x"] \in Int /\ sum["y"] \in Int /\ sum["z"] \in Int
  BY <1>5, VectorIn
<1>11. /\ 2 * (Turned(q, p)["x"] - p["x"]) = sum["x"]
       /\ 2 * (Turned(q, p)["y"] - p["y"]) = sum["y"]
       /\ 2 * (Turned(q, p)["z"] - p["z"]) = sum["z"]
  <2>1. /\ Turned(q, p)["x"] = p["x"] + sum["x"] \div 2
        /\ Turned(q, p)["y"] = p["y"] + sum["y"] \div 2
        /\ Turned(q, p)["z"] = p["z"] + sum["z"] \div 2
    BY <1>7 DEF Axes
  <2>2. /\ 2 * (sum["x"] \div 2) = sum["x"] /\ 2 * (sum["y"] \div 2) = sum["y"]
        /\ 2 * (sum["z"] \div 2) = sum["z"]
    BY <1>8, <1>9, <1>10, Zenon
  <2> DEFINE hx == sum["x"] \div 2  hy == sum["y"] \div 2  hz == sum["z"] \div 2
  <2>3. hx \in Int /\ hy \in Int /\ hz \in Int
    BY <1>10
  <2> HIDE DEF hx, hy, hz
  <2>4. /\ Turned(q, p)["x"] - p["x"] = hx /\ Turned(q, p)["y"] - p["y"] = hy
        /\ Turned(q, p)["z"] - p["z"] = hz
    BY <1>3, <2>1, <2>3 DEF hx, hy, hz
  <2> QED BY <2>2, <2>4 DEF hx, hy, hz
<1> QED BY <1>4, <1>5, <1>7, <1>11

-----------------------------------------------------------------------------
(* The unit quaternions are a group, which turns the vectors.              *)

\* The norm is multiplicative.
LEMMA ProductInUnits ==
  ASSUME NEW a \in Units, NEW b \in Units
  PROVE  Product(a, b) \in Units
<1> DEFINE x1 == a.vec["x"]  y1 == a.vec["y"]  z1 == a.vec["z"]  w1 == a.w
           x2 == b.vec["x"]  y2 == b.vec["y"]  z2 == b.vec["z"]  w2 == b.w
           x == Product(a, b).vec["x"]  y == Product(a, b).vec["y"]
           z == Product(a, b).vec["z"]  w == Product(a, b).w
<1>1. /\ a \in Quaternion /\ b \in Quaternion /\ Product(a, b) \in Quaternion
      /\ 2 * w = w1 * w2 - x1 * x2 - y1 * y2 - z1 * z2
      /\ 2 * x = w1 * x2 + w2 * x1 + y1 * z2 - z1 * y2
      /\ 2 * y = w1 * y2 + w2 * y1 + z1 * x2 - x1 * z2
      /\ 2 * z = w1 * z2 + w2 * z1 + x1 * y2 - y1 * x2
      /\ x1 * x1 + y1 * y1 + z1 * z1 + w1 * w1 = 4
      /\ x2 * x2 + y2 * y2 + z2 * z2 + w2 * w2 = 4
  BY UnitAt, ProductAt
<1>2. /\ x1 \in Int /\ y1 \in Int /\ z1 \in Int /\ w1 \in Int
      /\ x2 \in Int /\ y2 \in Int /\ z2 \in Int /\ w2 \in Int
      /\ x \in Int /\ y \in Int /\ z \in Int /\ w \in Int
  BY <1>1, VectorIn DEF Quaternion
<1>3. Norm2(Product(a, b)) = x * x + y * y + z * z + w * w
  BY <1>1, DotAt DEF Norm2, Quaternion
<1> HIDE DEF x1, y1, z1, w1, x2, y2, z2, w2, x, y, z, w
<1>4. (2 * x) * (2 * x) + (2 * y) * (2 * y) + (2 * z) * (2 * z) + (2 * w) * (2 * w)
        = (x1 * x1 + y1 * y1 + z1 * z1 + w1 * w1) * (x2 * x2 + y2 * y2 + z2 * z2 + w2 * w2)
  <2> DEFINE nw == w1 * w2 - x1 * x2 - y1 * y2 - z1 * z2
             nx == w1 * x2 + w2 * x1 + y1 * z2 - z1 * y2
             ny == w1 * y2 + w2 * y1 + z1 * x2 - x1 * z2
             nz == w1 * z2 + w2 * z1 + x1 * y2 - y1 * x2
  <2>1. nx * nx + ny * ny + nz * nz + nw * nw
          = (x1 * x1 + y1 * y1 + z1 * z1 + w1 * w1) * (x2 * x2 + y2 * y2 + z2 * z2 + w2 * w2)
    BY <1>2
  <2>2. 2 * w = nw /\ 2 * x = nx /\ 2 * y = ny /\ 2 * z = nz
    BY <1>1
  <2> HIDE DEF nw, nx, ny, nz
  <2> QED BY <2>1, <2>2
<1>5. 4 * (x * x + y * y + z * z + w * w) = 16
  BY <1>1, <1>2, <1>4
<1>6. x * x + y * y + z * z + w * w = 4
  BY <1>2, <1>5
<1> QED BY <1>1, <1>3, <1>6, UnitByNorm

\* Four times the rotated vector, as a matrix of squares.
Mx(x, y, z, w, a, b, c) ==
  (w * w + x * x - y * y - z * z) * a + 2 * (x * y - w * z) * b + 2 * (x * z + w * y) * c
My(x, y, z, w, a, b, c) ==
  (w * w - x * x + y * y - z * z) * b + 2 * (y * z - w * x) * c + 2 * (x * y + w * z) * a
Mz(x, y, z, w, a, b, c) ==
  (w * w - x * x - y * y + z * z) * c + 2 * (x * z - w * y) * a + 2 * (y * z + w * x) * b

\* A vector is turned by the matrix of the quaternion.
LEMMA TurnedByMatrix ==
  ASSUME NEW q \in Units, NEW p \in Vector
  PROVE  /\ Turned(q, p) \in Vector
         /\ 4 * Turned(q, p)["x"] =
              Mx(q.vec["x"], q.vec["y"], q.vec["z"], q.w, p["x"], p["y"], p["z"])
         /\ 4 * Turned(q, p)["y"] =
              My(q.vec["x"], q.vec["y"], q.vec["z"], q.w, p["x"], p["y"], p["z"])
         /\ 4 * Turned(q, p)["z"] =
              Mz(q.vec["x"], q.vec["y"], q.vec["z"], q.w, p["x"], p["y"], p["z"])
<1> DEFINE x == q.vec["x"]  y == q.vec["y"]  z == q.vec["z"]  w == q.w
           a == p["x"]  b == p["y"]  c == p["z"]
           a1 == Turned(q, p)["x"]  b1 == Turned(q, p)["y"]  c1 == Turned(q, p)["z"]
<1>1. /\ q \in Quaternion /\ Turned(q, p) \in Vector
      /\ x * x + y * y + z * z + w * w = 4
      /\ 2 * (a1 - a) = w * (y * c - z * b) + (y * (x * b - y * a) - z * (z * a - x * c))
      /\ 2 * (b1 - b) = w * (z * a - x * c) + (z * (y * c - z * b) - x * (x * b - y * a))
      /\ 2 * (c1 - c) = w * (x * b - y * a) + (x * (z * a - x * c) - y * (y * c - z * b))
  BY UnitAt, TurnedAt
<1>2. /\ x \in Int /\ y \in Int /\ z \in Int /\ w \in Int
      /\ a \in Int /\ b \in Int /\ c \in Int /\ a1 \in Int /\ b1 \in Int /\ c1 \in Int
  BY <1>1, VectorIn DEF Quaternion
<1> HIDE DEF x, y, z, w, a, b, c, a1, b1, c1
<1>3. /\ 4 * a = (x * x + y * y + z * z + w * w) * a
      /\ 4 * b = (x * x + y * y + z * z + w * w) * b
      /\ 4 * c = (x * x + y * y + z * z + w * w) * c
  BY <1>1
<1>4. 4 * a1 = Mx(x, y, z, w, a, b, c)
  BY <1>1, <1>2, <1>3 DEF Mx
<1>5. 4 * b1 = My(x, y, z, w, a, b, c)
  BY <1>1, <1>2, <1>3 DEF My
<1>6. 4 * c1 = Mz(x, y, z, w, a, b, c)
  BY <1>1, <1>2, <1>3 DEF Mz
<1> QED BY <1>1, <1>4, <1>5, <1>6 DEF x, y, z, w, a, b, c, a1, b1, c1

\* Twice the product of two quaternions, coordinate by coordinate.
Px(x, y, z, w, a, b, c, d) == w * a + d * x + y * c - z * b
Py(x, y, z, w, a, b, c, d) == w * b + d * y + z * a - x * c
Pz(x, y, z, w, a, b, c, d) == w * c + d * z + x * b - y * a
Pw(x, y, z, w, a, b, c, d) == w * d - x * a - y * b - z * c

LEMMA UnitIn ==
  ASSUME NEW q \in Units
  PROVE  /\ q.vec["x"] \in Int /\ q.vec["y"] \in Int /\ q.vec["z"] \in Int /\ q.w \in Int
         /\ q \in Quaternion /\ q.vec \in Vector
BY UnitAt, VectorIn DEF Quaternion

LEMMA UnitsEqual ==
  ASSUME NEW a \in Units, NEW b \in Units,
         a.vec["x"] = b.vec["x"], a.vec["y"] = b.vec["y"], a.vec["z"] = b.vec["z"], a.w = b.w
  PROVE  a = b
BY UnitIn, VectorsEqual, QuaternionsEqual

\* Both ways of multiplying three units are four times the same.
LEMMA Associative ==
  ASSUME NEW a \in Units, NEW b \in Units, NEW c \in Units
  PROVE  Product(Product(a, b), c) = Product(a, Product(b, c))
<1> DEFINE X == Product(a, b)  Y == Product(b, c)
           L == Product(X, c)  R == Product(a, Y)
           xa == a.vec["x"]  ya == a.vec["y"]  za == a.vec["z"]  wa == a.w
           xb == b.vec["x"]  yb == b.vec["y"]  zb == b.vec["z"]  wb == b.w
           xc == c.vec["x"]  yc == c.vec["y"]  zc == c.vec["z"]  wc == c.w
           xxx == X.vec["x"]  yxx == X.vec["y"]  zxx == X.vec["z"]  wxx == X.w
           xyy == Y.vec["x"]  yyy == Y.vec["y"]  zyy == Y.vec["z"]  wyy == Y.w
<1>1. X \in Units /\ Y \in Units
  BY ProductInUnits
<1>2. L \in Units /\ R \in Units
  BY <1>1, ProductInUnits
<1>3. /\ xa \in Int /\ ya \in Int /\ za \in Int /\ wa \in Int
      /\ xb \in Int /\ yb \in Int /\ zb \in Int /\ wb \in Int
      /\ xc \in Int /\ yc \in Int /\ zc \in Int /\ wc \in Int
      /\ xxx \in Int /\ yxx \in Int /\ zxx \in Int /\ wxx \in Int
      /\ xyy \in Int /\ yyy \in Int /\ zyy \in Int /\ wyy \in Int
  BY <1>1, UnitIn
<1>4. /\ 2 * xxx = Px(xa, ya, za, wa, xb, yb, zb, wb)
      /\ 2 * yxx = Py(xa, ya, za, wa, xb, yb, zb, wb)
      /\ 2 * zxx = Pz(xa, ya, za, wa, xb, yb, zb, wb)
      /\ 2 * wxx = Pw(xa, ya, za, wa, xb, yb, zb, wb)
  BY ProductAt DEF Px, Py, Pz, Pw
<1>5. /\ 2 * xyy = Px(xb, yb, zb, wb, xc, yc, zc, wc)
      /\ 2 * yyy = Py(xb, yb, zb, wb, xc, yc, zc, wc)
      /\ 2 * zyy = Pz(xb, yb, zb, wb, xc, yc, zc, wc)
      /\ 2 * wyy = Pw(xb, yb, zb, wb, xc, yc, zc, wc)
  BY ProductAt DEF Px, Py, Pz, Pw
<1>6. /\ 2 * L.vec["x"] = Px(xxx, yxx, zxx, wxx, xc, yc, zc, wc)
      /\ 2 * L.vec["y"] = Py(xxx, yxx, zxx, wxx, xc, yc, zc, wc)
      /\ 2 * L.vec["z"] = Pz(xxx, yxx, zxx, wxx, xc, yc, zc, wc)
      /\ 2 * L.w = Pw(xxx, yxx, zxx, wxx, xc, yc, zc, wc)
  BY <1>1, ProductAt DEF Px, Py, Pz, Pw
<1>7. /\ 2 * R.vec["x"] = Px(xa, ya, za, wa, xyy, yyy, zyy, wyy)
      /\ 2 * R.vec["y"] = Py(xa, ya, za, wa, xyy, yyy, zyy, wyy)
      /\ 2 * R.vec["z"] = Pz(xa, ya, za, wa, xyy, yyy, zyy, wyy)
      /\ 2 * R.w = Pw(xa, ya, za, wa, xyy, yyy, zyy, wyy)
  BY <1>1, ProductAt DEF Px, Py, Pz, Pw
<1> HIDE DEF X, Y, L, R
<1> HIDE DEF xa, ya, za, wa, xb, yb, zb, wb, xc, yc, zc, wc, xxx, yxx, zxx, wxx, xyy, yyy, zyy, wyy
<1>8. /\ 4 * L.vec["x"] = Px(2 * xxx, 2 * yxx, 2 * zxx, 2 * wxx, xc, yc, zc, wc)
      /\ 4 * L.vec["y"] = Py(2 * xxx, 2 * yxx, 2 * zxx, 2 * wxx, xc, yc, zc, wc)
      /\ 4 * L.vec["z"] = Pz(2 * xxx, 2 * yxx, 2 * zxx, 2 * wxx, xc, yc, zc, wc)
      /\ 4 * L.w = Pw(2 * xxx, 2 * yxx, 2 * zxx, 2 * wxx, xc, yc, zc, wc)
  <2>1. /\ Px(2 * xxx, 2 * yxx, 2 * zxx, 2 * wxx, xc, yc, zc, wc) = 2 * Px(xxx, yxx, zxx, wxx, xc, yc, zc, wc)
        /\ Py(2 * xxx, 2 * yxx, 2 * zxx, 2 * wxx, xc, yc, zc, wc) = 2 * Py(xxx, yxx, zxx, wxx, xc, yc, zc, wc)
        /\ Pz(2 * xxx, 2 * yxx, 2 * zxx, 2 * wxx, xc, yc, zc, wc) = 2 * Pz(xxx, yxx, zxx, wxx, xc, yc, zc, wc)
        /\ Pw(2 * xxx, 2 * yxx, 2 * zxx, 2 * wxx, xc, yc, zc, wc) = 2 * Pw(xxx, yxx, zxx, wxx, xc, yc, zc, wc)
    BY <1>3 DEF Px, Py, Pz, Pw
  <2>2. /\ Px(xxx, yxx, zxx, wxx, xc, yc, zc, wc) \in Int
        /\ Py(xxx, yxx, zxx, wxx, xc, yc, zc, wc) \in Int
        /\ Pz(xxx, yxx, zxx, wxx, xc, yc, zc, wc) \in Int
        /\ Pw(xxx, yxx, zxx, wxx, xc, yc, zc, wc) \in Int
    BY <1>3 DEF Px, Py, Pz, Pw
  <2> QED BY <1>2, <1>6, <2>1, <2>2, UnitIn
<1>9. /\ 4 * R.vec["x"] = Px(xa, ya, za, wa, 2 * xyy, 2 * yyy, 2 * zyy, 2 * wyy)
      /\ 4 * R.vec["y"] = Py(xa, ya, za, wa, 2 * xyy, 2 * yyy, 2 * zyy, 2 * wyy)
      /\ 4 * R.vec["z"] = Pz(xa, ya, za, wa, 2 * xyy, 2 * yyy, 2 * zyy, 2 * wyy)
      /\ 4 * R.w = Pw(xa, ya, za, wa, 2 * xyy, 2 * yyy, 2 * zyy, 2 * wyy)
  <2>1. /\ Px(xa, ya, za, wa, 2 * xyy, 2 * yyy, 2 * zyy, 2 * wyy) = 2 * Px(xa, ya, za, wa, xyy, yyy, zyy, wyy)
        /\ Py(xa, ya, za, wa, 2 * xyy, 2 * yyy, 2 * zyy, 2 * wyy) = 2 * Py(xa, ya, za, wa, xyy, yyy, zyy, wyy)
        /\ Pz(xa, ya, za, wa, 2 * xyy, 2 * yyy, 2 * zyy, 2 * wyy) = 2 * Pz(xa, ya, za, wa, xyy, yyy, zyy, wyy)
        /\ Pw(xa, ya, za, wa, 2 * xyy, 2 * yyy, 2 * zyy, 2 * wyy) = 2 * Pw(xa, ya, za, wa, xyy, yyy, zyy, wyy)
    BY <1>3 DEF Px, Py, Pz, Pw
  <2>2. /\ Px(xa, ya, za, wa, xyy, yyy, zyy, wyy) \in Int
        /\ Py(xa, ya, za, wa, xyy, yyy, zyy, wyy) \in Int
        /\ Pz(xa, ya, za, wa, xyy, yyy, zyy, wyy) \in Int
        /\ Pw(xa, ya, za, wa, xyy, yyy, zyy, wyy) \in Int
    BY <1>3 DEF Px, Py, Pz, Pw
  <2> QED BY <1>2, <1>7, <2>1, <2>2, UnitIn
<1> DEFINE xl == Px(xa, ya, za, wa, xb, yb, zb, wb)
           yl == Py(xa, ya, za, wa, xb, yb, zb, wb)
           zl == Pz(xa, ya, za, wa, xb, yb, zb, wb)
           wl == Pw(xa, ya, za, wa, xb, yb, zb, wb)
           xr == Px(xb, yb, zb, wb, xc, yc, zc, wc)
           yr == Py(xb, yb, zb, wb, xc, yc, zc, wc)
           zr == Pz(xb, yb, zb, wb, xc, yc, zc, wc)
           wr == Pw(xb, yb, zb, wb, xc, yc, zc, wc)
<1>10. /\ Px(xl, yl, zl, wl, xc, yc, zc, wc) = Px(xa, ya, za, wa, xr, yr, zr, wr)
       /\ Py(xl, yl, zl, wl, xc, yc, zc, wc) = Py(xa, ya, za, wa, xr, yr, zr, wr)
       /\ Pz(xl, yl, zl, wl, xc, yc, zc, wc) = Pz(xa, ya, za, wa, xr, yr, zr, wr)
       /\ Pw(xl, yl, zl, wl, xc, yc, zc, wc) = Pw(xa, ya, za, wa, xr, yr, zr, wr)
  BY <1>3 DEF Px, Py, Pz, Pw
<1> HIDE DEF xl, yl, zl, wl, xr, yr, zr, wr
<1>11. /\ 4 * L.vec["x"] = Px(xl, yl, zl, wl, xc, yc, zc, wc)
       /\ 4 * L.vec["y"] = Py(xl, yl, zl, wl, xc, yc, zc, wc)
       /\ 4 * L.vec["z"] = Pz(xl, yl, zl, wl, xc, yc, zc, wc)
       /\ 4 * L.w = Pw(xl, yl, zl, wl, xc, yc, zc, wc)
  BY <1>4, <1>8 DEF xl, yl, zl, wl
<1>12. /\ 4 * R.vec["x"] = Px(xa, ya, za, wa, xr, yr, zr, wr)
       /\ 4 * R.vec["y"] = Py(xa, ya, za, wa, xr, yr, zr, wr)
       /\ 4 * R.vec["z"] = Pz(xa, ya, za, wa, xr, yr, zr, wr)
       /\ 4 * R.w = Pw(xa, ya, za, wa, xr, yr, zr, wr)
  BY <1>5, <1>9 DEF xr, yr, zr, wr
<1>13. L.vec["x"] = R.vec["x"] /\ L.vec["y"] = R.vec["y"] /\ L.vec["z"] = R.vec["z"] /\ L.w = R.w
  BY <1>2, <1>10, <1>11, <1>12, UnitIn
<1> QED BY <1>2, <1>13, UnitsEqual DEF X, Y, L, R

\* Turning by a product is turning twice.
LEMMA TurnedProduct ==
  ASSUME NEW a \in Units, NEW b \in Units, NEW p \in Vector
  PROVE  Turned(Product(a, b), p) = Turned(a, Turned(b, p))
<1> DEFINE X == Product(a, b)  m == Turned(b, p)  L == Turned(X, p)  R == Turned(a, m)
           xa == a.vec["x"]  ya == a.vec["y"]  za == a.vec["z"]  wa == a.w
           xb == b.vec["x"]  yb == b.vec["y"]  zb == b.vec["z"]  wb == b.w
           xxx == X.vec["x"]  yxx == X.vec["y"]  zxx == X.vec["z"]  wxx == X.w
           ip == p["x"]  jp == p["y"]  kp == p["z"]
           im == m["x"]  jm == m["y"]  km == m["z"]
<1>1. X \in Units
  BY ProductInUnits
<1>2. m \in Vector
  BY TurnedAt
<1>3. L \in Vector /\ R \in Vector
  BY <1>1, <1>2, TurnedAt
<1>4. /\ xa \in Int /\ ya \in Int /\ za \in Int /\ wa \in Int
      /\ xb \in Int /\ yb \in Int /\ zb \in Int /\ wb \in Int
      /\ xxx \in Int /\ yxx \in Int /\ zxx \in Int /\ wxx \in Int
      /\ ip \in Int /\ jp \in Int /\ kp \in Int
      /\ im \in Int /\ jm \in Int /\ km \in Int
  BY <1>1, <1>2, UnitIn, VectorIn
<1>5. /\ 2 * xxx = Px(xa, ya, za, wa, xb, yb, zb, wb)
      /\ 2 * yxx = Py(xa, ya, za, wa, xb, yb, zb, wb)
      /\ 2 * zxx = Pz(xa, ya, za, wa, xb, yb, zb, wb)
      /\ 2 * wxx = Pw(xa, ya, za, wa, xb, yb, zb, wb)
  BY ProductAt DEF Px, Py, Pz, Pw
<1>6. /\ 4 * L["x"] = Mx(xxx, yxx, zxx, wxx, ip, jp, kp)
      /\ 4 * L["y"] = My(xxx, yxx, zxx, wxx, ip, jp, kp)
      /\ 4 * L["z"] = Mz(xxx, yxx, zxx, wxx, ip, jp, kp)
  BY <1>1, TurnedByMatrix
<1>7. /\ 4 * im = Mx(xb, yb, zb, wb, ip, jp, kp)
      /\ 4 * jm = My(xb, yb, zb, wb, ip, jp, kp)
      /\ 4 * km = Mz(xb, yb, zb, wb, ip, jp, kp)
  BY TurnedByMatrix
<1>8. /\ 4 * R["x"] = Mx(xa, ya, za, wa, im, jm, km)
      /\ 4 * R["y"] = My(xa, ya, za, wa, im, jm, km)
      /\ 4 * R["z"] = Mz(xa, ya, za, wa, im, jm, km)
  BY <1>2, TurnedByMatrix
<1>9. /\ L["x"] \in Int /\ L["y"] \in Int /\ L["z"] \in Int
      /\ R["x"] \in Int /\ R["y"] \in Int /\ R["z"] \in Int
  BY <1>3, VectorIn
<1> HIDE DEF X, m, L, R
<1> HIDE DEF xa, ya, za, wa, xb, yb, zb, wb, xxx, yxx, zxx, wxx, ip, jp, kp, im, jm, km
<1>10. /\ 16 * L["x"] = Mx(2 * xxx, 2 * yxx, 2 * zxx, 2 * wxx, ip, jp, kp)
       /\ 16 * L["y"] = My(2 * xxx, 2 * yxx, 2 * zxx, 2 * wxx, ip, jp, kp)
       /\ 16 * L["z"] = Mz(2 * xxx, 2 * yxx, 2 * zxx, 2 * wxx, ip, jp, kp)
  <2>1. /\ Mx(2 * xxx, 2 * yxx, 2 * zxx, 2 * wxx, ip, jp, kp) = 4 * Mx(xxx, yxx, zxx, wxx, ip, jp, kp)
        /\ My(2 * xxx, 2 * yxx, 2 * zxx, 2 * wxx, ip, jp, kp) = 4 * My(xxx, yxx, zxx, wxx, ip, jp, kp)
        /\ Mz(2 * xxx, 2 * yxx, 2 * zxx, 2 * wxx, ip, jp, kp) = 4 * Mz(xxx, yxx, zxx, wxx, ip, jp, kp)
    BY <1>4 DEF Mx, My, Mz
  <2>2. /\ Mx(xxx, yxx, zxx, wxx, ip, jp, kp) \in Int
        /\ My(xxx, yxx, zxx, wxx, ip, jp, kp) \in Int
        /\ Mz(xxx, yxx, zxx, wxx, ip, jp, kp) \in Int
    BY <1>4 DEF Mx, My, Mz
  <2> QED BY <1>6, <1>9, <2>1, <2>2
<1>11. /\ 16 * R["x"] = Mx(xa, ya, za, wa, 4 * im, 4 * jm, 4 * km)
       /\ 16 * R["y"] = My(xa, ya, za, wa, 4 * im, 4 * jm, 4 * km)
       /\ 16 * R["z"] = Mz(xa, ya, za, wa, 4 * im, 4 * jm, 4 * km)
  BY <1>4, <1>8, <1>9 DEF Mx, My, Mz
<1> DEFINE xl == Px(xa, ya, za, wa, xb, yb, zb, wb)
           yl == Py(xa, ya, za, wa, xb, yb, zb, wb)
           zl == Pz(xa, ya, za, wa, xb, yb, zb, wb)
           wl == Pw(xa, ya, za, wa, xb, yb, zb, wb)
           ir == Mx(xb, yb, zb, wb, ip, jp, kp)
           jr == My(xb, yb, zb, wb, ip, jp, kp)
           kr == Mz(xb, yb, zb, wb, ip, jp, kp)
<1>12. /\ Mx(xl, yl, zl, wl, ip, jp, kp) = Mx(xa, ya, za, wa, ir, jr, kr)
       /\ My(xl, yl, zl, wl, ip, jp, kp) = My(xa, ya, za, wa, ir, jr, kr)
       /\ Mz(xl, yl, zl, wl, ip, jp, kp) = Mz(xa, ya, za, wa, ir, jr, kr)
  BY <1>4 DEF Px, Py, Pz, Pw, Mx, My, Mz
<1> HIDE DEF xl, yl, zl, wl, ir, jr, kr
<1>13. /\ 16 * L["x"] = Mx(xl, yl, zl, wl, ip, jp, kp)
       /\ 16 * L["y"] = My(xl, yl, zl, wl, ip, jp, kp)
       /\ 16 * L["z"] = Mz(xl, yl, zl, wl, ip, jp, kp)
  BY <1>5, <1>10 DEF xl, yl, zl, wl
<1>14. /\ 16 * R["x"] = Mx(xa, ya, za, wa, ir, jr, kr)
       /\ 16 * R["y"] = My(xa, ya, za, wa, ir, jr, kr)
       /\ 16 * R["z"] = Mz(xa, ya, za, wa, ir, jr, kr)
  BY <1>7, <1>11 DEF ir, jr, kr
<1>15. L["x"] = R["x"] /\ L["y"] = R["y"] /\ L["z"] = R["z"]
  BY <1>9, <1>12, <1>13, <1>14
<1> QED BY <1>3, <1>15, VectorsEqual DEF X, m, L, R

LEMMA OneAt ==
  One \in Units /\ One.vec = Origin /\ One.w = 2
<1>1. One \in Quaternion /\ One.vec = Origin /\ One.w = 2
  BY OriginAt DEF One, Quaternion
<1>2. Norm2(One) = 4
  BY <1>1, OriginAt, DotAt DEF Norm2
<1> QED BY <1>1, <1>2, UnitByNorm

LEMMA ConjugateAt ==
  ASSUME NEW q \in Units
  PROVE  /\ Conjugate(q) \in Units
         /\ Conjugate(q).vec["x"] = -q.vec["x"] /\ Conjugate(q).vec["y"] = -q.vec["y"]
         /\ Conjugate(q).vec["z"] = -q.vec["z"] /\ Conjugate(q).w = q.w
<1>1. q \in Quaternion /\ q.vec \in Vector /\ q.w \in Int
  BY UnitIn
<1>2. Conjugate(q).vec = Times(-1, q.vec) /\ Conjugate(q).w = q.w
  BY <1>1 DEF Conjugate, Quaternion
<1>3. /\ Times(-1, q.vec) \in Vector
      /\ Times(-1, q.vec)["x"] = -q.vec["x"] /\ Times(-1, q.vec)["y"] = -q.vec["y"]
      /\ Times(-1, q.vec)["z"] = -q.vec["z"]
  BY <1>1, TimesAt, UnitIn
<1>4. Conjugate(q) \in Quaternion
  BY <1>1, <1>3 DEF Conjugate, Quaternion
<1>5. Norm2(Conjugate(q)) = 4
  BY <1>1, <1>2, <1>3, UnitAt, UnitIn, DotAt DEF Norm2
<1> QED BY <1>2, <1>3, <1>4, <1>5, UnitByNorm

LEMMA NegativeAt ==
  ASSUME NEW q \in Units
  PROVE  /\ Scaled(-1, q) \in Units
         /\ Scaled(-1, q).vec["x"] = -q.vec["x"] /\ Scaled(-1, q).vec["y"] = -q.vec["y"]
         /\ Scaled(-1, q).vec["z"] = -q.vec["z"] /\ Scaled(-1, q).w = -q.w
<1>1. q \in Quaternion /\ q.vec \in Vector /\ q.w \in Int
  BY UnitIn
<1>2. Scaled(-1, q).vec = Times(-1, q.vec) /\ Scaled(-1, q).w = -q.w
  BY <1>1 DEF Scaled
<1>3. /\ Times(-1, q.vec) \in Vector
      /\ Times(-1, q.vec)["x"] = -q.vec["x"] /\ Times(-1, q.vec)["y"] = -q.vec["y"]
      /\ Times(-1, q.vec)["z"] = -q.vec["z"]
  BY <1>1, TimesAt, UnitIn
<1>4. Scaled(-1, q) \in Quaternion
  BY <1>1, <1>3 DEF Scaled, Quaternion
<1>5. Norm2(Scaled(-1, q)) = 4
  BY <1>1, <1>2, <1>3, UnitAt, UnitIn, DotAt DEF Norm2
<1> QED BY <1>2, <1>3, <1>4, <1>5, UnitByNorm

LEMMA OneTimes ==
  ASSUME NEW q \in Units
  PROVE  Product(One, q) = q
<1>1. One \in Units /\ One.vec = Origin /\ One.w = 2
  BY OneAt
<1>2. Product(One, q) \in Units
  BY <1>1, ProductInUnits
<1>3. /\ 2 * Product(One, q).w = 2 * q.w
      /\ 2 * Product(One, q).vec["x"] = 2 * q.vec["x"]
      /\ 2 * Product(One, q).vec["y"] = 2 * q.vec["y"]
      /\ 2 * Product(One, q).vec["z"] = 2 * q.vec["z"]
  <2> DEFINE x == q.vec["x"]  y == q.vec["y"]  z == q.vec["z"]  w == q.w
  <2>1. /\ 2 * Product(One, q).w = 2 * w - 0 * x - 0 * y - 0 * z
        /\ 2 * Product(One, q).vec["x"] = 2 * x + w * 0 + 0 * z - 0 * y
        /\ 2 * Product(One, q).vec["y"] = 2 * y + w * 0 + 0 * x - 0 * z
        /\ 2 * Product(One, q).vec["z"] = 2 * z + w * 0 + 0 * y - 0 * x
    <3>1. One.vec["x"] = 0 /\ One.vec["y"] = 0 /\ One.vec["z"] = 0 /\ One.w = 2
      BY <1>1, OriginAt
    <3> HIDE DEF x, y, z, w
    <3> QED BY <1>1, <3>1, ProductAt DEF x, y, z, w
  <2>2. x \in Int /\ y \in Int /\ z \in Int /\ w \in Int
    BY UnitIn
  <2> HIDE DEF x, y, z, w
  <2>3. /\ 2 * w - 0 * x - 0 * y - 0 * z = 2 * w /\ 2 * x + w * 0 + 0 * z - 0 * y = 2 * x
        /\ 2 * y + w * 0 + 0 * x - 0 * z = 2 * y /\ 2 * z + w * 0 + 0 * y - 0 * x = 2 * z
    BY <2>2
  <2> QED BY <2>1, <2>3 DEF x, y, z, w
<1> QED BY <1>2, <1>3, UnitIn, UnitsEqual

\* The conjugate is the inverse.
LEMMA ConjugateInverts ==
  ASSUME NEW q \in Units
  PROVE  Product(Conjugate(q), q) = One /\ Product(q, Conjugate(q)) = One
<1> DEFINE L == Product(Conjugate(q), q)  R == Product(q, Conjugate(q))
           x == q.vec["x"]  y == q.vec["y"]  z == q.vec["z"]  w == q.w
<1>1. /\ Conjugate(q) \in Units /\ One \in Units /\ One.vec["x"] = 0 /\ One.vec["y"] = 0
      /\ One.vec["z"] = 0 /\ One.w = 2 /\ x \in Int /\ y \in Int /\ z \in Int /\ w \in Int
      /\ x * x + y * y + z * z + w * w = 4
  BY ConjugateAt, OneAt, OriginAt, UnitIn, UnitAt
<1>2. L \in Units /\ R \in Units
  BY <1>1, ProductInUnits
<1>3. /\ 2 * L.w = w * w - (-x) * x - (-y) * y - (-z) * z
      /\ 2 * L.vec["x"] = w * x + w * (-x) + (-y) * z - (-z) * y
      /\ 2 * L.vec["y"] = w * y + w * (-y) + (-z) * x - (-x) * z
      /\ 2 * L.vec["z"] = w * z + w * (-z) + (-x) * y - (-y) * x
  BY <1>1, ProductAt, ConjugateAt
<1>4. /\ 2 * R.w = w * w - x * (-x) - y * (-y) - z * (-z)
      /\ 2 * R.vec["x"] = w * (-x) + w * x + y * (-z) - z * (-y)
      /\ 2 * R.vec["y"] = w * (-y) + w * y + z * (-x) - x * (-z)
      /\ 2 * R.vec["z"] = w * (-z) + w * z + x * (-y) - y * (-x)
  BY <1>1, ProductAt, ConjugateAt
<1> HIDE DEF L, R, x, y, z, w
<1>5. L.vec["x"] = 0 /\ L.vec["y"] = 0 /\ L.vec["z"] = 0 /\ L.w = 2
  <2>1. /\ w * w - (-x) * x - (-y) * y - (-z) * z = 4
        /\ w * x + w * (-x) + (-y) * z - (-z) * y = 0
        /\ w * y + w * (-y) + (-z) * x - (-x) * z = 0
        /\ w * z + w * (-z) + (-x) * y - (-y) * x = 0
    BY <1>1
  <2>2. 2 * L.w = 4 /\ 2 * L.vec["x"] = 0 /\ 2 * L.vec["y"] = 0 /\ 2 * L.vec["z"] = 0
    BY <1>3, <2>1
  <2> QED BY <1>2, <2>2, UnitIn
<1>6. R.vec["x"] = 0 /\ R.vec["y"] = 0 /\ R.vec["z"] = 0 /\ R.w = 2
  <2>1. /\ w * w - x * (-x) - y * (-y) - z * (-z) = 4
        /\ w * (-x) + w * x + y * (-z) - z * (-y) = 0
        /\ w * (-y) + w * y + z * (-x) - x * (-z) = 0
        /\ w * (-z) + w * z + x * (-y) - y * (-x) = 0
    BY <1>1
  <2>2. 2 * R.w = 4 /\ 2 * R.vec["x"] = 0 /\ 2 * R.vec["y"] = 0 /\ 2 * R.vec["z"] = 0
    BY <1>4, <2>1
  <2> QED BY <1>2, <2>2, UnitIn
<1> QED BY <1>1, <1>2, <1>5, <1>6, UnitsEqual DEF L, R

LEMMA ConjugateTwice ==
  ASSUME NEW q \in Units
  PROVE  Conjugate(Conjugate(q)) = q
<1>1. Conjugate(q) \in Units /\ Conjugate(Conjugate(q)) \in Units
  BY ConjugateAt
<1> QED BY <1>1, ConjugateAt, UnitIn, UnitsEqual

\* Vectors add up as usual, and turning them respects that.
LEMMA TurnedOne ==
  ASSUME NEW p \in Vector
  PROVE  Turned(One, p) = p
<1>1. One \in Units /\ One.vec["x"] = 0 /\ One.vec["y"] = 0 /\ One.vec["z"] = 0 /\ One.w = 2
  BY OneAt, OriginAt
<1>2. Turned(One, p) \in Vector
  BY <1>1, TurnedAt
<1>3. /\ 4 * Turned(One, p)["x"] = 4 * p["x"]
      /\ 4 * Turned(One, p)["y"] = 4 * p["y"]
      /\ 4 * Turned(One, p)["z"] = 4 * p["z"]
  BY <1>1, TurnedByMatrix, VectorIn DEF Mx, My, Mz
<1> QED BY <1>2, <1>3, VectorIn, VectorsEqual

LEMMA TurnedSum ==
  ASSUME NEW q \in Units, NEW p \in Vector, NEW r \in Vector
  PROVE  Turned(q, Plus(p, r)) = Plus(Turned(q, p), Turned(q, r))
<1> DEFINE x == q.vec["x"]  y == q.vec["y"]  z == q.vec["z"]  w == q.w
           L == Turned(q, Plus(p, r))  R == Plus(Turned(q, p), Turned(q, r))
<1>1. /\ Plus(p, r) \in Vector /\ Turned(q, p) \in Vector /\ Turned(q, r) \in Vector
  BY PlusAt, TurnedAt
<1>2. L \in Vector /\ R \in Vector
  BY <1>1, PlusAt, TurnedAt
<1>3. /\ x \in Int /\ y \in Int /\ z \in Int /\ w \in Int
      /\ p["x"] \in Int /\ p["y"] \in Int /\ p["z"] \in Int
      /\ r["x"] \in Int /\ r["y"] \in Int /\ r["z"] \in Int
  BY UnitIn, VectorIn
<1>4. /\ 4 * L["x"] = Mx(x, y, z, w, Plus(p, r)["x"], Plus(p, r)["y"], Plus(p, r)["z"])
      /\ 4 * L["y"] = My(x, y, z, w, Plus(p, r)["x"], Plus(p, r)["y"], Plus(p, r)["z"])
      /\ 4 * L["z"] = Mz(x, y, z, w, Plus(p, r)["x"], Plus(p, r)["y"], Plus(p, r)["z"])
  BY <1>1, TurnedByMatrix
<1>5. /\ 4 * Turned(q, p)["x"] = Mx(x, y, z, w, p["x"], p["y"], p["z"])
      /\ 4 * Turned(q, p)["y"] = My(x, y, z, w, p["x"], p["y"], p["z"])
      /\ 4 * Turned(q, p)["z"] = Mz(x, y, z, w, p["x"], p["y"], p["z"])
      /\ 4 * Turned(q, r)["x"] = Mx(x, y, z, w, r["x"], r["y"], r["z"])
      /\ 4 * Turned(q, r)["y"] = My(x, y, z, w, r["x"], r["y"], r["z"])
      /\ 4 * Turned(q, r)["z"] = Mz(x, y, z, w, r["x"], r["y"], r["z"])
  BY TurnedByMatrix
<1>6. /\ R["x"] = Turned(q, p)["x"] + Turned(q, r)["x"]
      /\ R["y"] = Turned(q, p)["y"] + Turned(q, r)["y"]
      /\ R["z"] = Turned(q, p)["z"] + Turned(q, r)["z"]
      /\ Plus(p, r)["x"] = p["x"] + r["x"] /\ Plus(p, r)["y"] = p["y"] + r["y"]
      /\ Plus(p, r)["z"] = p["z"] + r["z"]
  BY <1>1, PlusAt
<1>7. /\ L["x"] \in Int /\ L["y"] \in Int /\ L["z"] \in Int
      /\ R["x"] \in Int /\ R["y"] \in Int /\ R["z"] \in Int
      /\ Turned(q, p)["x"] \in Int /\ Turned(q, p)["y"] \in Int /\ Turned(q, p)["z"] \in Int
      /\ Turned(q, r)["x"] \in Int /\ Turned(q, r)["y"] \in Int /\ Turned(q, r)["z"] \in Int
  BY <1>1, <1>2, VectorIn
<1> DEFINE i == p["x"]  j == p["y"]  k == p["z"]  l == r["x"]  m == r["y"]  n == r["z"]
<1> HIDE DEF L, R, x, y, z, w, i, j, k, l, m, n
<1>8. /\ Mx(x, y, z, w, i + l, j + m, k + n) = Mx(x, y, z, w, i, j, k) + Mx(x, y, z, w, l, m, n)
      /\ My(x, y, z, w, i + l, j + m, k + n) = My(x, y, z, w, i, j, k) + My(x, y, z, w, l, m, n)
      /\ Mz(x, y, z, w, i + l, j + m, k + n) = Mz(x, y, z, w, i, j, k) + Mz(x, y, z, w, l, m, n)
  BY <1>3 DEF Mx, My, Mz, i, j, k, l, m, n
<1>9. /\ 4 * L["x"] = 4 * R["x"] /\ 4 * L["y"] = 4 * R["y"] /\ 4 * L["z"] = 4 * R["z"]
  <2>1. /\ 4 * L["x"] = Mx(x, y, z, w, i + l, j + m, k + n)
        /\ 4 * L["y"] = My(x, y, z, w, i + l, j + m, k + n)
        /\ 4 * L["z"] = Mz(x, y, z, w, i + l, j + m, k + n)
    BY <1>4, <1>6 DEF i, j, k, l, m, n
  <2> QED BY <1>5, <1>6, <1>7, <1>8, <2>1 DEF i, j, k, l, m, n
<1>10. L["x"] = R["x"] /\ L["y"] = R["y"] /\ L["z"] = R["z"]
  BY <1>7, <1>9
<1> QED BY <1>2, <1>10, VectorsEqual DEF L, R

LEMMA TurnedNegated ==
  ASSUME NEW q \in Units, NEW p \in Vector
  PROVE  Turned(q, Times(-1, p)) = Times(-1, Turned(q, p))
<1> DEFINE x == q.vec["x"]  y == q.vec["y"]  z == q.vec["z"]  w == q.w
           i == p["x"]  j == p["y"]  k == p["z"]
           L == Turned(q, Times(-1, p))  R == Times(-1, Turned(q, p))
           n == Times(-1, p)
<1>1. n \in Vector /\ Turned(q, p) \in Vector
  BY TimesAt, TurnedAt
<1>2. L \in Vector /\ R \in Vector
  BY <1>1, TimesAt, TurnedAt
<1>3. /\ x \in Int /\ y \in Int /\ z \in Int /\ w \in Int
      /\ i \in Int /\ j \in Int /\ k \in Int
      /\ Turned(q, p)["x"] \in Int /\ Turned(q, p)["y"] \in Int /\ Turned(q, p)["z"] \in Int
  BY <1>1, UnitIn, VectorIn
<1>4. /\ 4 * L["x"] = Mx(x, y, z, w, n["x"], n["y"], n["z"])
      /\ 4 * L["y"] = My(x, y, z, w, n["x"], n["y"], n["z"])
      /\ 4 * L["z"] = Mz(x, y, z, w, n["x"], n["y"], n["z"])
  BY <1>1, TurnedByMatrix
<1>5. /\ 4 * Turned(q, p)["x"] = Mx(x, y, z, w, i, j, k)
      /\ 4 * Turned(q, p)["y"] = My(x, y, z, w, i, j, k)
      /\ 4 * Turned(q, p)["z"] = Mz(x, y, z, w, i, j, k)
  BY TurnedByMatrix
<1>6. n["x"] = -i /\ n["y"] = -j /\ n["z"] = -k
  BY TimesAt, VectorIn
<1>7. /\ R["x"] = -Turned(q, p)["x"] /\ R["y"] = -Turned(q, p)["y"]
      /\ R["z"] = -Turned(q, p)["z"]
  BY <1>1, TimesAt, VectorIn
<1> HIDE DEF L, R, n, x, y, z, w, i, j, k
<1>8. /\ Mx(x, y, z, w, -i, -j, -k) = -Mx(x, y, z, w, i, j, k)
      /\ My(x, y, z, w, -i, -j, -k) = -My(x, y, z, w, i, j, k)
      /\ Mz(x, y, z, w, -i, -j, -k) = -Mz(x, y, z, w, i, j, k)
  BY <1>3 DEF Mx, My, Mz
<1>9. /\ 4 * L["x"] = -(4 * Turned(q, p)["x"]) /\ 4 * L["y"] = -(4 * Turned(q, p)["y"])
      /\ 4 * L["z"] = -(4 * Turned(q, p)["z"])
  BY <1>4, <1>5, <1>6, <1>8
<1>10. L["x"] = R["x"] /\ L["y"] = R["y"] /\ L["z"] = R["z"]
  BY <1>2, <1>3, <1>7, <1>9, VectorIn
<1> QED BY <1>2, <1>10, VectorsEqual DEF L, R

LEMMA TimesOneUnit ==
  ASSUME NEW q \in Units
  PROVE  Product(q, One) = q
<1>1. Conjugate(q) \in Units
  BY ConjugateAt
<1>2. Product(Product(q, Conjugate(q)), q) = Product(q, Product(Conjugate(q), q))
  BY <1>1, Associative
<1> QED BY <1>2, ConjugateInverts, OneTimes

\* The inverse of a product, by the group laws alone.
LEMMA ConjugateProduct ==
  ASSUME NEW a \in Units, NEW b \in Units
  PROVE  Conjugate(Product(a, b)) = Product(Conjugate(b), Conjugate(a))
<1> DEFINE A == Conjugate(a)  B == Conjugate(b)  X == Product(a, b)  Y == Conjugate(X)
           C == Product(B, A)
<1>1. A \in Units /\ B \in Units /\ X \in Units
  BY ConjugateAt, ProductInUnits
<1>2. Y \in Units /\ C \in Units
  BY <1>1, ConjugateAt, ProductInUnits
<1>3. Product(A, a) = One /\ Product(B, b) = One
  BY ConjugateInverts
<1>4. Product(X, Y) = One
  BY <1>1, ConjugateInverts
<1>5. Product(A, X) = b
  <2>1. Product(Product(A, a), b) = Product(A, Product(a, b))
    BY <1>1, Associative
  <2> QED BY <1>3, <2>1, OneTimes
<1> HIDE DEF A, B, X, Y, C
<1>6. Product(C, X) = One
  <2>1. Product(Product(B, A), X) = Product(B, Product(A, X))
    BY <1>1, Associative
  <2> QED BY <1>3, <1>5, <2>1 DEF C
<1>7. Product(Product(C, X), Y) = Product(C, Product(X, Y))
  BY <1>1, <1>2, Associative
<1>8. Y = C
  BY <1>2, <1>4, <1>6, <1>7, OneTimes, TimesOneUnit
<1> QED BY <1>8 DEF A, B, X, Y, C

\* A quaternion and its opposite act alike.
LEMMA NegativeActs ==
  ASSUME NEW a \in Units, NEW b \in Units, NEW p \in Vector
  PROVE  /\ Product(Scaled(-1, a), b) = Scaled(-1, Product(a, b))
         /\ Product(a, Scaled(-1, b)) = Scaled(-1, Product(a, b))
         /\ Conjugate(Scaled(-1, a)) = Scaled(-1, Conjugate(a))
         /\ Scaled(-1, Scaled(-1, a)) = a
         /\ Turned(Scaled(-1, a), p) = Turned(a, p)
<1> DEFINE x1 == a.vec["x"]  y1 == a.vec["y"]  z1 == a.vec["z"]  w1 == a.w
           x2 == b.vec["x"]  y2 == b.vec["y"]  z2 == b.vec["z"]  w2 == b.w
           A == Scaled(-1, a)  B == Scaled(-1, b)  X == Product(a, b)  N == Scaled(-1, X)
<1>1. /\ A \in Units /\ A.vec["x"] = -x1 /\ A.vec["y"] = -y1 /\ A.vec["z"] = -z1 /\ A.w = -w1
      /\ B \in Units /\ B.vec["x"] = -x2 /\ B.vec["y"] = -y2 /\ B.vec["z"] = -z2 /\ B.w = -w2
  BY NegativeAt
<1>2. X \in Units
  BY ProductInUnits
<1>3. /\ N \in Units /\ N.vec["x"] = -X.vec["x"] /\ N.vec["y"] = -X.vec["y"]
      /\ N.vec["z"] = -X.vec["z"] /\ N.w = -X.w
  BY <1>2, NegativeAt
<1>4. /\ x1 \in Int /\ y1 \in Int /\ z1 \in Int /\ w1 \in Int
      /\ x2 \in Int /\ y2 \in Int /\ z2 \in Int /\ w2 \in Int
  BY UnitIn
<1>5. /\ 2 * X.w = w1 * w2 - x1 * x2 - y1 * y2 - z1 * z2
      /\ 2 * X.vec["x"] = w1 * x2 + w2 * x1 + y1 * z2 - z1 * y2
      /\ 2 * X.vec["y"] = w1 * y2 + w2 * y1 + z1 * x2 - x1 * z2
      /\ 2 * X.vec["z"] = w1 * z2 + w2 * z1 + x1 * y2 - y1 * x2
  BY ProductAt
<1>6. X.vec["x"] \in Int /\ X.vec["y"] \in Int /\ X.vec["z"] \in Int /\ X.w \in Int
  BY <1>2, UnitIn
<1>7. Product(A, b) = N
  <2> DEFINE L == Product(A, b)
  <2>1. L \in Units
    BY <1>1, ProductInUnits
  <2>2. L.vec["x"] \in Int /\ L.vec["y"] \in Int /\ L.vec["z"] \in Int /\ L.w \in Int
    BY <2>1, UnitIn
  <2>3. /\ 2 * L.w = (-w1) * w2 - (-x1) * x2 - (-y1) * y2 - (-z1) * z2
        /\ 2 * L.vec["x"] = (-w1) * x2 + w2 * (-x1) + (-y1) * z2 - (-z1) * y2
        /\ 2 * L.vec["y"] = (-w1) * y2 + w2 * (-y1) + (-z1) * x2 - (-x1) * z2
        /\ 2 * L.vec["z"] = (-w1) * z2 + w2 * (-z1) + (-x1) * y2 - (-y1) * x2
    <3> HIDE DEF A
    <3> QED BY <1>1, ProductAt
  <2> HIDE DEF L, A, N, X, x1, y1, z1, w1, x2, y2, z2, w2
  <2>4. L.w = -X.w /\ L.vec["x"] = -X.vec["x"] /\ L.vec["y"] = -X.vec["y"] /\ L.vec["z"] = -X.vec["z"]
    <3>1. /\ (-w1) * w2 - (-x1) * x2 - (-y1) * y2 - (-z1) * z2 = -(w1 * w2 - x1 * x2 - y1 * y2 - z1 * z2)
          /\ (-w1) * x2 + w2 * (-x1) + (-y1) * z2 - (-z1) * y2 = -(w1 * x2 + w2 * x1 + y1 * z2 - z1 * y2)
          /\ (-w1) * y2 + w2 * (-y1) + (-z1) * x2 - (-x1) * z2 = -(w1 * y2 + w2 * y1 + z1 * x2 - x1 * z2)
          /\ (-w1) * z2 + w2 * (-z1) + (-x1) * y2 - (-y1) * x2 = -(w1 * z2 + w2 * z1 + x1 * y2 - y1 * x2)
      BY <1>4
    <3>2. /\ 2 * L.w = -(2 * X.w)
          /\ 2 * L.vec["x"] = -(2 * X.vec["x"])
          /\ 2 * L.vec["y"] = -(2 * X.vec["y"])
          /\ 2 * L.vec["z"] = -(2 * X.vec["z"])
      BY <1>5, <2>3, <3>1
    <3> QED BY <1>6, <2>2, <3>2
  <2> QED BY <1>3, <2>1, <2>4, UnitsEqual DEF L
<1>8. Product(a, B) = N
  <2> DEFINE L == Product(a, B)
  <2>1. L \in Units
    BY <1>1, ProductInUnits
  <2>2. L.vec["x"] \in Int /\ L.vec["y"] \in Int /\ L.vec["z"] \in Int /\ L.w \in Int
    BY <2>1, UnitIn
  <2>3. /\ 2 * L.w = w1 * (-w2) - x1 * (-x2) - y1 * (-y2) - z1 * (-z2)
        /\ 2 * L.vec["x"] = w1 * (-x2) + (-w2) * x1 + y1 * (-z2) - z1 * (-y2)
        /\ 2 * L.vec["y"] = w1 * (-y2) + (-w2) * y1 + z1 * (-x2) - x1 * (-z2)
        /\ 2 * L.vec["z"] = w1 * (-z2) + (-w2) * z1 + x1 * (-y2) - y1 * (-x2)
    <3> HIDE DEF B
    <3> QED BY <1>1, ProductAt
  <2> HIDE DEF L, B, N, X, x1, y1, z1, w1, x2, y2, z2, w2
  <2>4. L.w = -X.w /\ L.vec["x"] = -X.vec["x"] /\ L.vec["y"] = -X.vec["y"] /\ L.vec["z"] = -X.vec["z"]
    <3>1. /\ w1 * (-w2) - x1 * (-x2) - y1 * (-y2) - z1 * (-z2) = -(w1 * w2 - x1 * x2 - y1 * y2 - z1 * z2)
          /\ w1 * (-x2) + (-w2) * x1 + y1 * (-z2) - z1 * (-y2) = -(w1 * x2 + w2 * x1 + y1 * z2 - z1 * y2)
          /\ w1 * (-y2) + (-w2) * y1 + z1 * (-x2) - x1 * (-z2) = -(w1 * y2 + w2 * y1 + z1 * x2 - x1 * z2)
          /\ w1 * (-z2) + (-w2) * z1 + x1 * (-y2) - y1 * (-x2) = -(w1 * z2 + w2 * z1 + x1 * y2 - y1 * x2)
      BY <1>4
    <3>2. /\ 2 * L.w = -(2 * X.w)
          /\ 2 * L.vec["x"] = -(2 * X.vec["x"])
          /\ 2 * L.vec["y"] = -(2 * X.vec["y"])
          /\ 2 * L.vec["z"] = -(2 * X.vec["z"])
      BY <1>5, <2>3, <3>1
    <3> QED BY <1>6, <2>2, <3>2
  <2> QED BY <1>3, <2>1, <2>4, UnitsEqual DEF L
<1>9. Conjugate(A) = Scaled(-1, Conjugate(a))
  <2>1. Conjugate(a) \in Units /\ Conjugate(A) \in Units
    BY <1>1, ConjugateAt
  <2>2. Scaled(-1, Conjugate(a)) \in Units
    BY <2>1, NegativeAt
  <2> HIDE DEF A
  <2> QED BY <1>1, <2>1, <2>2, ConjugateAt, NegativeAt, UnitsEqual
<1>10. Scaled(-1, A) = a
  <2>1. Scaled(-1, A) \in Units
    BY <1>1, NegativeAt
  <2>2. /\ Scaled(-1, A).vec["x"] = -(-x1) /\ Scaled(-1, A).vec["y"] = -(-y1)
        /\ Scaled(-1, A).vec["z"] = -(-z1) /\ Scaled(-1, A).w = -(-w1)
    <3> HIDE DEF A
    <3> QED BY <1>1, NegativeAt
  <2> QED BY <1>4, <2>1, <2>2, UnitsEqual
<1>11. Turned(A, p) = Turned(a, p)
  <2> DEFINE i == p["x"]  j == p["y"]  k == p["z"]
  <2>1. Turned(A, p) \in Vector /\ Turned(a, p) \in Vector
    BY <1>1, TurnedAt
  <2>2. /\ 4 * Turned(A, p)["x"] = Mx(-x1, -y1, -z1, -w1, i, j, k)
        /\ 4 * Turned(A, p)["y"] = My(-x1, -y1, -z1, -w1, i, j, k)
        /\ 4 * Turned(A, p)["z"] = Mz(-x1, -y1, -z1, -w1, i, j, k)
    <3> HIDE DEF A
    <3> QED BY <1>1, TurnedByMatrix
  <2>3. /\ 4 * Turned(a, p)["x"] = Mx(x1, y1, z1, w1, i, j, k)
        /\ 4 * Turned(a, p)["y"] = My(x1, y1, z1, w1, i, j, k)
        /\ 4 * Turned(a, p)["z"] = Mz(x1, y1, z1, w1, i, j, k)
    BY TurnedByMatrix
  <2>4. i \in Int /\ j \in Int /\ k \in Int
    BY VectorIn
  <2> HIDE DEF i, j, k, x1, y1, z1, w1, A
  <2>5. /\ Mx(-x1, -y1, -z1, -w1, i, j, k) = Mx(x1, y1, z1, w1, i, j, k)
        /\ My(-x1, -y1, -z1, -w1, i, j, k) = My(x1, y1, z1, w1, i, j, k)
        /\ Mz(-x1, -y1, -z1, -w1, i, j, k) = Mz(x1, y1, z1, w1, i, j, k)
    BY <1>4, <2>4 DEF Mx, My, Mz
  <2>6. /\ 4 * Turned(A, p)["x"] = 4 * Turned(a, p)["x"]
        /\ 4 * Turned(A, p)["y"] = 4 * Turned(a, p)["y"]
        /\ 4 * Turned(A, p)["z"] = 4 * Turned(a, p)["z"]
    BY <2>2, <2>3, <2>5
  <2> QED BY <2>1, <2>6, VectorIn, VectorsEqual
<1> QED BY <1>7, <1>8, <1>9, <1>10, <1>11

-----------------------------------------------------------------------------
(* normalize().                                                            *)

LEMMA ScaledAt ==
  ASSUME NEW q \in Units, NEW k \in Int
  PROVE  /\ Scaled(k, q) \in Quaternion
         /\ Scaled(k, q).vec["x"] = k * q.vec["x"] /\ Scaled(k, q).vec["y"] = k * q.vec["y"]
         /\ Scaled(k, q).vec["z"] = k * q.vec["z"] /\ Scaled(k, q).w = k * q.w
<1>1. q.vec \in Vector /\ q.w \in Int
  BY UnitIn
<1>2. k * q.w \in Int
  BY <1>1
<1>3. Times(k, q.vec) \in Vector
  BY <1>1, TimesAt
<1>4. Scaled(k, q) \in Quaternion
  BY <1>2, <1>3 DEF Scaled, Quaternion
<1>5. Scaled(k, q).vec = Times(k, q.vec) /\ Scaled(k, q).w = k * q.w
  BY DEF Scaled
<1> QED BY <1>1, <1>4, <1>5, TimesAt

LEMMA UnitNormalized ==
  ASSUME NEW q \in Units
  PROVE  Normalized(q) = q
<1>1. Norm2(q) = 4
  BY UnitAt
<1>2. Norm2(q) \in {0, 4}
  BY <1>1
<1> QED BY <1>2, Zenon DEF Normalized

\* However long a quaternion is, normalize() finds the unit along it.
LEMMA ScaledNormalized ==
  ASSUME NEW q \in Units, NEW k \in Nat \ {0}
  PROVE  Normalized(Scaled(k, q)) = q
<1> DEFINE x == q.vec["x"]  y == q.vec["y"]  z == q.vec["z"]  w == q.w  s == Scaled(k, q)
           along(u) == Dot(s.vec, u.vec) + s.w * u.w
           inner(u) == x * u.vec["x"] + y * u.vec["y"] + z * u.vec["z"] + w * u.w
<1>1. /\ x \in Int /\ y \in Int /\ z \in Int /\ w \in Int
      /\ x * x + y * y + z * z + w * w = 4
  BY UnitIn, UnitAt
<1>2. /\ s \in Quaternion /\ s.vec["x"] = k * x /\ s.vec["y"] = k * y /\ s.vec["z"] = k * z
      /\ s.w = k * w
  BY ScaledAt
<1>3. s.vec \in Vector
  BY <1>2 DEF Quaternion
<1>4. Norm2(s) = 4 * (k * k)
  <2>1. Norm2(s) = (k * x) * (k * x) + (k * y) * (k * y) + (k * z) * (k * z) + (k * w) * (k * w)
    <3> HIDE DEF s
    <3> QED BY <1>2, <1>3, DotAt DEF Norm2
  <2> HIDE DEF x, y, z, w, s
  <2>2. (k * x) * (k * x) + (k * y) * (k * y) + (k * z) * (k * z) + (k * w) * (k * w)
          = (k * k) * (x * x + y * y + z * z + w * w)
    BY <1>1
  <2> QED BY <1>1, <2>1, <2>2
<1>5. CASE k = 1
  <2>1. s = q
    <3>1. s.vec["x"] = q.vec["x"] /\ s.vec["y"] = q.vec["y"] /\ s.vec["z"] = q.vec["z"] /\ s.w = q.w
      BY <1>1, <1>2, <1>5
    <3>2. s.vec = q.vec
      BY <1>3, <3>1, UnitIn, VectorsEqual
    <3> HIDE DEF s
    <3> QED BY <1>2, <3>1, <3>2, UnitIn, QuaternionsEqual
  <2> QED BY <2>1, UnitNormalized
<1>6. CASE k # 1
  <2>1. Norm2(s) \notin {0, 4}
    <3>1. k * k > 1
      BY <1>6
    <3> QED BY <1>4, <3>1
  <2>2. Normalized(s) = CHOOSE u \in Units : along(u) > 0 /\ along(u) * along(u) = 4 * Norm2(s)
    BY <2>1, Zenon DEF Normalized
  <2>3. \A u \in Units : inner(u) \in Int /\ along(u) = k * inner(u)
    <3> TAKE u \in Units
    <3>1. /\ u.vec["x"] \in Int /\ u.vec["y"] \in Int /\ u.vec["z"] \in Int /\ u.w \in Int
          /\ u.vec \in Vector
      BY UnitIn
    <3>2. along(u) = (k * x) * u.vec["x"] + (k * y) * u.vec["y"] + (k * z) * u.vec["z"] + (k * w) * u.w
      <4> HIDE DEF s
      <4> QED BY <1>2, <1>3, <3>1, DotAt
    <3> HIDE DEF x, y, z, w, along
    <3> QED BY <1>1, <3>1, <3>2
  <2>4. inner(q) = 4
    BY <1>1
  <2>5. along(q) > 0 /\ along(q) * along(q) = 4 * Norm2(s)
    <3>1. along(q) = k * 4
      BY <2>3, <2>4
    <3> HIDE DEF along, s
    <3> QED BY <1>4, <3>1
  <2>6. ASSUME NEW u \in Units, along(u) > 0, along(u) * along(u) = 4 * Norm2(s)
        PROVE  u = q
    <3> DEFINE xu == u.vec["x"]  yu == u.vec["y"]  zu == u.vec["z"]  wu == u.w  n == inner(u)
    <3>1. /\ xu \in Int /\ yu \in Int /\ zu \in Int /\ wu \in Int
          /\ xu * xu + yu * yu + zu * zu + wu * wu = 4
      BY UnitIn, UnitAt
    <3>2. n \in Int /\ along(u) = k * n /\ n = x * xu + y * yu + z * zu + w * wu
      BY <2>3
    <3> HIDE DEF along, s, n, x, y, z, w, xu, yu, zu, wu
    <3>3. (k * k) * (n * n) = (k * k) * 16
      <4>1. (k * n) * (k * n) = 16 * (k * k)
        BY <1>4, <2>6, <3>2
      <4> QED BY <3>2, <4>1
    <3>4. n > 0
      <4>1. k * n > 0
        BY <2>6, <3>2
      <4> QED BY <3>2, <4>1
    <3>5. n * n = 16
      <4>1. k * k > 0 /\ k * k \in Int /\ n * n \in Int
        BY <3>2
      <4>2. \A e, f, g \in Int : e > 0 /\ e * f = e * g => f = g
        OBVIOUS
      <4> QED BY <3>3, <4>1, <4>2
    <3>6. n = 4
      BY <3>2, <3>4, <3>5
    <3>7. (x - xu) * (x - xu) + (y - yu) * (y - yu) + (z - zu) * (z - zu) + (w - wu) * (w - wu) = 0
      <4>1. (x - xu) * (x - xu) + (y - yu) * (y - yu) + (z - zu) * (z - zu) + (w - wu) * (w - wu)
              = (x * x + y * y + z * z + w * w) + (xu * xu + yu * yu + zu * zu + wu * wu)
                - 2 * (x * xu + y * yu + z * zu + w * wu)
        BY <1>1, <3>1
      <4> QED BY <1>1, <3>1, <3>2, <3>6, <4>1
    <3>8. \A d \in Int : d * d >= 0 /\ (d * d = 0 => d = 0)
      OBVIOUS
    <3> DEFINE dx == x - xu  dy == y - yu  dz == z - zu  dw == w - wu
    <3>9. dx \in Int /\ dy \in Int /\ dz \in Int /\ dw \in Int
      BY <1>1, <3>1
    <3>10. dx * dx + dy * dy + dz * dz + dw * dw = 0
      BY <3>7
    <3>11. dx = 0 /\ dy = 0 /\ dz = 0 /\ dw = 0
      <4> HIDE DEF dx, dy, dz, dw
      <4>1. dx * dx >= 0 /\ dy * dy >= 0 /\ dz * dz >= 0 /\ dw * dw >= 0
        BY <3>8, <3>9
      <4>2. dx * dx = 0 /\ dy * dy = 0 /\ dz * dz = 0 /\ dw * dw = 0
        BY <3>9, <3>10, <4>1
      <4> QED BY <3>8, <3>9, <4>2
    <3>12. x = xu /\ y = yu /\ z = zu /\ w = wu
      BY <1>1, <3>1, <3>11
    <3> QED BY <3>12, UnitsEqual DEF x, y, z, w, xu, yu, zu, wu
  <2> HIDE DEF along, inner, s, x, y, z, w
  <2>7. (CHOOSE u \in Units : along(u) > 0 /\ along(u) * along(u) = 4 * Norm2(s)) = q
    BY <2>5, <2>6, Zenon
  <2> QED BY <2>2, <2>7 DEF s
<1> QED BY <1>5, <1>6

-----------------------------------------------------------------------------
(* Poses.                                                                  *)

Poses == [orientation : Units, position : Vector]

LEMMA SumIn ==
  ASSUME NEW a \in Vector, NEW b \in Vector
  PROVE  Plus(a, b) \in Vector /\ Times(-1, a) \in Vector
BY PlusAt, TimesAt

\* From one place to a second and on to a third is from the first to the
\* third; and nowhere, between a place and itself.
LEMMA Displacements ==
  ASSUME NEW a \in Vector, NEW b \in Vector, NEW c \in Vector
  PROVE  /\ Plus(Plus(b, Times(-1, a)), Plus(c, Times(-1, b))) = Plus(c, Times(-1, a))
         /\ Times(-1, Plus(b, Times(-1, a))) = Plus(a, Times(-1, b))
         /\ Plus(a, Times(-1, a)) = Origin
BY DEF Vector, Vectors, Axes, Plus, Times, Origin

LEMMA SameTurns ==
  ASSUME NEW a \in Units, NEW b \in Units
  PROVE  /\ SameTurn(a, a)
         /\ SameTurn(a, b) <=> a = b \/ a = Scaled(-1, b)
         /\ SameTurn(a, b) => SameTurn(Conjugate(a), Conjugate(b))
BY NegativeActs, OriginAt DEF SameTurn

\* Products and inverses of the same rotations are the same rotation.
LEMMA SameProducts ==
  ASSUME NEW a \in Units, NEW b \in Units, NEW c \in Units, NEW d \in Units,
         SameTurn(a, c), SameTurn(b, d)
  PROVE  SameTurn(Product(a, b), Product(c, d))
<1>1. Product(c, d) \in Units /\ Scaled(-1, d) \in Units
  BY ProductInUnits, NegativeAt
<1>2. /\ Product(Scaled(-1, c), d) = Scaled(-1, Product(c, d))
      /\ Product(c, Scaled(-1, d)) = Scaled(-1, Product(c, d))
      /\ Product(Scaled(-1, c), Scaled(-1, d)) = Scaled(-1, Product(c, Scaled(-1, d)))
      /\ Scaled(-1, Scaled(-1, Product(c, d))) = Product(c, d)
  BY <1>1, NegativeActs, OriginAt
<1> QED BY <1>2 DEF SameTurn

LEMMA SameTurnsTurn ==
  ASSUME NEW a \in Units, NEW b \in Units, NEW p \in Vector, SameTurn(a, b)
  PROVE  Turned(a, p) = Turned(b, p)
BY NegativeActs DEF SameTurn

LEMMA PoseOfPose ==
  ASSUME NEW x \in Poses
  PROVE  Pose(x) = x
<1>1. x.orientation \in Units
  BY DEF Poses
<1>2. Normalized(x.orientation) = x.orientation
  BY <1>1, UnitNormalized
<1> QED BY <1>2, Zenon DEF Pose, Poses

\* operator* and inverse() of poses, whose orientations are units already.
LEMMA ChainedIs ==
  ASSUME NEW l \in Poses, NEW r \in Poses
  PROVE  /\ Chained(l, r) \in Poses
         /\ Chained(l, r).orientation = Product(l.orientation, r.orientation)
         /\ Chained(l, r).position = Plus(l.position, Turned(l.orientation, r.position))
<1> DEFINE o == Product(l.orientation, r.orientation)
           p == Plus(l.position, Turned(l.orientation, r.position))
<1>1. /\ l.orientation \in Units /\ r.orientation \in Units
      /\ l.position \in Vector /\ r.position \in Vector
  BY DEF Poses
<1>2. o \in Units /\ p \in Vector
  BY <1>1, ProductInUnits, TurnedAt, SumIn
<1>3. Se3(o, p) \in Poses
  BY <1>2 DEF Se3, Poses
<1>4. Chained(l, r) = Se3(o, p)
  BY <1>3, PoseOfPose DEF Chained
<1> QED BY <1>3, <1>4 DEF Se3

LEMMA InvertedIs ==
  ASSUME NEW x \in Poses
  PROVE  /\ InvertedOf(x) \in Poses
         /\ InvertedOf(x).orientation = Conjugate(x.orientation)
         /\ InvertedOf(x).position = Times(-1, Turned(Conjugate(x.orientation), x.position))
<1>1. x.orientation \in Units /\ x.position \in Vector
  BY DEF Poses
<1>2. Conjugate(x.orientation) \in Units
  BY <1>1, ConjugateAt
<1>3. Turned(Conjugate(x.orientation), x.position) \in Vector
  BY <1>1, <1>2, TurnedAt
<1>4. Times(-1, Turned(Conjugate(x.orientation), x.position)) \in Vector
  BY <1>3, TimesAt
<1> QED BY <1>2, <1>4 DEF InvertedOf, Se3, Poses

LEMMA SameChained ==
  ASSUME NEW l \in Poses, NEW r \in Poses, NEW l2 \in Poses, NEW r2 \in Poses,
         SamePose(l, l2), SamePose(r, r2)
  PROVE  SamePose(Chained(l, r), Chained(l2, r2))
<1>1. /\ l.orientation \in Units /\ r.orientation \in Units /\ r.position \in Vector
      /\ l2.orientation \in Units /\ r2.orientation \in Units
  BY DEF Poses
<1>2. /\ SameTurn(l.orientation, l2.orientation) /\ SameTurn(r.orientation, r2.orientation)
      /\ l.position = l2.position /\ r.position = r2.position
  BY DEF SamePose
<1>3. SameTurn(Product(l.orientation, r.orientation), Product(l2.orientation, r2.orientation))
  BY <1>1, <1>2, SameProducts
<1>4. Turned(l.orientation, r.position) = Turned(l2.orientation, r.position)
  BY <1>1, <1>2, SameTurnsTurn
<1> QED BY <1>2, <1>3, <1>4, ChainedIs DEF SamePose

LEMMA SameInverted ==
  ASSUME NEW x \in Poses, NEW y \in Poses, SamePose(x, y)
  PROVE  SamePose(InvertedOf(x), InvertedOf(y))
<1>1. x.orientation \in Units /\ y.orientation \in Units /\ x.position \in Vector
  BY DEF Poses
<1>2. SameTurn(x.orientation, y.orientation) /\ x.position = y.position
  BY DEF SamePose
<1>3. SameTurn(Conjugate(x.orientation), Conjugate(y.orientation))
  BY <1>1, <1>2, SameTurns
<1>4. Conjugate(x.orientation) \in Units /\ Conjugate(y.orientation) \in Units
  BY <1>1, ConjugateAt
<1>5. Turned(Conjugate(x.orientation), x.position) = Turned(Conjugate(y.orientation), x.position)
  BY <1>1, <1>3, <1>4, SameTurnsTurn
<1> QED BY <1>2, <1>3, <1>5, InvertedIs DEF SamePose

-----------------------------------------------------------------------------
(* What the transforms are about.                                          *)

\* The frames have places, and Truth is a pose.
LEMMA PlaceOf ==
  ASSUME NEW f \in Frames
  PROVE  Place[f.name].orientation \in Units /\ Place[f.name].position \in Vector
<1>1. f.name \in DOMAIN Place
  BY GeometryAssumption
<1>2. Place[f.name] \in [orientation : Units, position : Vectors(Int)]
  BY <1>1, GeometryAssumption
<1> QED BY <1>2 DEF Vector

LEMMA TruthIs ==
  ASSUME NEW f \in Frames, NEW g \in Frames
  PROVE  /\ Truth(f, g) \in Poses
         /\ Truth(f, g).orientation = Product(Conjugate(Place[f.name].orientation), Place[g.name].orientation)
         /\ Truth(f, g).position = Turned(Conjugate(Place[f.name].orientation),
                                         Plus(Place[g.name].position, Times(-1, Place[f.name].position)))
<1> DEFINE F == Place[f.name]  G == Place[g.name]
<1>1. /\ F.orientation \in Units /\ F.position \in Vector
      /\ G.orientation \in Units /\ G.position \in Vector
  BY PlaceOf
<1> HIDE DEF F, G
<1>2. Conjugate(F.orientation) \in Units
  BY <1>1, ConjugateAt
<1>3. Plus(G.position, Times(-1, F.position)) \in Vector
  BY <1>1, SumIn
<1>4. /\ Product(Conjugate(F.orientation), G.orientation) \in Units
      /\ Turned(Conjugate(F.orientation), Plus(G.position, Times(-1, F.position))) \in Vector
  BY <1>1, <1>2, <1>3, ProductInUnits, TurnedAt
<1> QED BY <1>4 DEF Truth, Se3, Poses, F, G

LEMMA TruthOfOne ==
  ASSUME NEW f \in Frames
  PROVE  Truth(f, f) = Identity
<1> DEFINE F == Place[f.name]
<1>1. F.orientation \in Units /\ F.position \in Vector
  BY PlaceOf
<1> HIDE DEF F
<1>2. Product(Conjugate(F.orientation), F.orientation) = One
  BY <1>1, ConjugateInverts
<1>3. Plus(F.position, Times(-1, F.position)) = Origin
  BY <1>1, Displacements
<1>4. Turned(Conjugate(F.orientation), Origin) = Origin
  <2> DEFINE q == Conjugate(F.orientation)
  <2>1. q \in Units /\ Origin \in Vector
    BY <1>1, ConjugateAt, OriginAt
  <2> HIDE DEF q
  <2>2. Turned(q, Origin) \in Vector
    BY <2>1, TurnedAt
  <2>3. /\ 2 * (Turned(q, Origin)["x"] - 0) = 0
        /\ 2 * (Turned(q, Origin)["y"] - 0) = 0
        /\ 2 * (Turned(q, Origin)["z"] - 0) = 0
    BY <2>1, TurnedAt, OriginAt, UnitIn
  <2>4. /\ Turned(q, Origin)["x"] \in Int /\ Turned(q, Origin)["y"] \in Int
        /\ Turned(q, Origin)["z"] \in Int
    BY <2>2, VectorIn
  <2>5. /\ Turned(q, Origin)["x"] = 0 /\ Turned(q, Origin)["y"] = 0
        /\ Turned(q, Origin)["z"] = 0
    <3>1. \A n \in Int : 2 * (n - 0) = 0 => n = 0
      OBVIOUS
    <3> QED BY <2>3, <2>4, <3>1, Zenon
  <2>6. Turned(q, Origin) = Origin
    BY <2>1, <2>2, <2>5, OriginAt, VectorsEqual
  <2> QED BY <2>6 DEF q
<1> QED BY <1>2, <1>3, <1>4 DEF Truth, Identity, F

\* Frames are told apart by name: what joins two of one name goes on where
\* the other ends.
LEMMA TruthChains ==
  ASSUME NEW f \in Frames, NEW g \in Frames, NEW g2 \in Frames, NEW h \in Frames,
         g.name = g2.name
  PROVE  Chained(Truth(f, g), Truth(g2, h)) = Truth(f, h)
<1> DEFINE qf == Place[f.name].orientation  pf == Place[f.name].position
           qg == Place[g.name].orientation  pg == Place[g.name].position
           qh == Place[h.name].orientation  ph == Place[h.name].position
           F == Conjugate(qf)  G == Conjugate(qg)
           near == Plus(pg, Times(-1, pf))  far == Plus(ph, Times(-1, pg))
           l == Truth(f, g)  r == Truth(g2, h)
<1>1. /\ qf \in Units /\ qg \in Units /\ qh \in Units
      /\ pf \in Vector /\ pg \in Vector /\ ph \in Vector
  BY PlaceOf
<1>2. /\ l \in Poses /\ l.orientation = Product(F, qg) /\ l.position = Turned(F, near)
      /\ r \in Poses /\ r.orientation = Product(G, qh) /\ r.position = Turned(G, far)
      /\ Truth(f, h) \in Poses /\ Truth(f, h).orientation = Product(F, qh)
      /\ Truth(f, h).position = Turned(F, Plus(ph, Times(-1, pf)))
  BY TruthIs
<1> HIDE DEF qf, qg, qh, pf, pg, ph
<1>3. F \in Units /\ G \in Units
  BY <1>1, ConjugateAt
<1>4. near \in Vector /\ far \in Vector
  BY <1>1, SumIn
<1>5. Plus(near, far) = Plus(ph, Times(-1, pf))
  BY <1>1, Displacements
<1>6. Product(qg, G) = One
  BY <1>1, ConjugateInverts
<1> HIDE DEF F, G, near, far, l, r
<1>7. Product(G, qh) \in Units /\ Product(F, qg) \in Units /\ Turned(G, far) \in Vector
  BY <1>1, <1>3, <1>4, ProductInUnits, TurnedAt
<1>8. Product(Product(F, qg), Product(G, qh)) = Product(F, qh)
  <2>1. Product(Product(F, qg), Product(G, qh)) = Product(F, Product(qg, Product(G, qh)))
    BY <1>1, <1>3, <1>7, Associative
  <2>2. Product(Product(qg, G), qh) = Product(qg, Product(G, qh))
    BY <1>1, <1>3, Associative
  <2>3. Product(One, qh) = qh
    BY <1>1, OneTimes
  <2> QED BY <1>6, <2>1, <2>2, <2>3
<1>9. Turned(Product(F, qg), Turned(G, far)) = Turned(F, far)
  <2>1. Turned(Product(F, qg), Turned(G, far)) = Turned(F, Turned(qg, Turned(G, far)))
    BY <1>1, <1>3, <1>7, TurnedProduct
  <2>2. Turned(Product(qg, G), far) = Turned(qg, Turned(G, far))
    BY <1>1, <1>3, <1>4, TurnedProduct
  <2>3. Turned(One, far) = far
    BY <1>4, TurnedOne
  <2> QED BY <1>6, <2>1, <2>2, <2>3
<1>10. Plus(Turned(F, near), Turned(F, far)) = Turned(F, Plus(near, far))
  BY <1>3, <1>4, TurnedSum
<1>11. /\ Chained(l, r) \in Poses
       /\ Chained(l, r).orientation = Product(l.orientation, r.orientation)
       /\ Chained(l, r).position = Plus(l.position, Turned(l.orientation, r.position))
  BY <1>2, ChainedIs
<1>12. Chained(l, r).orientation = Truth(f, h).orientation
  BY <1>2, <1>8, <1>11
<1>13. Chained(l, r).position = Truth(f, h).position
  BY <1>2, <1>5, <1>9, <1>10, <1>11
<1>14. Chained(l, r) = Truth(f, h)
  BY <1>2, <1>11, <1>12, <1>13 DEF Poses
<1> QED BY <1>14 DEF l, r

\* Seen from the other end.
LEMMA TruthInverts ==
  ASSUME NEW f \in Frames, NEW g \in Frames
  PROVE  InvertedOf(Truth(f, g)) = Truth(g, f)
<1> DEFINE qf == Place[f.name].orientation  pf == Place[f.name].position
           qg == Place[g.name].orientation  pg == Place[g.name].position
           F == Conjugate(qf)  G == Conjugate(qg)  to == Plus(pg, Times(-1, pf))  t == Truth(f, g)
<1>1. qf \in Units /\ qg \in Units /\ pf \in Vector /\ pg \in Vector
  BY PlaceOf
<1>2. /\ t \in Poses /\ t.orientation = Product(F, qg) /\ t.position = Turned(F, to)
      /\ Truth(g, f) \in Poses /\ Truth(g, f).orientation = Product(G, qf)
      /\ Truth(g, f).position = Turned(G, Plus(pf, Times(-1, pg)))
  BY TruthIs
<1> HIDE DEF qf, qg, pf, pg
<1>3. F \in Units /\ G \in Units /\ Conjugate(F) = qf
  BY <1>1, ConjugateAt, ConjugateTwice
<1>4. to \in Vector /\ Times(-1, to) = Plus(pf, Times(-1, pg))
  BY <1>1, SumIn, Displacements
<1>5. Product(qf, F) = One
  BY <1>1, ConjugateInverts
<1> HIDE DEF F, to, t
<1>6. Conjugate(Product(F, qg)) = Product(G, qf)
  BY <1>1, <1>3, ConjugateProduct
<1> HIDE DEF G
<1>7. Turned(F, to) \in Vector
  BY <1>3, <1>4, TurnedAt
<1>8. Turned(Product(G, qf), Turned(F, to)) = Turned(G, to)
  <2>1. Turned(Product(G, qf), Turned(F, to)) = Turned(G, Turned(qf, Turned(F, to)))
    BY <1>1, <1>3, <1>7, TurnedProduct
  <2>2. Turned(Product(qf, F), to) = Turned(qf, Turned(F, to))
    BY <1>1, <1>3, <1>4, TurnedProduct
  <2>3. Turned(One, to) = to
    BY <1>4, TurnedOne
  <2> QED BY <1>5, <2>1, <2>2, <2>3
<1>9. Turned(G, Times(-1, to)) = Times(-1, Turned(G, to))
  BY <1>3, <1>4, TurnedNegated
<1>10. /\ InvertedOf(t) \in Poses /\ InvertedOf(t).orientation = Conjugate(t.orientation)
       /\ InvertedOf(t).position = Times(-1, Turned(Conjugate(t.orientation), t.position))
  BY <1>2, InvertedIs
<1>11. InvertedOf(t).orientation = Truth(g, f).orientation
  BY <1>2, <1>6, <1>10
<1>12. InvertedOf(t).position = Truth(g, f).position
  BY <1>2, <1>4, <1>6, <1>8, <1>9, <1>10
<1>13. InvertedOf(t) = Truth(g, f)
  BY <1>2, <1>10, <1>11, <1>12 DEF Poses
<1> QED BY <1>13 DEF t

-----------------------------------------------------------------------------
(* The program: its transform, and the buffer its views share.             *)

Transforms == [pose : Poses, parent : Frames, child : Frames]

True(t) == t \in Transforms /\ SamePose(t.pose, Truth(t.parent, t.child))

\* What lies in the buffer is a true transform whose quaternion may have any
\* length, until something views it.
Laid(b) ==
  \E t \in Transforms, k \in Nat \ {0} :
    /\ True(t)
    /\ b = [t EXCEPT !.pose.orientation = Scaled(k, @)]

GeometryInv == True(transform) /\ Laid(buffer) /\ (views # {} => True(buffer))

LEMMA IdentityTrue ==
  ASSUME NEW f \in Frames
  PROVE  True(Tagged(Identity, f, f))
<1>1. Truth(f, f) = Identity /\ Truth(f, f) \in Poses
  BY TruthOfOne, TruthIs
<1>2. Identity.orientation \in Units
  BY <1>1 DEF Poses
<1> QED BY <1>1, <1>2, SameTurns DEF True, Transforms, Tagged, SamePose

LEMMA GivenTrue ==
  ASSUME NEW f \in Frames, NEW g \in Frames
  PROVE  True(Given(f, g))
<1>1. Truth(f, g) \in Poses
  BY TruthIs
<1>2. Truth(f, g).orientation \in Units
  BY <1>1 DEF Poses
<1> QED BY <1>1, <1>2, SameTurns DEF True, Transforms, Tagged, Given, SamePose

\* What operator* and inverse() of transforms return is true when what they
\* are given is.
LEMMA ComposedTrue ==
  ASSUME NEW l, NEW r, True(l), True(r), FramesMeet(l, r)
  PROVE  True(Composed(l, r))
<1>1. /\ l.pose \in Poses /\ r.pose \in Poses
      /\ l.parent \in Frames /\ l.child \in Frames /\ r.parent \in Frames /\ r.child \in Frames
      /\ SamePose(l.pose, Truth(l.parent, l.child)) /\ SamePose(r.pose, Truth(r.parent, r.child))
      /\ l.child.name = r.parent.name
  BY DEF True, Transforms, FramesMeet
<1>2. Truth(l.parent, l.child) \in Poses /\ Truth(r.parent, r.child) \in Poses
  BY <1>1, TruthIs
<1>3. SamePose(Chained(l.pose, r.pose),
               Chained(Truth(l.parent, l.child), Truth(r.parent, r.child)))
  BY <1>1, <1>2, SameChained
<1>4. Chained(Truth(l.parent, l.child), Truth(r.parent, r.child)) = Truth(l.parent, r.child)
  BY <1>1, TruthChains
<1>5. Chained(l.pose, r.pose) \in Poses
  BY <1>1, ChainedIs
<1> QED BY <1>1, <1>3, <1>4, <1>5 DEF True, Transforms, Composed, ComposedFrames, Tagged

LEMMA InverseTrue ==
  ASSUME NEW t, True(t)
  PROVE  /\ True(InvertedFrames(t, InvertedOf(t.pose)))
         /\ True(InverseTransform(t))
<1>1. /\ t.pose \in Poses /\ t.parent \in Frames /\ t.child \in Frames
      /\ SamePose(t.pose, Truth(t.parent, t.child))
  BY DEF True, Transforms
<1>2. Truth(t.parent, t.child) \in Poses
  BY <1>1, TruthIs
<1>3. SamePose(InvertedOf(t.pose), InvertedOf(Truth(t.parent, t.child)))
  BY <1>1, <1>2, SameInverted
<1>4. InvertedOf(Truth(t.parent, t.child)) = Truth(t.child, t.parent)
  BY <1>1, TruthInverts
<1>5. InvertedOf(t.pose) \in Poses
  BY <1>1, InvertedIs
<1>6. True(InvertedFrames(t, InvertedOf(t.pose)))
  BY <1>1, <1>3, <1>4, <1>5 DEF True, Transforms, InvertedFrames, Tagged
<1> QED BY <1>5, <1>6, PoseOfPose DEF InverseTransform

\* A true transform is laid in the buffer as it is.
LEMMA TrueIsLaid ==
  ASSUME NEW b, True(b)
  PROVE  Laid(b)
<1>1. b \in Transforms /\ b.pose \in Poses /\ b.pose.orientation \in Units
  BY DEF True, Transforms, Poses
<1> DEFINE q == b.pose.orientation
<1>2. Scaled(1, q) = q
  <2>1. Scaled(1, q) \in Quaternion /\ q \in Quaternion
    BY <1>1, ScaledAt, UnitIn
  <2>2. /\ Scaled(1, q).vec["x"] = q.vec["x"] /\ Scaled(1, q).vec["y"] = q.vec["y"]
        /\ Scaled(1, q).vec["z"] = q.vec["z"] /\ Scaled(1, q).w = q.w
    BY <1>1, ScaledAt, UnitIn
  <2>3. Scaled(1, q).vec = q.vec
    BY <2>1, <2>2, VectorsEqual DEF Quaternion
  <2> QED BY <2>1, <2>2, <2>3, QuaternionsEqual
<1>3. b = [b EXCEPT !.pose.orientation = Scaled(1, @)]
  BY <1>1, <1>2 DEF Transforms, Poses
<1>4. 1 \in Nat \ {0}
  OBVIOUS
<1> QED BY <1>1, <1>3, <1>4, Zenon DEF Laid

\* Normalising what lies in the buffer gives back what was laid there, and
\* what is a unit already is what was laid.
LEMMA LaidNormalized ==
  ASSUME NEW b, Laid(b)
  PROVE  /\ True([b EXCEPT !.pose = Pose(@)])
         /\ IsUnit(b.pose.orientation) => True(b)
<1>1. PICK t \in Transforms, k \in Nat \ {0} :
        True(t) /\ b = [t EXCEPT !.pose.orientation = Scaled(k, @)]
  BY DEF Laid
<1>2. /\ t = [pose |-> t.pose, parent |-> t.parent, child |-> t.child]
      /\ t.pose = Se3(t.pose.orientation, t.pose.position)
      /\ t.pose.orientation \in Units /\ t.pose \in Poses
      /\ t.parent \in Frames /\ t.child \in Frames
  BY DEF Transforms, Poses, Se3
<1> DEFINE q == t.pose.orientation
<1>3. b = [t EXCEPT !.pose = Se3(Scaled(k, q), t.pose.position)]
  BY <1>1, <1>2 DEF Se3, Transforms, Poses
<1>4. /\ b = Tagged(Se3(Scaled(k, q), t.pose.position), t.parent, t.child)
      /\ b.pose = Se3(Scaled(k, q), t.pose.position)
  BY <1>2, <1>3 DEF Tagged, Transforms
<1>5. Normalized(Scaled(k, q)) = q
  BY <1>2, ScaledNormalized
<1>6. Pose(b.pose) = t.pose
  BY <1>2, <1>4, <1>5 DEF Pose, Se3
<1>7. [b EXCEPT !.pose = Pose(@)] = t
  BY <1>2, <1>4, <1>6 DEF Tagged, Transforms
<1>8. ASSUME IsUnit(b.pose.orientation)
      PROVE  True(b)
  <2>1. Scaled(k, q) \in Quaternion
    BY <1>2, ScaledAt
  <2>2. Scaled(k, q) \in Units
    BY <1>4, <1>8, <2>1, UnitByNorm DEF IsUnit, Se3
  <2>3. Scaled(k, q) = q
    BY <1>5, <2>2, UnitNormalized
  <2> QED BY <1>1, <1>2, <1>4, <2>3 DEF Tagged
<1> QED BY <1>1, <1>7, <1>8

\* One step per operation of the program.
LEMMA GeometryStep ==
  ASSUME GeometryInv, [Next]_vars
  PROVE  GeometryInv'
<1> USE DEF GeometryInv
<1>1. ASSUME NEW f \in Frames, NEW g \in Frames, ComposeWith(f, g)
      PROVE  GeometryInv'
  <2>1. True(Composed(transform, Given(f, g)))
    BY <1>1, GivenTrue, ComposedTrue DEF ComposeWith
  <2> QED BY <1>1, <2>1 DEF ComposeWith, Laid, True
<1>2. ASSUME NEW f \in Frames, NEW g \in Frames, ComposeAfter(f, g)
      PROVE  GeometryInv'
  <2>1. True(Composed(Given(f, g), transform))
    BY <1>2, GivenTrue, ComposedTrue DEF ComposeAfter
  <2> QED BY <1>2, <2>1 DEF ComposeAfter, Laid, True
<1>3. CASE Invert
  <2>1. True(InverseTransform(transform))
    BY InverseTrue
  <2> QED BY <1>3, <2>1 DEF Invert, Laid, True
<1>4. ASSUME NEW k \in Factors, Lay(k)
      PROVE  GeometryInv'
  <2>1. k \in Nat \ {0} /\ transform \in Transforms
    BY GeometryAssumption DEF True
  <2>2. Laid(buffer')
    BY <1>4, <2>1 DEF Lay, Laid, True
  <2> QED BY <1>4, <2>2 DEF Lay, True
<1>5. CASE BindMap
  <2>1. True(buffer')
    BY <1>5, LaidNormalized DEF BindMap
  <2>2. True(buffer)'
    BY <2>1 DEF True
  <2>3. Laid(buffer')
    BY <2>2, TrueIsLaid
  <2> QED BY <1>5, <2>2, <2>3 DEF BindMap, True
<1>6. CASE BindConstMap
  <2>1. True(buffer)
    BY <1>6, LaidNormalized DEF BindConstMap
  <2> QED BY <1>6, <2>1 DEF BindConstMap, Laid, True
<1>7. CASE InvertInPlace
  <2>1. True(buffer)
    BY <1>7 DEF InvertInPlace
  <2>2. True(InvertedFrames(buffer, InvertedOf(buffer.pose)))
    BY <2>1, InverseTrue
  <2>3. True(buffer)'
    BY <1>7, <2>2 DEF InvertInPlace, True
  <2>4. Laid(buffer')
    BY <2>3, TrueIsLaid
  <2> QED BY <1>7, <2>3, <2>4 DEF InvertInPlace, True
<1>8. ASSUME NEW view, TakeFrom(view)
      PROVE  GeometryInv'
  <2>1. True([buffer EXCEPT !.pose = Pose(@)])
    BY LaidNormalized
  <2> QED BY <1>8, <2>1 DEF TakeFrom, Laid, True
<1>9. ASSUME NEW view, Unbind(view)
      PROVE  GeometryInv'
  BY <1>9 DEF Unbind, Laid, True
<1>10. CASE UNCHANGED vars
  BY <1>10 DEF vars, Laid, True
<1>11. \A s \in Surveyed : s[1] \in Frames /\ s[2] \in Frames
  BY GeometryAssumption
<1> QED BY <1>1, <1>2, <1>3, <1>4, <1>5, <1>6, <1>7, <1>8, <1>9, <1>10, <1>11 DEF Next

-----------------------------------------------------------------------------
(* Modified Rodrigues parameters.                                          *)

\* Division without remainder.
LEMMA Divides ==
  ASSUME NEW k \in Int, k > 0, NEW m \in Int, NEW n \in Int, k * m = n
  PROVE  n \div k = m
OBVIOUS

\* The parameters of a unit are thirds, exactly; the half turn has none.
LEMMA MrpAt ==
  ASSUME NEW q \in Units
  PROVE  /\ q.w = -2 => FromQuaternion(q) = NaN
         /\ q.w # -2 =>
              /\ FromQuaternion(q) \in Vector /\ 2 + q.w > 0
              /\ (2 + q.w) * FromQuaternion(q)["x"] = 3 * q.vec["x"]
              /\ (2 + q.w) * FromQuaternion(q)["y"] = 3 * q.vec["y"]
              /\ (2 + q.w) * FromQuaternion(q)["z"] = 3 * q.vec["z"]
<1> DEFINE x == q.vec["x"]  y == q.vec["y"]  z == q.vec["z"]  w == q.w  m == FromQuaternion(q)
<1>1. /\ x \in Int /\ y \in Int /\ z \in Int /\ w \in Int /\ q.vec \in Vector
      /\ x * x + y * y + z * z + w * w = 4
  BY UnitIn, UnitAt
<1>2. Normalized(q) = q
  BY UnitNormalized
<1>3. m = IF w = -2 THEN NaN ELSE Over(Times(3, q.vec), 2 + w)
  BY <1>2 DEF FromQuaternion
<1>4. /\ Times(3, q.vec) \in Vector /\ Times(3, q.vec)["x"] = 3 * x
      /\ Times(3, q.vec)["y"] = 3 * y /\ Times(3, q.vec)["z"] = 3 * z
  <2>1. 3 \in Int /\ q.vec \in Vector
    BY <1>1
  <2> QED BY <2>1, TimesAt, Zenon
<1>5. ASSUME w # -2
      PROVE  /\ m \in Vector /\ 2 + w > 0
             /\ (2 + w) * m["x"] = 3 * x /\ (2 + w) * m["y"] = 3 * y /\ (2 + w) * m["z"] = 3 * z
  <2>1. w \in {-1, 0, 1, 2}
    BY <1>5, UnitAt DEF Odd, Even
  <2>2. m = [i \in Axes |-> Times(3, q.vec)[i] \div (2 + w)]
    BY <1>3, <1>5 DEF Over
  <2>3. \A n \in Int : n \div (2 + w) \in Int
    BY <2>1
  <2>4. /\ m \in Vector /\ m["x"] = (3 * x) \div (2 + w) /\ m["y"] = (3 * y) \div (2 + w)
        /\ m["z"] = (3 * z) \div (2 + w)
    <3> HIDE DEF m, x, y, z, w
    <3>1. \A i \in Axes : Times(3, q.vec)[i] \in Int
      BY <1>4 DEF Vector, Vectors
    <3> QED BY <1>4, <2>2, <2>3, <3>1 DEF Vector, Vectors, Axes
  <2>5. w = 0 => x \in {-2, 0, 2} /\ y \in {-2, 0, 2} /\ z \in {-2, 0, 2}
    BY UnitAt DEF Odd, Even, Axes
  <2>6. w = 2 => x = 0 /\ y = 0 /\ z = 0
    <3> HIDE DEF x, y, z, w
    <3>1. x * x >= 0 /\ y * y >= 0 /\ z * z >= 0
      BY <1>1
    <3>2. w = 2 => x * x = 0 /\ y * y = 0 /\ z * z = 0
      BY <1>1, <3>1
    <3> QED BY <1>1, <3>2
  <2> HIDE DEF m, x, y, z, w
  <2>7. \A n \in Int : (w = 0 => n \in {-2, 0, 2}) /\ (w = 2 => n = 0) =>
          (2 + w) * ((3 * n) \div (2 + w)) = 3 * n
    <3> TAKE n \in Int
    <3>1. CASE w = -1
      BY <3>1
    <3>2. CASE w = 0
      BY <3>2
    <3>3. CASE w = 1
      BY <3>3
    <3>4. CASE w = 2
      BY <3>4
    <3> QED BY <2>1, <3>1, <3>2, <3>3, <3>4
  <2>8. (2 + w) * ((3 * x) \div (2 + w)) = 3 * x
    BY <1>1, <2>5, <2>6, <2>7, Zenon
  <2>9. (2 + w) * ((3 * y) \div (2 + w)) = 3 * y
    BY <1>1, <2>5, <2>6, <2>7, Zenon
  <2>10. (2 + w) * ((3 * z) \div (2 + w)) = 3 * z
    BY <1>1, <2>5, <2>6, <2>7, Zenon
  <2>11. 2 + w > 0
    BY <2>1
  <2> QED BY <2>4, <2>8, <2>9, <2>10, <2>11, Zenon
<1> QED BY <1>3, <1>5

LEMMA MrpIsNumber ==
  ASSUME NEW q \in Units
  PROVE  FromQuaternion(q) # NaN <=> q.w # -2
<1>1. \A v \in Vector : v # NaN
  BY DEF Vector, Vectors, Axes, NaN
<1> QED BY <1>1, MrpAt

\* The product of two rotations, where it is defined, is that of the
\* quaternions they stand for.
LEMMA MrpProduct ==
  ASSUME NEW a \in Units, NEW b \in Units, a.w # -2, b.w # -2,
         Combined(FromQuaternion(a), FromQuaternion(b)) # NaN
  PROVE  Combined(FromQuaternion(a), FromQuaternion(b)) = FromQuaternion(Product(a, b))
<1> DEFINE l == FromQuaternion(a)  r == FromQuaternion(b)  P == Product(a, b)  m == FromQuaternion(P)
           lx == l["x"]  ly == l["y"]  lz == l["z"]  rx == r["x"]  ry == r["y"]  rz == r["z"]
           ax == a.vec["x"]  ay == a.vec["y"]  az == a.vec["z"]  aw == a.w
           bx == b.vec["x"]  by == b.vec["y"]  bz == b.vec["z"]  bw == b.w
           px == P.vec["x"]  py == P.vec["y"]  pz == P.vec["z"]  pw == P.w
           s == 2 + aw  t == 2 + bw
           l2 == Dot(l, l)  r2 == Dot(r, r)
           scale == 81 + l2 * r2 - 18 * Dot(l, r)
           vec == Plus(Plus(Times(3 * (9 - r2), l), Times(3 * (9 - l2), r)), Times(18, Cross(l, r)))
<1>1. /\ l \in Vector /\ r \in Vector /\ s > 0 /\ t > 0
      /\ s * lx = 3 * ax /\ s * ly = 3 * ay /\ s * lz = 3 * az
      /\ t * rx = 3 * bx /\ t * ry = 3 * by /\ t * rz = 3 * bz
  BY MrpAt
<1>2. P \in Units
  BY ProductInUnits
<1>3. /\ ax \in Int /\ ay \in Int /\ az \in Int /\ aw \in Int
      /\ bx \in Int /\ by \in Int /\ bz \in Int /\ bw \in Int
      /\ ax * ax + ay * ay + az * az + aw * aw = 4
      /\ bx * bx + by * by + bz * bz + bw * bw = 4
  BY UnitIn, UnitAt
<1>4. /\ px \in Int /\ py \in Int /\ pz \in Int /\ pw \in Int
      /\ 2 * pw = aw * bw - ax * bx - ay * by - az * bz
      /\ 2 * px = aw * bx + bw * ax + ay * bz - az * by
      /\ 2 * py = aw * by + bw * ay + az * bx - ax * bz
      /\ 2 * pz = aw * bz + bw * az + ax * by - ay * bx
  BY <1>2, UnitIn, ProductAt
<1>5. /\ lx \in Int /\ ly \in Int /\ lz \in Int /\ rx \in Int /\ ry \in Int /\ rz \in Int
  BY <1>1, VectorIn
<1>6. Combined(l, r) = IF scale = 0 THEN NaN ELSE Over(Times(3, vec), scale)
  BY DEF Combined
<1>7. /\ P.w = -2 => m = NaN
      /\ P.w # -2 => /\ m \in Vector /\ 2 + pw > 0
                     /\ (2 + pw) * m["x"] = 3 * px /\ (2 + pw) * m["y"] = 3 * py
                     /\ (2 + pw) * m["z"] = 3 * pz
  BY <1>2, MrpAt
<1> HIDE DEF l, r, P, m
<1>8. /\ l2 = lx * lx + ly * ly + lz * lz /\ r2 = rx * rx + ry * ry + rz * rz
      /\ Dot(l, r) = lx * rx + ly * ry + lz * rz
  BY <1>1, DotAt
<1>9. l2 \in Int /\ r2 \in Int /\ Dot(l, r) \in Int
  BY <1>5, <1>8
<1>10. /\ vec \in Vector
       /\ vec["x"] = 3 * (9 - r2) * lx + 3 * (9 - l2) * rx + 18 * (ly * rz - lz * ry)
       /\ vec["y"] = 3 * (9 - r2) * ly + 3 * (9 - l2) * ry + 18 * (lz * rx - lx * rz)
       /\ vec["z"] = 3 * (9 - r2) * lz + 3 * (9 - l2) * rz + 18 * (lx * ry - ly * rx)
  <2> HIDE DEF l2, r2
  <2> DEFINE f == 3 * (9 - r2)  g == 3 * (9 - l2)
  <2>1. f \in Int /\ g \in Int
    BY <1>9
  <2> HIDE DEF f, g
  <2>2. Times(f, l) \in Vector /\ Times(g, r) \in Vector /\ Cross(l, r) \in Vector
    BY <1>1, <2>1, TimesAt, CrossAt
  <2>3. Plus(Times(f, l), Times(g, r)) \in Vector /\ Times(18, Cross(l, r)) \in Vector
    BY <2>2, PlusAt, TimesAt
  <2> DEFINE v == Plus(Plus(Times(f, l), Times(g, r)), Times(18, Cross(l, r)))
  <2>4. /\ v \in Vector
        /\ v["x"] = Times(f, l)["x"] + Times(g, r)["x"] + Times(18, Cross(l, r))["x"]
        /\ v["y"] = Times(f, l)["y"] + Times(g, r)["y"] + Times(18, Cross(l, r))["y"]
        /\ v["z"] = Times(f, l)["z"] + Times(g, r)["z"] + Times(18, Cross(l, r))["z"]
    BY <2>2, <2>3, PlusAt
  <2> HIDE DEF v
  <2>5. /\ v["x"] = f * lx + g * rx + 18 * (ly * rz - lz * ry)
        /\ v["y"] = f * ly + g * ry + 18 * (lz * rx - lx * rz)
        /\ v["z"] = f * lz + g * rz + 18 * (lx * ry - ly * rx)
    BY <1>1, <2>1, <2>2, <2>4, TimesAt, CrossAt
  <2>6. vec = v
    BY DEF v, f, g
  <2> HIDE DEF vec
  <2> QED BY <2>4, <2>5, <2>6 DEF f, g
<1> HIDE DEF l2, r2, vec, lx, ly, lz, rx, ry, rz, ax, ay, az, aw, bx, by, bz, bw, px, py, pz, pw
<1>11. s \in Int /\ t \in Int
  BY <1>3
<1>12. s * l2 = 9 * (4 - s) /\ t * r2 = 9 * (4 - t)
  <2>1. (s * lx) * (s * lx) + (s * ly) * (s * ly) + (s * lz) * (s * lz) = 9 * (4 - aw * aw)
    <3>1. (3 * ax) * (3 * ax) + (3 * ay) * (3 * ay) + (3 * az) * (3 * az) = 9 * (4 - aw * aw)
      BY <1>3
    <3> QED BY <1>1, <3>1
  <2>2. s * (s * l2) = s * (9 * (4 - s))
    <3>1. (s * lx) * (s * lx) + (s * ly) * (s * ly) + (s * lz) * (s * lz) = s * (s * l2)
      <4> HIDE DEF s
      <4> QED BY <1>5, <1>8, <1>11
    <3>2. 9 * (4 - aw * aw) = s * (9 * (4 - s))
      BY <1>3
    <3> QED BY <2>1, <3>1, <3>2
  <2>3. (t * rx) * (t * rx) + (t * ry) * (t * ry) + (t * rz) * (t * rz) = 9 * (4 - bw * bw)
    <3>1. (3 * bx) * (3 * bx) + (3 * by) * (3 * by) + (3 * bz) * (3 * bz) = 9 * (4 - bw * bw)
      BY <1>3
    <3> QED BY <1>1, <3>1
  <2>4. t * (t * r2) = t * (9 * (4 - t))
    <3>1. (t * rx) * (t * rx) + (t * ry) * (t * ry) + (t * rz) * (t * rz) = t * (t * r2)
      <4> HIDE DEF t
      <4> QED BY <1>5, <1>8, <1>11
    <3>2. 9 * (4 - bw * bw) = t * (9 * (4 - t))
      BY <1>3
    <3> QED BY <2>3, <3>1, <3>2
  <2>5. \A e, f, g \in Int : e > 0 /\ e * f = e * g => f = g
    OBVIOUS
  <2> HIDE DEF s, t
  <2>6. s * l2 \in Int /\ 9 * (4 - s) \in Int /\ t * r2 \in Int /\ 9 * (4 - t) \in Int
    BY <1>9, <1>11
  <2> QED BY <1>1, <1>11, <2>2, <2>4, <2>5, <2>6
<1>13. (s * t) * scale = 324 * (2 + pw)
  <2>1. (s * t) * scale = 81 * (s * t) + (s * l2) * (t * r2) - 18 * ((s * t) * Dot(l, r))
    <3> DEFINE d == Dot(l, r)
    <3>1. d \in Int
      BY <1>9
    <3> HIDE DEF s, t, d
    <3>2. (s * t) * (81 + l2 * r2 - 18 * d) = 81 * (s * t) + (s * l2) * (t * r2) - 18 * ((s * t) * d)
      BY <1>9, <1>11, <3>1
    <3> QED BY <3>2 DEF d
  <2>2. (s * t) * Dot(l, r) = 9 * (ax * bx + ay * by + az * bz)
    <3>1. (s * t) * Dot(l, r) = (s * lx) * (t * rx) + (s * ly) * (t * ry) + (s * lz) * (t * rz)
      <4>1. (s * t) * (lx * rx + ly * ry + lz * rz)
              = (s * lx) * (t * rx) + (s * ly) * (t * ry) + (s * lz) * (t * rz)
        <5> HIDE DEF s, t
        <5> QED BY <1>5, <1>11
      <4> QED BY <1>8, <4>1
    <3>2. (s * lx) * (t * rx) + (s * ly) * (t * ry) + (s * lz) * (t * rz)
            = (3 * ax) * (3 * bx) + (3 * ay) * (3 * by) + (3 * az) * (3 * bz)
      BY <1>1
    <3>3. (3 * ax) * (3 * bx) + (3 * ay) * (3 * by) + (3 * az) * (3 * bz)
            = 9 * (ax * bx + ay * by + az * bz)
      BY <1>3
    <3> QED BY <3>1, <3>2, <3>3
  <2>3. (s * l2) * (t * r2) = (9 * (4 - s)) * (9 * (4 - t))
    BY <1>12
  <2> DEFINE d == ax * bx + ay * by + az * bz
  <2>4. d \in Int /\ 2 * pw = aw * bw - d
    BY <1>3, <1>4
  <2>5. (s * t) * scale = 81 * (s * t) + (9 * (4 - s)) * (9 * (4 - t)) - 18 * (9 * d)
    BY <2>1, <2>2, <2>3
  <2> HIDE DEF d, scale
  <2>6. 81 * (s * t) + (9 * (4 - s)) * (9 * (4 - t)) - 18 * (9 * d) = 162 * (aw * bw - d) + 648
    BY <1>3, <2>4
  <2> QED BY <1>4, <2>4, <2>5, <2>6
<1>14. /\ (s * t) * vec["x"] = 324 * px
       /\ (s * t) * vec["y"] = 324 * py
       /\ (s * t) * vec["z"] = 324 * pz
  <2>1. 9 * t - t * r2 = 18 * bw /\ 9 * s - s * l2 = 18 * aw
    BY <1>3, <1>12
  <2>2. /\ (s * t) * (ly * rz - lz * ry) = (3 * ay) * (3 * bz) - (3 * az) * (3 * by)
        /\ (s * t) * (lz * rx - lx * rz) = (3 * az) * (3 * bx) - (3 * ax) * (3 * bz)
        /\ (s * t) * (lx * ry - ly * rx) = (3 * ax) * (3 * by) - (3 * ay) * (3 * bx)
    <3>1. /\ (s * t) * (ly * rz - lz * ry) = (s * ly) * (t * rz) - (s * lz) * (t * ry)
          /\ (s * t) * (lz * rx - lx * rz) = (s * lz) * (t * rx) - (s * lx) * (t * rz)
          /\ (s * t) * (lx * ry - ly * rx) = (s * lx) * (t * ry) - (s * ly) * (t * rx)
      <4> HIDE DEF s, t
      <4> QED BY <1>5, <1>11
    <3> QED BY <1>1, <3>1
  <2>3. /\ ly * rz - lz * ry \in Int /\ lz * rx - lx * rz \in Int /\ lx * ry - ly * rx \in Int
    BY <1>5
  <2>4. /\ (s * t) * vec["x"] = 3 * (18 * bw) * (3 * ax) + 3 * (18 * aw) * (3 * bx)
                                + 18 * ((3 * ay) * (3 * bz) - (3 * az) * (3 * by))
        /\ (s * t) * vec["y"] = 3 * (18 * bw) * (3 * ay) + 3 * (18 * aw) * (3 * by)
                                + 18 * ((3 * az) * (3 * bx) - (3 * ax) * (3 * bz))
        /\ (s * t) * vec["z"] = 3 * (18 * bw) * (3 * az) + 3 * (18 * aw) * (3 * bz)
                                + 18 * ((3 * ax) * (3 * by) - (3 * ay) * (3 * bx))
    <3> DEFINE cx == ly * rz - lz * ry  cy == lz * rx - lx * rz  cz == lx * ry - ly * rx
    <3>1. /\ vec["x"] = 3 * (9 - r2) * lx + 3 * (9 - l2) * rx + 18 * cx
          /\ vec["y"] = 3 * (9 - r2) * ly + 3 * (9 - l2) * ry + 18 * cy
          /\ vec["z"] = 3 * (9 - r2) * lz + 3 * (9 - l2) * rz + 18 * cz
      BY <1>10
    <3>2. cx \in Int /\ cy \in Int /\ cz \in Int
      BY <2>3
    <3> HIDE DEF cx, cy, cz
    <3>3. (s * t) * vec["x"] = 3 * (18 * bw) * (s * lx) + 3 * (18 * aw) * (t * rx) + 18 * ((s * t) * cx)
      <4>1. (s * t) * (3 * (9 - r2) * lx + 3 * (9 - l2) * rx + 18 * cx)
              = 3 * (9 * t - t * r2) * (s * lx) + 3 * (9 * s - s * l2) * (t * rx) + 18 * ((s * t) * cx)
        <5> HIDE DEF s, t
        <5> QED BY <1>5, <1>9, <1>11, <3>2
      <4> QED BY <2>1, <3>1, <4>1
    <3>4. (s * t) * vec["y"] = 3 * (18 * bw) * (s * ly) + 3 * (18 * aw) * (t * ry) + 18 * ((s * t) * cy)
      <4>1. (s * t) * (3 * (9 - r2) * ly + 3 * (9 - l2) * ry + 18 * cy)
              = 3 * (9 * t - t * r2) * (s * ly) + 3 * (9 * s - s * l2) * (t * ry) + 18 * ((s * t) * cy)
        <5> HIDE DEF s, t
        <5> QED BY <1>5, <1>9, <1>11, <3>2
      <4> QED BY <2>1, <3>1, <4>1
    <3>5. (s * t) * vec["z"] = 3 * (18 * bw) * (s * lz) + 3 * (18 * aw) * (t * rz) + 18 * ((s * t) * cz)
      <4>1. (s * t) * (3 * (9 - r2) * lz + 3 * (9 - l2) * rz + 18 * cz)
              = 3 * (9 * t - t * r2) * (s * lz) + 3 * (9 * s - s * l2) * (t * rz) + 18 * ((s * t) * cz)
        <5> HIDE DEF s, t
        <5> QED BY <1>5, <1>9, <1>11, <3>2
      <4> QED BY <2>1, <3>1, <4>1
    <3> QED BY <1>1, <2>2, <3>3, <3>4, <3>5 DEF cx, cy, cz
  <2>5. /\ 3 * (18 * bw) * (3 * ax) + 3 * (18 * aw) * (3 * bx)
              + 18 * ((3 * ay) * (3 * bz) - (3 * az) * (3 * by))
              = 162 * (aw * bx + bw * ax + ay * bz - az * by)
        /\ 3 * (18 * bw) * (3 * ay) + 3 * (18 * aw) * (3 * by)
              + 18 * ((3 * az) * (3 * bx) - (3 * ax) * (3 * bz))
              = 162 * (aw * by + bw * ay + az * bx - ax * bz)
        /\ 3 * (18 * bw) * (3 * az) + 3 * (18 * aw) * (3 * bz)
              + 18 * ((3 * ax) * (3 * by) - (3 * ay) * (3 * bx))
              = 162 * (aw * bz + bw * az + ax * by - ay * bx)
    BY <1>3
  <2>6. /\ (s * t) * vec["x"] = 162 * (2 * px) /\ (s * t) * vec["y"] = 162 * (2 * py)
        /\ (s * t) * vec["z"] = 162 * (2 * pz)
    BY <1>4, <2>4, <2>5
  <2> QED BY <1>4, <2>6
<1>15. scale # 0 /\ Combined(l, r) = Over(Times(3, vec), scale)
  BY <1>6 DEF l, r
<1>16. scale \in Int
  BY <1>9
<1>17. s * t \in Int /\ s * t > 0
  <2> HIDE DEF s, t
  <2> QED BY <1>1, <1>11
<1>18. pw # -2
  <2> HIDE DEF s, t, scale
  <2>1. \A e, f \in Int : e > 0 /\ e * f = 0 => f = 0
    OBVIOUS
  <2>2. pw = -2 => (s * t) * scale = 0
    BY <1>13
  <2> QED BY <1>15, <1>16, <1>17, <2>1, <2>2
<1>19. /\ m \in Vector /\ 2 + pw > 0
       /\ (2 + pw) * m["x"] = 3 * px /\ (2 + pw) * m["y"] = 3 * py /\ (2 + pw) * m["z"] = 3 * pz
  BY <1>7, <1>18 DEF pw
<1>20. m["x"] \in Int /\ m["y"] \in Int /\ m["z"] \in Int
  BY <1>19, VectorIn
<1>21. vec["x"] \in Int /\ vec["y"] \in Int /\ vec["z"] \in Int
  BY <1>10, VectorIn
<1> DEFINE k == s * t
<1> HIDE DEF s, t, scale, k
<1>22. scale > 0
  <2>1. \A e, f \in Int : e > 0 /\ e * f > 0 => f > 0
    OBVIOUS
  <2>2. k * scale > 0
    BY <1>4, <1>13, <1>19 DEF k
  <2> QED BY <1>16, <1>17, <2>1, <2>2 DEF k
<1> DEFINE Part(n, e) == (2 + pw) * n = 3 * e
           Times324(v, e) == k * v = 324 * e
           Thrice(n, v) == scale * n = 3 * v
<1>23. \A n, v, e \in Int : Part(n, e) /\ Times324(v, e) => Thrice(n, v)
  <2> SUFFICES ASSUME NEW n \in Int, NEW v \in Int, NEW e \in Int,
                      (2 + pw) * n = 3 * e, k * v = 324 * e
               PROVE  scale * n = 3 * v
    OBVIOUS
  <2>1. k * scale = 324 * (2 + pw) /\ k \in Int /\ k > 0
    BY <1>13, <1>17 DEF k
  <2>2. k * (scale * n) = k * (3 * v)
    <3>1. k * (scale * n) = (k * scale) * n
      BY <1>16, <2>1
    <3>2. (k * scale) * n = 324 * ((2 + pw) * n)
      BY <1>4, <2>1
    <3>3. k * (3 * v) = 3 * (k * v)
      BY <2>1
    <3> QED BY <3>1, <3>2, <3>3
  <2>3. \A f, g, h \in Int : f > 0 /\ f * g = f * h => g = h
    OBVIOUS
  <2>4. scale * n \in Int /\ 3 * v \in Int
    BY <1>16
  <2> QED BY <2>1, <2>2, <2>3, <2>4
<1>24. scale * m["x"] = 3 * vec["x"] /\ scale * m["y"] = 3 * vec["y"] /\ scale * m["z"] = 3 * vec["z"]
  <2>1. /\ Part(m["x"], px) /\ Part(m["y"], py) /\ Part(m["z"], pz)
        /\ Times324(vec["x"], px) /\ Times324(vec["y"], py) /\ Times324(vec["z"], pz)
    BY <1>14, <1>19 DEF k
  <2>2. Thrice(m["x"], vec["x"]) /\ Thrice(m["y"], vec["y"]) /\ Thrice(m["z"], vec["z"])
    <3> HIDE DEF Part, Times324, Thrice
    <3> QED BY <1>4, <1>20, <1>21, <1>23, <2>1
  <2> QED BY <2>2
<1>25. /\ Times(3, vec) \in Vector /\ Times(3, vec)["x"] = 3 * vec["x"]
       /\ Times(3, vec)["y"] = 3 * vec["y"] /\ Times(3, vec)["z"] = 3 * vec["z"]
  <2>1. 3 \in Int /\ vec \in Vector
    BY <1>10
  <2> QED BY <2>1, TimesAt, Zenon
<1>26. /\ Times(3, vec)["x"] \div scale = m["x"] /\ Times(3, vec)["y"] \div scale = m["y"]
       /\ Times(3, vec)["z"] \div scale = m["z"]
  <2>1. \A e, n \in Int : scale * e = n => n \div scale = e
    BY <1>16, <1>22, Divides
  <2>2. 3 * vec["x"] \in Int /\ 3 * vec["y"] \in Int /\ 3 * vec["z"] \in Int
    BY <1>21
  <2> QED BY <1>20, <1>24, <1>25, <2>1, <2>2, Zenon
<1>27. Over(Times(3, vec), scale) = m
  <2> DEFINE o == Over(Times(3, vec), scale)
  <2>1. o = [i \in Axes |-> Times(3, vec)[i] \div scale]
    BY DEF Over
  <2>2. o["x"] = m["x"] /\ o["y"] = m["y"] /\ o["z"] = m["z"]
    BY <1>26, <2>1 DEF Axes
  <2>3. o \in Vector
    <3> HIDE DEF o
    <3> QED BY <1>20, <1>26, <2>1 DEF Vector, Vectors, Axes
  <2> QED BY <1>19, <2>2, <2>3, VectorsEqual
<1> QED BY <1>15, <1>27 DEF l, r, m, P

\* Parameters that stand for a rotation are those of one of its two units.
LEMMA Denoted ==
  ASSUME NEW m, NEW q \in Units
  PROVE  Denotes(m, q) <=> \E u \in Units : SameTurn(u, q) /\ m = FromQuaternion(u)
BY NegativeAt DEF Denotes, SameTurn

LEMMA MrpComposes ==
  ASSUME NEW l, NEW r, NEW a \in Units, NEW b \in Units, Denotes(l, a), Denotes(r, b),
         Composition(l, r) # NaN
  PROVE  Denotes(Composition(l, r), Product(a, b))
<1>1. PICK u \in Units : SameTurn(u, a) /\ l = FromQuaternion(u)
  BY Denoted
<1>2. PICK v \in Units : SameTurn(v, b) /\ r = FromQuaternion(v)
  BY Denoted
<1>3. l # NaN /\ r # NaN /\ Composition(l, r) = Combined(l, r)
  BY DEF Composition
<1>4. u.w # -2 /\ v.w # -2
  BY <1>1, <1>2, <1>3, MrpIsNumber
<1>5. Combined(FromQuaternion(u), FromQuaternion(v)) # NaN
  BY <1>1, <1>2, <1>3
<1>6. Combined(FromQuaternion(u), FromQuaternion(v)) = FromQuaternion(Product(u, v))
  BY <1>4, <1>5, MrpProduct
<1>7. SameTurn(Product(u, v), Product(a, b)) /\ Product(u, v) \in Units /\ Product(a, b) \in Units
  BY <1>1, <1>2, SameProducts, ProductInUnits
<1>8. Composition(l, r) = FromQuaternion(Product(u, v))
  BY <1>1, <1>2, <1>3, <1>6
<1> QED BY <1>7, <1>8, Denoted

LEMMA MrpInverts ==
  ASSUME NEW m, NEW q \in Units, Denotes(m, q), Opposite(m) # NaN
  PROVE  Denotes(Opposite(m), Conjugate(q))
<1>1. PICK u \in Units : SameTurn(u, q) /\ m = FromQuaternion(u)
  BY Denoted
<1>2. m # NaN /\ Opposite(m) = Times(-1, m)
  BY DEF Opposite
<1>3. u.w # -2
  BY <1>1, <1>2, MrpIsNumber
<1> DEFINE v == Conjugate(u)  n == FromQuaternion(v)
<1>4. /\ v \in Units /\ v.w = u.w /\ v.vec["x"] = -u.vec["x"] /\ v.vec["y"] = -u.vec["y"]
      /\ v.vec["z"] = -u.vec["z"]
  BY ConjugateAt
<1>5. /\ m \in Vector /\ 2 + u.w > 0
      /\ (2 + u.w) * m["x"] = 3 * u.vec["x"] /\ (2 + u.w) * m["y"] = 3 * u.vec["y"]
      /\ (2 + u.w) * m["z"] = 3 * u.vec["z"]
  BY <1>1, <1>3, MrpAt
<1> HIDE DEF v
<1>6. /\ n \in Vector
      /\ (2 + v.w) * n["x"] = 3 * v.vec["x"] /\ (2 + v.w) * n["y"] = 3 * v.vec["y"]
      /\ (2 + v.w) * n["z"] = 3 * v.vec["z"]
  BY <1>3, <1>4, MrpAt
<1>7. /\ n["x"] \in Int /\ n["y"] \in Int /\ n["z"] \in Int
      /\ m["x"] \in Int /\ m["y"] \in Int /\ m["z"] \in Int /\ 2 + u.w \in Int
      /\ u.vec["x"] \in Int /\ u.vec["y"] \in Int /\ u.vec["z"] \in Int
  BY <1>5, <1>6, UnitIn, VectorIn
<1>8. n["x"] = -m["x"] /\ n["y"] = -m["y"] /\ n["z"] = -m["z"]
  <2> HIDE DEF n
  <2> DEFINE k == 2 + u.w
  <2>1. /\ k \in Int /\ k > 0 /\ k * m["x"] = 3 * u.vec["x"] /\ k * m["y"] = 3 * u.vec["y"]
        /\ k * m["z"] = 3 * u.vec["z"] /\ k * n["x"] = 3 * (-u.vec["x"])
        /\ k * n["y"] = 3 * (-u.vec["y"]) /\ k * n["z"] = 3 * (-u.vec["z"])
    BY <1>4, <1>5, <1>6, <1>7
  <2> HIDE DEF k
  <2>2. n["x"] = -m["x"]
    <3> DEFINE i == m["x"]  j == n["x"]  e == u.vec["x"]
    <3>1. i \in Int /\ j \in Int /\ e \in Int /\ k * i = 3 * e /\ k * j = 3 * (-e)
      BY <1>7, <2>1
    <3> HIDE DEF i, j, e
    <3>2. k * (i + j) = 0
      BY <2>1, <3>1
    <3>3. i + j = 0
      BY <2>1, <3>1, <3>2
    <3> QED BY <3>1, <3>3 DEF i, j
  <2>3. n["y"] = -m["y"]
    <3> DEFINE i == m["y"]  j == n["y"]  e == u.vec["y"]
    <3>1. i \in Int /\ j \in Int /\ e \in Int /\ k * i = 3 * e /\ k * j = 3 * (-e)
      BY <1>7, <2>1
    <3> HIDE DEF i, j, e
    <3>2. k * (i + j) = 0
      BY <2>1, <3>1
    <3>3. i + j = 0
      BY <2>1, <3>1, <3>2
    <3> QED BY <3>1, <3>3 DEF i, j
  <2>4. n["z"] = -m["z"]
    <3> DEFINE i == m["z"]  j == n["z"]  e == u.vec["z"]
    <3>1. i \in Int /\ j \in Int /\ e \in Int /\ k * i = 3 * e /\ k * j = 3 * (-e)
      BY <1>7, <2>1
    <3> HIDE DEF i, j, e
    <3>2. k * (i + j) = 0
      BY <2>1, <3>1
    <3>3. i + j = 0
      BY <2>1, <3>1, <3>2
    <3> QED BY <3>1, <3>3 DEF i, j
  <2> QED BY <2>2, <2>3, <2>4
<1>9. Times(-1, m) = n
  <2>1. /\ Times(-1, m) \in Vector /\ Times(-1, m)["x"] = -m["x"]
        /\ Times(-1, m)["y"] = -m["y"] /\ Times(-1, m)["z"] = -m["z"]
    BY <1>5, <1>7, TimesAt
  <2> HIDE DEF n
  <2> QED BY <1>6, <1>8, <2>1, VectorsEqual
<1>10. SameTurn(v, Conjugate(q)) /\ Conjugate(q) \in Units
  BY <1>1, SameTurns, ConjugateAt DEF v
<1> QED BY <1>2, <1>4, <1>9, <1>10, Denoted

LEMMA MrpStart ==
  ASSUME Init
  PROVE  MrpAgrees
<1>1. PICK f \in Frames : transform = Tagged(Identity, f, f) /\ rotation = Origin
  BY DEF Init
<1>2. transform.pose.orientation = One
  BY <1>1 DEF Tagged, Identity, Se3
<1>3. FromQuaternion(One) = Origin
  <2>1. One \in Units /\ One.w = 2 /\ One.vec = Origin
    BY OneAt
  <2>2. /\ FromQuaternion(One) \in Vector
        /\ 4 * FromQuaternion(One)["x"] = 0 /\ 4 * FromQuaternion(One)["y"] = 0
        /\ 4 * FromQuaternion(One)["z"] = 0
    BY <2>1, MrpAt, OriginAt
  <2>3. /\ FromQuaternion(One)["x"] \in Int /\ FromQuaternion(One)["y"] \in Int
        /\ FromQuaternion(One)["z"] \in Int
    BY <2>2, VectorIn
  <2>4. /\ FromQuaternion(One)["x"] = 0 /\ FromQuaternion(One)["y"] = 0
        /\ FromQuaternion(One)["z"] = 0
    BY <2>2, <2>3
  <2> QED BY <2>2, <2>4, OriginAt, VectorsEqual
<1> QED BY <1>1, <1>2, <1>3 DEF MrpAgrees, Denotes

\* The rotation follows the transform.
LEMMA MrpStep ==
  ASSUME GeometryInv, MrpAgrees, [Next]_vars
  PROVE  MrpAgrees'
<1>1. /\ transform.pose \in Poses /\ transform.pose.orientation \in Units
  BY DEF GeometryInv, True, Transforms, Poses
<1>2. ASSUME NEW f \in Frames, NEW g \in Frames
      PROVE  /\ Truth(f, g) \in Poses /\ Truth(f, g).orientation \in Units
             /\ Denotes(FromQuaternion(Truth(f, g).orientation), Truth(f, g).orientation)
  BY TruthIs DEF Poses, Denotes
<1>3. ASSUME NEW f \in Frames, NEW g \in Frames, ComposeWith(f, g)
      PROVE  MrpAgrees'
  <2> DEFINE o == transform.pose.orientation  t == Truth(f, g).orientation
  <2>1. transform'.pose.orientation = Product(o, t)
    <3>1. transform'.pose = Chained(transform.pose, Truth(f, g))
      BY <1>3 DEF ComposeWith, Composed, ComposedFrames, Tagged, Given
    <3> QED BY <1>1, <1>2, <3>1, ChainedIs
  <2>2. rotation' = Composition(rotation, FromQuaternion(t))
    BY <1>3 DEF ComposeWith
  <2>3. ASSUME rotation' # NaN
        PROVE  Denotes(rotation', transform'.pose.orientation)
    <3>1. rotation # NaN
      BY <2>2, <2>3 DEF Composition
    <3>2. Denotes(rotation, o)
      BY <3>1 DEF MrpAgrees
    <3>3. Denotes(FromQuaternion(t), t) /\ t \in Units /\ o \in Units
      BY <1>1, <1>2
    <3> HIDE DEF o, t
    <3>4. Denotes(Composition(rotation, FromQuaternion(t)), Product(o, t))
      BY <2>2, <2>3, <3>2, <3>3, MrpComposes
    <3> QED BY <2>1, <2>2, <3>4
  <2> QED BY <2>3 DEF MrpAgrees
<1>4. ASSUME NEW f \in Frames, NEW g \in Frames, ComposeAfter(f, g)
      PROVE  MrpAgrees'
  <2> DEFINE o == transform.pose.orientation  t == Truth(f, g).orientation
  <2>1. transform'.pose.orientation = Product(t, o)
    <3>1. transform'.pose = Chained(Truth(f, g), transform.pose)
      BY <1>4 DEF ComposeAfter, Composed, ComposedFrames, Tagged, Given
    <3> QED BY <1>1, <1>2, <3>1, ChainedIs
  <2>2. rotation' = Composition(FromQuaternion(t), rotation)
    BY <1>4 DEF ComposeAfter
  <2>3. ASSUME rotation' # NaN
        PROVE  Denotes(rotation', transform'.pose.orientation)
    <3>1. rotation # NaN
      BY <2>2, <2>3 DEF Composition
    <3>2. Denotes(rotation, o)
      BY <3>1 DEF MrpAgrees
    <3>3. Denotes(FromQuaternion(t), t) /\ t \in Units /\ o \in Units
      BY <1>1, <1>2
    <3> HIDE DEF o, t
    <3>4. Denotes(Composition(FromQuaternion(t), rotation), Product(t, o))
      BY <2>2, <2>3, <3>2, <3>3, MrpComposes
    <3> QED BY <2>1, <2>2, <3>4
  <2> QED BY <2>3 DEF MrpAgrees
<1>5. CASE Invert
  <2> DEFINE o == transform.pose.orientation
  <2>1. transform'.pose.orientation = Conjugate(o)
    <3>1. InvertedOf(transform.pose) \in Poses /\ InvertedOf(transform.pose).orientation = Conjugate(o)
      BY <1>1, InvertedIs
    <3>2. transform'.pose = InvertedOf(transform.pose)
      BY <1>5, <3>1, PoseOfPose DEF Invert, InverseTransform, InvertedFrames, Tagged
    <3> QED BY <3>1, <3>2
  <2>2. rotation' = Opposite(rotation)
    BY <1>5 DEF Invert
  <2>3. ASSUME rotation' # NaN
        PROVE  Denotes(rotation', transform'.pose.orientation)
    <3>1. rotation # NaN
      BY <2>2, <2>3 DEF Opposite
    <3>2. Denotes(rotation, o) /\ o \in Units
      BY <1>1, <3>1 DEF MrpAgrees
    <3> HIDE DEF o
    <3> QED BY <2>1, <2>2, <2>3, <3>2, MrpInverts
  <2> QED BY <2>3 DEF MrpAgrees
<1>6. ASSUME NEW view, TakeFrom(view)
      PROVE  MrpAgrees'
  <2>1. True(buffer)
    BY <1>6 DEF TakeFrom, GeometryInv
  <2>2. Pose(buffer.pose) = buffer.pose /\ buffer \in Transforms
    BY <2>1, PoseOfPose DEF True, Transforms
  <2>3. transform'.pose = buffer.pose /\ rotation' = FromQuaternion(buffer.pose.orientation)
    BY <1>6, <2>2 DEF TakeFrom, Transforms
  <2> QED BY <2>3 DEF MrpAgrees, Denotes
<1>7. CASE UNCHANGED <<transform, rotation>>
  BY <1>7 DEF MrpAgrees
<1>8. \A s \in Surveyed : s[1] \in Frames /\ s[2] \in Frames
  BY GeometryAssumption
<1>9. ASSUME NEW k, Lay(k)
      PROVE  UNCHANGED <<transform, rotation>>
  BY <1>9 DEF Lay
<1>10. ASSUME NEW view, Unbind(view)
       PROVE  UNCHANGED <<transform, rotation>>
  BY <1>10 DEF Unbind
<1>11. BindMap \/ BindConstMap \/ InvertInPlace \/ UNCHANGED vars => UNCHANGED <<transform, rotation>>
  BY DEF BindMap, BindConstMap, InvertInPlace, vars
<1> QED BY <1>3, <1>4, <1>5, <1>6, <1>7, <1>8, <1>9, <1>10, <1>11 DEF Next

LEMMA GeometryStart ==
  ASSUME Init
  PROVE  GeometryInv
<1>1. PICK f \in Frames : /\ transform = Tagged(Identity, f, f) /\ buffer = Tagged(Identity, f, f)
                          /\ views = {}
  BY DEF Init
<1>2. True(transform) /\ True(buffer)
  BY <1>1, IdentityTrue
<1> QED BY <1>1, <1>2, TrueIsLaid DEF GeometryInv

LEMMA GeometryHolds == MCSpec => []GeometryInv
<1>1. MCInit => GeometryInv
  BY GeometryStart DEF MCInit
<1>2. GeometryInv /\ [MCNext]_<<vars, part, files, tokens>> => GeometryInv'
  <2> SUFFICES ASSUME GeometryInv, [MCNext]_<<vars, part, files, tokens>> PROVE GeometryInv'
    OBVIOUS
  <2>1. [Next]_vars
    BY DEF MCNext
  <2> QED BY <2>1, GeometryStep
<1> QED BY <1>1, <1>2, PTL DEF MCSpec

\* However transforms are chained, inverted, laid in a buffer and taken from
\* the views of it, the pose a program holds relates the two frames it is
\* tagged with, wherever the frames are (rigidTransform.hpp, frameReferences.hpp).
THEOREM TransformsTellTheTruth == MCSpec => []PoseMatchesFrames
<1>1. GeometryInv => PoseMatchesFrames
  BY DEF GeometryInv, True, PoseMatchesFrames
<1> QED BY <1>1, GeometryHolds, PTL

\* What a bound view reads is a unit quaternion and the pose its owner laid
\* there, at whatever length, inverted as often as a view asked (pose.hpp).
THEOREM ViewsTellTheTruth == MCSpec => []ViewsReadTheTruth
<1>1. GeometryInv => ViewsReadTheTruth
  BY UnitAt DEF GeometryInv, True, Transforms, Poses, ViewsReadTheTruth, IsUnit
<1> QED BY <1>1, GeometryHolds, PTL

\* Wherever the product of two rotations is defined, the parameters stand
\* for the rotation of the transform (rotation.hpp).
THEOREM RotationsAgree == MCSpec => []MrpAgrees
<1>1. MCInit => MrpAgrees
  BY MrpStart DEF MCInit
<1>2. GeometryInv /\ MrpAgrees /\ [MCNext]_<<vars, part, files, tokens>> => MrpAgrees'
  <2> SUFFICES ASSUME GeometryInv, MrpAgrees, [MCNext]_<<vars, part, files, tokens>>
               PROVE  MrpAgrees'
    OBVIOUS
  <2>1. [Next]_vars
    BY DEF MCNext
  <2> QED BY <2>1, MrpStep
<1> QED BY <1>1, <1>2, GeometryHolds, PTL DEF MCSpec
=============================================================================
