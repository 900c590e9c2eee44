------------------------------ MODULE Storage -------------------------------
(***************************************************************************)
(* containers::MmapRegion and the arrays over it, on a kernel that hands   *)
(* out the lowest free descriptor: a constructor is several system calls,  *)
(* each of which may fail, and other threads construct, move and destroy   *)
(* regions in between. Sizes are in elements and halves of one.            *)
(***************************************************************************)
EXTENDS Integers, FiniteSets

CONSTANTS
  Regions,      \* where a MmapRegion may live
  Files,        \* paths
  Descriptors,  \* what the process may have open
  Counts,       \* element counts arrays are made with
  HalfFile      \* the length a foreign program gives a file, in halves

Absent == -1
Free == "free"
Nothing == [stage |-> "none"]

VARIABLES
  region,    \* slot -> the region there, or Nothing
  table,     \* descriptor -> the file it is open on, or Free
  length,    \* path -> its length in halves, or Absent
  mappings   \* file -> how many mappings of it the kernel keeps

vars == <<region, table, length, mappings>>

Init ==
  /\ region = [r \in Regions |-> Nothing]
  /\ table = [d \in Descriptors |-> Free]
  /\ length = [f \in Files |-> Absent]
  /\ mappings = [f \in Files |-> 0]

FreeDescriptors == {d \in Descriptors : table[d] = Free}
Lowest(S) == CHOOSE d \in S : \A e \in S : d <= e

\* open() by a constructor at r; it throws, changing nothing, without a free
\* descriptor.
Opened(r, f, access, want) ==
  /\ region[r] = Nothing
  /\ FreeDescriptors # {}
  /\ LET d == Lowest(FreeDescriptors)
     IN  /\ table' = [table EXCEPT ![d] = f]
         /\ region' = [region EXCEPT ![r] = [stage |-> "opened", file |-> f, access |-> access,
                                             fd |-> d, bytes |-> want]]

\* The constructor closes what it opened and throws: no destructor runs.
Abandon(r) ==
  /\ table' = [table EXCEPT ![region[r].fd] = Free]
  /\ region' = [region EXCEPT ![r] = Nothing]

\* openForWriting, its open(): an existing file is truncated.
OpenForWriting(r, f, count) ==
  /\ Opened(r, f, "write", 2 * count)
  /\ length' = [length EXCEPT ![f] = 0]
  /\ UNCHANGED mappings

\* ... and its ftruncate().
SizeFile(r) ==
  /\ region[r].stage = "opened" /\ region[r].access = "write"
  /\ \/ /\ length' = [length EXCEPT ![region[r].file] = region[r].bytes]
        /\ region' = [region EXCEPT ![r].stage = "sized"]
        /\ UNCHANGED table
     \/ Abandon(r) /\ UNCHANGED length
  /\ UNCHANGED mappings

\* openForReading: a path where nothing is throws.
OpenForReading(r, f) ==
  /\ length[f] # Absent
  /\ Opened(r, f, "read", 0)
  /\ UNCHANGED <<length, mappings>>

\* fileSize
StatFile(r) ==
  /\ region[r].stage = "opened" /\ region[r].access = "read"
  /\ \/ /\ region' = [region EXCEPT ![r].stage = "sized", ![r].bytes = length[region[r].file]]
        /\ UNCHANGED table
     \/ Abandon(r)
  /\ UNCHANGED <<length, mappings>>

\* mapMemory: the kernel refuses a mapping of nothing, and may refuse any.
MapMemory(r) ==
  /\ region[r].stage = "sized"
  /\ \/ /\ region[r].bytes > 0
        /\ region' = [region EXCEPT ![r].stage = "live"]
        /\ mappings' = [mappings EXCEPT ![region[r].file] = @ + 1]
        /\ UNCHANGED table
     \/ Abandon(r) /\ UNCHANGED mappings
  /\ UNCHANGED length

\* The destructor of a region in the state x: unmap, then close.
Unmapped(x) == [mappings EXCEPT ![x.file] = @ - (IF x.bytes > 0 THEN 1 ELSE 0)]
Closed(x) == IF x.fd >= 0 THEN [table EXCEPT ![x.fd] = Free] ELSE table

\* ~MmapRegion, of an array that goes out of scope, or of a MmapConstArray
\* whose constructor finds the file no whole number of elements and throws.
Destroy(r) ==
  /\ region[r].stage = "live"
  /\ mappings' = Unmapped(region[r])
  /\ table' = Closed(region[r])
  /\ region' = [region EXCEPT ![r] = Nothing]
  /\ UNCHANGED length

\* The array is only handed to its user when its elements are whole.
WholeElements(x) == x.bytes % 2 = 0
Usable(r) == region[r].stage = "live" /\ WholeElements(region[r])

\* What a moved-from region is left with.
Kept(x) == x
Emptied(x) == [x EXCEPT !.fd = -1, !.bytes = 0]

\* MmapRegion(MmapRegion&&)
Move(r, s) ==
  /\ Usable(r) /\ region[s] = Nothing
  /\ region' = [region EXCEPT ![s] = region[r], ![r] = Emptied(region[r])]
  /\ UNCHANGED <<table, length, mappings>>

\* resize(): ftruncate by the descriptor; a failure is only logged, and the
\* mapping keeps its size either way.
Resize(r, count) ==
  /\ Usable(r) /\ region[r].access = "write" /\ region[r].fd >= 0
  /\ length' = [length EXCEPT ![region[r].file] = 2 * count]
  /\ UNCHANGED <<region, table, mappings>>

\* Another program leaves a file of an odd length.
ForeignWrite(f) ==
  /\ length' = [length EXCEPT ![f] = HalfFile]
  /\ UNCHANGED <<region, table, mappings>>

Next ==
  \/ \E r \in Regions, f \in Files :
       OpenForReading(r, f) \/ \E n \in Counts : OpenForWriting(r, f, n)
  \/ \E r \in Regions : SizeFile(r) \/ StatFile(r) \/ MapMemory(r) \/ Destroy(r)
  \/ \E r \in Regions, s \in Regions : Move(r, s)
  \/ \E r \in Regions, n \in Counts \cup {0} : Resize(r, n)
  \/ \E f \in Files : ForeignWrite(f)

Spec == Init /\ [][Next]_vars

-----------------------------------------------------------------------------
Holders(d) == {r \in Regions : region[r] # Nothing /\ region[r].fd = d}
Mapped(f) == {r \in Regions : region[r].stage = "live" /\ region[r].file = f /\ region[r].bytes > 0}

\* Whichever constructor fails at whichever call, and wherever regions are
\* moved, an open descriptor has exactly one holder, and is open on the file
\* that holder believes in: none leaks, and none is closed twice, which would
\* close the file another thread was given the number for. The same for
\* mappings (mmapRegion.cpp:44, 77, 98, 124, 131).
HandlesOwnedOnce ==
  /\ \A d \in Descriptors :
       IF table[d] = Free THEN Holders(d) = {}
       ELSE \E r \in Regions : Holders(d) = {r} /\ region[r].file = table[d]
  /\ \A f \in Files : mappings[f] = Cardinality(Mapped(f))
=============================================================================
