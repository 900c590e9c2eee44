----------------------------- MODULE Resources ------------------------------
(***************************************************************************)
(* The resources of a run: files copied into its working directory on      *)
(* request of any thread, and the map from a source to the name of its     *)
(* copy, guarded by a Locked.  copyResource runs inside an exclusive       *)
(* section and its copy_file takes time, so a file is first there and only *)
(* then whole; acquireResource looks in a shared section first and looks   *)
(* again before it copies.                                                 *)
(***************************************************************************)
EXTENDS Locked, Naturals, FiniteSets, Functions

CONSTANTS
  Callers,    \* the threads that ask for resources
  Sources,    \* the paths they ask for
  FileName,   \* the last component of each path
  Kind,       \* what is at each path: "file", "directory" or "nothing"
  Nobody      \* a content no source has: a copy that is not whole, the run's own

ASSUME ResourcesAssumption ==
  /\ Kind \in [Sources -> {"file", "directory", "nothing"}]
  /\ Nobody \notin Sources

VARIABLES
  mutex,      \* the shared mutex of mLockedResourceMap
  map,        \* mLockedResourceMap: source -> file name
  directory,  \* the working directory: file name -> the source it is a copy of
  call,       \* what each caller is doing
  returned    \* the sources whose path some caller was given

resourceVars == <<mutex, map, directory, call, returned>>

Idle == [at |-> "idle"]
At(t, place) == call[t].at = place

ResourcesInit ==
  /\ mutex = Unlocked
  /\ map = <<>>
  /\ call = [t \in Callers |-> Idle]
  /\ returned = {}

\* What copyResource refuses before it touches the directory.
Refused(s) ==
  \/ Kind[s] # "file"
  \/ s \in DOMAIN map
  \/ FileName[s] \in Range(map)

\* copy_file refuses to overwrite.
Occupied(s) == FileName[s] \in DOMAIN directory

With(f, x, y) == [z \in DOMAIN f \cup {x} |-> IF z = x THEN y ELSE f[z]]

\* The caller leaves its section and the call, with the path or by a throw.
Give(t) ==
  /\ call' = [call EXCEPT ![t] = Idle]
  /\ returned' = IF call[t].request = "add" THEN returned
                 ELSE returned \cup {call[t].source}
Throw(t) ==
  /\ call' = [call EXCEPT ![t] = [at |-> "threw"]]
  /\ UNCHANGED returned

Call(t, request, s) ==
  /\ call[t].at \in {"idle", "threw"}
  /\ call' = [call EXCEPT ![t] = [at |-> "called", request |-> request, source |-> s]]
  /\ UNCHANGED <<mutex, map, directory, returned>>

\* acquireResource: the lookup in a shared section.
Look(t) ==
  /\ At(t, "called") /\ call[t].request \in {"acquire", "find"}
  /\ MayShare(mutex)
  /\ mutex' = Shared(mutex, t)
  /\ call' = [call EXCEPT ![t].at = "looking"]
  /\ UNCHANGED <<map, directory, returned>>

Found(t) ==
  /\ At(t, "looking") /\ call[t].source \in DOMAIN map
  /\ mutex' = AfterShared(mutex, t)
  /\ Give(t)
  /\ UNCHANGED <<map, directory>>

\* The const overload throws; the other goes on without a lock.
Missed(t) ==
  /\ At(t, "looking") /\ call[t].source \notin DOMAIN map
  /\ mutex' = AfterShared(mutex, t)
  /\ \/ call[t].request = "find" /\ Throw(t)
     \/ /\ call[t].request = "acquire"
        /\ call' = [call EXCEPT ![t].at = "missed"]
        /\ UNCHANGED returned
  /\ UNCHANGED <<map, directory>>

Lock(t) ==
  /\ \/ At(t, "called") /\ call[t].request = "add"
     \/ At(t, "missed")
  /\ MayExclude(mutex)
  /\ mutex' = Exclusive(mutex, t)
  /\ call' = [call EXCEPT ![t].at = "locked"]
  /\ UNCHANGED <<map, directory, returned>>

\* acquireResource's second look, in the exclusive section.
NeverLookingAgain(t) == FALSE
AlreadyThere(t) == call[t].request = "acquire" /\ call[t].source \in DOMAIN map

FoundAfterAll(t) ==
  /\ At(t, "locked") /\ AlreadyThere(t)
  /\ mutex' = AfterExclusive(mutex, t)
  /\ Give(t)
  /\ UNCHANGED <<map, directory>>

CopyRefused(t) ==
  /\ At(t, "locked") /\ ~AlreadyThere(t)
  /\ Refused(call[t].source) \/ Occupied(call[t].source)
  /\ mutex' = AfterExclusive(mutex, t)
  /\ Throw(t)
  /\ UNCHANGED <<map, directory>>

StartCopyEntered(t) ==
  /\ At(t, "locked") /\ ~AlreadyThere(t)
  /\ ~Refused(call[t].source) /\ ~Occupied(call[t].source)
  /\ directory' = With(directory, FileName[call[t].source], Nobody)
  /\ map' = With(map, call[t].source, FileName[call[t].source])
  /\ call' = [call EXCEPT ![t].at = "copying"]
  /\ UNCHANGED <<mutex, returned>>

StartCopy(t) ==
  /\ At(t, "locked") /\ ~AlreadyThere(t)
  /\ ~Refused(call[t].source) /\ ~Occupied(call[t].source)
  /\ directory' = With(directory, FileName[call[t].source], Nobody)
  /\ call' = [call EXCEPT ![t].at = "copying"]
  /\ UNCHANGED <<mutex, map, returned>>

FinishCopy(t) ==
  /\ At(t, "copying")
  /\ directory' = With(directory, FileName[call[t].source], call[t].source)
  /\ map' = With(map, call[t].source, FileName[call[t].source])
  /\ mutex' = AfterExclusive(mutex, t)
  /\ Give(t)

\* The disk is full: what was copied so far stays.
CopyFails(t) ==
  /\ At(t, "copying")
  /\ mutex' = AfterExclusive(mutex, t)
  /\ Throw(t)
  /\ UNCHANGED <<map, directory>>

CallerStep(t) ==
  \/ Look(t) \/ Found(t) \/ Missed(t) \/ Lock(t) \/ FoundAfterAll(t)
  \/ CopyRefused(t) \/ StartCopy(t) \/ FinishCopy(t) \/ CopyFails(t)

=============================================================================
