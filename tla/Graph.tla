------------------------------- MODULE Graph --------------------------------
(***************************************************************************)
(* A port from construction to its end, as far as its working directory    *)
(* is concerned: the resources named at launch are copied, the setup opens *)
(* publishers and launches runners, whose threads ask for resources from   *)
(* then on; what the run recorded is written out, and another port adopts  *)
(* it.  The constructor may throw at any point, the process may be killed. *)
(* Port models the consignments and the runners of the same object.        *)
(***************************************************************************)
EXTENDS Resources, Registries

CONSTANTS
  Named,       \* the sequences of sources a run may be launched with
  Requested,   \* the sources its routines ask for
  Offers,      \* the pairs <<schema, name>> publishers are opened for
  ChannelOf,   \* makeChannelId: a hash, so two pairs may share a channel
  Closure      \* the nodes each schema reaches

ASSUME GraphAssumption ==
  /\ Requested \subseteq Sources
  /\ Named \subseteq Seq(Sources)
  /\ \A o \in Offers : /\ o[1] \in Closure[o[1]] /\ o[2] \in Nat
                       /\ IsFiniteSet(Closure[o[1]]) /\ Unreadable \notin Closure[o[1]]

VARIABLES
  phase,       \* where the port is in its life
  named,       \* the sources still to be copied by the constructor
  records,     \* whether mWriter exists
  running,     \* the callers whose runner is launched and not yet joined
  topics,      \* mActiveTopicRegistry
  nodes,       \* mActiveSchemaRegistry
  opened,      \* the channels opened on the writer
  files,       \* [resources, topics, schemas]: {} or the set of what is written
  playback     \* {} or the set of what a later port adopted: [topics, nodes, damaged]

graphVars == <<phase, named, records, running, topics, nodes, opened, files, playback>>
vars == <<resourceVars, graphVars>>
fixed == <<named, records>>

RunFiles == {"console.log", "manifest.json", "configOverlay.json"}
                  \cup IF records THEN {"chronicle"} ELSE {}

Init ==
  /\ ResourcesInit
  /\ phase = "copying"
  /\ named \in Named
  /\ records \in BOOLEAN
  /\ directory = [f \in RunFiles |-> Nobody]
  /\ running = {}
  /\ topics = {} /\ nodes = {} /\ opened = {}
  /\ files = [resources |-> {}, topics |-> {}, schemas |-> {}]
  /\ playback = {}

\* copyResources, in the initializer list: whatever goes wrong ends the
\* constructor before anything else exists.
CopyNamed ==
  /\ phase = "copying" /\ named # <<>>
  /\ named' = Tail(named)
  /\ LET s == Head(named) IN
     \/ /\ Refused(s) \/ Occupied(s)
        /\ phase' = "failed"
        /\ UNCHANGED <<map, directory>>
     \/ /\ ~Refused(s) /\ ~Occupied(s)
        /\ \/ /\ directory' = With(directory, FileName[s], s)
              /\ map' = With(map, s, FileName[s])
              /\ UNCHANGED phase
           \/ /\ directory' = With(directory, FileName[s], Nobody)
              /\ phase' = "failed"
              /\ UNCHANGED map
  /\ UNCHANGED <<mutex, call, returned, records, running, topics, nodes, opened, files, playback>>

\* Writing one of the run's own files into the working directory.
Written(field, name, value) ==
  /\ files' = [files EXCEPT ![field] = {value}]
  /\ directory' = With(directory, name, Nobody)

WriteResources(next) ==
  /\ Written("resources", "resources.json", map)
  /\ phase' = next
  /\ UNCHANGED <<mutex, map, call, returned, fixed, running, topics, nodes, opened, playback>>

WriteInitial == phase = "copying" /\ named = <<>> /\ WriteResources("setup")

\* Port::publisher: refused on a run that does not record and on a channel
\* that has one, which ends the setup.  Publishers are opened before a runner
\* is launched: port.hpp calls it a wiring-time operation.
OpenPublisher(offer) ==
  /\ phase = "setup" /\ running = {}
  /\ LET c == ChannelOf[offer] IN
     \/ /\ ~records \/ Carried(topics, c)
        /\ phase' = "unwinding"
        /\ UNCHANGED <<topics, nodes, opened>>
     \/ /\ records /\ ~Carried(topics, c)
        /\ topics' = Record(topics, Topic(c, offer[2], offer[1]))
        /\ nodes' = RecordSchema(nodes, Closure[offer[1]])
        /\ opened' = opened \cup {c}
        /\ UNCHANGED phase
  /\ UNCHANGED <<resourceVars, fixed, running, files, playback>>

Launch(t) ==
  /\ phase = "setup" /\ t \notin running
  /\ running' = running \cup {t}
  /\ UNCHANGED <<resourceVars, phase, fixed, topics, nodes, opened, files, playback>>

\* The setup, or a resource it asked for, throws.
SetupThrows ==
  /\ phase = "setup"
  /\ phase' = "unwinding"
  /\ UNCHANGED <<resourceVars, fixed, running, topics, nodes, opened, files, playback>>

SetupReturns ==
  /\ phase = "setup"
  /\ phase' = "wired"
  /\ UNCHANGED <<resourceVars, fixed, running, topics, nodes, opened, files, playback>>

WriteTopics ==
  /\ phase = "wired"
  /\ \E f \in TopicFiles(topics) : Written("topics", "topics.json", f)
  /\ phase' = "topics"
  /\ UNCHANGED <<mutex, map, call, returned, fixed, running, topics, nodes, opened, playback>>

WriteSchemas ==
  /\ phase = "topics"
  /\ \E f \in SchemaFiles(nodes) : Written("schemas", "schemas.bin", f)
  /\ phase' = "running"
  /\ UNCHANGED <<mutex, map, call, returned, fixed, running, topics, nodes, opened, playback>>

\* ~Port, once the bus is quiet; after a throw the members go without its
\* body.  Either way mRunners goes before the map does.
Destroy ==
  /\ phase = "running"
  /\ phase' = "clearing"
  /\ UNCHANGED <<resourceVars, fixed, running, topics, nodes, opened, files, playback>>

JoinRunner(t) ==
  /\ phase \in {"clearing", "unwinding"} /\ t \in running
  /\ call[t].at \in {"idle", "threw"}
  /\ running' = running \ {t}
  /\ UNCHANGED <<resourceVars, phase, fixed, topics, nodes, opened, files, playback>>

JoinedTooEarly == TRUE
Joined == running = {}

RewriteResources == phase = "clearing" /\ Joined /\ WriteResources("gone")

\* The guarded write failed, or the members go after a throw.
EndUnrecorded ==
  /\ phase \in {"clearing", "unwinding"} /\ Joined
  /\ phase' = "failed"
  /\ UNCHANGED <<resourceVars, fixed, running, topics, nodes, opened, files, playback>>

Ended == {"gone", "failed", "killed"}

\* What the process held goes with it; map and topics stay as history.
Kill ==
  /\ phase \notin Ended
  /\ phase' = "killed"
  /\ mutex' = Unlocked
  /\ call' = [t \in Callers |-> Idle]
  /\ running' = {}
  /\ UNCHANGED <<map, directory, returned, fixed, topics, nodes, opened, files, playback>>

\* What the loading constructor may find; no file reads like an empty one.
Readable(file) == IF file = {} THEN {<<>>} ELSE UNION {Damaged(f) : f \in file}

\* Another port is launched on the recording, of which a record may be damaged.
Adopt ==
  /\ phase \in Ended /\ playback = {}
  /\ \E t \in Readable(files.topics), n \in Readable(files.schemas) :
       playback' = {[topics |-> Adopted(t), nodes |-> AdoptedNodes(n),
                     damaged |-> t \notin files.topics \/ n \notin files.schemas]}
  /\ UNCHANGED <<resourceVars, phase, fixed, running, topics, nodes, opened, files>>

\* The routines a runner ticks until it is joined.
Request(t) ==
  /\ t \in running
  /\ \/ \E s \in Requested, request \in {"add", "acquire", "find"} : Call(t, request, s)
     \/ CallerStep(t)
  /\ UNCHANGED graphVars

Next ==
  \/ CopyNamed \/ WriteInitial \/ SetupThrows \/ SetupReturns
  \/ \E o \in Offers : OpenPublisher(o)
  \/ \E t \in Callers : Launch(t) \/ JoinRunner(t) \/ Request(t)
  \/ WriteTopics \/ WriteSchemas \/ Destroy \/ RewriteResources \/ EndUnrecorded
  \/ Kill \/ Adopt

Spec == Init /\ [][Next]_vars
-----------------------------------------------------------------------------

(* Whatever a caller was given a path of, and whatever the map names        *)
(* outside an exclusive section, is in the working directory and whole: no  *)
(* thread sees a copy in progress, one that failed half way, or one that    *)
(* the run has overwritten (port.cpp:93, 202).                              *)
ResourcesIntact ==
  /\ \A s \in returned : s \in DOMAIN map /\ directory[map[s]] = s
  /\ mutex.writers = {} => \A s \in DOMAIN map : directory[map[s]] = s

(* acquireResource is idempotent across threads: it throws for no source    *)
(* that the map holds, also when another thread copied it between the       *)
(* shared look and the exclusive one (port.cpp:205).                        *)
AcquireAgrees ==
  [][\A t \in Callers :
       At(t, "locked") /\ call'[t].at = "threw" /\ call[t].request = "acquire"
         => call[t].source \notin DOMAIN map]_vars

(* resources.json never names a file that is not there whole, and after a   *)
(* destructor whose write succeeded names every resource there is: no       *)
(* runner is left to add one (port.cpp:141-148).                            *)
ManifestTrue ==
  /\ \A recorded \in files.resources :
       \A s \in DOMAIN recorded : directory[recorded[s]] = s
  /\ phase = "gone" => files.resources = {map}

(* A port that adopts the recording knows one topic per channel, names no   *)
(* channel the recorder did not open, and knows all of them, with every     *)
(* node their schemas reach, when the graph was wired and no record is      *)
(* damaged; a damaged record costs it no topic of an earlier name.          *)
ReplayKnowsTopics ==
  \A p \in playback :
    /\ p.topics \subseteq topics
    /\ \A t \in p.topics, u \in topics : u.name < t.name => u \in p.topics
    /\ ~p.damaged /\ files.schemas # {} =>
         /\ {t.channel : t \in p.topics} = opened
         /\ \A t \in p.topics : Closure[t.schema] \subseteq p.nodes
=============================================================================
