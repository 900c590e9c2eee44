------------------------------ MODULE Overlay -------------------------------
(***************************************************************************)
(* The configuration of runs: RunContext assembles the overlay of a launch *)
(* layer by layer, checks it, creates the working directory and writes the *)
(* overlay and the manifest there; the routines then materialize their     *)
(* configs from it.  A later launch may replay any earlier working         *)
(* directory, complete or not, and put layers of its own on top.           *)
(***************************************************************************)
EXTENDS Json, FiniteSets

CONSTANTS
  Files,        \* what --append-config may name
  Assignments,  \* what --config-override may say: [path, value]
  SchemaOf,     \* routine name -> its config schema
  MaxRuns,      \* bound: launches
  MaxLayers     \* bound: layers of all launches together

ASSUME OverlayAssumption ==
  /\ MaxRuns \in Nat /\ MaxLayers \in Nat
  /\ DOMAIN SchemaOf \subseteq STRING
  /\ \A n \in DOMAIN SchemaOf : \A f, g \in DOMAIN SchemaOf[n] :
       SchemaOf[n][f] # Null /\ (Clash(f, g) => f = g)
  /\ \A n \in DOMAIN SchemaOf : DOMAIN SchemaOf[n] \subseteq Seq(STRING)
  /\ \A d \in Files : DOMAIN d \subseteq Seq(STRING)
  /\ \A a \in Assignments : a.path \in Seq(STRING) /\ DOMAIN a.value \subseteq Seq(STRING)

VARIABLES
  runs,     \* the launches so far: what each was given and what it left
  stage,    \* how far the last one is
  document  \* its overlay as assembled so far

vars == <<runs, stage, document>>

Run(input, layers) ==
  [input |-> input, layers |-> layers, overlay |-> {}, manifest |-> FALSE,
   effective |-> Empty]

Current == runs[Len(runs)]
\* Layers that have not been applied yet are those beyond the stage.
Layer == Current.layers[stage[2]]
Layers == UNION {{[file |-> f] : f \in Files}, {[assignment |-> a] : a \in Assignments}}
IsFile(layer) == "file" \in DOMAIN layer
Ordered(layers) ==
  \A i, j \in DOMAIN layers : i < j /\ IsFile(layers[j]) => IsFile(layers[i])
Used == Cardinality(UNION {{<<r, i>> : i \in DOMAIN runs[r].layers} : r \in DOMAIN runs})

Init ==
  /\ runs = <<>>
  /\ stage = <<"idle">>
  /\ document = Empty

\* A launch; input = 0 is a run that replays nothing.
Launch(input, layers) ==
  /\ stage = <<"idle">> /\ Len(runs) < MaxRuns /\ Ordered(layers)
  /\ runs' = Append(runs, Run(input, layers))
  /\ stage' = <<"recorded">>
  /\ document' = Empty

Fail == stage' = <<"idle">> /\ UNCHANGED <<runs, document>>

\* assemble: the recorded overlay, if a recording is replayed ...
LayerRecorded ==
  /\ stage = <<"recorded">>
  /\ \/ Current.input = 0 /\ stage' = <<"layer", 1>> /\ UNCHANGED <<runs, document>>
     \/ /\ Current.input # 0
        /\ \/ runs[Current.input].overlay = {} /\ Fail
           \/ /\ \E recorded \in runs[Current.input].overlay :
                   document' = MergePatch(document, recorded)
              /\ stage' = <<"layer", 1>>
              /\ UNCHANGED runs

Layering == stage[1] = "layer" /\ stage[2] <= Len(Current.layers)
Applied(next) ==
  /\ document' = next
  /\ stage' = <<"layer", stage[2] + 1>>
  /\ UNCHANGED runs

\* ... the files, left to right ...
LayerFileBeneath ==
  /\ Layering /\ IsFile(Layer)
  /\ Applied(MergePatch(Layer.file, document))
LayerFile ==
  /\ Layering /\ IsFile(Layer)
  /\ Applied(MergePatch(document, Layer.file))

\* ... and the assignments, in order.
ApplyOverride ==
  /\ Layering /\ ~IsFile(Layer)
  /\ LET a == Layer.assignment IN
     \/ ~Resolves(document, a.path) /\ Fail
     \/ Resolves(document, a.path) /\ Applied(Assign(document, a.path, a.value))

\* requireUniqueRoutineNames
Section(s) == <<"routines", s>>
NamesIn(doc, s) == {p[3] : p \in {q \in DOMAIN doc : Under(Section(s), q) /\ Len(q) > 2}}
UniqueAssumed(doc) == TRUE
Unique(doc) == NamesIn(doc, "components") \cap NamesIn(doc, "drivers") = {}

Validate ==
  /\ stage[1] = "layer" /\ stage[2] = Len(Current.layers) + 1
  /\ \/ ~Unique(document) /\ Fail
     \/ Unique(document) /\ stage' = <<"valid">> /\ UNCHANGED <<runs, document>>

Left(r) == runs' = [runs EXCEPT ![Len(runs)] = r]

WriteOverlay ==
  /\ stage = <<"valid">>
  /\ Left([Current EXCEPT !.overlay = {document}])
  /\ stage' = <<"written">>
  /\ UNCHANGED document

WriteManifest ==
  /\ stage = <<"written">>
  /\ Left([Current EXCEPT !.manifest = TRUE])
  /\ stage' = <<"running">>
  /\ UNCHANGED document

\* acquireOverrides: the components are looked at first.
SectionOf(doc, name) ==
  IF name \in NamesIn(doc, "components") THEN "components" ELSE "drivers"
Overrides(doc, name) == Below(doc, Append(Section(SectionOf(doc, name)), name))

\* materialize: the overrides merged onto the defaults, and decoded.
Accepted(overrides, schema) ==
  <<>> \notin DOMAIN overrides /\ Decodes(MergePatch(schema, overrides), schema)
EffectiveKeepingNull(overrides, schema) == Decode(overrides, schema)
Effective(overrides, schema) == Decode(MergePatch(schema, overrides), schema)

Materialize(name) ==
  /\ stage = <<"running">> /\ name \notin DOMAIN Current.effective
  /\ LET o == Overrides(document, name)
         schema == SchemaOf[name] IN
     \/ ~Accepted(o, schema) /\ Fail
     \/ /\ Accepted(o, schema)
        /\ Left([Current EXCEPT !.effective =
                   [n \in DOMAIN @ \cup {name} |->
                      IF n = name THEN Effective(o, schema) ELSE @[n]]])
        /\ UNCHANGED <<stage, document>>

\* The run ends, or the process is killed between any two writes.
End == stage # <<"idle">> /\ Fail

Next ==
  \/ \E input \in 0 .. Len(runs), n \in 0 .. MaxLayers - Used :
       \E layers \in [1 .. n -> Layers] : Launch(input, layers)
  \/ LayerRecorded \/ LayerFile \/ ApplyOverride \/ Validate
  \/ WriteOverlay \/ WriteManifest \/ End
  \/ \E name \in DOMAIN SchemaOf : Materialize(name)

Spec == Init /\ [][Next]_vars
-----------------------------------------------------------------------------
(* A run that replays a recording and adds no layer accepts every config    *)
(* the recorded run had and gives each field the same value, although the   *)
(* recorded overlay is merged, not copied, and merging loses the nulls that *)
(* --config-override stored in it (configOverlay.cpp:57, 79).               *)
Replays(r) == runs[r].input # 0 /\ runs[r].layers = <<>>
ReplayFaithful ==
  \A r \in DOMAIN runs : Replays(r) =>
    \A n \in DOMAIN runs[runs[r].input].effective :
      /\ n \in DOMAIN runs[r].effective =>
           runs[r].effective[n] = runs[runs[r].input].effective[n]
      /\ r = Len(runs) /\ stage = <<"running">> =>
           Accepted(Overrides(document, n), SchemaOf[n])

(* Every field has the value of the last layer, of all the runs replayed    *)
(* one on top of the other, that says anything about it, or its default if  *)
(* that layer reverts it or none speaks of it (configOverlay.cpp:62-92).    *)
AllLayers[r \in 0 .. Len(runs)] ==
  IF r = 0 THEN <<>> ELSE AllLayers[runs[r].input] \o runs[r].layers
Field(r, n, f) ==
  <<"routines", SectionOf(CHOOSE d \in runs[r].overlay : TRUE, n), n>> \o f
Mentions(layer, p) ==
  IF IsFile(layer) THEN \E q \in DOMAIN layer.file : Clash(p, q)
                   ELSE Clash(p, layer.assignment.path)
Says(layer, p, default) ==
  LET content == IF IsFile(layer) THEN layer.file
                                  ELSE Assign(Empty, layer.assignment.path, layer.assignment.value)
  IN  IF p \in DOMAIN content /\ content[p] # Null THEN content[p] ELSE default
LastLayerWins ==
  \A r \in DOMAIN runs : \A n \in DOMAIN runs[r].effective :
    \A f \in DOMAIN SchemaOf[n] :
      LET p == Field(r, n, f)
          layers == AllLayers[r]
          speaking == {i \in DOMAIN layers : Mentions(layers[i], p)}
          default == SchemaOf[n][f]
      IN  runs[r].effective[n][f] =
            IF speaking = {} THEN default
            ELSE Says(layers[CHOOSE i \in speaking : \A j \in speaking : j <= i], p, default)

(* A working directory that has a manifest has the overlay to replay it by, *)
(* at whatever write the run was killed (runContext.cpp:154-156), and no    *)
(* routine is ever configured from two sections.                            *)
DirectoriesReplayable ==
  \A r \in DOMAIN runs :
    /\ runs[r].manifest \/ runs[r].effective # Empty => runs[r].overlay # {}
    /\ \A d \in runs[r].overlay : \A n \in DOMAIN runs[r].effective :
         Cardinality({s \in {"components", "drivers"} : n \in NamesIn(d, s)}) <= 1
=============================================================================
