------------------------------ MODULE Geometry ------------------------------
(***************************************************************************)
(* nioc::geometry. A program holds one RigidTransform and the rotation it  *)
(* keeps of it as MRP, chains them with surveyed ones, inverts them, and   *)
(* lays the pose in a buffer of seven scalars that Eigen::Map views, the   *)
(* mutable and the const one, share.                                       *)
(*                                                                         *)
(* A frame is a name and whether it is chosen at run time. Each name has   *)
(* a place in the world (Place), which the code never sees: it is what the *)
(* transforms are supposed to be about.                                    *)
(***************************************************************************)
EXTENDS Rotations

CONSTANTS
  Frames,     \* the frames in use: [name, dynamic]
  Place,      \* name -> the pose of that frame in the world
  Surveyed,   \* pairs of frames whose transform the program is given
  Factors     \* what a quaternion may be scaled by in a buffer

ASSUME GeometryAssumption ==
  /\ Frames \subseteq [name : STRING, dynamic : BOOLEAN]
  /\ DOMAIN Place = {f.name : f \in Frames}
  /\ \A n \in DOMAIN Place : Place[n] \in [orientation : Units, position : Vectors(Int)]
  /\ Surveyed \subseteq Frames \X Frames
  /\ Factors \subseteq Nat \ {0}

VARIABLES
  transform,  \* the RigidTransform: [pose, parent, child]
  rotation,   \* its rotation as a Rotation3
  buffer,     \* the parameters in caller-owned storage, and the frames the
              \* caller knows them to relate
  views       \* the maps bound to the buffer

vars == <<transform, rotation, buffer, views>>

-----------------------------------------------------------------------------
(* Pose: orientation, then position.                                       *)

Se3(q, p) == [orientation |-> q, position |-> p]
Identity == Se3(One, Origin)
\* Every constructor of the owning Pose normalises the orientation.
Pose(params) == [params EXCEPT !.orientation = Normalized(@)]

\* operator*
Chained(l, r) ==
  Pose(Se3(Product(l.orientation, r.orientation),
           Plus(l.position, Turned(l.orientation, r.position))))

\* The position taken through the orientation as it was.
InvertedByOld(x) ==
  Se3(Conjugate(x.orientation), Times(-1, Turned(x.orientation, x.position)))
\* invert() works in place: the position needs the new orientation, which
\* is computed before the old one is overwritten.
InvertedOf(x) ==
  LET q == Conjugate(x.orientation)
  IN  Se3(q, Times(-1, Turned(q, x.position)))

-----------------------------------------------------------------------------
(* Frames, FrameReferences and RigidTransform.                             *)

\* A frame that is a type, named at compile time, and one that is a value.
Static(n) == [name |-> n, dynamic |-> FALSE]
Dynamic(n) == [name |-> n, dynamic |-> TRUE]

Tagged(pose, parent, child) == [pose |-> pose, parent |-> parent, child |-> child]

\* Two static frames that differ do not compile; a run-time frame is
\* compared by name. operator* takes one type of frame on both sides; a
\* program that joins a static end with a run-time one chains the poses and
\* calls composeFrameReferences itself.
Compiles(l, r) == l.child.dynamic \/ r.parent.dynamic \/ l.child.name = r.parent.name
\* The comparison of parent with parent.
ParentsMeet(l, r) == l.parent.name = r.parent.name
FramesMeet(l, r) == l.child.name = r.parent.name

\* composeFrameReferences: the result keeps the outer frames.
ComposedFrames(l, r, pose) == Tagged(pose, l.parent, r.child)
InvertedFrames(t, pose) == Tagged(pose, t.child, t.parent)

Composed(l, r) == ComposedFrames(l, r, Chained(l.pose, r.pose))
InverseTransform(t) == InvertedFrames(t, Pose(InvertedOf(t.pose)))

\* Where g is, seen from f: what a transform between them should hold.
Truth(f, g) == LET back == Conjugate(Place[f.name].orientation)
                   between == Plus(Place[g.name].position, Times(-1, Place[f.name].position))
               IN  Se3(Product(back, Place[g.name].orientation), Turned(back, between))
Given(f, g) == Tagged(Truth(f, g), f, g)

-----------------------------------------------------------------------------
Init == \E f \in Frames :
  /\ transform = Tagged(Identity, f, f)
  /\ rotation = Origin
  /\ buffer = Tagged(Identity, f, f)
  /\ views = {}

\* transform * given: throws, and leaves everything, when the run-time
\* names differ.
ComposeWith(f, g) ==
  /\ Compiles(transform, Given(f, g))
  /\ FramesMeet(transform, Given(f, g))
  /\ transform' = Composed(transform, Given(f, g))
  /\ rotation' = Composition(rotation, FromQuaternion(Truth(f, g).orientation))
  /\ UNCHANGED <<buffer, views>>

\* given * transform
ComposeAfter(f, g) ==
  /\ Compiles(Given(f, g), transform)
  /\ FramesMeet(Given(f, g), transform)
  /\ transform' = Composed(Given(f, g), transform)
  /\ rotation' = Composition(FromQuaternion(Truth(f, g).orientation), rotation)
  /\ UNCHANGED <<buffer, views>>

Invert ==
  /\ transform' = InverseTransform(transform)
  /\ rotation' = Opposite(rotation)
  /\ UNCHANGED <<buffer, views>>

\* The owner of the buffer lays the pose in it, at any scale, while nothing
\* views it.
Lay(k) ==
  /\ views = {}
  /\ buffer' = [transform EXCEPT !.pose.orientation = Scaled(k, @)]
  /\ UNCHANGED <<transform, rotation, views>>

\* A map that only binds.
BindVerbatim ==
  /\ views' = views \cup {"map"}
  /\ UNCHANGED <<transform, rotation, buffer>>
\* Eigen::Map<Pose>: binds and normalises the storage in place.
BindMap ==
  /\ buffer' = [buffer EXCEPT !.pose = Pose(@)]
  /\ views' = views \cup {"map"}
  /\ UNCHANGED <<transform, rotation>>

\* Eigen::Map<const Pose> throws unless the quaternion is unit.
BindConstMap ==
  /\ IsUnit(buffer.pose.orientation)
  /\ views' = views \cup {"const map"}
  /\ UNCHANGED <<transform, rotation, buffer>>

\* invert() through the mutable map; the const map sees it.
InvertInPlace ==
  /\ "map" \in views
  /\ buffer' = InvertedFrames(buffer, InvertedOf(buffer.pose))
  /\ UNCHANGED <<transform, rotation, views>>

\* A view is copied into a Pose and tagged with the frames of the buffer.
TakeFrom(view) ==
  /\ view \in views
  /\ transform' = [buffer EXCEPT !.pose = Pose(@)]
  /\ rotation' = FromQuaternion(buffer.pose.orientation)
  /\ UNCHANGED <<buffer, views>>

Unbind(view) ==
  /\ view \in views
  /\ views' = views \ {view}
  /\ UNCHANGED <<transform, rotation, buffer>>

Next ==
  \/ \E s \in Surveyed : ComposeWith(s[1], s[2]) \/ ComposeAfter(s[1], s[2])
  \/ Invert
  \/ \E k \in Factors : Lay(k)
  \/ BindMap \/ BindConstMap \/ InvertInPlace
  \/ \E view \in {"map", "const map"} : TakeFrom(view) \/ Unbind(view)

Spec == Init /\ [][Next]_vars

-----------------------------------------------------------------------------
SamePose(x, y) == x.position = y.position /\ SameTurn(x.orientation, y.orientation)

\* However transforms are chained, inverted and taken from a buffer, the
\* pose relates the two frames the transform is tagged with: the order of
\* the product, the frames it checks and those it keeps belong together
\* (rigidTransform.hpp:113, frameReferences.hpp:287).
PoseMatchesFrames ==
  SamePose(transform.pose, Truth(transform.parent, transform.child))

\* Whatever a bound view reads is a valid rotation and the pose its owner
\* laid there, inverted as often as any view asked (pose.hpp:161, 403, 485).
ViewsReadTheTruth ==
  views # {} =>
    /\ IsUnit(buffer.pose.orientation)
    /\ SamePose(buffer.pose, Truth(buffer.parent, buffer.child))

\* The MRP product, where it is defined, is the rotation the quaternion
\* product gives (rotation.hpp:169).
MrpAgrees == rotation # NaN => Denotes(rotation, transform.pose.orientation)

\* Two rotations always compose (rotation.hpp:166 states no exception).
EveryPairComposes == rotation # NaN
=============================================================================
