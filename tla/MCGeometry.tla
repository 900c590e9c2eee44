---------------------------- MODULE MCGeometry -----------------------------
(* Two frames known at compile time and three of run time, one of which    *)
(* has the name of a static one; turns of a third and of a half, and a lid *)
(* half a turn from the camera, as the camera is from the world.           *)
EXTENDS Geometry

At(a, b, c) == [x |-> a, y |-> b, z |-> c]

MCFrames == {Static("world"), Static("robot"), Dynamic("robot"), Dynamic("camera"), Dynamic("lid")}
MCPlace == [world |-> Se3(One, Origin),
            robot |-> Se3([vec |-> At(1, 1, 1), w |-> 1], At(1, 2, 0)),
            camera |-> Se3([vec |-> At(2, 0, 0), w |-> 0], At(0, -1, 3)),
            lid |-> Se3(Scaled(-1, One), At(1, 0, 0))]
MCSurveyed == {<<Static("world"), Static("robot")>>,
               <<Dynamic("robot"), Dynamic("camera")>>,
               <<Static("world"), Dynamic("camera")>>,
               <<Dynamic("camera"), Dynamic("lid")>>}
=============================================================================
