------------------------------ MODULE MCGraph -------------------------------
(* Two files of one name, a third of another, and a path where nothing is;  *)
(* two schemas and two names of which two pairs share a channel.            *)
EXTENDS Graph, TLC

CONSTANTS worker, other, here, there, odd, gone, imu, pose, header

MCCallers == {worker, other}
SymmetricCallers == Permutations(MCCallers)
MCSources == {here, there, odd, gone}
MCFileName == [s \in MCSources |->
                 CASE s = odd -> "odd.txt" [] s = gone -> "gone.txt" [] OTHER -> "map.txt"]
\* A file of a name the run writes itself.
ReservedFileName == [MCFileName EXCEPT ![odd] = "topics.json"]
MCKind == [s \in MCSources |-> IF s = gone THEN "nothing" ELSE "file"]
MCRequested == MCSources \ {gone}
MCNamed == {<<>>, <<here>>, <<here, there>>, <<gone>>}
MCOffers == {<<imu, 1>>, <<imu, 2>>, <<pose, 2>>}
MCChannelOf == [o \in MCOffers |-> IF o = <<pose, 2>> THEN <<imu, 1>> ELSE o]
MCClosure == [s \in {imu, pose} |-> {s, header}]
=============================================================================
