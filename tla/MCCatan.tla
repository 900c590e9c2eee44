------------------------------ MODULE MCCatan -------------------------------
(* Recipes of which every builder can make a piece from two bricks and a    *)
(* grain; what the configuration sets to zero it needs none of. Three      *)
(* drivers only wait for the shutdown.                                     *)
EXTENDS Catan

MCPerPiece ==
  [road |-> [brick |-> 2, lumber |-> 0],
   settlement |-> [road |-> 1, brick |-> 1, lumber |-> 0, wool |-> 0, grain |-> 1],
   city |-> [settlement |-> 1, ore |-> 0, grain |-> 1],
   developmentCard |-> [ore |-> 0, wool |-> 0, grain |-> 1]]
MCCards == [brick |-> 2, lumber |-> 0, wool |-> 0, grain |-> 1, ore |-> 0]
=============================================================================
