----------------------------- MODULE MCChannel ------------------------------
(* Words of two bytes, rolls of two words.  A reservation starts with one  *)
(* byte or with a word and a byte, and is modified to one word or to more   *)
(* than a roll.                                                             *)
EXTENDS Channel, TLC

CONSTANTS h1, h2

MCHandles == {h1, h2}
OneHandle == {h1}
SymmetricHandles == Permutations(MCHandles)
MCSizes == {1, 3}
MCFrameSizes == {2, 6}
\* Rolls never directly above one another ...
ApartBases == {0, 8, 16}
\* ... and rolls that may be.
AdjacentBases == {0, 4}
=============================================================================
