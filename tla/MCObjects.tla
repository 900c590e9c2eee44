----------------------------- MODULE MCObjects ------------------------------
(* The values and handles programs keep: rigid transforms, mapped files and *)
(* tokens. The part that was chosen moves alone.                            *)
EXTENDS MCGeometry

CONSTANTS Regions, Files, Descriptors, Counts, HalfFile, Tokens, Effects

VARIABLES part, region, table, length, mappings, token, entered, exited

files == <<region, table, length, mappings>>
tokens == <<token, entered, exited>>

S == INSTANCE Storage
T == INSTANCE Tokens

\* Descriptors are small numbers, and no path is called like the mark of a
\* free one.
ASSUME ObjectsAssumption ==
  /\ Descriptors \subseteq Nat
  /\ Counts \subseteq Nat
  /\ HalfFile \in Nat
  /\ S!Free \notin Files
  /\ IsFiniteSet(Regions)

MCInit ==
  /\ part \in {"geometry", "storage", "tokens"}
  /\ Init /\ (part # "geometry" => transform.parent = Static("world"))
  /\ S!Init /\ T!Init

MCNext ==
  /\ UNCHANGED part
  /\ \/ part = "geometry" /\ Next /\ UNCHANGED <<files, tokens>>
     \/ part = "storage" /\ S!Next /\ UNCHANGED <<vars, tokens>>
     \/ part = "tokens" /\ T!Next /\ UNCHANGED <<vars, files>>

MCSpec == MCInit /\ [][MCNext]_<<vars, part, files, tokens>>

\* Every descriptor and every mapping has one owner (mmapRegion.cpp:124).
HandlesOwnedOnce == S!HandlesOwnedOnce

\* Every effect is undone once, by whoever holds it last (raiiToken.hpp:84).
ExitsOnce == T!ExitsOnce
=============================================================================
