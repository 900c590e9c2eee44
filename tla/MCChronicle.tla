----------------------------- MODULE MCChronicle -----------------------------
(* Two producers, three records each at most, rolls of two records.          *)
EXTENDS Chronicle

CONSTANTS camera, lidar

MCProducers == {camera, lidar}
=============================================================================
