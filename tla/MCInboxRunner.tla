--------------------------- MODULE MCInboxRunner ---------------------------
(* Two producers in front of one routine.                                   *)
EXTENDS InboxRunner

CONSTANTS p1, p2, worker_

MCProducers == {p1, p2}
MCOneAndWorker == {p1, worker_}
ProcessorOutcomes == {"Continue", "Done"}
=============================================================================
