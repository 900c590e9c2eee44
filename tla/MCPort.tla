------------------------------- MODULE MCPort -------------------------------
(* A driver whose topic two components subscribe to; the first publishes to *)
(* the second.                                                              *)
EXTENDS Port

CONSTANTS driver, first, second

MCDrivers == {driver}
MCComponents == {first, second}
MCSubscribers ==
  [r \in {driver, first, second} |->
     CASE r = driver -> <<first, second>>
       [] r = first  -> <<second>>
       [] r = second -> <<>>]

AnyOutcome == {"Continue", "Done"}
=============================================================================
