------------------------------- MODULE Locked -------------------------------
(***************************************************************************)
(* common::Locked: a value that callers reach only from inside a section,  *)
(* shared for reads and exclusive for writes.  The sections are operators  *)
(* on the state of the shared mutex, for the modules that guard a value    *)
(* with one; a section is left by the destructor of its lock, whether the  *)
(* operation returned or threw.                                            *)
(***************************************************************************)

Unlocked == [readers |-> {}, writers |-> {}]

\* cExecute, execute and operator() on a const Locked, copy(), and the
\* comparisons.
MayShare(mutex) == mutex.writers = {}
Shared(mutex, t) == [mutex EXCEPT !.readers = @ \cup {t}]
AfterShared(mutex, t) == [mutex EXCEPT !.readers = @ \ {t}]

\* execute and operator() on a mutable Locked, the assignments, and move().
MayExclude(mutex) == mutex = Unlocked
Exclusive(mutex, t) == [mutex EXCEPT !.writers = @ \cup {t}]
AfterExclusive(mutex, t) == [mutex EXCEPT !.writers = @ \ {t}]

=============================================================================
