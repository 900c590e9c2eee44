------------------------------- MODULE Tokens -------------------------------
(***************************************************************************)
(* common::RaiiToken: an action run when the token is made and another,    *)
(* which moves with the token, run when the last holder of it goes.        *)
(***************************************************************************)
EXTENDS Naturals, FiniteSets

CONSTANTS
  Tokens,   \* where tokens may live
  Effects   \* the pairs of entry and exit, each used once

Nowhere == [lives |-> FALSE]

VARIABLES
  token,    \* place -> [lives, effect, engaged], or Nowhere
  entered,  \* the effects whose entry ran to its end
  exited    \* effect -> how often its exit ran

vars == <<token, entered, exited>>

Init ==
  /\ token = [t \in Tokens |-> Nowhere]
  /\ entered = {}
  /\ exited = [e \in Effects |-> 0]

Holding(e) == [lives |-> TRUE, effect |-> e, engaged |-> TRUE]
Disengaged(x) == [x EXCEPT !.engaged = FALSE]
Runs(x) == [exited EXCEPT ![x.effect] = @ + (IF x.engaged THEN 1 ELSE 0)]

\* The constructor runs the entry. If that throws no token comes to be and
\* nothing is run later.
Construct(t, e) ==
  /\ ~token[t].lives /\ e \notin entered
  /\ token' = [token EXCEPT ![t] = Holding(e)]
  /\ entered' = entered \cup {e}
  /\ UNCHANGED exited

MoveConstruct(t, s) ==
  /\ ~token[t].lives /\ token[s].lives
  /\ token' = [token EXCEPT ![t] = token[s], ![s] = Disengaged(@)]
  /\ UNCHANGED <<entered, exited>>

\* An assignment that forgets its own pending exit.
AssignOver(t, s) ==
  /\ t # s /\ token[t].lives /\ token[s].lives
  /\ token' = [token EXCEPT ![t] = token[s], ![s] = Disengaged(@)]
  /\ UNCHANGED <<entered, exited>>
\* operator=(RaiiToken&&); assigned to itself it does nothing.
MoveAssign(t, s) ==
  /\ t # s /\ token[t].lives /\ token[s].lives
  /\ exited' = Runs(token[t])
  /\ token' = [token EXCEPT ![t] = token[s], ![s] = Disengaged(@)]
  /\ UNCHANGED entered

Destroy(t) ==
  /\ token[t].lives
  /\ exited' = Runs(token[t])
  /\ token' = [token EXCEPT ![t] = Nowhere]
  /\ UNCHANGED entered

Next ==
  \/ \E t \in Tokens, e \in Effects : Construct(t, e)
  \/ \E t, s \in Tokens : MoveConstruct(t, s) \/ MoveAssign(t, s)
  \/ \E t \in Tokens : Destroy(t)

Spec == Init /\ [][Next]_vars

-----------------------------------------------------------------------------
Engaged(e) == {t \in Tokens : token[t].lives /\ token[t].effect = e /\ token[t].engaged}

\* Every effect entered is either still to be undone by exactly one token or
\* was undone exactly once, through any chain of moves
\* (raiiToken.hpp:74, 84, 104).
ExitsOnce ==
  \A e \in Effects :
    Cardinality(Engaged(e)) + exited[e] = IF e \in entered THEN 1 ELSE 0
=============================================================================
