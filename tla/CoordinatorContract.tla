------------------------ MODULE CoordinatorContract ------------------------
(***************************************************************************)
(* What a call of the Coordinator promises: one step from the state it is  *)
(* given to the state it returns, computed by CoordinatorNode, whichever   *)
(* intent the execution fails at.  A call without a verification key       *)
(* raises and returns nothing.  Either way the call ends.                  *)
(***************************************************************************)
EXTENDS IncidentNodes

VARIABLES
  st,         \* the state given, then the state returned
  verifyKey,  \* PLANNER_VERIFY_KEY
  ended       \* "no", "returned" or "raised"

vars == <<st, verifyKey, ended>>

Init ==
  /\ st \in IncidentState
  /\ verifyKey \in Keys \cup {Unset}
  /\ ended = "no"

Return ==
  /\ ended = "no" /\ verifyKey # Unset
  /\ \E failAt \in 0 .. Len(st.intents), compensates \in BOOLEAN :
       st' = CoordinatorNode(st, verifyKey, failAt, compensates)
  /\ ended' = "returned"
  /\ UNCHANGED verifyKey

Raise ==
  /\ ended = "no" /\ verifyKey = Unset
  /\ ended' = "raised"
  /\ UNCHANGED <<st, verifyKey>>

Next == Return \/ Raise

Spec == Init /\ [][Next]_vars /\ WF_vars(Next)
=============================================================================
