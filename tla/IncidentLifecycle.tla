------------------------- MODULE IncidentLifecycle -------------------------
(***************************************************************************)
(* What the incident graph promises about one incident, without its nodes: *)
(* the incident is accepted, investigated, perhaps planned for, and then   *)
(* closed as resolved or escalated; a remediation is applied only in the   *)
(* step that closes a planned incident, and never without one; an aborted  *)
(* run leaves the incident in the phase it had reached.                    *)
(***************************************************************************)
CONSTANT Hashes

VARIABLES
  phase,     \* the phase a reader of the incident sees
  applied,   \* the intents whose remediation has been executed
  running    \* is the graph still driving the incident?

vars == <<phase, applied, running>>

Init ==
  /\ phase = "intake"
  /\ applied = {}
  /\ running = TRUE

Accept ==
  /\ running /\ phase = "intake"
  /\ phase' = "investigating"
  /\ UNCHANGED <<applied, running>>

Plan ==
  /\ running /\ phase = "investigating"
  /\ phase' = "planning"
  /\ UNCHANGED <<applied, running>>

\* Closed without touching anything.
CloseUntouched ==
  /\ running /\ phase \in {"investigating", "planning"}
  /\ phase' \in {"resolved", "escalated"}
  /\ phase = "planning" => phase' = "escalated"
  /\ running' = FALSE
  /\ UNCHANGED applied

\* Closed by executing planned remediations, all of them if it is resolved.
CloseApplied ==
  /\ running /\ phase = "planning"
  /\ \E done \in (SUBSET Hashes) \ {{}} : applied' = done
  /\ phase' \in {"resolved", "escalated"}
  /\ running' = FALSE

Abort ==
  /\ running
  /\ running' = FALSE
  /\ UNCHANGED <<phase, applied>>

Next == Accept \/ Plan \/ CloseUntouched \/ CloseApplied \/ Abort

Spec == Init /\ [][Next]_vars /\ WF_vars(Next)
=============================================================================
