--------------------------- MODULE IncidentGraph ---------------------------
(***************************************************************************)
(* One run of the compiled incident graph (build_graph) for one incident,  *)
(* from the state the alert webhook seeds to END, or to the exception that *)
(* aborts the run.  Each action is one LangGraph superstep: a node runs on *)
(* the current state, its update is merged, and the edge, conditional or   *)
(* not, names the next node.                                               *)
(*                                                                         *)
(* The language model and the collectors are the environment: an answer is *)
(* any value that passes the code's validation, or an exception.           *)
(***************************************************************************)
EXTENDS IncidentNodes

CONSTANTS
  KeySetups,       \* the keys a process may be started with
  RecursionLimit   \* LangGraph's limit on supersteps, 25 by default

ASSUME KeyAssumption ==
  KeySetups \subseteq [sign : Keys \cup {Unset}, verify : Keys \cup {Unset}]

\* The longest path to END: the intake, RouteAttempts ticks with a collector
\* call between each two, and the Coordinator, or one tick fewer, the Planner
\* and the Coordinator.
ASSUME BudgetAssumption == RecursionLimit \in Nat /\ 2 * RouteAttempts + 1 <= RecursionLimit

VARIABLES
  state,    \* the IncidentState
  next,     \* the node the graph runs next, or how the run ended
  steps,    \* supersteps taken
  keys      \* PLANNER_SIGNING_KEY and PLANNER_VERIFY_KEY of the process

vars == <<state, next, steps, keys>>

Terminal == {"END", "raised"}

Running == next \notin Terminal

Init ==
  /\ state = SeedIncident
  /\ next = "intake"
  /\ steps = 0
  /\ keys \in KeySetups

\* The count stops at the limit, where LangGraph would abort the run: that this
\* never happens is NeverOutOfSteps.
Superstep(node) ==
  /\ next = node
  /\ steps' = IF steps < RecursionLimit THEN steps + 1 ELSE steps
  /\ UNCHANGED keys

Intake ==
  /\ Superstep("intake")
  /\ state' = IntakeNode(state)
  /\ next' = "investigator"

Investigate ==
  /\ Superstep("investigator")
  /\ \E out \in InvestigatorOutput : state' = InvestigatorNode(state, out)
  /\ next' = RouteAfterInvestigator(state')

Collect ==
  /\ Superstep("collectors")
  /\ \E failed \in BOOLEAN : state' = CollectorsNode(state, failed)
  /\ next' = "investigator"

\* The Signer is built only for a plan that needs an intent.
Plan ==
  /\ Superstep("planner")
  /\ \E d \in PlannerDecision :
       /\ NeedsIntent(d) => keys.sign # Unset
       /\ state' = PlannerNode(state, d, keys.sign)
  /\ next' = "coordinator"

\* The Verifier is built even when there is nothing to verify.
Coordinate ==
  /\ Superstep("coordinator")
  /\ keys.verify # Unset
  /\ \E failAt \in 0 .. Len(state.intents), compensates \in BOOLEAN :
       state' = CoordinatorNode(state, keys.verify, failAt, compensates)
  /\ next' = "END"

Raise(node) ==
  /\ Superstep(node)
  /\ next' = "raised"
  /\ UNCHANGED state

\* complete_typed gives up, or the API refuses the call; not at the cap.
InvestigateRaises == state.attempts < MaxAttempts /\ Raise("investigator")

\* The same, or no signing key.
PlanRaises == Raise("planner")

\* No verification key.
CoordinateRaises == keys.verify = Unset /\ Raise("coordinator")

\* The run is over; nothing drives the incident any more.
Ended == ~ Running /\ UNCHANGED vars

Next ==
  \/ Intake
  \/ Investigate
  \/ Collect
  \/ Plan
  \/ Coordinate
  \/ InvestigateRaises
  \/ PlanRaises
  \/ CoordinateRaises
  \/ Ended

(* The graph is driven by one loop, which runs the next node as soon as    *)
(* the last one returned, and every call a node makes has a time limit.    *)
Spec == Init /\ [][Next]_vars /\ WF_vars(Next)

----------------------------------------------------------------------------
(* Properties *)

TypeOK ==
  /\ state \in IncidentState
  /\ next \in Node \cup Terminal
  /\ steps \in 0 .. RecursionLimit
  /\ keys \in KeySetups

(* A signed intent, and hence a remediation, exists only while some        *)
(* hypothesis is confirmed: routing to the Planner and what the            *)
(* Coordinator does afterwards together keep it so.                        *)
IntentOnConfirmedDiagnosis == state.intents # << >> => Confirmed(state) # {}

(* The evidence trail has no dangling end: every finding in the state was  *)
(* collected for a hypothesis that is still in the state, and so is the    *)
(* focus, however the model rewrites its hypotheses between ticks.         *)
EvidenceTrailIntact ==
  /\ \A f \in state.findings : f.hyp \in Known(state)
  /\ state.focus # Unset => state.focus \in Known(state)

(* A run never meets LangGraph's recursion limit, which would abort it     *)
(* with neither a resolution nor an escalation.                            *)
NeverOutOfSteps == Running => steps < RecursionLimit

(* The graph has no way back from the Coordinator, so the phases with      *)
(* which the Coordinator asks for another node must not be its last word.  *)
EndsClosed == next = "END" => state.phase \in {"resolved", "escalated"}

(* Fail closed, end to end: when the Planner signs with a key that the     *)
(* Coordinator does not verify with, nothing is executed in any run.       *)
MismatchedKeysExecuteNothing == keys.sign # keys.verify => Executed(state) = {}

(* An incident is resolved only by a remediation, or when the model never  *)
(* proposed a hypothesis at all.  A diagnosis without an intent is never   *)
(* taken for its own remedy, which rule 1 in the docstring of              *)
(* check_preflight would do.                                               *)
ResolvedForAReason ==
  state.phase = "resolved" => Executed(state) # {} \/ Known(state) = {}

(* The graph implements the lifecycle that the incident's reader sees,     *)
(* which ends, whatever the model, the collectors and the keys do.         *)
Lifecycle == INSTANCE IncidentLifecycle WITH
               phase   <- state.phase,
               applied <- Executed(state),
               running <- Running

ImplementsLifecycle == Lifecycle!Spec

(* The part of it that is safety: no step of the graph shows the reader a  *)
(* change of phase that the lifecycle does not have.                       *)
LifecycleSteps == Lifecycle!Init /\ [][Lifecycle!Next]_(Lifecycle!vars)

(* What the docstring of the Coordinator says: an investigation that used  *)
(* up its attempts is escalated.                                           *)
ExhaustedIsEscalated ==
  next = "END" /\ state.attempts >= RouteAttempts => state.phase = "escalated"
=============================================================================
