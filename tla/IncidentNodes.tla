--------------------------- MODULE IncidentNodes ---------------------------
(***************************************************************************)
(* The nodes of the incident graph as functions from an IncidentState to   *)
(* the IncidentState that LangGraph holds once the node's update is merged *)
(* into it, and the routing decisions as functions of that state.          *)
(*                                                                         *)
(* A hypothesis is its id and its status: hyp maps every id to a status,   *)
(* or to Absent while no hypothesis has that id.  An intent is its hash    *)
(* (which stands for the fields the hash covers) and the key that signed   *)
(* it.  A finding is the hypothesis it was collected for and whether the   *)
(* dispatch failed; findings that agree in both are not told apart.  The   *)
(* timeline, services_touched, texts, scores and time stamps are left out. *)
(***************************************************************************)
EXTENDS Integers, Sequences, FiniteSets

CONSTANTS
  Hyps,         \* hypothesis ids
  Hashes,       \* ActionIntent hashes
  Keys,         \* key pairs of the Planner
  Unset,        \* no id, no key
  MaxAttempts,  \* _MAX_ATTEMPTS of the investigator node, 5 in the code
  RouteAttempts \* MAX_INVESTIGATION_ATTEMPTS of routing.py, 5 in the code

ASSUME UnsetAssumption == Unset \notin Hyps /\ Unset \notin Keys
\* At its own cap the node stops counting, so the routing must give up first.
ASSUME AttemptsAssumption ==
  /\ MaxAttempts \in Nat /\ RouteAttempts \in Nat \ {0}
  /\ RouteAttempts <= MaxAttempts

Status == {"open", "confirmed", "refuted", "abandoned"}
Absent == "absent"
Phase  == {"intake", "investigating", "planning", "escalated", "resolved"}

Intent  == [hash : Hashes, key : Keys \cup {Unset}]
Finding == [hyp : Hyps, failed : BOOLEAN]
Action  == [kind : {"verify_failed", "executed", "skipped", "exec_failed", "compensated"},
            hash : Hashes]
             \cup {[kind |-> "no_op", hash |-> Unset]}

HypothesisMap == [Hyps -> Status \cup {Absent}]

IncidentState ==
  [hyp      : HypothesisMap,
   focus    : Hyps \cup {Unset},
   attempts : Nat,
   findings : SUBSET Finding,
   intents  : Seq(Intent),
   actions  : Seq(Action),
   phase    : Phase]

\* _seed_incident: the state the alert webhook builds.
SeedIncident ==
  [hyp      |-> [h \in Hyps |-> Absent],
   focus    |-> Unset,
   attempts |-> 0,
   findings |-> {},
   intents  |-> << >>,
   actions  |-> << >>,
   phase    |-> "intake"]

\* The nodes of the compiled graph that a run can reach.
Node == {"intake", "investigator", "collectors", "planner", "coordinator"}

Known(s)     == {h \in Hyps : s.hyp[h] # Absent}
Confirmed(s) == {h \in Hyps : s.hyp[h] = "confirmed"}
Executed(s) ==
  {s.actions[j].hash : j \in {i \in DOMAIN s.actions : s.actions[i].kind = "executed"}}
Failed(s) ==
  {s.actions[j].hash : j \in {i \in DOMAIN s.actions : s.actions[i].kind = "exec_failed"}}

----------------------------------------------------------------------------
(* intake_node *)

IntakeNode(s) == [s EXCEPT !.phase = "investigating"]

----------------------------------------------------------------------------
(* investigator_node.  The model's output is a set of proposed hypotheses, *)
(* a focus which may name none of them, and the proposal with the highest  *)
(* score.                                                                  *)

Proposed(out) == {h \in Hyps : out.proposed[h] # Absent}

InvestigatorOutput ==
  {out \in [proposed : HypothesisMap,
            focus    : Hyps \cup {Unset},
            best     : Hyps \cup {Unset}] :
     IF Proposed(out) = {} THEN out.best = Unset ELSE out.best \in Proposed(out)}

\* Mutation: the proposed list replaces the old one.
ReplaceHypotheses(existing, proposed) == proposed

\* A proposed entry replaces the one with its id; the other entries are kept.
MergeHypotheses(existing, proposed) ==
  [h \in Hyps |-> IF proposed[h] # Absent THEN proposed[h] ELSE existing[h]]

FocusOf(out) == IF out.focus \in Proposed(out) THEN out.focus ELSE out.best

\* Mutation: the attempt is not counted.
UncountedInvestigatorNode(s, out) ==
  IF s.attempts >= MaxAttempts
    THEN s
    ELSE [s EXCEPT !.hyp   = MergeHypotheses(s.hyp, out.proposed),
                   !.focus = FocusOf(out)]

\* At the cap the node only writes to the timeline.
InvestigatorNode(s, out) ==
  IF s.attempts >= MaxAttempts
    THEN s
    ELSE [s EXCEPT !.hyp      = MergeHypotheses(s.hyp, out.proposed),
                   !.focus    = FocusOf(out),
                   !.attempts = s.attempts + 1]

----------------------------------------------------------------------------
(* route_after_investigator *)

\* Mutation: any hypothesis, confirmed or not, goes to the Planner.
RouteOnAnyHypothesis(s) ==
  CASE s.attempts >= RouteAttempts -> "coordinator"
    [] s.attempts < RouteAttempts /\ Known(s) # {} -> "planner"
    [] OTHER -> "collectors"

\* The cap is tested before the confirmed hypotheses.
RouteAfterInvestigator(s) ==
  CASE s.attempts >= RouteAttempts -> "coordinator"
    [] s.attempts < RouteAttempts /\ Confirmed(s) # {} -> "planner"
    [] OTHER -> "collectors"

----------------------------------------------------------------------------
(* collectors_node.  A cached answer and a collector's are one finding; a  *)
(* dispatch that fails yields a finding too.                               *)

CollectorsNode(s, failed) ==
  IF s.focus \in Known(s)
    THEN [s EXCEPT !.findings = s.findings \cup {[hyp |-> s.focus, failed |-> failed]}]
    ELSE s

----------------------------------------------------------------------------
(* planner_node *)

PlanType      == {"pr", "rollback", "scale", "flag_flip", "runbook", "none"}
MutatingTypes == {"rollback", "scale", "flag_flip"}

\* The model's decision: confident stands for confidence >= 0.5.
PlannerDecision == [type : PlanType, confident : BOOLEAN, hash : Hashes]

\* The confidence gate.
PlanTypeOf(d) == IF d.confident THEN d.type ELSE "none"

NeedsIntent(d) == PlanTypeOf(d) \in MutatingTypes

\* Mutation: the intent is appended as it was before Signer.sign returned a copy.
UnsignedPlannerNode(s, d, signKey) ==
  [s EXCEPT !.phase   = "planning",
            !.intents = IF NeedsIntent(d)
                          THEN Append(s.intents, [hash |-> "__unsigned__",
                                                  key  |-> "__unsigned__"])
                          ELSE s.intents]

\* Mutation: the phase stays investigating.
PhaselessPlannerNode(s, d, signKey) ==
  [s EXCEPT !.intents = IF NeedsIntent(d)
                          THEN Append(s.intents, [hash |-> d.hash, key |-> signKey])
                          ELSE s.intents]

PlannerNode(s, d, signKey) ==
  [s EXCEPT !.phase   = "planning",
            !.intents = IF NeedsIntent(d)
                          THEN Append(s.intents, [hash |-> d.hash, key |-> signKey])
                          ELSE s.intents]

----------------------------------------------------------------------------
(* check_preflight *)

\* Mutation: the confirmed hypothesis is not looked for again.
PreflightUnconfirmed(s) ==
  CASE s.intents = << >> /\ Known(s) = {} -> "already_resolved"
    [] s.intents = << >> /\ Known(s) # {} -> "parameter_drift"
    [] s.intents # << >> /\ Known(s) = {} -> "already_resolved"
    [] OTHER -> "ok"

\* Mutation: the docstring's rule 1 instead of the code (README, section 5).
PreflightAsDocumented(s) ==
  CASE s.intents = << >> /\ Confirmed(s) # {} -> "already_resolved"
    [] s.intents = << >> /\ Confirmed(s) = {} -> "parameter_drift"
    [] OTHER -> "ok"

\* The cases overlap nowhere, so their order is the order of the early returns.
Preflight(s) ==
  CASE s.intents = << >> /\ Known(s) = {} -> "already_resolved"
    [] s.intents = << >> /\ Known(s) # {} -> "parameter_drift"
    [] s.intents # << >> /\ Known(s) = {} -> "already_resolved"
    [] /\ s.intents # << >> /\ Known(s) # {}
       /\ \A h \in Known(s) : s.hyp[h] \in {"refuted", "abandoned"}
         -> "diagnosis_invalidated"
    [] /\ s.intents # << >> /\ Confirmed(s) = {}
       /\ \E h \in Known(s) : s.hyp[h] \notin {"refuted", "abandoned"}
         -> "parameter_drift"
    [] OTHER -> "ok"

----------------------------------------------------------------------------
(* _coordinator_async *)

\* Mutation: a signature is accepted whatever the key.
VerifiesAlways(intent, verifyKey) == TRUE

\* An intent altered after it was signed carries the key Unset.
Verifies(intent, verifyKey) == intent.key = verifyKey

Forged(s, verifyKey) ==
  {j \in DOMAIN s.intents : ~ Verifies(s.intents[j], verifyKey)}

FirstOf(S) == CHOOSE j \in S : \A k \in S : j <= k

Did(kind, hash) == [kind |-> kind, hash |-> hash]

\* What the executor reports for the j-th intent of a list it runs in order.
ExecutedAs(intents, j) ==
  Did(IF \E i \in 1 .. j - 1 : intents[i].hash = intents[j].hash
        THEN "skipped" ELSE "executed",
      intents[j].hash)

ExecutedUpTo(intents, n) == [j \in 1 .. n |-> ExecutedAs(intents, j)]

Closing(s, phase, done) ==
  [s EXCEPT !.phase = phase, !.actions = s.actions \o done]

(* Execution stops at intent failAt (0: at none), whose compensation       *)
(* succeeds or not.                                                        *)
ExecutionOutcome(s, failAt, compensates) ==
  IF failAt = 0
    THEN Closing(s, "resolved", ExecutedUpTo(s.intents, Len(s.intents)))
    ELSE Closing(s, "escalated",
           ExecutedUpTo(s.intents, failAt - 1)
             \o << Did("exec_failed", s.intents[failAt].hash) >>
             \o (IF compensates
                   THEN << Did("compensated", s.intents[failAt].hash) >>
                   ELSE << >>))

CoordinatorNode(s, verifyKey, failAt, compensates) ==
  CASE Forged(s, verifyKey) # {} ->
         Closing(s, "escalated",
           << Did("verify_failed", s.intents[FirstOf(Forged(s, verifyKey))].hash) >>)
    [] Forged(s, verifyKey) = {} /\ Preflight(s) = "diagnosis_invalidated" ->
         [s EXCEPT !.phase = "investigating"]
    [] Forged(s, verifyKey) = {} /\ Preflight(s) = "parameter_drift" ->
         [s EXCEPT !.phase = IF s.intents = << >> THEN "escalated" ELSE "planning"]
    [] Forged(s, verifyKey) = {} /\ Preflight(s) = "already_resolved" ->
         Closing(s, "resolved", << Did("no_op", Unset) >>)
    [] OTHER -> ExecutionOutcome(s, failAt, compensates)
=============================================================================
