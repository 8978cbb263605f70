------------------------ MODULE IncidentGraphProofs ------------------------
(***************************************************************************)
(* Safety of the incident graph for every set of hypotheses, hashes and    *)
(* keys, every bound on the attempts and every sufficient recursion limit. *)
(***************************************************************************)
EXTENDS IncidentGraph, WellFoundedInduction, TLAPS

(* The run before and after the Planner: it holds no intent before it, it  *)
(* is sent there by a confirmed hypothesis, and only the Planner's key is  *)
(* on an intent.                                                           *)
IntentsFromPlanner ==
  /\ next \in {"intake", "investigator", "collectors", "planner"} => state.intents = << >>
  /\ next = "planner" => Confirmed(state) # {}
  /\ next = "coordinator" /\ state.phase = "planning" => Confirmed(state) # {}
  /\ \A j \in DOMAIN state.intents : state.intents[j].key = keys.sign

(* The actions are empty until the Coordinator returns.                    *)
ActionsFromCoordinator == next # "END" => state.actions = << >>

(* The phase says how far the run has come.                                *)
PhaseOfNode ==
  /\ next = "intake" => state.phase = "intake"
  /\ next \in {"investigator", "collectors", "planner"} => state.phase = "investigating"
  /\ next = "coordinator" => state.phase \in {"investigating", "planning"}
  /\ next = "coordinator" /\ state.intents # << >> => state.phase = "planning"
  /\ next \in {"coordinator", "raised"} => state.phase # "resolved"

(* Two supersteps to an attempt: the collectors and the next tick.         *)
StepsOfAttempts ==
  /\ state.attempts <= RouteAttempts
  /\ next = "intake" => steps = 0 /\ state.attempts = 0
  /\ next = "investigator" => steps = 2 * state.attempts + 1
  /\ next \in {"collectors", "planner"} => steps = 2 * state.attempts
  /\ next \in {"investigator", "collectors", "planner"} => state.attempts < RouteAttempts
  /\ next = "coordinator" => steps <= 2 * RouteAttempts

IInv ==
  /\ TypeOK
  /\ IntentsFromPlanner
  /\ ActionsFromCoordinator
  /\ PhaseOfNode
  /\ StepsOfAttempts
  /\ IntentOnConfirmedDiagnosis
  /\ EvidenceTrailIntact
  /\ EndsClosed
  /\ MismatchedKeysExecuteNothing
  /\ ResolvedForAReason

----------------------------------------------------------------------------
(* Facts about the operators of IncidentNodes *)

(* FirstOf has a first index to choose.                                    *)
LEMMA FirstIsMember ==
  ASSUME NEW S, S \subseteq Nat, S # {}
  PROVE  FirstOf(S) \in S
<1>1. PICK m \in S : \A k \in S : <<k, m>> \notin OpToRel(<, Nat)
  BY NatLessThanWellFounded, WFMin
<1>2. \A k \in S : ~ (k < m)
  BY <1>1, Zenon DEF OpToRel
<1>3. \A k \in S : m <= k
  BY <1>2
<1> QED BY <1>3 DEF FirstOf

LEMMA DidType ==
  /\ \A kind \in {"verify_failed", "executed", "skipped", "exec_failed", "compensated"},
        a \in Hashes :
       Did(kind, a) \in Action /\ Did(kind, a).kind = kind /\ Did(kind, a).hash = a
  /\ Did("no_op", Unset) \in Action /\ Did("no_op", Unset).kind = "no_op"
BY DEF Did, Action

(* The parts of a state, stated once.                                      *)
LEMMA StateParts ==
  ASSUME NEW s \in IncidentState
  PROVE  /\ s.hyp \in HypothesisMap /\ s.focus \in Hyps \cup {Unset}
         /\ s.attempts \in Nat /\ s.findings \in SUBSET Finding
         /\ s.intents \in Seq(Intent) /\ s.actions \in Seq(Action) /\ s.phase \in Phase
         /\ Len(s.intents) \in Nat /\ DOMAIN s.intents = 1 .. Len(s.intents)
         /\ \A j \in DOMAIN s.intents : s.intents[j].hash \in Hashes
<1>1. s.intents \in Seq(Intent)
  BY DEF IncidentState
<1>2. \A j \in DOMAIN s.intents : s.intents[j] \in Intent
  BY <1>1
<1>3. \A i \in Intent : i.hash \in Hashes
  BY DEF Intent
<1>4. Len(s.intents) \in Nat /\ DOMAIN s.intents = 1 .. Len(s.intents)
  BY <1>1
<1> QED BY <1>1, <1>2, <1>3, <1>4 DEF IncidentState

(* Closing changes the phase and the actions and nothing else.             *)
LEMMA ClosingType ==
  ASSUME NEW s \in IncidentState, NEW p \in Phase, NEW acts \in Seq(Action)
  PROVE  /\ Closing(s, p, acts) \in IncidentState
         /\ Closing(s, p, acts).phase = p
         /\ Closing(s, p, acts).actions = s.actions \o acts
         /\ Closing(s, p, acts).hyp = s.hyp
         /\ Closing(s, p, acts).focus = s.focus
         /\ Closing(s, p, acts).attempts = s.attempts
         /\ Closing(s, p, acts).findings = s.findings
         /\ Closing(s, p, acts).intents = s.intents
<1>1. s.actions \o acts \in Seq(Action)
  BY DEF IncidentState
<1> QED BY <1>1 DEF Closing, IncidentState

(* The executor's report on a prefix of the list.                          *)
LEMMA ExecutedType ==
  ASSUME NEW s \in IncidentState, NEW n \in 0 .. Len(s.intents)
  PROVE  /\ ExecutedUpTo(s.intents, n) \in Seq(Action)
         /\ Len(ExecutedUpTo(s.intents, n)) = n
         /\ n > 0 => ExecutedUpTo(s.intents, n)[1] = Did("executed", s.intents[1].hash)
<1>1. \A j \in 1 .. n : s.intents[j].hash \in Hashes
  BY StateParts
<1>2. \A j \in 1 .. n : ExecutedAs(s.intents, j) \in Action
  BY <1>1, DidType DEF ExecutedAs
<1>3. n \in Nat
  BY StateParts
<1>4. ExecutedUpTo(s.intents, n) \in Seq(Action) /\ Len(ExecutedUpTo(s.intents, n)) = n
  BY <1>2, <1>3 DEF ExecutedUpTo
<1>5. n > 0 => ExecutedUpTo(s.intents, n)[1] = Did("executed", s.intents[1].hash)
  BY <1>3 DEF ExecutedUpTo, ExecutedAs
<1> QED BY <1>4, <1>5
(* What execution returns: the phase says whether it stopped at an intent, *)
(* and with nothing to stop it the first intent is reported as executed.   *)
LEMMA ExecutionType ==
  ASSUME NEW s \in IncidentState, s.intents # << >>, s.actions = << >>,
         NEW failAt \in 0 .. Len(s.intents), NEW compensates \in BOOLEAN
  PROVE  \E p \in {"resolved", "escalated"}, acts \in Seq(Action) :
           /\ ExecutionOutcome(s, failAt, compensates) = Closing(s, p, acts)
           /\ p = "resolved" =>
                Len(acts) > 0 /\ acts[1] = Did("executed", s.intents[1].hash)
<1>1. CASE failAt = 0
  <2>1. Len(s.intents) \in 0 .. Len(s.intents) /\ Len(s.intents) > 0
    BY StateParts
  <2> QED BY <1>1, <2>1, ExecutedType DEF ExecutionOutcome
<1>2. CASE failAt # 0
  <2> DEFINE before == ExecutedUpTo(s.intents, failAt - 1)
             failed == << Did("exec_failed", s.intents[failAt].hash) >>
             undone == IF compensates
                         THEN << Did("compensated", s.intents[failAt].hash) >>
                         ELSE << >>
  <2>1. failAt \in DOMAIN s.intents /\ failAt - 1 \in 0 .. Len(s.intents)
    BY <1>2, StateParts
  <2>2. s.intents[failAt].hash \in Hashes
    BY <2>1, StateParts
  <2>3. before \in Seq(Action)
    BY <2>1, ExecutedType
  <2>4. failed \in Seq(Action)
    BY <2>2, DidType
  <2>5. undone \in Seq(Action)
    BY <2>2, DidType
  <2>6. before \o failed \o undone \in Seq(Action)
    BY <2>3, <2>4, <2>5
  <2>7. ExecutionOutcome(s, failAt, compensates)
          = Closing(s, "escalated", before \o failed \o undone)
    BY <1>2 DEF ExecutionOutcome
  <2> QED BY <2>6, <2>7
<1> QED BY <1>1, <1>2

(* The hashes a sequence of actions reports as executed.                   *)
LEMMA ExecutedMembers ==
  ASSUME NEW s \in IncidentState
  PROVE  /\ Executed(s) \subseteq Hashes
         /\ s.actions = << >> => Executed(s) = {}
         /\ \A a \in Action : s.actions = << a >> /\ a.kind # "executed"
              => Executed(s) = {}
         /\ \A a \in Hashes : Len(s.actions) > 0 /\ s.actions[1] = Did("executed", a)
              => a \in Executed(s)
<1>1. s.actions \in Seq(Action)
  BY StateParts
<1>2. \A j \in DOMAIN s.actions : s.actions[j] \in Action
  BY <1>1
<1>3. \A a \in Action : a.kind = "executed" => a.hash \in Hashes
  BY DEF Action
<1>4. \A a \in Hashes : Did("executed", a).kind = "executed" /\ Did("executed", a).hash = a
  BY DidType
<1>5. Len(s.actions) > 0 => 1 \in DOMAIN s.actions
  BY <1>1
<1> QED BY <1>2, <1>3, <1>4, <1>5 DEF Executed

(* Closing a state without actions with one that is not an execution, or   *)
(* with none, executes nothing.                                            *)
LEMMA ClosedUnexecuted ==
  ASSUME NEW s \in IncidentState, s.actions = << >>, NEW p \in Phase
  PROVE  /\ Executed(Closing(s, p, << >>)) = {}
         /\ \A a \in Action : a.kind # "executed"
              => Executed(Closing(s, p, << a >>)) = {}
<1>1. Executed(Closing(s, p, << >>)) = {}
  <2>1. << >> \in Seq(Action) /\ s.actions \o << >> = << >>
    OBVIOUS
  <2>2. Closing(s, p, << >>) \in IncidentState /\ Closing(s, p, << >>).actions = << >>
    BY <2>1, ClosingType
  <2> QED BY <2>2, ExecutedMembers
<1>2. ASSUME NEW a \in Action, a.kind # "executed"
      PROVE  Executed(Closing(s, p, << a >>)) = {}
  <2>1. << a >> \in Seq(Action) /\ s.actions \o << a >> = << a >>
    OBVIOUS
  <2>2. Closing(s, p, << a >>) \in IncidentState /\ Closing(s, p, << a >>).actions = << a >>
    BY <2>1, ClosingType
  <2> QED BY <1>2, <2>2, ExecutedMembers
<1> QED BY <1>1, <1>2

(* What the Coordinator returns when intents come with a confirmed         *)
(* hypothesis: it closes the incident, and executes only a verified list.  *)
LEMMA CoordinatorCloses ==
  ASSUME NEW s \in IncidentState, s.actions = << >>,
         s.intents # << >> => Confirmed(s) # {},
         NEW key, NEW failAt \in 0 .. Len(s.intents), NEW compensates \in BOOLEAN
  PROVE  \E p \in {"resolved", "escalated"}, acts \in Seq(Action) :
           LET r == Closing(s, p, acts)
           IN  /\ CoordinatorNode(s, key, failAt, compensates) = r
               /\ Executed(r) # {} => Forged(s, key) = {} /\ s.intents # << >>
               /\ p = "resolved" => Executed(r) # {} \/ Known(s) = {}
<1> DEFINE node == CoordinatorNode(s, key, failAt, compensates)
<1>0. /\ \A acts \in Seq(Action) : s.actions \o acts = acts
      /\ << >> \in Seq(Action)
  OBVIOUS
<1>1. CASE Forged(s, key) # {}
  <2> DEFINE bad == Did("verify_failed", s.intents[FirstOf(Forged(s, key))].hash)
  <2>1. Forged(s, key) \subseteq DOMAIN s.intents /\ Forged(s, key) \subseteq Nat
    BY StateParts DEF Forged
  <2>2. s.intents[FirstOf(Forged(s, key))].hash \in Hashes
    BY <1>1, <2>1, FirstIsMember, StateParts
  <2>3. bad \in Action /\ bad.kind # "executed"
    BY <2>2, DidType
  <2>4. << bad >> \in Seq(Action) /\ "escalated" \in Phase
    BY <2>3 DEF Phase
  <2>5. node = Closing(s, "escalated", << bad >>)
    BY <1>1 DEF CoordinatorNode
  <2>6. Executed(Closing(s, "escalated", << bad >>)) = {}
    BY <2>3, <2>4, ClosedUnexecuted
  <2> QED BY <2>4, <2>5, <2>6
<1>2. CASE Forged(s, key) = {} /\ s.intents = << >> /\ Known(s) # {}
  <2>1. Preflight(s) = "parameter_drift"
    BY <1>2 DEF Preflight
  <2>2. node = [s EXCEPT !.phase = "escalated"]
    BY <1>2, <2>1 DEF CoordinatorNode
  <2>3. node = Closing(s, "escalated", << >>)
    BY <1>0, <2>2 DEF Closing, IncidentState
  <2>4. Executed(Closing(s, "escalated", << >>)) = {}
    BY ClosedUnexecuted DEF Phase
  <2> QED BY <1>0, <2>3, <2>4
<1>3. CASE Forged(s, key) = {} /\ s.intents = << >> /\ Known(s) = {}
  <2>1. Preflight(s) = "already_resolved"
    BY <1>3 DEF Preflight
  <2>2. node = Closing(s, "resolved", << Did("no_op", Unset) >>)
    BY <1>3, <2>1 DEF CoordinatorNode
  <2>3. Did("no_op", Unset) \in Action /\ Did("no_op", Unset).kind # "executed"
    BY DidType
  <2>4. << Did("no_op", Unset) >> \in Seq(Action) /\ "resolved" \in Phase
    BY <2>3 DEF Phase
  <2>5. Executed(Closing(s, "resolved", << Did("no_op", Unset) >>)) = {}
    BY <2>3, <2>4, ClosedUnexecuted
  <2> QED BY <1>3, <2>2, <2>4, <2>5
<1>4. CASE Forged(s, key) = {} /\ s.intents # << >>
  <2>1. Known(s) # {} /\ Confirmed(s) # {}
    BY <1>4 DEF Known, Confirmed, Absent
  <2>2. \E h \in Known(s) : s.hyp[h] \notin {"refuted", "abandoned"}
    BY <2>1 DEF Known, Confirmed, Absent
  <2>3. Preflight(s) = "ok"
    BY <1>4, <2>1, <2>2 DEF Preflight
  <2>4. node = ExecutionOutcome(s, failAt, compensates)
    BY <1>4, <2>3 DEF CoordinatorNode
  <2>5. PICK p \in {"resolved", "escalated"}, acts \in Seq(Action) :
           /\ node = Closing(s, p, acts)
           /\ p = "resolved" =>
                Len(acts) > 0 /\ acts[1] = Did("executed", s.intents[1].hash)
    BY <1>4, <2>4, ExecutionType
  <2>6. s.intents[1].hash \in Hashes
    BY <1>4, StateParts
  <2>7. p \in Phase
    BY DEF Phase
  <2>8. /\ Closing(s, p, acts) \in IncidentState
        /\ Closing(s, p, acts).actions = acts
    BY <1>0, <2>7, ClosingType
  <2>9. p = "resolved" => Executed(Closing(s, p, acts)) # {}
    BY <2>5, <2>6, <2>8, ExecutedMembers
  <2> QED BY <1>4, <2>5, <2>9
<1> QED BY <1>1, <1>2, <1>3, <1>4

----------------------------------------------------------------------------
(* The other nodes: what each keeps, and the evidence trail.               *)

LEMMA InvestigatorType ==
  ASSUME NEW s \in IncidentState, NEW out \in InvestigatorOutput,
         s.attempts < RouteAttempts
  PROVE  LET r == InvestigatorNode(s, out)
         IN  /\ r \in IncidentState
             /\ r.attempts = s.attempts + 1
             /\ r.findings = s.findings /\ r.intents = s.intents
             /\ r.actions = s.actions /\ r.phase = s.phase
             /\ Known(s) \subseteq Known(r)
             /\ r.focus # Unset => r.focus \in Known(r)
<1> DEFINE r == InvestigatorNode(s, out)
           hyp == MergeHypotheses(s.hyp, out.proposed)
<1>1. s.hyp \in HypothesisMap /\ out.proposed \in HypothesisMap /\ s.attempts \in Nat
  BY StateParts DEF InvestigatorOutput
<1>2. hyp \in HypothesisMap
  BY <1>1 DEF MergeHypotheses, HypothesisMap
<1>3. FocusOf(out) \in Hyps \cup {Unset}
  BY DEF FocusOf, InvestigatorOutput
<1>4. MaxAttempts \in Nat /\ RouteAttempts \in Nat /\ RouteAttempts <= MaxAttempts
  BY AttemptsAssumption
<1>5. r = [s EXCEPT !.hyp = hyp, !.focus = FocusOf(out), !.attempts = s.attempts + 1]
  BY <1>1, <1>4 DEF InvestigatorNode
<1>6. /\ r \in IncidentState /\ r.hyp = hyp /\ r.focus = FocusOf(out)
      /\ r.attempts = s.attempts + 1
      /\ r.findings = s.findings /\ r.intents = s.intents
      /\ r.actions = s.actions /\ r.phase = s.phase
  <2>1. r = [hyp |-> hyp, focus |-> FocusOf(out), attempts |-> s.attempts + 1,
             findings |-> s.findings, intents |-> s.intents,
             actions |-> s.actions, phase |-> s.phase]
    BY <1>5 DEF IncidentState
  <2>2. s.attempts + 1 \in Nat
    BY <1>1
  <2> HIDE DEF hyp, r
  <2> QED BY <1>2, <1>3, <2>1, <2>2, StateParts DEF IncidentState
<1>7. Known(s) \subseteq Known(r)
  BY <1>6 DEF Known, MergeHypotheses, Absent
<1>8. r.focus # Unset => r.focus \in Proposed(out)
  BY <1>6 DEF FocusOf, InvestigatorOutput
<1>9. Proposed(out) \subseteq Known(r)
  BY <1>6 DEF Known, Proposed, MergeHypotheses
<1> QED BY <1>6, <1>7, <1>8, <1>9

LEMMA CollectorsType ==
  ASSUME NEW s \in IncidentState, NEW failed \in BOOLEAN
  PROVE  LET r == CollectorsNode(s, failed)
         IN  /\ r \in IncidentState
             /\ r.hyp = s.hyp /\ r.focus = s.focus /\ r.attempts = s.attempts
             /\ r.intents = s.intents /\ r.actions = s.actions /\ r.phase = s.phase
             /\ \A f \in r.findings : f \in s.findings \/ f.hyp \in Known(s)
<1> DEFINE found == [hyp |-> s.focus, failed |-> failed]
<1>1. CASE s.focus \in Known(s)
  <2>1. found \in Finding /\ found.hyp = s.focus
    BY <1>1 DEF Finding, Known
  <2>2. s.findings \cup {found} \in SUBSET Finding
    BY <2>1, StateParts
  <2> QED BY <1>1, <2>1, <2>2 DEF CollectorsNode, IncidentState
<1>2. CASE s.focus \notin Known(s)
  BY <1>2 DEF CollectorsNode
<1> QED BY <1>1, <1>2

LEMMA PlannerType ==
  ASSUME NEW s \in IncidentState, s.intents = << >>, NEW d \in PlannerDecision,
         NEW key \in Keys \cup {Unset}
  PROVE  LET r == PlannerNode(s, d, key)
         IN  /\ r \in IncidentState /\ r.phase = "planning"
             /\ r.hyp = s.hyp /\ r.focus = s.focus /\ r.attempts = s.attempts
             /\ r.findings = s.findings /\ r.actions = s.actions
             /\ \A j \in DOMAIN r.intents : r.intents[j].key = key
<1> DEFINE intent == [hash |-> d.hash, key |-> key]
           intents == IF NeedsIntent(d) THEN Append(s.intents, intent) ELSE s.intents
           r == PlannerNode(s, d, key)
<1>1. intent \in Intent /\ intent.key = key
  BY DEF PlannerDecision, Intent
<1>2. intents \in Seq(Intent)
  BY <1>1
<1>3. \A j \in DOMAIN intents : intents[j].key = key
  BY <1>1
<1>4. "planning" \in Phase
  BY DEF Phase
<1>5. r = [s EXCEPT !.phase = "planning", !.intents = intents]
  BY DEF PlannerNode
<1>6. /\ r \in IncidentState /\ r.phase = "planning" /\ r.intents = intents
      /\ r.hyp = s.hyp /\ r.focus = s.focus /\ r.attempts = s.attempts
      /\ r.findings = s.findings /\ r.actions = s.actions
  BY <1>2, <1>4, <1>5 DEF IncidentState
<1> QED BY <1>3, <1>6

----------------------------------------------------------------------------
(* The invariant is inductive: one lemma for every action.                 *)

LEMMA Bounds ==
  /\ RouteAttempts \in Nat /\ RouteAttempts > 0
  /\ RecursionLimit \in Nat /\ 2 * RouteAttempts + 1 <= RecursionLimit
BY AttemptsAssumption, BudgetAssumption

LEMMA InitIInv == Init => IInv
<1> SUFFICES ASSUME Init PROVE IInv
  OBVIOUS
<1>1. SeedIncident \in IncidentState
  <2>1. [h \in Hyps |-> Absent] \in HypothesisMap
    BY DEF HypothesisMap
  <2>2. << >> \in Seq(Intent) /\ << >> \in Seq(Action) /\ "intake" \in Phase
    BY DEF Phase
  <2> QED BY <2>1, <2>2 DEF SeedIncident, IncidentState
<1>2. TypeOK
  BY <1>1, Bounds DEF Init, TypeOK, Node, Terminal
<1>3. Executed(state) = {}
  BY <1>1, ExecutedMembers DEF Init, SeedIncident
<1>4. /\ state.intents = << >> /\ state.actions = << >> /\ state.attempts = 0
      /\ state.findings = {} /\ state.focus = Unset /\ state.phase = "intake"
      /\ next = "intake" /\ steps = 0
  BY DEF Init, SeedIncident
<1>5. \A j \in DOMAIN state.intents : FALSE
  BY <1>4
<1> QED
  BY <1>2, <1>3, <1>4, <1>5, Bounds DEF IInv, IntentsFromPlanner, ActionsFromCoordinator,
     PhaseOfNode, StepsOfAttempts, IntentOnConfirmedDiagnosis, EvidenceTrailIntact,
     EndsClosed, MismatchedKeysExecuteNothing, ResolvedForAReason

(* Before the Coordinator nothing is executed or resolved.                 *)
LEMMA BeforeCoordinator ==
  ASSUME TypeOK', ActionsFromCoordinator', PhaseOfNode',
         next' \in {"investigator", "collectors", "planner", "coordinator", "raised"}
  PROVE  EndsClosed' /\ MismatchedKeysExecuteNothing' /\ ResolvedForAReason'
<1>1. (state.actions = << >>)' /\ (state \in IncidentState)'
  BY DEF TypeOK, ActionsFromCoordinator
<1>2. Executed(state)' = {}
  BY <1>1, ExecutedMembers
<1>3. (state.phase # "resolved")'
  BY DEF PhaseOfNode
<1> QED
  BY <1>2, <1>3 DEF EndsClosed, MismatchedKeysExecuteNothing, ResolvedForAReason

LEMMA IntakeStep == IInv /\ Intake => IInv'
<1> SUFFICES ASSUME IInv, Intake PROVE IInv'
  OBVIOUS
<1>1. state \in IncidentState /\ "investigating" \in Phase
  BY DEF IInv, TypeOK, Phase
<1>2. state' = [state EXCEPT !.phase = "investigating"]
  BY DEF Intake, IntakeNode
<1>3. /\ state' \in IncidentState /\ state'.phase = "investigating"
      /\ state'.hyp = state.hyp /\ state'.focus = state.focus
      /\ state'.attempts = state.attempts /\ state'.findings = state.findings
      /\ state'.intents = state.intents /\ state'.actions = state.actions
  BY <1>1, <1>2 DEF IncidentState
<1>4. steps' = 1 /\ state.attempts = 0 /\ next' = "investigator" /\ keys' = keys
  BY Bounds DEF Intake, Superstep, IInv, StepsOfAttempts
<1>5. TypeOK'
  BY <1>3, <1>4, Bounds DEF IInv, TypeOK, Node, Terminal
<1>6. state.intents = << >> /\ state.actions = << >>
  BY DEF Intake, Superstep, IInv, IntentsFromPlanner, ActionsFromCoordinator
<1>7. IntentsFromPlanner' /\ ActionsFromCoordinator' /\ PhaseOfNode' /\ StepsOfAttempts'
  BY <1>3, <1>4, <1>6, Bounds
     DEF IntentsFromPlanner, ActionsFromCoordinator, PhaseOfNode, StepsOfAttempts
<1>8. IntentOnConfirmedDiagnosis' /\ EvidenceTrailIntact'
  BY <1>3, <1>6 DEF IInv, IntentOnConfirmedDiagnosis, EvidenceTrailIntact, Known
<1> QED BY <1>4, <1>5, <1>7, <1>8, BeforeCoordinator DEF IInv

LEMMA InvestigateStep == IInv /\ Investigate => IInv'
<1> SUFFICES ASSUME IInv, Investigate PROVE IInv'
  OBVIOUS
<1>1. PICK out \in InvestigatorOutput : state' = InvestigatorNode(state, out)
  BY DEF Investigate
<1>2. /\ state \in IncidentState /\ state.attempts < RouteAttempts /\ state.attempts \in Nat
      /\ steps = 2 * state.attempts + 1
      /\ state.intents = << >> /\ state.actions = << >> /\ state.phase = "investigating"
  BY StateParts DEF Investigate, Superstep, IInv, TypeOK, IntentsFromPlanner,
     ActionsFromCoordinator, PhaseOfNode, StepsOfAttempts
<1>3. /\ state' \in IncidentState /\ state'.attempts = state.attempts + 1
      /\ state'.findings = state.findings /\ state'.intents = << >>
      /\ state'.actions = << >> /\ state'.phase = "investigating"
      /\ Known(state) \subseteq Known(state')
      /\ state'.focus # Unset => state'.focus \in Known(state')
  BY <1>1, <1>2, InvestigatorType
<1>4. steps' = 2 * state'.attempts /\ keys' = keys
  BY <1>2, <1>3, Bounds DEF Investigate, Superstep
<1>5. /\ next' \in {"coordinator", "planner", "collectors"}
      /\ next' = "planner" => Confirmed(state') # {}
      /\ next' # "coordinator" => state'.attempts < RouteAttempts
  BY <1>2, <1>3, Bounds DEF Investigate, RouteAfterInvestigator
<1>6. TypeOK'
  <2>1. steps' \in 0 .. RecursionLimit
    BY <1>2, <1>3, <1>4, Bounds
  <2> QED BY <1>3, <1>4, <1>5, <2>1 DEF IInv, TypeOK, Node, Terminal
<1>7. IntentsFromPlanner' /\ ActionsFromCoordinator' /\ PhaseOfNode' /\ StepsOfAttempts'
  BY <1>2, <1>3, <1>4, <1>5, Bounds
     DEF IntentsFromPlanner, ActionsFromCoordinator, PhaseOfNode, StepsOfAttempts
<1>8. IntentOnConfirmedDiagnosis' /\ EvidenceTrailIntact'
  BY <1>3 DEF IInv, IntentOnConfirmedDiagnosis, EvidenceTrailIntact
<1> QED BY <1>5, <1>6, <1>7, <1>8, BeforeCoordinator DEF IInv

LEMMA CollectStep == IInv /\ Collect => IInv'
<1> SUFFICES ASSUME IInv, Collect PROVE IInv'
  OBVIOUS
<1>1. PICK failed \in BOOLEAN : state' = CollectorsNode(state, failed)
  BY DEF Collect
<1>2. /\ state \in IncidentState /\ state.attempts < RouteAttempts /\ state.attempts \in Nat
      /\ steps = 2 * state.attempts
      /\ state.intents = << >> /\ state.actions = << >> /\ state.phase = "investigating"
  BY StateParts DEF Collect, Superstep, IInv, TypeOK, IntentsFromPlanner,
     ActionsFromCoordinator, PhaseOfNode, StepsOfAttempts
<1>3. /\ state' \in IncidentState /\ state'.hyp = state.hyp /\ state'.focus = state.focus
      /\ state'.attempts = state.attempts /\ state'.intents = << >>
      /\ state'.actions = << >> /\ state'.phase = "investigating"
      /\ \A f \in state'.findings : f \in state.findings \/ f.hyp \in Known(state)
  BY <1>1, <1>2, CollectorsType
<1>4. steps' = 2 * state'.attempts + 1 /\ keys' = keys /\ next' = "investigator"
  BY <1>2, <1>3, Bounds DEF Collect, Superstep
<1>5. TypeOK'
  <2>1. steps' \in 0 .. RecursionLimit
    BY <1>2, <1>3, <1>4, Bounds
  <2> QED BY <1>3, <1>4, <2>1 DEF IInv, TypeOK, Node
<1>6. IntentsFromPlanner' /\ ActionsFromCoordinator' /\ PhaseOfNode' /\ StepsOfAttempts'
  BY <1>2, <1>3, <1>4, Bounds
     DEF IntentsFromPlanner, ActionsFromCoordinator, PhaseOfNode, StepsOfAttempts
<1>7. IntentOnConfirmedDiagnosis' /\ EvidenceTrailIntact'
  BY <1>3 DEF IInv, IntentOnConfirmedDiagnosis, EvidenceTrailIntact, Known
<1> QED BY <1>4, <1>5, <1>6, <1>7, BeforeCoordinator DEF IInv

LEMMA PlanStep == IInv /\ Plan => IInv'
<1> SUFFICES ASSUME IInv, Plan PROVE IInv'
  OBVIOUS
<1>1. PICK d \in PlannerDecision : state' = PlannerNode(state, d, keys.sign)
  BY DEF Plan
<1>2. keys.sign \in Keys \cup {Unset}
  BY KeyAssumption DEF IInv, TypeOK
<1>3. /\ state \in IncidentState /\ state.attempts < RouteAttempts /\ state.attempts \in Nat
      /\ steps = 2 * state.attempts /\ Confirmed(state) # {}
      /\ state.intents = << >> /\ state.actions = << >>
  BY StateParts DEF Plan, Superstep, IInv, TypeOK, IntentsFromPlanner,
     ActionsFromCoordinator, StepsOfAttempts
<1>4. /\ state' \in IncidentState /\ state'.phase = "planning"
      /\ state'.hyp = state.hyp /\ state'.focus = state.focus
      /\ state'.attempts = state.attempts /\ state'.findings = state.findings
      /\ state'.actions = << >>
      /\ \A j \in DOMAIN state'.intents : state'.intents[j].key = keys.sign
  BY <1>1, <1>2, <1>3, PlannerType
<1>5. steps' = 2 * state.attempts + 1 /\ keys' = keys /\ next' = "coordinator"
  BY <1>3, Bounds DEF Plan, Superstep
<1>6. TypeOK'
  BY <1>3, <1>4, <1>5, Bounds DEF IInv, TypeOK, Node, Terminal
<1>7. Confirmed(state') # {}
  BY <1>3, <1>4 DEF Confirmed
<1>8. IntentsFromPlanner' /\ ActionsFromCoordinator' /\ PhaseOfNode' /\ StepsOfAttempts'
  BY <1>3, <1>4, <1>5, <1>7, Bounds
     DEF IntentsFromPlanner, ActionsFromCoordinator, PhaseOfNode, StepsOfAttempts
<1>9. IntentOnConfirmedDiagnosis' /\ EvidenceTrailIntact'
  BY <1>4, <1>7 DEF IInv, IntentOnConfirmedDiagnosis, EvidenceTrailIntact, Known
<1> QED BY <1>5, <1>6, <1>8, <1>9, BeforeCoordinator DEF IInv

(* What the Coordinator's step does, for the invariant and the refinement. *)
LEMMA CoordinateOutcome ==
  ASSUME IInv, Coordinate
  PROVE  /\ state' \in IncidentState /\ state'.phase \in {"resolved", "escalated"}
         /\ state'.hyp = state.hyp /\ state'.focus = state.focus
         /\ state'.attempts = state.attempts /\ state'.findings = state.findings
         /\ state'.intents = state.intents
         /\ Executed(state') # {} =>
              Forged(state, keys.verify) = {} /\ state.intents # << >>
         /\ state'.phase = "resolved" => Executed(state') # {} \/ Known(state) = {}
<1>1. PICK failAt \in 0 .. Len(state.intents), compensates \in BOOLEAN :
         state' = CoordinatorNode(state, keys.verify, failAt, compensates)
  BY DEF Coordinate
<1>2. /\ state \in IncidentState /\ state.actions = << >>
      /\ state.intents # << >> => Confirmed(state) # {}
  BY DEF Coordinate, Superstep, IInv, TypeOK, ActionsFromCoordinator,
     IntentOnConfirmedDiagnosis
<1>3. PICK p \in {"resolved", "escalated"}, acts \in Seq(Action) :
         LET r == Closing(state, p, acts)
         IN  /\ state' = r
             /\ Executed(r) # {} => Forged(state, keys.verify) = {} /\ state.intents # << >>
             /\ p = "resolved" => Executed(r) # {} \/ Known(state) = {}
  BY <1>1, <1>2, CoordinatorCloses
<1>4. p \in Phase
  BY DEF Phase
<1> QED BY <1>2, <1>3, <1>4, ClosingType

LEMMA CoordinateStep == IInv /\ Coordinate => IInv'
<1> SUFFICES ASSUME IInv, Coordinate PROVE IInv'
  OBVIOUS
<1>1. /\ state' \in IncidentState /\ state'.phase \in {"resolved", "escalated"}
      /\ state'.hyp = state.hyp /\ state'.focus = state.focus
      /\ state'.attempts = state.attempts /\ state'.findings = state.findings
      /\ state'.intents = state.intents
      /\ Executed(state') # {} =>
           Forged(state, keys.verify) = {} /\ state.intents # << >>
      /\ state'.phase = "resolved" => Executed(state') # {} \/ Known(state) = {}
  BY CoordinateOutcome
<1>2. next' = "END" /\ keys' = keys
  BY DEF Coordinate, Superstep
<1>3. steps' \in 0 .. RecursionLimit
  BY Bounds DEF Coordinate, Superstep, IInv, TypeOK
<1>4. TypeOK'
  BY <1>1, <1>2, <1>3 DEF IInv, TypeOK, Terminal
<1>5. IntentsFromPlanner' /\ ActionsFromCoordinator' /\ PhaseOfNode' /\ StepsOfAttempts'
  BY <1>1, <1>2
     DEF IInv, IntentsFromPlanner, ActionsFromCoordinator, PhaseOfNode, StepsOfAttempts
<1>6. IntentOnConfirmedDiagnosis' /\ EvidenceTrailIntact'
  BY <1>1 DEF IInv, IntentOnConfirmedDiagnosis, EvidenceTrailIntact, Known, Confirmed
<1>7. EndsClosed' /\ ResolvedForAReason'
  BY <1>1 DEF EndsClosed, ResolvedForAReason, Known
<1>8. MismatchedKeysExecuteNothing'
  <2>1. Executed(state') # {} => 1 \in DOMAIN state.intents
    BY <1>1, StateParts DEF IInv, TypeOK
  <2>2. Executed(state') # {} => state.intents[1].key = keys.verify
    BY <1>1, <2>1 DEF Forged, Verifies
  <2>3. Executed(state') # {} => keys.sign = keys.verify
    BY <2>1, <2>2 DEF IInv, IntentsFromPlanner
  <2> QED BY <1>2, <2>3 DEF MismatchedKeysExecuteNothing
<1> QED BY <1>4, <1>5, <1>6, <1>7, <1>8 DEF IInv

LEMMA RaiseStep ==
  IInv /\ (InvestigateRaises \/ PlanRaises \/ CoordinateRaises) => IInv'
<1> SUFFICES ASSUME IInv, InvestigateRaises \/ PlanRaises \/ CoordinateRaises
             PROVE  IInv'
  OBVIOUS
<1>1. /\ next \in {"investigator", "planner", "coordinator"}
      /\ next' = "raised" /\ state' = state /\ keys' = keys
  BY DEF InvestigateRaises, PlanRaises, CoordinateRaises, Raise, Superstep
<1>2. steps' \in 0 .. RecursionLimit
  BY Bounds DEF InvestigateRaises, PlanRaises, CoordinateRaises, Raise, Superstep,
     IInv, TypeOK
<1>3. TypeOK'
  BY <1>1, <1>2 DEF IInv, TypeOK, Terminal
<1>4. IntentsFromPlanner' /\ ActionsFromCoordinator' /\ PhaseOfNode' /\ StepsOfAttempts'
  BY <1>1
     DEF IInv, IntentsFromPlanner, ActionsFromCoordinator, PhaseOfNode, StepsOfAttempts
<1>5. IntentOnConfirmedDiagnosis' /\ EvidenceTrailIntact'
  BY <1>1 DEF IInv, IntentOnConfirmedDiagnosis, EvidenceTrailIntact, Known, Confirmed
<1> QED BY <1>1, <1>3, <1>4, <1>5, BeforeCoordinator DEF IInv

LEMMA NextIInv == IInv /\ [Next]_vars => IInv'
<1> SUFFICES ASSUME IInv, [Next]_vars PROVE IInv'
  OBVIOUS
<1>1. CASE Ended \/ UNCHANGED vars
  <2>1. UNCHANGED vars
    BY <1>1 DEF Ended
  <2> QED
    BY <2>1 DEF vars, IInv, TypeOK, IntentsFromPlanner, ActionsFromCoordinator,
       PhaseOfNode, StepsOfAttempts, IntentOnConfirmedDiagnosis, EvidenceTrailIntact,
       EndsClosed, MismatchedKeysExecuteNothing, ResolvedForAReason, Executed,
       Known, Confirmed
<1> QED
  BY <1>1, IntakeStep, InvestigateStep, CollectStep, PlanStep, CoordinateStep, RaiseStep
     DEF Next

----------------------------------------------------------------------------
(* Theorems *)

LEMMA Inductive == Spec => []IInv
BY InitIInv, NextIInv, PTL DEF Spec

(* The state merged from the nodes' updates is an IncidentState throughout *)
(* and every name of a next node is one that the graph has.                *)
THEOREM TypeCorrect == Spec => []TypeOK
<1>1. IInv => TypeOK
  BY DEF IInv
<1> QED BY <1>1, Inductive, PTL

(* No signed intent outlives, or precedes, the confirmed hypothesis that   *)
(* justified it.                                                           *)
THEOREM IntentsAreJustified == Spec => []IntentOnConfirmedDiagnosis
<1>1. IInv => IntentOnConfirmedDiagnosis
  BY DEF IInv
<1> QED BY <1>1, Inductive, PTL

(* No finding and no focus refers to a hypothesis that is not there.       *)
THEOREM EvidenceHolds == Spec => []EvidenceTrailIntact
<1>1. IInv => EvidenceTrailIntact
  BY DEF IInv
<1> QED BY <1>1, Inductive, PTL

(* A recursion limit of two supersteps to an attempt and one more is never *)
(* reached: with the code's 5 attempts, 11, and LangGraph's default is 25. *)
THEOREM StaysInBudget == Spec => []NeverOutOfSteps
<1>1. IInv => NeverOutOfSteps
  BY Bounds, StateParts
     DEF IInv, NeverOutOfSteps, Running, TypeOK, Node, Terminal, StepsOfAttempts
<1> QED BY <1>1, Inductive, PTL

(* Every run that reaches END has resolved or escalated the incident.      *)
THEOREM Closes == Spec => []EndsClosed
<1>1. IInv => EndsClosed
  BY DEF IInv
<1> QED BY <1>1, Inductive, PTL

(* With a signing and a verification key that do not match, or one of them *)
(* missing, nothing is executed.                                           *)
THEOREM FailsClosed == Spec => []MismatchedKeysExecuteNothing
<1>1. IInv => MismatchedKeysExecuteNothing
  BY DEF IInv
<1> QED BY <1>1, Inductive, PTL

(* A resolved incident was remediated or never had a hypothesis.           *)
THEOREM ResolvesForAReason == Spec => []ResolvedForAReason
<1>1. IInv => ResolvedForAReason
  BY DEF IInv
<1> QED BY <1>1, Inductive, PTL

(* Refinement: what a reader of the incident sees is the lifecycle.  Intake *)
(* accepts, Plan plans, the Coordinator closes, an exception aborts, and    *)
(* the ticks and the collectors are stutters.                              *)

LEMMA InitLifecycle == Init => Lifecycle!Init
<1> SUFFICES ASSUME Init PROVE Lifecycle!Init
  OBVIOUS
<1>1. IInv
  BY InitIInv
<1>2. Executed(state) = {}
  BY <1>1, ExecutedMembers DEF Init, SeedIncident, IInv, TypeOK
<1> QED BY <1>2 DEF Init, SeedIncident, Lifecycle!Init, Running, Terminal

LEMMA StepLifecycle == IInv /\ [Next]_vars => [Lifecycle!Next]_(Lifecycle!vars)
<1> SUFFICES ASSUME IInv, [Next]_vars PROVE [Lifecycle!Next]_(Lifecycle!vars)
  OBVIOUS
<1> USE DEF Lifecycle!vars
<1>0. /\ IInv' /\ state \in IncidentState /\ state' \in IncidentState
      /\ next \in Node \cup Terminal
  BY NextIInv DEF IInv, TypeOK
<1>1. next # "END" => Executed(state) = {}
  BY <1>0, ExecutedMembers DEF IInv, ActionsFromCoordinator
<1>2. next' # "END" => Executed(state') = {}
  BY <1>0, ExecutedMembers DEF IInv, ActionsFromCoordinator
<1>3. CASE Intake
  BY <1>1, <1>2, <1>3 DEF Intake, Superstep, Running, Terminal, IInv, PhaseOfNode,
     Lifecycle!Next, Lifecycle!Accept
<1>4. CASE Investigate \/ Collect
  <2>1. /\ next \in {"investigator", "collectors"}
        /\ next' \in {"investigator", "collectors", "planner", "coordinator"}
    BY <1>4 DEF Investigate, Collect, Superstep, RouteAfterInvestigator
  <2>2. state'.phase = state.phase
    BY <1>0, <1>4, InvestigatorType, CollectorsType, <2>1
       DEF Investigate, Collect, IInv, StepsOfAttempts
  <2> QED BY <1>1, <1>2, <2>1, <2>2 DEF Running, Terminal
<1>5. CASE Plan
  <2>1. state.phase = "investigating" /\ state'.phase = "planning"
    BY <1>0, <1>5 DEF Plan, Superstep, PlannerNode, IInv, PhaseOfNode, IncidentState
  <2> QED
    BY <1>1, <1>2, <1>5, <2>1 DEF Plan, Superstep, Running, Terminal,
       Lifecycle!Next, Lifecycle!Plan
<1>6. CASE Coordinate
  <2>1. /\ state'.phase \in {"resolved", "escalated"}
        /\ Executed(state') # {} => state.intents # << >>
        /\ state'.phase = "resolved" => Executed(state') # {} \/ Known(state) = {}
    BY <1>6, CoordinateOutcome
  <2>2. /\ state.phase \in {"investigating", "planning"} /\ next = "coordinator"
        /\ state.intents # << >> => state.phase = "planning"
        /\ state.phase = "planning" => Known(state) # {}
    BY <1>6 DEF Coordinate, Superstep, IInv, PhaseOfNode, IntentsFromPlanner,
       Known, Confirmed, Absent
  <2>3. Running /\ Running' = FALSE /\ Executed(state) = {}
    BY <1>1, <1>6, <2>2 DEF Coordinate, Running, Terminal
  <2>4. CASE Executed(state') = {}
    <3>1. Executed(state)' = Executed(state)
      BY <2>3, <2>4 DEF Executed
    <3>2. Lifecycle!CloseUntouched
      BY <2>1, <2>2, <2>3, <2>4, <3>1 DEF Lifecycle!CloseUntouched
    <3> QED BY <3>2 DEF Lifecycle!Next
  <2>5. CASE Executed(state') # {}
    <3>1. Executed(state') \subseteq Hashes
      BY <1>0, ExecutedMembers
    <3>2. Executed(state)' \in (SUBSET Hashes) \ {{}}
      BY <2>5, <3>1 DEF Executed
    <3>3. Lifecycle!CloseApplied
      BY <2>1, <2>2, <2>3, <2>5, <3>2 DEF Lifecycle!CloseApplied
    <3> QED BY <3>3 DEF Lifecycle!Next
  <2> QED BY <2>4, <2>5
<1>7. CASE InvestigateRaises \/ PlanRaises \/ CoordinateRaises
  BY <1>1, <1>2, <1>7 DEF InvestigateRaises, PlanRaises, CoordinateRaises, Raise,
     Superstep, Running, Terminal, Lifecycle!Next, Lifecycle!Abort
<1>8. CASE Ended \/ UNCHANGED vars
  BY <1>8 DEF Ended, vars, Running, Executed
<1> QED BY <1>3, <1>4, <1>5, <1>6, <1>7, <1>8 DEF Next

(* The graph shows the reader of an incident only what the lifecycle has.  *)
THEOREM FollowsLifecycle == Spec => LifecycleSteps
<1>1. Init => Lifecycle!Init
  BY InitLifecycle
<1>2. IInv /\ [Next]_vars => [Lifecycle!Next]_(Lifecycle!vars)
  BY StepLifecycle
<1> QED BY <1>1, <1>2, Inductive, PTL DEF Spec, LifecycleSteps

----------------------------------------------------------------------------
(* The record of the incident *)

Extends(new, old) == \A j \in DOMAIN old : j \in DOMAIN new /\ new[j] = old[j]

(* A superstep adds to the record and takes nothing from it: no hypothesis *)
(* that was known, no finding, no intent and no action is lost or changed, *)
(* no attempt is given back, and the supersteps count up.                  *)
Adds ==
  /\ Known(state) \subseteq Known(state')
  /\ state.findings \subseteq state'.findings
  /\ Extends(state'.intents, state.intents) /\ Extends(state'.actions, state.actions)
  /\ state.attempts <= state'.attempts /\ steps' = steps + 1

LEMMA AddsAtOnce ==
  ASSUME IInv, IInv', Running, steps' = IF steps < RecursionLimit THEN steps + 1 ELSE steps,
         Known(state) \subseteq Known(state'), state.findings \subseteq state'.findings,
         state.intents = << >> \/ state'.intents = state.intents,
         state.attempts <= state'.attempts
  PROVE  Adds
<1>1. steps' = steps + 1
  BY Bounds, StateParts
     DEF IInv, Running, TypeOK, Node, Terminal, StepsOfAttempts
<1>2. state.actions = << >>
  BY DEF IInv, Running, Terminal, ActionsFromCoordinator
<1>3. \A s : Extends(s, << >>) /\ Extends(s, s)
  BY DEF Extends
<1> QED BY <1>1, <1>2, <1>3 DEF Adds

(* The findings and the hypotheses survive every rewriting of the model's, *)
(* the intents the Coordinator, and a run that is aborted keeps what it    *)
(* had; a run takes at most RecursionLimit steps.                          *)
THEOREM KeepsItsRecord == Spec => [][Adds]_vars
<1>1. ASSUME IInv, IInv', [Next]_vars PROVE [Adds]_vars
  <2>1. state \in IncidentState /\ state.attempts \in Nat
    BY <1>1, StateParts DEF IInv, TypeOK
  <2>2. ASSUME Intake PROVE Adds
    <3>1. /\ state'.hyp = state.hyp /\ state'.findings = state.findings
          /\ state'.intents = state.intents /\ state'.attempts = state.attempts
      BY <2>1, <2>2 DEF Intake, IntakeNode, IncidentState
    <3>2. Running /\ steps' = IF steps < RecursionLimit THEN steps + 1 ELSE steps
      BY <2>2 DEF Intake, Superstep, Running, Terminal
    <3> QED BY <1>1, <2>1, <3>1, <3>2, AddsAtOnce DEF Known
  <2>3. ASSUME Investigate PROVE Adds
    <3>1. PICK out \in InvestigatorOutput : state' = InvestigatorNode(state, out)
      BY <2>3 DEF Investigate
    <3>2. state.attempts < RouteAttempts /\ state.intents = << >>
      BY <1>1, <2>3
         DEF Investigate, Superstep, IInv, StepsOfAttempts, IntentsFromPlanner
    <3>3. /\ Known(state) \subseteq Known(state') /\ state'.findings = state.findings
          /\ state'.attempts = state.attempts + 1
      BY <2>1, <3>1, <3>2, InvestigatorType
    <3>4. Running /\ steps' = IF steps < RecursionLimit THEN steps + 1 ELSE steps
      BY <2>3 DEF Investigate, Superstep, Running, Terminal
    <3> QED BY <1>1, <2>1, <3>2, <3>3, <3>4, AddsAtOnce
  <2>4. ASSUME Collect PROVE Adds
    <3>1. PICK failed \in BOOLEAN : state' = CollectorsNode(state, failed)
      BY <2>4 DEF Collect
    <3>2. /\ state'.hyp = state.hyp /\ state'.intents = state.intents
          /\ state'.attempts = state.attempts
      BY <2>1, <3>1, CollectorsType
    <3>3. state.findings \subseteq state'.findings
      BY <2>1, <3>1 DEF CollectorsNode, IncidentState
    <3>4. Running /\ steps' = IF steps < RecursionLimit THEN steps + 1 ELSE steps
      BY <2>4 DEF Collect, Superstep, Running, Terminal
    <3> QED BY <1>1, <2>1, <3>2, <3>3, <3>4, AddsAtOnce DEF Known
  <2>5. ASSUME Plan PROVE Adds
    <3>1. PICK d \in PlannerDecision : state' = PlannerNode(state, d, keys.sign)
      BY <2>5 DEF Plan
    <3>2. keys.sign \in Keys \cup {Unset}
      BY <1>1, KeyAssumption DEF IInv, TypeOK
    <3>3. state.intents = << >>
      BY <1>1, <2>5 DEF Plan, Superstep, IInv, IntentsFromPlanner
    <3>4. /\ state'.hyp = state.hyp /\ state'.findings = state.findings
          /\ state'.attempts = state.attempts
      BY <2>1, <3>1, <3>2, <3>3, PlannerType
    <3>5. Running /\ steps' = IF steps < RecursionLimit THEN steps + 1 ELSE steps
      BY <2>5 DEF Plan, Superstep, Running, Terminal
    <3> QED BY <1>1, <2>1, <3>3, <3>4, <3>5, AddsAtOnce DEF Known
  <2>6. ASSUME Coordinate PROVE Adds
    <3>1. /\ state'.hyp = state.hyp /\ state'.findings = state.findings
          /\ state'.intents = state.intents /\ state'.attempts = state.attempts
      BY <1>1, <2>6, CoordinateOutcome
    <3>2. Running /\ steps' = IF steps < RecursionLimit THEN steps + 1 ELSE steps
      BY <2>6 DEF Coordinate, Superstep, Running, Terminal
    <3> QED BY <1>1, <2>1, <3>1, <3>2, AddsAtOnce DEF Known
  <2>7. ASSUME InvestigateRaises \/ PlanRaises \/ CoordinateRaises PROVE Adds
    <3>1. /\ Running /\ UNCHANGED state
          /\ steps' = IF steps < RecursionLimit THEN steps + 1 ELSE steps
      BY <2>7 DEF InvestigateRaises, PlanRaises, CoordinateRaises, Raise, Superstep,
         Running, Terminal
    <3> QED BY <1>1, <2>1, <3>1, AddsAtOnce
  <2> QED BY <1>1, <2>2, <2>3, <2>4, <2>5, <2>6, <2>7 DEF Next, Ended
<1> QED BY <1>1, Inductive, PTL DEF Spec
=============================================================================
