----------------------- MODULE CheckpointedRunProofs -----------------------
(***************************************************************************)
(* Proofs about calls of run_once, for any finite set of processes, any    *)
(* number of calls, hypotheses and intents, and however far the saver lags *)
(* behind the runs.                                                        *)
(***************************************************************************)
EXTENDS CheckpointedRun, FiniteSetTheorems, WellFoundedInduction, TLAPS

----------------------------------------------------------------------------
(* What the nodes make of a state.                                         *)

(* FirstOf has a first index to choose.                                    *)
LEMMA FirstIsMember ==
  ASSUME NEW S, S \subseteq Nat, S # {}
  PROVE  FirstOf(S) \in S
<1>1. PICK m \in S : \A k \in S : <<k, m>> \notin OpToRel(<, Nat)
  BY NatLessThanWellFounded, WFMin
<1>2. \A k \in S : ~ (k < m)
  BY <1>1, Zenon DEF OpToRel
<1>3. \A k \in S : m <= k
  BY <1>2
<1> QED BY <1>3 DEF FirstOf

LEMMA DidType ==
  /\ \A kind \in {"verify_failed", "executed", "skipped", "exec_failed", "compensated"},
        a \in Hashes :
       Did(kind, a) \in Action /\ Did(kind, a).kind = kind /\ Did(kind, a).hash = a
  /\ Did("no_op", Unset) \in Action /\ Did("no_op", Unset).kind = "no_op"
BY DEF Did, Action

(* The parts of a state, stated once.                                      *)
LEMMA StateParts ==
  ASSUME NEW s \in IncidentState
  PROVE  /\ s.hyp \in HypothesisMap /\ s.focus \in Hyps \cup {Unset}
         /\ s.attempts \in Nat /\ s.findings \in SUBSET Finding
         /\ s.intents \in Seq(Intent) /\ s.actions \in Seq(Action) /\ s.phase \in Phase
         /\ Len(s.intents) \in Nat /\ DOMAIN s.intents = 1 .. Len(s.intents)
         /\ \A j \in DOMAIN s.intents : s.intents[j].hash \in Hashes
<1>1. s.intents \in Seq(Intent)
  BY DEF IncidentState
<1>2. \A j \in DOMAIN s.intents : s.intents[j] \in Intent
  BY <1>1
<1>3. \A i \in Intent : i.hash \in Hashes
  BY DEF Intent
<1>4. Len(s.intents) \in Nat /\ DOMAIN s.intents = 1 .. Len(s.intents)
  BY <1>1
<1> QED BY <1>1, <1>2, <1>3, <1>4 DEF IncidentState

(* Closing changes the phase and the actions and nothing else.             *)
LEMMA ClosingType ==
  ASSUME NEW s \in IncidentState, NEW p \in Phase, NEW acts \in Seq(Action)
  PROVE  /\ Closing(s, p, acts) \in IncidentState
         /\ Closing(s, p, acts).phase = p
         /\ Closing(s, p, acts).actions = s.actions \o acts
         /\ Closing(s, p, acts).hyp = s.hyp
         /\ Closing(s, p, acts).focus = s.focus
         /\ Closing(s, p, acts).attempts = s.attempts
         /\ Closing(s, p, acts).findings = s.findings
         /\ Closing(s, p, acts).intents = s.intents
<1>1. s.actions \o acts \in Seq(Action)
  BY DEF IncidentState
<1> QED BY <1>1 DEF Closing, IncidentState

(* The executor's report on a prefix of the list.                          *)
LEMMA ExecutedType ==
  ASSUME NEW s \in IncidentState, NEW n \in 0 .. Len(s.intents)
  PROVE  /\ ExecutedUpTo(s.intents, n) \in Seq(Action)
         /\ Len(ExecutedUpTo(s.intents, n)) = n
         /\ n > 0 => ExecutedUpTo(s.intents, n)[1] = Did("executed", s.intents[1].hash)
<1>1. \A j \in 1 .. n : s.intents[j].hash \in Hashes
  BY StateParts
<1>2. \A j \in 1 .. n : ExecutedAs(s.intents, j) \in Action
  BY <1>1, DidType DEF ExecutedAs
<1>3. n \in Nat
  BY StateParts
<1>4. ExecutedUpTo(s.intents, n) \in Seq(Action) /\ Len(ExecutedUpTo(s.intents, n)) = n
  BY <1>2, <1>3 DEF ExecutedUpTo
<1>5. n > 0 => ExecutedUpTo(s.intents, n)[1] = Did("executed", s.intents[1].hash)
  BY <1>3 DEF ExecutedUpTo, ExecutedAs
<1> QED BY <1>4, <1>5

(* What execution returns: the phase says whether it stopped at an intent, *)
(* and with nothing to stop it the first intent is reported as executed.   *)
LEMMA ExecutionType ==
  ASSUME NEW s \in IncidentState, s.intents # << >>, s.actions = << >>,
         NEW failAt \in 0 .. Len(s.intents), NEW compensates \in BOOLEAN
  PROVE  \E p \in {"resolved", "escalated"}, acts \in Seq(Action) :
           /\ ExecutionOutcome(s, failAt, compensates) = Closing(s, p, acts)
           /\ p = "resolved" =>
                Len(acts) > 0 /\ acts[1] = Did("executed", s.intents[1].hash)
<1>1. CASE failAt = 0
  <2>1. Len(s.intents) \in 0 .. Len(s.intents) /\ Len(s.intents) > 0
    BY StateParts
  <2> QED BY <1>1, <2>1, ExecutedType DEF ExecutionOutcome
<1>2. CASE failAt # 0
  <2> DEFINE before == ExecutedUpTo(s.intents, failAt - 1)
             failed == << Did("exec_failed", s.intents[failAt].hash) >>
             undone == IF compensates
                         THEN << Did("compensated", s.intents[failAt].hash) >>
                         ELSE << >>
  <2>1. failAt \in DOMAIN s.intents /\ failAt - 1 \in 0 .. Len(s.intents)
    BY <1>2, StateParts
  <2>2. s.intents[failAt].hash \in Hashes
    BY <2>1, StateParts
  <2>3. before \in Seq(Action)
    BY <2>1, ExecutedType
  <2>4. failed \in Seq(Action)
    BY <2>2, DidType
  <2>5. undone \in Seq(Action)
    BY <2>2, DidType
  <2>6. before \o failed \o undone \in Seq(Action)
    BY <2>3, <2>4, <2>5
  <2>7. ExecutionOutcome(s, failAt, compensates)
          = Closing(s, "escalated", before \o failed \o undone)
    BY <1>2 DEF ExecutionOutcome
  <2> QED BY <2>6, <2>7
<1> QED BY <1>1, <1>2

(* The hashes a sequence of actions reports as executed.                   *)
LEMMA ExecutedMembers ==
  ASSUME NEW s \in IncidentState
  PROVE  /\ Executed(s) \subseteq Hashes
         /\ s.actions = << >> => Executed(s) = {}
         /\ \A a \in Action : s.actions = << a >> /\ a.kind # "executed"
              => Executed(s) = {}
         /\ \A a \in Hashes : Len(s.actions) > 0 /\ s.actions[1] = Did("executed", a)
              => a \in Executed(s)
<1>1. s.actions \in Seq(Action)
  BY StateParts
<1>2. \A j \in DOMAIN s.actions : s.actions[j] \in Action
  BY <1>1
<1>3. \A a \in Action : a.kind = "executed" => a.hash \in Hashes
  BY DEF Action
<1>4. \A a \in Hashes : Did("executed", a).kind = "executed" /\ Did("executed", a).hash = a
  BY DidType
<1>5. Len(s.actions) > 0 => 1 \in DOMAIN s.actions
  BY <1>1
<1> QED BY <1>2, <1>3, <1>4, <1>5 DEF Executed

(* Closing a state without actions with one that is not an execution, or   *)
(* with none, executes nothing.                                            *)
LEMMA ClosedUnexecuted ==
  ASSUME NEW s \in IncidentState, s.actions = << >>, NEW p \in Phase
  PROVE  /\ Executed(Closing(s, p, << >>)) = {}
         /\ \A a \in Action : a.kind # "executed"
              => Executed(Closing(s, p, << a >>)) = {}
<1>1. Executed(Closing(s, p, << >>)) = {}
  <2>1. << >> \in Seq(Action) /\ s.actions \o << >> = << >>
    OBVIOUS
  <2>2. Closing(s, p, << >>) \in IncidentState /\ Closing(s, p, << >>).actions = << >>
    BY <2>1, ClosingType
  <2> QED BY <2>2, ExecutedMembers
<1>2. ASSUME NEW a \in Action, a.kind # "executed"
      PROVE  Executed(Closing(s, p, << a >>)) = {}
  <2>1. << a >> \in Seq(Action) /\ s.actions \o << a >> = << a >>
    OBVIOUS
  <2>2. Closing(s, p, << a >>) \in IncidentState /\ Closing(s, p, << a >>).actions = << a >>
    BY <2>1, ClosingType
  <2> QED BY <1>2, <2>2, ExecutedMembers
<1> QED BY <1>1, <1>2

(* What the Coordinator returns when intents come with a confirmed         *)
(* hypothesis: it closes the incident, and executes only a verified list.  *)
LEMMA CoordinatorCloses ==
  ASSUME NEW s \in IncidentState, s.actions = << >>,
         s.intents # << >> => Confirmed(s) # {},
         NEW key, NEW failAt \in 0 .. Len(s.intents), NEW compensates \in BOOLEAN
  PROVE  \E p \in {"resolved", "escalated"}, acts \in Seq(Action) :
           LET r == Closing(s, p, acts)
           IN  /\ CoordinatorNode(s, key, failAt, compensates) = r
               /\ Executed(r) # {} => Forged(s, key) = {} /\ s.intents # << >>
               /\ p = "resolved" => Executed(r) # {} \/ Known(s) = {}
<1> DEFINE node == CoordinatorNode(s, key, failAt, compensates)
<1>0. /\ \A acts \in Seq(Action) : s.actions \o acts = acts
      /\ << >> \in Seq(Action)
  OBVIOUS
<1>1. CASE Forged(s, key) # {}
  <2> DEFINE bad == Did("verify_failed", s.intents[FirstOf(Forged(s, key))].hash)
  <2>1. Forged(s, key) \subseteq DOMAIN s.intents /\ Forged(s, key) \subseteq Nat
    BY StateParts DEF Forged
  <2>2. s.intents[FirstOf(Forged(s, key))].hash \in Hashes
    BY <1>1, <2>1, FirstIsMember, StateParts
  <2>3. bad \in Action /\ bad.kind # "executed"
    BY <2>2, DidType
  <2>4. << bad >> \in Seq(Action) /\ "escalated" \in Phase
    BY <2>3 DEF Phase
  <2>5. node = Closing(s, "escalated", << bad >>)
    BY <1>1 DEF CoordinatorNode
  <2>6. Executed(Closing(s, "escalated", << bad >>)) = {}
    BY <2>3, <2>4, ClosedUnexecuted
  <2> QED BY <2>4, <2>5, <2>6
<1>2. CASE Forged(s, key) = {} /\ s.intents = << >> /\ Known(s) # {}
  <2>1. Preflight(s) = "parameter_drift"
    BY <1>2 DEF Preflight
  <2>2. node = [s EXCEPT !.phase = "escalated"]
    BY <1>2, <2>1 DEF CoordinatorNode
  <2>3. node = Closing(s, "escalated", << >>)
    BY <1>0, <2>2 DEF Closing, IncidentState
  <2>4. Executed(Closing(s, "escalated", << >>)) = {}
    BY ClosedUnexecuted DEF Phase
  <2> QED BY <1>0, <2>3, <2>4
<1>3. CASE Forged(s, key) = {} /\ s.intents = << >> /\ Known(s) = {}
  <2>1. Preflight(s) = "already_resolved"
    BY <1>3 DEF Preflight
  <2>2. node = Closing(s, "resolved", << Did("no_op", Unset) >>)
    BY <1>3, <2>1 DEF CoordinatorNode
  <2>3. Did("no_op", Unset) \in Action /\ Did("no_op", Unset).kind # "executed"
    BY DidType
  <2>4. << Did("no_op", Unset) >> \in Seq(Action) /\ "resolved" \in Phase
    BY <2>3 DEF Phase
  <2>5. Executed(Closing(s, "resolved", << Did("no_op", Unset) >>)) = {}
    BY <2>3, <2>4, ClosedUnexecuted
  <2> QED BY <1>3, <2>2, <2>4, <2>5
<1>4. CASE Forged(s, key) = {} /\ s.intents # << >>
  <2>1. Known(s) # {} /\ Confirmed(s) # {}
    BY <1>4 DEF Known, Confirmed, Absent
  <2>2. \E h \in Known(s) : s.hyp[h] \notin {"refuted", "abandoned"}
    BY <2>1 DEF Known, Confirmed, Absent
  <2>3. Preflight(s) = "ok"
    BY <1>4, <2>1, <2>2 DEF Preflight
  <2>4. node = ExecutionOutcome(s, failAt, compensates)
    BY <1>4, <2>3 DEF CoordinatorNode
  <2>5. PICK p \in {"resolved", "escalated"}, acts \in Seq(Action) :
           /\ node = Closing(s, p, acts)
           /\ p = "resolved" =>
                Len(acts) > 0 /\ acts[1] = Did("executed", s.intents[1].hash)
    BY <1>4, <2>4, ExecutionType
  <2>6. s.intents[1].hash \in Hashes
    BY <1>4, StateParts
  <2>7. p \in Phase
    BY DEF Phase
  <2>8. /\ Closing(s, p, acts) \in IncidentState
        /\ Closing(s, p, acts).actions = acts
    BY <1>0, <2>7, ClosingType
  <2>9. p = "resolved" => Executed(Closing(s, p, acts)) # {}
    BY <2>5, <2>6, <2>8, ExecutedMembers
  <2> QED BY <1>4, <2>5, <2>9
<1> QED BY <1>1, <1>2, <1>3, <1>4

(* What the node that a run is at says of its state: the phase tells how   *)
(* far the run has come, and the Planner is reached, and an intent made,   *)
(* by a confirmed hypothesis alone.                                        *)
Reached(node, s) ==
  /\ node = "intake" => s.phase = "intake"
  /\ node \in {"investigator", "collectors", "planner"} => s.phase = "investigating"
  /\ node = "coordinator" => s.phase \in {"investigating", "planning"}
  /\ node = "coordinator" /\ s.intents # << >> => s.phase = "planning"
  /\ node = "planner" \/ (node = "coordinator" /\ s.phase = "planning")
       => Confirmed(s) # {}

(* What a checkpoint and the next one of the same run have to do with each *)
(* other: the run goes on, and nothing is executed, or the incident is     *)
(* closed.                                                                 *)
GoesOn(c, d) ==
  /\ d.next # "END" /\ Executed(d.state) = Executed(c.state)
  /\ \/ d.state.phase = c.state.phase
     \/ c.state.phase = "intake" /\ d.state.phase = "investigating"
     \/ c.state.phase = "investigating" /\ d.state.phase = "planning"

Closes(c, d) ==
  /\ d.next = "END" /\ d.state.phase \in {"resolved", "escalated"}
  /\ Executed(c.state) = {} /\ Executed(d.state) \subseteq Hashes
  /\ \/ c.state.phase = "investigating" /\ Executed(d.state) = {}
     \/ /\ c.state.phase = "planning"
        /\ Executed(d.state) = {} => d.state.phase = "escalated"

Leads(c, d) == c.next # "END" /\ (GoesOn(c, d) \/ Closes(c, d))

(* The nodes before the Coordinator act on nothing, and only the Planner   *)
(* adds an intent.                                                         *)
Early == {"intake", "investigator", "collectors", "planner"}

Follows(node, next2) ==
  \/ node \in {"intake", "collectors"} /\ next2 = "investigator"
  \/ node = "investigator" /\ next2 \in {"collectors", "planner", "coordinator"}
  \/ node = "planner" /\ next2 = "coordinator"

LEMMA EarlyOutcome ==
  ASSUME NEW s \in IncidentState, s.intents = << >>, s.actions = << >>,
         NEW node \in Early, Reached(node, s),
         NEW k \in KeySetups, NEW out \in Outcomes(node, s, k)
  PROVE  /\ out \in Checkpoint
         /\ out.state.actions = << >> /\ Executed(out.state) = {}
         /\ node # "planner" => out.state.intents = << >>
         /\ Follows(node, out.next)
         /\ Reached(out.next, out.state)
         /\ Leads(At(s, node), out)
  <1> DEFINE r == out.state
  <1>1. CASE node = "intake"
    <2>1. out = At(IntakeNode(s), "investigator")
      BY <1>1 DEF Outcomes
    <2>2. /\ IntakeNode(s) \in IncidentState /\ IntakeNode(s).phase = "investigating"
          /\ IntakeNode(s).intents = << >> /\ IntakeNode(s).actions = << >>
      BY DEF IntakeNode, IncidentState, Phase
    <2>3. s.phase = "intake"
      BY <1>1 DEF Reached
    <2>4. /\ out.next = "investigator" /\ out \in Checkpoint /\ r \in IncidentState
          /\ r.phase = "investigating" /\ r.intents = << >> /\ r.actions = << >>
      BY <2>1, <2>2 DEF At, Checkpoint, Node
    <2> QED BY <1>1, <2>3, <2>4, ExecutedMembers DEF Follows, Reached, Leads, GoesOn, At
  <1>2. CASE node = "investigator"
    <2>1. PICK o \in InvestigatorOutput :
            out = At(InvestigatorNode(s, o), RouteAfterInvestigator(InvestigatorNode(s, o)))
      BY <1>2 DEF Outcomes
    <2> DEFINE t == InvestigatorNode(s, o)
    <2>2. /\ t \in IncidentState /\ t.phase = "investigating"
          /\ t.intents = << >> /\ t.actions = << >>
      <3> DEFINE hyp == MergeHypotheses(s.hyp, o.proposed)
      <3>1. s.hyp \in HypothesisMap /\ o.proposed \in HypothesisMap /\ s.attempts + 1 \in Nat
        BY StateParts DEF InvestigatorOutput
      <3>2. hyp \in HypothesisMap
        BY <3>1 DEF MergeHypotheses, HypothesisMap
      <3>3. FocusOf(o) \in Hyps \cup {Unset}
        BY DEF FocusOf, InvestigatorOutput
      <3>4. \/ t = s
            \/ t = [s EXCEPT !.hyp = hyp, !.focus = FocusOf(o), !.attempts = s.attempts + 1]
        BY DEF InvestigatorNode
      <3>5. s.phase = "investigating"
        BY <1>2 DEF Reached
      <3> HIDE DEF hyp, t
      <3> QED BY <3>1, <3>2, <3>3, <3>4, <3>5 DEF IncidentState
    <2>3. /\ RouteAfterInvestigator(t) \in {"collectors", "planner", "coordinator"}
          /\ RouteAfterInvestigator(t) = "planner" => Confirmed(t) # {}
      <3>1. t.attempts \in Nat /\ RouteAttempts \in Nat
        BY <2>2, StateParts, AttemptsAssumption
      <3> HIDE DEF t
      <3> QED BY <3>1 DEF RouteAfterInvestigator
    <2>4. out = At(t, RouteAfterInvestigator(t))
      BY <2>1
    <2> HIDE DEF t
    <2>5. /\ r = t /\ out.next = RouteAfterInvestigator(t) /\ out \in Checkpoint
      BY <2>2, <2>3, <2>4 DEF At, Checkpoint, Node
    <2>6. s.phase = "investigating"
      BY <1>2 DEF Reached
    <2> QED
      BY <1>2, <2>2, <2>3, <2>5, <2>6, ExecutedMembers
         DEF Follows, Reached, Leads, GoesOn, At
  <1>3. CASE node = "collectors"
    <2>1. PICK failed \in BOOLEAN : out = At(CollectorsNode(s, failed), "investigator")
      BY <1>3 DEF Outcomes
    <2> DEFINE t == CollectorsNode(s, failed)
               found == [hyp |-> s.focus, failed |-> failed]
    <2>2. s.phase = "investigating"
      BY <1>3 DEF Reached
    <2>3. /\ t \in IncidentState /\ t.phase = "investigating"
          /\ t.intents = << >> /\ t.actions = << >>
      <3>1. CASE s.focus \in Known(s)
        <4>1. found \in Finding
          BY <3>1 DEF Finding, Known
        <4>2. s.findings \cup {found} \in SUBSET Finding
          BY <4>1, StateParts
        <4>3. t = [s EXCEPT !.findings = s.findings \cup {found}]
          BY <3>1 DEF CollectorsNode
        <4> QED BY <2>2, <4>2, <4>3 DEF IncidentState
      <3>2. CASE s.focus \notin Known(s)
        BY <2>2, <3>2 DEF CollectorsNode
      <3> QED BY <3>1, <3>2
    <2>4. r = t /\ out.next = "investigator" /\ out \in Checkpoint
      BY <2>1, <2>3 DEF At, Checkpoint, Node
    <2> HIDE DEF t
    <2> QED
      BY <1>3, <2>2, <2>3, <2>4, ExecutedMembers DEF Follows, Reached, Leads, GoesOn, At
  <1>4. CASE node = "planner"
    <2>1. PICK d \in PlannerDecision : out = At(PlannerNode(s, d, k.sign), "coordinator")
      BY <1>4 DEF Outcomes
    <2> DEFINE t == PlannerNode(s, d, k.sign)
               intents == IF NeedsIntent(d)
                            THEN Append(s.intents, [hash |-> d.hash, key |-> k.sign])
                            ELSE s.intents
    <2>2. [hash |-> d.hash, key |-> k.sign] \in Intent
      BY KeysAssumption DEF PlannerDecision, Intent
    <2>3. intents \in Seq(Intent)
      BY <2>2
    <2>4. t = [s EXCEPT !.phase = "planning", !.intents = intents]
      BY DEF PlannerNode
    <2>5. t \in IncidentState /\ t.actions = << >> /\ t.phase = "planning" /\ t.hyp = s.hyp
      BY <2>3, <2>4 DEF IncidentState, Phase
    <2>6. r = t /\ out.next = "coordinator" /\ out \in Checkpoint
      BY <2>1, <2>5 DEF At, Checkpoint, Node
    <2>7. s.phase = "investigating" /\ Confirmed(s) # {}
      BY <1>4 DEF Reached
    <2> HIDE DEF t
    <2>8. Confirmed(r) # {}
      BY <2>5, <2>6, <2>7 DEF Confirmed
    <2> QED
      BY <1>4, <2>5, <2>6, <2>7, <2>8, ExecutedMembers
         DEF Follows, Reached, Leads, GoesOn, At
  <1> QED BY <1>1, <1>2, <1>3, <1>4 DEF Early

(* The Coordinator closes the incident, and with that the run.             *)
LEMMA CoordinatorOutcome ==
  ASSUME NEW s \in IncidentState, s.actions = << >>, Reached("coordinator", s),
         NEW k \in KeySetups, NEW out \in Outcomes("coordinator", s, k)
  PROVE  /\ out \in Checkpoint /\ out.next = "END"
         /\ s.intents = << >> => Executed(out.state) = {}
         /\ Leads(At(s, "coordinator"), out)
  <1>1. PICK failAt \in 0 .. Len(s.intents), compensates \in BOOLEAN :
          out = At(CoordinatorNode(s, k.verify, failAt, compensates), "END")
    BY DEF Outcomes
  <1>2. /\ s.intents # << >> => Confirmed(s) # {} /\ s.phase = "planning"
        /\ s.phase \in {"investigating", "planning"}
        /\ s.phase = "planning" => Confirmed(s) # {}
    BY DEF Reached
  <1>3. PICK p \in {"resolved", "escalated"}, acts \in Seq(Action) :
          LET r == Closing(s, p, acts)
          IN  /\ CoordinatorNode(s, k.verify, failAt, compensates) = r
              /\ Executed(r) # {} => Forged(s, k.verify) = {} /\ s.intents # << >>
              /\ p = "resolved" => Executed(r) # {} \/ Known(s) = {}
    BY <1>2, CoordinatorCloses
  <1> DEFINE r == Closing(s, p, acts)
  <1>4. r \in IncidentState /\ r.phase = p
    <2>1. p \in Phase
      BY DEF Phase
    <2> QED BY <2>1, ClosingType
  <1>5. out.state = r /\ out.next = "END" /\ out \in Checkpoint
    BY <1>1, <1>3, <1>4 DEF At, Checkpoint
  <1>6. /\ Executed(r) # {} => s.intents # << >>
        /\ p = "resolved" => Executed(r) # {} \/ Known(s) = {}
    BY <1>3
  <1> HIDE DEF r
  <1>7. Executed(r) \subseteq Hashes /\ Executed(s) = {}
    BY <1>4, ExecutedMembers
  <1>8. Confirmed(s) # {} => Known(s) # {}
    BY DEF Confirmed, Known, Absent
  <1>9. /\ s.phase = "investigating" => Executed(r) = {}
        /\ s.phase = "planning" /\ Executed(r) = {} => p = "escalated"
    BY <1>2, <1>6, <1>8
  <1>10. Closes(At(s, "coordinator"), out)
    BY <1>2, <1>4, <1>5, <1>7, <1>9 DEF Closes, At
  <1> QED BY <1>5, <1>6, <1>10 DEF Leads, At

----------------------------------------------------------------------------
(* The invariant *)

(* What holds of one process: only a run has checkpoints to write, it has  *)
(* no intent before the Planner and no action before the Coordinator, and  *)
(* until Postgres has a checkpoint it has one to write.                    *)
ProcessSound(p) ==
  /\ pc[p] # "run" => Queued(p) = {}
  /\ pc[p] \notin {"run", "readback"} => next[p] = "intake" /\ state[p] = SeedIncident
  /\ pc[p] = "readback" => next[p] = "END" /\ top > 0
  /\ next[p] \in Early => state[p].intents = << >> /\ state[p].actions = << >>
  /\ next[p] = "coordinator" => state[p].actions = << >>
  /\ Reached(next[p], state[p])
  /\ pc[p] = "run" /\ next[p] # "raised" => top > 0 \/ Queued(p) # {}

(* The newest checkpoint is that of the run, and is written or queued.     *)
Newest(p) ==
  pc[p] \in {"run", "readback"} /\ next[p] # "raised" =>
    /\ Len(log) > 0 /\ log[Len(log)].at = At(state[p], next[p])
    /\ top = Len(log) \/ (pc[p] = "run" /\ log[Len(log)].by = p)

DrivingProcs == {p \in Procs : pc[p] \in Driving}

IInv ==
  /\ TypeOK
  /\ \A p \in Procs : ProcessSound(p)
  /\ Cardinality(DrivingProcs) <= 1 + overlaps
  /\ overlaps = 0 => \A p \in Procs : Newest(p)

(* Only the process p takes a step.                                        *)
Moves(p) ==
  \A q \in Procs \ {p} :
    state'[q] = state[q] /\ next'[q] = next[q] /\ pc'[q] = pc[q] /\ result'[q] = result[q]

----------------------------------------------------------------------------
(* The saver *)

LEMMA LogIndices ==
  ASSUME TypeOK
  PROVE  /\ Len(log) \in Nat /\ DOMAIN log = 1 .. Len(log)
         /\ top \in Nat /\ top <= Len(log)
         /\ \A p \in Procs : Queued(p) \subseteq 1 .. Len(log)
  BY DEF TypeOK, Queued

(* What holds of the log whatever the saver does to it.                    *)
LogSound == log \in Seq(Entry) /\ top \in 0 .. Len(log)

LEMMA MakesLog ==
  ASSUME TypeOK, NEW p \in Procs, NEW c \in Checkpoint, Makes(p, c)
  PROVE  /\ LogSound' /\ top' = top
         /\ Len(log') = Len(log) + 1 /\ log'[Len(log')] = [by |-> p, at |-> c]
         /\ \A i \in 1 .. Len(log) : log'[i] = log[i]
         /\ Queued(p)' = Queued(p) \cup {Len(log) + 1}
         /\ \A q \in Procs \ {p} : Queued(q)' = Queued(q)
  <1> DEFINE n == Len(log) + 1
             e == [by |-> p, at |-> c]
  <1>1. Len(log) \in Nat /\ DOMAIN log = 1 .. Len(log) /\ top \in Nat /\ top <= Len(log)
    BY LogIndices
  <1>2. log \in Seq(Entry) /\ e \in Entry /\ log' = Append(log, e) /\ top' = top
    BY DEF TypeOK, Makes, Entry
  <1>3. /\ log' \in Seq(Entry) /\ Len(log') = n /\ DOMAIN log' = 1 .. n
        /\ log'[n] = e /\ \A i \in 1 .. Len(log) : log'[i] = log[i]
    <2> HIDE DEF e
    <2> QED BY <1>1, <1>2
  <1>4. n \notin 1 .. Len(log) /\ 1 .. n = (1 .. Len(log)) \cup {n} /\ e.by = p
    BY <1>1
  <1> HIDE DEF n
  <1>5. Queued(p)' = Queued(p) \cup {n}
    BY <1>1, <1>3, <1>4 DEF Queued
  <1>6. \A q \in Procs \ {p} : Queued(q)' = Queued(q)
    BY <1>1, <1>3, <1>4 DEF Queued
  <1>7. LogSound'
    BY <1>1, <1>2, <1>3 DEF LogSound, n
  <1> QED BY <1>2, <1>3, <1>5, <1>6, <1>7 DEF n

LEMMA PersistLog ==
  ASSUME TypeOK, NEW p \in Procs, Persist(p)
  PROVE  /\ LogSound' /\ Len(log') = Len(log) /\ top' \in Nat /\ top' > 0
         /\ top' >= top /\ top' <= Len(log)
         /\ \A i \in DOMAIN log : log'[i].at = log[i].at
         /\ \A i \in DOMAIN log : log'[i].by = log[i].by \/ top' >= i
         /\ Queued(p)' \subseteq Queued(p)
         /\ \E i \in Queued(p) :
              /\ \A k \in Queued(p) : i <= k
              /\ Queued(p)' = Queued(p) \ {i} /\ top' = IF i > top THEN i ELSE top
         /\ \A q \in Procs \ {p} : Queued(q)' = Queued(q)
  <1>1. /\ Len(log) \in Nat /\ DOMAIN log = 1 .. Len(log) /\ top \in Nat /\ top <= Len(log)
        /\ Queued(p) \subseteq 1 .. Len(log) /\ log \in Seq(Entry)
    BY LogIndices DEF TypeOK
  <1> DEFINE i == Min(Queued(p))
             e == [by |-> None, at |-> log[i].at]
  <1>2. Queued(p) # {} /\ log' = [log EXCEPT ![i] = e] /\ top' = IF i > top THEN i ELSE top
    BY DEF Persist
  <1>3. i \in Queued(p) /\ \A k \in Queued(p) : i <= k
    <2>1. Queued(p) \subseteq Nat
      BY <1>1
    <2>2. PICK m \in Queued(p) : \A k \in Queued(p) : <<k, m>> \notin OpToRel(<, Nat)
      BY <1>2, <2>1, NatLessThanWellFounded, WFMin
    <2>3. \A k \in Queued(p) : ~ (k < m)
      BY <2>1, <2>2, Zenon DEF OpToRel
    <2>4. \A k \in Queued(p) : m <= k
      BY <2>1, <2>3
    <2> QED BY <2>4 DEF Min
  <1> HIDE DEF i
  <1>4. i \in 1 .. Len(log) /\ log[i].by = p
    BY <1>1, <1>3 DEF Queued
  <1>5. log[i] \in Entry /\ e \in Entry
    <2>1. log[i] \in Entry
      BY <1>1, <1>4
    <2>2. e \in Entry
      BY <2>1 DEF Entry
    <2> QED BY <2>1, <2>2
  <1>6. e.by = None /\ e.at = log[i].at
    OBVIOUS
  <1> HIDE DEF e
  <1>7. /\ log' \in Seq(Entry) /\ Len(log') = Len(log) /\ DOMAIN log' = 1 .. Len(log)
        /\ log'[i] = e /\ \A j \in (1 .. Len(log)) \ {i} : log'[j] = log[j]
    BY <1>1, <1>2, <1>4, <1>5
  <1>8. /\ top' \in Nat /\ top' > 0 /\ top' >= top /\ top' >= i /\ top' <= Len(log)
    BY <1>1, <1>2, <1>4
  <1>9. Queued(p)' = Queued(p) \ {i}
    BY <1>1, <1>3, <1>6, <1>7, ProcsAssumption DEF Queued
  <1>10. \A q \in Procs \ {p} : Queued(q)' = Queued(q)
    BY <1>1, <1>4, <1>6, <1>7, ProcsAssumption DEF Queued
  <1>11. LogSound'
    BY <1>1, <1>7, <1>8 DEF LogSound
  <1>12. \E k \in Queued(p) :
            /\ \A j \in Queued(p) : k <= j
            /\ Queued(p)' = Queued(p) \ {k} /\ top' = IF k > top THEN k ELSE top
    BY <1>2, <1>3, <1>9
  <1> QED BY <1>1, <1>6, <1>7, <1>8, <1>9, <1>10, <1>11, <1>12

LEMMA CrashLog ==
  ASSUME TypeOK, NEW p \in Procs, Crash(p)
  PROVE  /\ LogSound' /\ Len(log') = Len(log) /\ top' = top
         /\ \A i \in DOMAIN log : log'[i].at = log[i].at
         /\ \A i \in DOMAIN log : log[i].by # p => log'[i].by = log[i].by
         /\ Queued(p)' = {}
         /\ \A q \in Procs \ {p} : Queued(q)' = Queued(q)
  <1>1. /\ Len(log) \in Nat /\ DOMAIN log = 1 .. Len(log) /\ top \in Nat /\ top <= Len(log)
        /\ log \in Seq(Entry)
    BY LogIndices DEF TypeOK
  <1> DEFINE e(i) == IF log[i].by = p THEN [by |-> None, at |-> log[i].at] ELSE log[i]
  <1>2. log' = [i \in DOMAIN log |-> e(i)] /\ top' = top
    BY DEF Crash
  <1>3. \A i \in 1 .. Len(log) : log[i] \in Entry
    BY <1>1
  <1>4. \A i \in 1 .. Len(log) : e(i) \in Entry
    BY <1>3 DEF Entry
  <1>5. /\ \A i \in 1 .. Len(log) : e(i).at = log[i].at
        /\ \A i \in 1 .. Len(log) : e(i).by = IF log[i].by = p THEN None ELSE log[i].by
    BY <1>3 DEF Entry
  <1> HIDE DEF e
  <1>6. /\ log' \in Seq(Entry) /\ Len(log') = Len(log) /\ DOMAIN log' = 1 .. Len(log)
        /\ \A i \in 1 .. Len(log) : log'[i] = e(i)
    BY <1>1, <1>2, <1>4
  <1>7. /\ Queued(p)' = {}
        /\ \A q \in Procs \ {p} : Queued(q)' = Queued(q)
    BY <1>1, <1>5, <1>6, ProcsAssumption DEF Queued
  <1>8. LogSound'
    BY <1>1, <1>2, <1>6 DEF LogSound
  <1> QED BY <1>1, <1>2, <1>5, <1>6, <1>7, <1>8
----------------------------------------------------------------------------
(* The processes that a step leaves alone *)

LEMMA OthersSound ==
  ASSUME TypeOK, NEW p \in Procs, Moves(p),
         \A q \in Procs : ProcessSound(q),
         \A q \in Procs \ {p} : Queued(q)' = Queued(q),
         top' \in Nat, top' >= top
  PROVE  \A q \in Procs \ {p} : ProcessSound(q)'
  <1>1. SUFFICES ASSUME NEW q \in Procs \ {p} PROVE ProcessSound(q)'
    OBVIOUS
  <1>2. top \in Nat /\ (top > 0 => top' > 0)
    BY LogIndices
  <1>3. /\ state'[q] = state[q] /\ next'[q] = next[q] /\ pc'[q] = pc[q]
        /\ Queued(q)' = Queued(q)
    BY <1>1 DEF Moves
  <1>4. ProcessSound(q)
    BY <1>1
  <1> QED BY <1>2, <1>3, <1>4 DEF ProcessSound

LEMMA OthersNewest ==
  ASSUME TypeOK, NEW p \in Procs, Moves(p), \A q \in Procs : Newest(q),
         Len(log') = Len(log), top' \in Nat, top' >= top, top' <= Len(log),
         \A i \in DOMAIN log : log'[i].at = log[i].at,
         \A i \in DOMAIN log :
           log[i].by # p => log'[i].by = log[i].by \/ top' >= i
  PROVE  \A q \in Procs \ {p} : Newest(q)'
  <1>1. SUFFICES ASSUME NEW q \in Procs \ {p} PROVE Newest(q)'
    OBVIOUS
  <1>2. state'[q] = state[q] /\ next'[q] = next[q] /\ pc'[q] = pc[q]
    BY <1>1 DEF Moves
  <1>3. Newest(q) /\ q # p
    BY <1>1
  <1>4. /\ Len(log) \in Nat /\ DOMAIN log = 1 .. Len(log) /\ top \in Nat /\ top <= Len(log)
    BY LogIndices
  <1>5. Len(log) > 0 => Len(log) \in DOMAIN log
    BY <1>4
  <1>6. top = Len(log) => top' = Len(log)
    BY <1>4
  <1>7. ASSUME log[Len(log)].by = q, Len(log) > 0
        PROVE  log'[Len(log)].by = q \/ top' = Len(log)
    <2>1. log'[Len(log)].by = q \/ top' >= Len(log)
      BY <1>3, <1>5, <1>7
    <2> QED BY <1>4, <2>1
  <1> QED BY <1>2, <1>3, <1>4, <1>5, <1>6, <1>7 DEF Newest

(* While no two runs overlap, a process that drives is alone in that.      *)
LEMMA Alone ==
  ASSUME TypeOK, Cardinality(DrivingProcs) <= 1 + overlaps, overlaps = 0,
         NEW p \in DrivingProcs, NEW q \in DrivingProcs
  PROVE  p = q
  <1>1. IsFiniteSet(DrivingProcs)
    BY ProcsAssumption, FS_Subset DEF DrivingProcs
  <1>2. SUFFICES ASSUME p # q PROVE FALSE
    OBVIOUS
  <1>3. {p, q} \in SUBSET DrivingProcs
    OBVIOUS
  <1>4. Cardinality({p, q}) <= Cardinality(DrivingProcs)
    BY <1>1, <1>3, FS_Subset
  <1>5. Cardinality({p, q}) = 2
    <2>1. {p, q} = {p} \cup {q} /\ q \notin {p}
      BY <1>2
    <2>2. IsFiniteSet({p}) /\ Cardinality({p}) = 1
      BY FS_Singleton
    <2> QED BY <2>1, <2>2, FS_AddElement
  <1>6. Cardinality(DrivingProcs) \in Nat
    BY <1>1, FS_CardinalityType
  <1> QED BY <1>4, <1>5, <1>6

LEMMA NoMoreDriving ==
  ASSUME TypeOK, Cardinality(DrivingProcs) <= 1 + overlaps, overlaps' = overlaps,
         NEW p \in Procs, Moves(p), pc'[p] \in Driving => pc[p] \in Driving
  PROVE  Cardinality(DrivingProcs)' <= 1 + overlaps'
  <1>1. DrivingProcs' \subseteq DrivingProcs
    BY DEF DrivingProcs, Moves
  <1>2. IsFiniteSet(DrivingProcs)
    BY ProcsAssumption, FS_Subset DEF DrivingProcs
  <1>3. IsFiniteSet(DrivingProcs') /\ Cardinality(DrivingProcs') <= Cardinality(DrivingProcs)
    BY <1>1, <1>2, FS_Subset
  <1>4. Cardinality(DrivingProcs') \in Nat /\ Cardinality(DrivingProcs) \in Nat
    BY <1>2, <1>3, FS_CardinalityType
  <1>5. overlaps \in Nat
    BY DEF TypeOK
  <1> QED BY <1>3, <1>4, <1>5

(* A process changes its own entries of the functions.                     *)
LEMMA MovesBy ==
  ASSUME TypeOK, NEW p \in Procs,
         state' = state \/ \E x : state' = [state EXCEPT ![p] = x],
         next' = next \/ \E x : next' = [next EXCEPT ![p] = x],
         pc' = pc \/ \E x : pc' = [pc EXCEPT ![p] = x],
         result' = result \/ \E x : result' = [result EXCEPT ![p] = x]
  PROVE  Moves(p)
  BY DEF Moves, TypeOK

(* A step of one process keeps the invariant if it keeps the types, what   *)
(* is said of the process, and what the log says to the others.            *)
LEMMA StepOf ==
  ASSUME IInv, NEW p \in Procs, Moves(p), TypeOK', ProcessSound(p)',
         overlaps' = overlaps, pc'[p] \in Driving => pc[p] \in Driving,
         overlaps = 0 => Newest(p)',
         \A q \in Procs \ {p} : Queued(q)' = Queued(q),
         Len(log') = Len(log), top' \in Nat, top' >= top, top' <= Len(log),
         \A i \in DOMAIN log : log'[i].at = log[i].at,
         \A i \in DOMAIN log :
           log[i].by # p => log'[i].by = log[i].by \/ top' >= i
  PROVE  IInv'
  <1>1. Cardinality(DrivingProcs)' <= 1 + overlaps'
    BY NoMoreDriving DEF IInv
  <1>2. \A q \in Procs : ProcessSound(q)'
    BY OthersSound DEF IInv
  <1>3. overlaps = 0 => \A q \in Procs \ {p} : Newest(q)'
    BY OthersNewest DEF IInv
  <1> QED BY <1>1, <1>2, <1>3 DEF IInv

(* The same for a step that does not touch the log.                        *)
LEMMA QuietStepOf ==
  ASSUME IInv, NEW p \in Procs, Moves(p), TypeOK', ProcessSound(p)',
         overlaps' = overlaps, pc'[p] \in Driving => pc[p] \in Driving,
         overlaps = 0 => Newest(p)', UNCHANGED saver
  PROVE  IInv'
  <1>1. log' = log /\ top' = top
    BY DEF saver
  <1>2. \A q \in Procs : Queued(q)' = Queued(q)
    BY <1>1 DEF Queued
  <1>3. top \in Nat /\ top <= Len(log) /\ Len(log) \in Nat
    BY LogIndices DEF IInv
  <1> QED BY <1>1, <1>2, <1>3, StepOf
----------------------------------------------------------------------------
(* The actions *)

LEMMA SeedType ==
  /\ SeedIncident \in IncidentState /\ SeedIncident.intents = << >>
  /\ SeedIncident.actions = << >> /\ SeedIncident.phase = "intake"
  /\ Reached("intake", SeedIncident)
  BY DEF SeedIncident, IncidentState, HypothesisMap, Absent, Phase, Finding, Reached

LEMMA InitHolds == Init => IInv
  <1> SUFFICES ASSUME Init PROVE IInv
    OBVIOUS
  <1> USE DEF Init
  <1>1. \A p \in Procs : Queued(p) = {}
    BY DEF Queued
  <1>2. TypeOK
    <2>1. log \in Seq(Entry) /\ top \in 0 .. Len(log)
      OBVIOUS
    <2>2. /\ state \in [Procs -> IncidentState] /\ next \in [Procs -> Node \cup {"END", "raised"}]
          /\ pc \in [Procs -> Idle \cup Driving \cup {"check"}]
          /\ result \in [Procs -> Node \cup {"END", None}]
          /\ \A p \in Procs : pc[p] # "returned"
      BY SeedType DEF Node, Idle
    <2>3. /\ applied \in [Hashes -> Nat] /\ calls \in 0 .. MaxCalls
          /\ overlaps \in Nat /\ unseen \in Nat
      BY BoundAssumption
    <2> QED BY <2>1, <2>2, <2>3 DEF TypeOK
  <1>3. \A p \in Procs : ProcessSound(p) /\ Newest(p)
    BY <1>1, SeedType DEF ProcessSound, Newest
  <1>4. Cardinality(DrivingProcs) <= 1 + overlaps
    <2>1. DrivingProcs = {}
      BY DEF DrivingProcs, Driving
    <2> QED BY <2>1, FS_EmptySet
  <1> QED BY <1>2, <1>3, <1>4 DEF IInv

LEMMA QuietLog ==
  ASSUME TypeOK, UNCHANGED saver
  PROVE  /\ LogSound' /\ top' = top /\ log' = log
         /\ \A q \in Procs : Queued(q)' = Queued(q)
  BY DEF TypeOK, saver, LogSound, Queued

(* What the checkpoint that aget answers is.                               *)
LEMMA NewestStored ==
  ASSUME TypeOK
  PROVE  /\ cp # None <=> top > 0
         /\ top > 0 => cp = log[top].at /\ cp \in Checkpoint /\ cp.next \in Node \cup {"END"}
                      /\ cp.next # None
  <1>1. top \in Nat /\ (top > 0 => top \in DOMAIN log) /\ log \in Seq(Entry)
    BY LogIndices DEF TypeOK
  <1>2. CASE top > 0
    <2>1. log[top] \in Entry
      BY <1>1, <1>2
    <2>2. cp = log[top].at /\ cp \in Checkpoint
      BY <1>2, <2>1 DEF cp, Entry
    <2>3. cp.next \in Node \cup {"END"}
      BY <2>2 DEF Checkpoint
    <2> QED BY <1>2, <2>2, <2>3, NoneAssumption
  <1>3. CASE ~ (top > 0)
    BY <1>1, <1>3 DEF cp
  <1> QED BY <1>2, <1>3

LEMMA CallStep == ASSUME IInv, NEW p \in Procs, Call(p) PROVE IInv'
  <1>0. TypeOK /\ ProcessSound(p)
    BY DEF IInv
  <1>1. /\ pc' = [pc EXCEPT ![p] = "check"] /\ result' = [result EXCEPT ![p] = None]
        /\ pc[p] \in Idle /\ calls < MaxCalls /\ calls' = calls + 1
        /\ UNCHANGED <<state, next, keys, saver, applied, overlaps, unseen>>
    BY DEF Call
  <1>2. Moves(p)
    BY <1>0, <1>1, MovesBy
  <1>3. pc'[p] = "check"
    BY <1>0, <1>1 DEF TypeOK
  <1>4. LogSound' /\ UNCHANGED saver /\ top' = top /\ Queued(p)' = Queued(p)
    BY <1>0, <1>1, QuietLog
  <1>5. TypeOK'
    <2>1. calls' \in 0 .. MaxCalls
      BY <1>0, <1>1, BoundAssumption DEF TypeOK
    <2>2. /\ pc' \in [Procs -> Idle \cup Driving \cup {"check"}]
          /\ result' \in [Procs -> Node \cup {"END", None}]
      BY <1>0, <1>1 DEF TypeOK
    <2>3. \A q \in Procs : pc'[q] = "returned" => result'[q] # None
      BY <1>0, <1>2, <1>3 DEF TypeOK, Moves
    <2> QED BY <1>0, <1>1, <1>4, <2>1, <2>2, <2>3 DEF TypeOK, LogSound
  <1>6. ProcessSound(p)'
    BY <1>0, <1>1, <1>3, <1>4 DEF ProcessSound, Idle
  <1>7. Newest(p)' /\ pc'[p] \notin Driving
    BY <1>3 DEF Newest, Driving
  <1> QED BY <1>1, <1>2, <1>4, <1>5, <1>6, <1>7, QuietStepOf

(* A call that finds no checkpoint drives beside those that do.            *)
LEMMA CheckStep == ASSUME IInv, NEW p \in Procs, Check(p) PROVE IInv'
  <1>0. TypeOK /\ ProcessSound(p) /\ Cardinality(DrivingProcs) <= 1 + overlaps
    BY DEF IInv
  <1>1. pc[p] = "check" /\ UNCHANGED <<state, next, keys, saver, calls, applied, unseen>>
    BY DEF Check
  <1>2. /\ LogSound' /\ UNCHANGED saver /\ top' = top /\ log' = log
        /\ \A q \in Procs : Queued(q)' = Queued(q)
    BY <1>0, <1>1, QuietLog
  <1>3. CASE cp # None
    <2>1. /\ pc' = [pc EXCEPT ![p] = "returned"] /\ result' = [result EXCEPT ![p] = cp.next]
          /\ overlaps' = overlaps
      BY <1>3 DEF Check, ReturnsPrior
    <2>2. Moves(p)
      BY <1>0, <1>1, <2>1, MovesBy
    <2>3. pc'[p] = "returned" /\ result'[p] = cp.next
      BY <1>0, <2>1 DEF TypeOK
    <2>4. cp.next \in Node \cup {"END"} /\ cp.next # None
      BY <1>0, <1>3, NewestStored
    <2>5. TypeOK'
      <3>1. /\ pc' \in [Procs -> Idle \cup Driving \cup {"check"}]
            /\ result' \in [Procs -> Node \cup {"END", None}]
        BY <1>0, <2>1, <2>4 DEF TypeOK, Idle
      <3>2. \A q \in Procs : pc'[q] = "returned" => result'[q] # None
        BY <1>0, <2>2, <2>3, <2>4 DEF TypeOK, Moves
      <3> QED BY <1>0, <1>1, <1>2, <2>1, <3>1, <3>2 DEF TypeOK, LogSound
    <2>6. ProcessSound(p)'
      BY <1>0, <1>1, <1>2, <2>3 DEF ProcessSound
    <2>7. Newest(p)' /\ pc'[p] \notin Driving
      BY <2>3 DEF Newest, Driving
    <2> QED BY <1>2, <2>1, <2>2, <2>5, <2>6, <2>7, QuietStepOf
  <1>4. CASE cp = None
    <2>1. /\ pc' = [pc EXCEPT ![p] = "begin"] /\ result' = result
          /\ overlaps' = IF \E q \in Procs \ {p} : pc[q] \in Driving
                           THEN overlaps + 1 ELSE overlaps
      BY <1>4 DEF Check, DrivesOn
    <2>2. Moves(p)
      BY <1>0, <1>1, <2>1, MovesBy
    <2>3. pc'[p] = "begin" /\ pc[p] \notin Driving
      BY <1>0, <1>1, <2>1 DEF TypeOK, Driving
    <2>4. TypeOK'
      <3>1. pc' \in [Procs -> Idle \cup Driving \cup {"check"}]
        BY <1>0, <2>1 DEF TypeOK, Driving
      <3>2. overlaps' \in Nat
        BY <1>0, <2>1 DEF TypeOK
      <3>3. \A q \in Procs : pc'[q] = "returned" => result'[q] # None
        BY <1>0, <2>1, <2>2, <2>3 DEF TypeOK, Moves
      <3> QED BY <1>0, <1>1, <1>2, <2>1, <3>1, <3>2, <3>3 DEF TypeOK, LogSound
    <2>5. ProcessSound(p)'
      BY <1>0, <1>1, <1>2, <2>3 DEF ProcessSound
    <2>6. \A q \in Procs : ProcessSound(q)'
      <3>1. top' \in Nat /\ top' >= top
        BY <1>0, <1>2, LogIndices
      <3> QED BY <1>0, <1>2, <2>2, <2>5, <3>1, OthersSound DEF IInv
    <2>7. Cardinality(DrivingProcs)' <= 1 + overlaps'
      <3>1. DrivingProcs' = DrivingProcs \cup {p} /\ p \notin DrivingProcs
        BY <2>2, <2>3 DEF DrivingProcs, Moves, Driving
      <3>2. IsFiniteSet(DrivingProcs)
        BY ProcsAssumption, FS_Subset DEF DrivingProcs
      <3>3. Cardinality(DrivingProcs') = Cardinality(DrivingProcs) + 1
        BY <3>1, <3>2, FS_AddElement
      <3>4. Cardinality(DrivingProcs) \in Nat /\ overlaps \in Nat
        BY <1>0, <3>2, FS_CardinalityType DEF TypeOK
      <3>5. CASE \E q \in Procs \ {p} : pc[q] \in Driving
        BY <1>0, <2>1, <3>3, <3>4, <3>5
      <3>6. CASE ~ \E q \in Procs \ {p} : pc[q] \in Driving
        <4>1. DrivingProcs = {}
          BY <2>3, <3>6 DEF DrivingProcs
        <4>2. Cardinality(DrivingProcs) = 0
          BY <4>1, FS_EmptySet
        <4> QED BY <2>1, <3>3, <3>4, <3>6, <4>2
      <3> QED BY <3>5, <3>6
    <2>8. overlaps' = 0 => \A q \in Procs : Newest(q)'
      <3>1. overlaps' = 0 => overlaps = 0
        BY <1>0, <2>1 DEF TypeOK
      <3>2. Newest(p)'
        BY <2>3 DEF Newest
      <3>3. \A q \in Procs \ {p} : Newest(q) => Newest(q)'
        BY <1>1, <1>2, <2>2 DEF Newest, Moves
      <3> QED BY <3>1, <3>2, <3>3 DEF IInv
    <2> QED BY <2>4, <2>6, <2>7, <2>8 DEF IInv
  <1> QED BY <1>3, <1>4

(* A run makes a checkpoint: the newest, and its own alone if it is alone. *)
LEMMA MakesStep ==
  ASSUME IInv, NEW p \in Procs, NEW c \in Checkpoint, Makes(p, c), Moves(p), TypeOK',
         pc[p] \in Driving, pc'[p] = "run", state'[p] = c.state, next'[p] = c.next,
         overlaps' = overlaps, ProcessSound(p)'
  PROVE  IInv'
  <1>0. TypeOK
    BY DEF IInv
  <1>1. /\ top' = top /\ Len(log') = Len(log) + 1 /\ log'[Len(log')] = [by |-> p, at |-> c]
        /\ \A q \in Procs \ {p} : Queued(q)' = Queued(q)
    BY <1>0, MakesLog
  <1>2. top \in Nat /\ Len(log) \in Nat
    BY <1>0, LogIndices
  <1>3. Cardinality(DrivingProcs)' <= 1 + overlaps'
    BY <1>0, NoMoreDriving DEF IInv
  <1>4. \A q \in Procs : ProcessSound(q)'
    <2>1. top' \in Nat /\ top' >= top
      BY <1>1, <1>2
    <2> QED BY <1>0, <1>1, <2>1, OthersSound DEF IInv
  <1>5. ASSUME overlaps = 0, NEW q \in Procs PROVE Newest(q)'
    <2>1. CASE q = p
      <3>1. c = At(state'[p], next'[p])
        BY DEF At, Checkpoint
      <3>2. log'[Len(log')].at = c /\ log'[Len(log')].by = p /\ Len(log') > 0
        BY <1>1, <1>2
      <3> QED BY <2>1, <3>1, <3>2 DEF Newest
    <2>2. CASE q # p
      <3>1. pc'[q] = pc[q]
        BY <2>2 DEF Moves
      <3>2. p \in DrivingProcs
        BY DEF DrivingProcs
      <3>3. q \notin DrivingProcs
        BY <1>0, <1>5, <2>2, <3>2, Alone DEF IInv
      <3> QED BY <3>1, <3>3 DEF Newest, DrivingProcs, Driving
    <2> QED BY <2>1, <2>2
  <1> QED BY <1>3, <1>4, <1>5 DEF IInv

LEMMA BeginStep == ASSUME IInv, NEW p \in Procs, Begin(p) PROVE IInv'
  <1>0. TypeOK /\ ProcessSound(p)
    BY DEF IInv
  <1> DEFINE c == At(state[p], next[p])
  <1>1. /\ pc[p] = "begin" /\ pc' = [pc EXCEPT ![p] = "run"] /\ Makes(p, c)
        /\ UNCHANGED <<state, next, keys, result, calls, applied, overlaps, unseen>>
    BY DEF Begin, counts
  <1>2. next[p] = "intake" /\ state[p] = SeedIncident /\ Queued(p) = {}
    BY <1>0, <1>1 DEF ProcessSound
  <1>3. c \in Checkpoint /\ c.state = state[p] /\ c.next = next[p]
    BY <1>2, SeedType DEF At, Checkpoint, Node
  <1> HIDE DEF c
  <1>4. Moves(p) /\ pc'[p] = "run" /\ pc[p] \in Driving
    <2>1. Moves(p)
      BY <1>0, <1>1, MovesBy
    <2> QED BY <1>0, <1>1, <2>1 DEF TypeOK, Driving
  <1>5. LogSound' /\ Queued(p)' # {} /\ top' = top
    BY <1>0, <1>1, <1>3, MakesLog
  <1>6. TypeOK'
    <2>1. pc' \in [Procs -> Idle \cup Driving \cup {"check"}]
      BY <1>0, <1>1 DEF TypeOK, Driving
    <2>2. \A q \in Procs : pc'[q] = "returned" => result'[q] # None
      BY <1>0, <1>1, <1>4 DEF TypeOK, Moves
    <2> QED BY <1>0, <1>1, <1>5, <2>1, <2>2 DEF TypeOK, LogSound
  <1>7. ProcessSound(p)'
    BY <1>1, <1>2, <1>4, <1>5, SeedType DEF ProcessSound
  <1> QED BY <1>1, <1>3, <1>4, <1>6, <1>7, MakesStep

(* A superstep, in terms of the node it runs: the run goes on with one     *)
(* checkpoint more, or is at END.                                          *)
LEMMA SuperstepOutcome ==
  ASSUME IInv, NEW p \in Procs, pc[p] = "run", next[p] \in Node,
         NEW out \in Outcomes(next[p], state[p], keys)
  PROVE  /\ out \in Checkpoint
         /\ Reached(out.next, out.state) /\ Leads(At(state[p], next[p]), out)
         /\ \/ /\ next[p] \in Early /\ Executed(out.state) = {}
               /\ out.state.actions = << >>
               /\ next[p] # "planner" => out.state.intents = << >>
               /\ Follows(next[p], out.next)
            \/ /\ next[p] = "coordinator" /\ out.next = "END"
               /\ state[p].intents = << >> => Executed(out.state) = {}
  <1>1. state[p] \in IncidentState /\ keys \in KeySetups /\ ProcessSound(p)
    BY DEF IInv, TypeOK
  <1>2. CASE next[p] \in Early
    <2>1. /\ state[p].intents = << >> /\ state[p].actions = << >>
          /\ Reached(next[p], state[p])
      BY <1>1, <1>2 DEF ProcessSound
    <2> QED BY <1>1, <1>2, <2>1, EarlyOutcome
  <1>3. CASE next[p] = "coordinator"
    <2>1. state[p].actions = << >> /\ Reached("coordinator", state[p])
      BY <1>1, <1>3 DEF ProcessSound
    <2>2. out \in Outcomes("coordinator", state[p], keys)
      BY <1>3
    <2>3. /\ out \in Checkpoint /\ out.next = "END"
          /\ state[p].intents = << >> => Executed(out.state) = {}
          /\ Leads(At(state[p], "coordinator"), out)
      BY <1>1, <2>1, <2>2, CoordinatorOutcome
    <2>4. Reached("END", out.state)
      BY DEF Reached
    <2> QED BY <1>3, <2>3, <2>4
  <1> QED BY <1>2, <1>3 DEF Node, Early

LEMMA SuperstepStep == ASSUME IInv, NEW p \in Procs, Superstep(p) PROVE IInv'
  <1>0. TypeOK /\ ProcessSound(p)
    BY DEF IInv
  <1>1. pc[p] = "run" /\ next[p] \in Node /\ UNCHANGED <<keys, pc, result, calls, overlaps, unseen>>
    BY DEF Superstep, counts
  <1>2. PICK out \in Outcomes(next[p], state[p], keys) :
          /\ state' = [state EXCEPT ![p] = out.state]
          /\ next' = [next EXCEPT ![p] = out.next]
          /\ Makes(p, out)
          /\ \E made \in Makings(state[p], out.state) : applied' = Count(made)
    BY DEF Superstep
  <1>3. out \in Checkpoint /\ out.state \in IncidentState /\ out.next \in Node \cup {"END"}
    <2>1. out \in Checkpoint
      BY <1>1, SuperstepOutcome
    <2> QED BY <2>1 DEF Checkpoint
  <1>4. Moves(p)
    BY <1>0, <1>1, <1>2, MovesBy
  <1>5. pc'[p] = "run" /\ state'[p] = out.state /\ next'[p] = out.next /\ pc[p] \in Driving
    BY <1>0, <1>1, <1>2 DEF TypeOK, Driving
  <1>6. LogSound' /\ Queued(p)' # {} /\ top' = top
    BY <1>0, <1>2, <1>3, MakesLog
  <1>7. TypeOK'
    <2>1. /\ state' \in [Procs -> IncidentState]
          /\ next' \in [Procs -> Node \cup {"END", "raised"}]
      BY <1>0, <1>2, <1>3 DEF TypeOK
    <2>2. applied' \in [Hashes -> Nat]
      BY <1>0, <1>2 DEF TypeOK, Count
    <2> QED BY <1>0, <1>1, <1>6, <2>1, <2>2 DEF TypeOK, LogSound
  <1>8. ProcessSound(p)'
    <2>1. /\ out.next \in Early => out.state.intents = << >> /\ out.state.actions = << >>
          /\ out.next = "coordinator" => out.state.actions = << >>
          /\ Reached(out.next, out.state)
      <3>1. CASE /\ next[p] \in Early
                 /\ out.state.actions = << >>
                 /\ next[p] # "planner" => out.state.intents = << >>
                 /\ Follows(next[p], out.next) /\ Reached(out.next, out.state)
        BY <3>1 DEF Follows, Early
      <3>2. CASE next[p] = "coordinator" /\ out.next = "END" /\ Reached(out.next, out.state)
        BY <3>2 DEF Early
      <3> QED BY <1>1, <3>1, <3>2, SuperstepOutcome
    <2> QED BY <1>1, <1>5, <1>6, <2>1 DEF ProcessSound
  <1> QED BY <1>1, <1>2, <1>3, <1>4, <1>5, <1>7, <1>8, MakesStep

LEMMA RaisesStep == ASSUME IInv, NEW p \in Procs, NodeRaises(p) PROVE IInv'
  <1>0. TypeOK /\ ProcessSound(p)
    BY DEF IInv
  <1>1. /\ pc[p] = "run" /\ next' = [next EXCEPT ![p] = "raised"]
        /\ UNCHANGED <<state, keys, pc, result, saver, calls, applied, overlaps, unseen>>
    BY DEF NodeRaises, counts
  <1>2. Moves(p)
    BY <1>0, <1>1, MovesBy
  <1>3. next'[p] = "raised" /\ pc'[p] = "run" /\ state'[p] = state[p]
    BY <1>0, <1>1 DEF TypeOK
  <1>4. LogSound' /\ UNCHANGED saver /\ top' = top /\ Queued(p)' = Queued(p)
    BY <1>0, <1>1, QuietLog
  <1>5. TypeOK'
    <2>1. next' \in [Procs -> Node \cup {"END", "raised"}]
      BY <1>0, <1>1 DEF TypeOK
    <2> QED BY <1>0, <1>1, <1>4, <2>1 DEF TypeOK, LogSound
  <1>6. ProcessSound(p)'
    <2>1. Reached("raised", state[p])
      BY DEF Reached
    <2> QED BY <1>3, <1>4, <2>1 DEF ProcessSound, Early
  <1>7. Newest(p)'
    BY <1>3 DEF Newest
  <1> QED BY <1>1, <1>2, <1>3, <1>4, <1>5, <1>6, <1>7, QuietStepOf

LEMMA PersistStep == ASSUME IInv, NEW p \in Procs, Persist(p) PROVE IInv'
  <1>0. TypeOK /\ ProcessSound(p)
    BY DEF IInv
  <1>1. /\ UNCHANGED <<state, next, keys, pc, result, calls, applied, overlaps, unseen>>
        /\ Queued(p) # {}
    BY DEF Persist, local, counts
  <1>2. /\ LogSound' /\ Len(log') = Len(log) /\ top' \in Nat /\ top' > 0
        /\ top' >= top /\ top' <= Len(log)
        /\ \A i \in DOMAIN log : log'[i].at = log[i].at
        /\ \A i \in DOMAIN log : log'[i].by = log[i].by \/ top' >= i
        /\ Queued(p)' \subseteq Queued(p)
        /\ \A q \in Procs \ {p} : Queued(q)' = Queued(q)
    BY <1>0, PersistLog
  <1>3. Moves(p)
    BY <1>1 DEF Moves
  <1>4. TypeOK'
    BY <1>0, <1>1, <1>2 DEF TypeOK, LogSound
  <1>5. ProcessSound(p)'
    BY <1>0, <1>1, <1>2 DEF ProcessSound
  <1>6. overlaps = 0 => Newest(p)'
    <2>1. Len(log) \in Nat /\ DOMAIN log = 1 .. Len(log) /\ top \in Nat
      BY <1>0, LogIndices
    <2>2. Len(log) > 0 => Len(log) \in DOMAIN log
      BY <2>1
    <2>3. Len(log) > 0 => \/ log'[Len(log)].by = log[Len(log)].by
                          \/ top' = Len(log)
      BY <1>2, <2>1, <2>2
    <2>4. top = Len(log) => top' = Len(log)
      BY <1>2, <2>1
    <2>5. ASSUME overlaps = 0, Newest(p) PROVE Newest(p)'
      BY <1>1, <1>2, <2>2, <2>3, <2>4, <2>5 DEF Newest
    <2> QED BY <2>5 DEF IInv
  <1> QED BY <1>1, <1>2, <1>3, <1>4, <1>5, <1>6, StepOf

LEMMA StreamEndsStep == ASSUME IInv, NEW p \in Procs, StreamEnds(p) PROVE IInv'
  <1>0. TypeOK /\ ProcessSound(p)
    BY DEF IInv
  <1>1. /\ pc[p] = "run" /\ next[p] = "END" /\ Queued(p) = {}
        /\ pc' = [pc EXCEPT ![p] = "readback"]
        /\ UNCHANGED <<state, next, keys, result, saver, calls, applied, overlaps, unseen>>
    BY DEF StreamEnds, counts
  <1>2. Moves(p)
    BY <1>0, <1>1, MovesBy
  <1>3. pc'[p] = "readback" /\ pc[p] \in Driving
    BY <1>0, <1>1 DEF TypeOK, Driving
  <1>4. LogSound' /\ UNCHANGED saver /\ top' = top /\ log' = log /\ Queued(p)' = Queued(p)
    BY <1>0, <1>1, QuietLog
  <1>5. TypeOK'
    <2>1. pc' \in [Procs -> Idle \cup Driving \cup {"check"}]
      BY <1>0, <1>1 DEF TypeOK, Driving
    <2>2. \A q \in Procs : pc'[q] = "returned" => result'[q] # None
      BY <1>0, <1>1, <1>2, <1>3 DEF TypeOK, Moves
    <2> QED BY <1>0, <1>1, <1>4, <2>1, <2>2 DEF TypeOK, LogSound
  <1>6. ProcessSound(p)'
    <2>1. top > 0
      BY <1>0, <1>1 DEF ProcessSound
    <2> QED BY <1>0, <1>1, <1>3, <1>4, <2>1 DEF ProcessSound, Early
  <1>7. overlaps = 0 => Newest(p)'
    <2>1. DOMAIN log = 1 .. Len(log) /\ Len(log) \in Nat
      BY <1>0, LogIndices
    <2>2. Len(log) > 0 => log[Len(log)].by # p
      BY <1>1, <2>1 DEF Queued
    <2> QED BY <1>1, <1>3, <1>4, <2>2 DEF IInv, Newest
  <1> QED BY <1>1, <1>2, <1>3, <1>4, <1>5, <1>6, <1>7, QuietStepOf

(* A call is over: the process forgets the run.                            *)
LEMMA EndsStep ==
  ASSUME IInv, NEW p \in Procs, NEW how \in Idle, Ends(p, how), UNCHANGED <<keys, overlaps>>,
         LogSound', Queued(p)' = {}, Len(log') = Len(log), top' = top,
         \A q \in Procs \ {p} : Queued(q)' = Queued(q),
         \A i \in DOMAIN log : log'[i].at = log[i].at,
         \A i \in DOMAIN log : log[i].by # p => log'[i].by = log[i].by,
         calls' = calls, applied' \in [Hashes -> Nat], unseen' \in Nat,
         \/ result' = result /\ how # "returned"
         \/ \E node \in Node \cup {"END"} :
              node # None /\ result' = [result EXCEPT ![p] = node]
  PROVE  IInv'
  <1>0. TypeOK
    BY DEF IInv
  <1>1. /\ pc' = [pc EXCEPT ![p] = how]
        /\ state' = [state EXCEPT ![p] = SeedIncident]
        /\ next' = [next EXCEPT ![p] = "intake"]
    BY DEF Ends
  <1>2. Moves(p)
    BY <1>0, <1>1, MovesBy
  <1>3. pc'[p] = how /\ state'[p] = SeedIncident /\ next'[p] = "intake"
    BY <1>0, <1>1 DEF TypeOK
  <1>4. how \notin Driving \cup {"run", "readback"}
    BY DEF Idle, Driving
  <1>5. TypeOK'
    <2>1. /\ state' \in [Procs -> IncidentState]
          /\ next' \in [Procs -> Node \cup {"END", "raised"}]
          /\ pc' \in [Procs -> Idle \cup Driving \cup {"check"}]
      BY <1>0, <1>1, SeedType DEF TypeOK, Node
    <2>2. /\ result' \in [Procs -> Node \cup {"END", None}]
          /\ how = "returned" => result'[p] # None
      BY <1>0 DEF TypeOK
    <2>3. \A q \in Procs : pc'[q] = "returned" => result'[q] # None
      BY <1>0, <1>2, <1>3, <2>2 DEF TypeOK, Moves
    <2> QED BY <1>0, <2>1, <2>2, <2>3 DEF TypeOK, LogSound
  <1>6. ProcessSound(p)'
    BY <1>3, <1>4, SeedType DEF ProcessSound
  <1>7. Newest(p)' /\ pc'[p] \notin Driving
    BY <1>3, <1>4 DEF Newest
  <1>8. top \in Nat /\ top <= Len(log)
    BY <1>0, LogIndices
  <1> QED BY <1>2, <1>5, <1>6, <1>7, <1>8, StepOf

LEMMA CallOverStep ==
  ASSUME IInv, NEW p \in Procs, RunFails(p) \/ ReadBack(p) \/ Crash(p)
  PROVE  IInv'
  <1>0. TypeOK /\ ProcessSound(p) /\ applied \in [Hashes -> Nat] /\ unseen \in Nat
    BY DEF IInv, TypeOK
  <1>1. CASE RunFails(p)
    <2>1. /\ Ends(p, "raised") /\ Queued(p) = {}
          /\ UNCHANGED <<keys, result, saver, calls, applied, overlaps, unseen>>
      BY <1>1 DEF RunFails, counts
    <2>2. LogSound' /\ top' = top /\ log' = log /\ \A q \in Procs : Queued(q)' = Queued(q)
      BY <1>0, <2>1, QuietLog
    <2>3. "raised" \in Idle /\ "raised" # "returned"
      BY DEF Idle
    <2> QED BY <1>0, <2>1, <2>2, <2>3, EndsStep
  <1>2. CASE ReadBack(p)
    <2>1. pc[p] = "readback" /\ UNCHANGED <<keys, saver, calls, applied, overlaps, unseen>>
      BY <1>2 DEF ReadBack, counts
    <2>2. cp.next \in Node \cup {"END"} /\ cp.next # None /\ cp # None /\ Queued(p) = {}
      BY <1>0, <2>1, NewestStored DEF ProcessSound
    <2>3. Ends(p, "returned") /\ result' = [result EXCEPT ![p] = cp.next]
      BY <1>2, <2>2 DEF ReadBack
    <2>4. LogSound' /\ top' = top /\ log' = log /\ \A q \in Procs : Queued(q)' = Queued(q)
      BY <1>0, <2>1, QuietLog
    <2>5. "returned" \in Idle
      BY DEF Idle
    <2> QED BY <1>0, <2>1, <2>2, <2>3, <2>4, <2>5, EndsStep
  <1>3. CASE Crash(p)
    <2>1. Ends(p, "crashed") /\ UNCHANGED <<keys, result, calls, overlaps>>
      BY <1>3 DEF Crash
    <2>2. applied' \in [Hashes -> Nat] /\ unseen' \in Nat
      BY <1>0, <1>3 DEF Crash, AppliedBeforeCrash, Count
    <2>3. "crashed" \in Idle /\ "crashed" # "returned"
      BY DEF Idle
    <2> QED BY <1>0, <1>3, <2>1, <2>2, <2>3, CrashLog, EndsStep
  <1> QED BY <1>1, <1>2, <1>3

LEMMA StepHolds == IInv /\ [Next]_vars => IInv'
  <1> SUFFICES ASSUME IInv, [Next]_vars PROVE IInv'
    OBVIOUS
  <1>1. ASSUME UNCHANGED vars PROVE IInv'
    <2>1. UNCHANGED <<state, next, keys, pc, result, log, top, calls, applied, overlaps, unseen>>
      BY <1>1 DEF vars, local, saver, counts
    <2>2. TypeOK'
      BY <2>1 DEF IInv, TypeOK
    <2>3. /\ \A p \in Procs : Queued(p)' = Queued(p)
          /\ DrivingProcs' = DrivingProcs
      BY <2>1 DEF Queued, DrivingProcs
    <2> QED BY <2>1, <2>2, <2>3 DEF IInv, ProcessSound, Newest
  <1>2. ASSUME NEW p \in Procs,
               \/ Call(p) \/ Check(p) \/ Begin(p) \/ Superstep(p) \/ NodeRaises(p)
               \/ Persist(p) \/ StreamEnds(p) \/ RunFails(p) \/ ReadBack(p) \/ Crash(p)
        PROVE  IInv'
    BY <1>2, CallStep, CheckStep, BeginStep, SuperstepStep, RaisesStep, PersistStep,
       StreamEndsStep, CallOverStep
  <1> QED BY <1>1, <1>2 DEF Next, Ended

LEMMA Invariance == Spec => []IInv
  BY InitHolds, StepHolds, PTL DEF Spec

(* Calls, runs and checkpoints keep their types, for any processes.        *)
THEOREM TypeCorrect == Spec => []TypeOK
  <1>1. IInv => TypeOK
    BY DEF IInv
  <1> QED BY <1>1, Invariance, PTL

(* A call that drove the graph reads its own end back, however far the     *)
(* saver lags, if no call drove beside another; it never reads nothing.    *)
THEOREM ReadsItsEnd == Spec => []ReadsBackItsEnd
  <1>1. ASSUME IInv PROVE ReadsBackItsEnd
    <2>1. SUFFICES ASSUME NEW p \in Procs, pc[p] = "readback"
                   PROVE  cp # None /\ (overlaps = 0 => cp = At(state[p], "END"))
      BY DEF ReadsBackItsEnd
    <2>2. next[p] = "END" /\ top > 0
      BY <1>1, <2>1 DEF IInv, ProcessSound
    <2>3. cp # None /\ cp = log[top].at
      BY <1>1, <2>2, NewestStored DEF IInv
    <2>4. overlaps = 0 => top = Len(log) /\ log[Len(log)].at = At(state[p], "END")
      BY <1>1, <2>1, <2>2 DEF IInv, Newest
    <2> QED BY <2>3, <2>4
  <1> QED BY <1>1, Invariance, PTL
----------------------------------------------------------------------------
(* Executed again only unseen.  A call that is on its way to the           *)
(* Coordinator may still execute an intent, once; and as long as Postgres  *)
(* has nothing, what was executed was by runs that are at END and still    *)
(* wait for the saver, or by runs whose crash left no trace.               *)

Able  == {p \in Procs : pc[p] = "begin" \/ (pc[p] = "run" /\ next[p] \in Node)}
AtEnd == {p \in Procs : pc[p] = "run" /\ next[p] = "END"}

ExecutionsCounted ==
  /\ \A a \in Hashes : applied[a] + Cardinality(Able) <= 1 + overlaps + unseen
  /\ top = 0 => \A a \in Hashes : applied[a] <= Cardinality(AtEnd) + unseen

(* Some processes, counted.                                                *)
LEMMA ProcsCounted ==
  ASSUME NEW S \in SUBSET Procs
  PROVE  /\ IsFiniteSet(S) /\ Cardinality(S) \in Nat
         /\ \A R \in SUBSET S : Cardinality(R) \in Nat /\ Cardinality(R) <= Cardinality(S)
         /\ \A p \in S : Cardinality(S \ {p}) = Cardinality(S) - 1
         /\ \A p \in Procs \ S : Cardinality(S \cup {p}) = Cardinality(S) + 1
  <1>1. IsFiniteSet(S) /\ Cardinality(S) \in Nat
    BY ProcsAssumption, FS_Subset, FS_CardinalityType
  <1>2. \A R \in SUBSET S : Cardinality(R) \in Nat /\ Cardinality(R) <= Cardinality(S)
    BY <1>1, FS_Subset, FS_CardinalityType
  <1>3. \A p \in S : Cardinality(S \ {p}) = Cardinality(S) - 1
    BY <1>1, FS_RemoveElement
  <1>4. \A p \in Procs \ S : Cardinality(S \cup {p}) = Cardinality(S) + 1
    BY <1>1, FS_AddElement
  <1> QED BY <1>1, <1>2, <1>3, <1>4

LEMMA CountTypes ==
  ASSUME TypeOK
  PROVE  /\ top \in Nat /\ overlaps \in Nat /\ unseen \in Nat
         /\ applied \in [Hashes -> Nat] /\ \A a \in Hashes : applied[a] \in Nat
         /\ Able \in SUBSET Procs /\ Cardinality(Able) \in Nat
         /\ AtEnd \in SUBSET Procs /\ Cardinality(AtEnd) \in Nat
  <1>1. Able \in SUBSET Procs /\ AtEnd \in SUBSET Procs
    BY DEF Able, AtEnd
  <1> QED BY <1>1, ProcsCounted, LogIndices DEF TypeOK

(* Nobody executes and nobody comes to drive.                              *)
LEMMA NothingExecuted ==
  ASSUME TypeOK, TypeOK', ExecutionsCounted, UNCHANGED <<applied, overlaps, unseen>>,
         Able' \subseteq Able, top' = 0 => top = 0 /\ AtEnd \subseteq AtEnd'
  PROVE  ExecutionsCounted'
  <1>1. /\ overlaps \in Nat /\ unseen \in Nat /\ \A a \in Hashes : applied[a] \in Nat
        /\ Able \in SUBSET Procs /\ Cardinality(Able) \in Nat /\ Cardinality(AtEnd) \in Nat
    BY CountTypes
  <1>2. /\ Able' \in SUBSET Procs /\ Cardinality(Able') \in Nat
        /\ AtEnd' \in SUBSET Procs /\ Cardinality(AtEnd') \in Nat
    <2>1. Able' \in SUBSET Procs /\ AtEnd' \in SUBSET Procs
      BY DEF Able, AtEnd
    <2> QED BY <2>1, ProcsCounted
  <1>3. Cardinality(Able') <= Cardinality(Able)
    BY <1>1, ProcsCounted
  <1>4. top' = 0 => top = 0 /\ Cardinality(AtEnd) <= Cardinality(AtEnd')
    BY <1>2, ProcsCounted
  <1>5. ASSUME NEW a \in Hashes
        PROVE  /\ applied[a] + Cardinality(Able') <= 1 + overlaps + unseen
               /\ top' = 0 => applied[a] <= Cardinality(AtEnd') + unseen
    BY <1>1, <1>2, <1>3, <1>4 DEF ExecutionsCounted
  <1> QED BY <1>5 DEF ExecutionsCounted

(* The Coordinator executes what it holds, once, and with that its process *)
(* is at END, or has crashed; if Postgres has nothing, unseen.             *)
LEMMA OneExecutes ==
  ASSUME TypeOK, TypeOK', ExecutionsCounted, NEW p \in Procs,
         pc[p] = "run", next[p] = "coordinator", Able' \subseteq Able \ {p},
         NEW hashes, applied' = Count(hashes), overlaps' = overlaps, top' = top,
         \/ unseen' = unseen /\ AtEnd \cup {p} \subseteq AtEnd'
         \/ unseen' = unseen + 1 /\ AtEnd \subseteq AtEnd'
         \/ unseen' = unseen /\ top > 0
  PROVE  ExecutionsCounted'
  <1>1. /\ overlaps \in Nat /\ unseen \in Nat /\ top \in Nat /\ applied \in [Hashes -> Nat]
        /\ Able \in SUBSET Procs /\ Cardinality(Able) \in Nat
        /\ AtEnd \in SUBSET Procs /\ Cardinality(AtEnd) \in Nat
    BY CountTypes
  <1>2. \A a \in Hashes : /\ applied[a] \in Nat /\ applied'[a] \in Nat
                          /\ applied'[a] <= applied[a] + 1
    BY <1>1 DEF Count
  <1>3. /\ Able' \in SUBSET Procs /\ Cardinality(Able') \in Nat
        /\ AtEnd' \in SUBSET Procs /\ Cardinality(AtEnd') \in Nat
    <2>1. Able' \in SUBSET Procs /\ AtEnd' \in SUBSET Procs
      BY DEF Able, AtEnd
    <2> QED BY <2>1, ProcsCounted
  <1>4. Cardinality(Able') <= Cardinality(Able) - 1
    <2>1. p \in Able /\ Able \ {p} \in SUBSET Procs
      BY <1>1 DEF Able, Node
    <2>2. Cardinality(Able \ {p}) = Cardinality(Able) - 1
      BY <1>1, <2>1, ProcsCounted
    <2>3. Cardinality(Able') <= Cardinality(Able \ {p})
      BY <2>1, ProcsCounted
    <2> QED BY <2>2, <2>3
  <1>5. top = 0 => Cardinality(AtEnd) + unseen + 1 <= Cardinality(AtEnd') + unseen'
    <2>1. CASE unseen' = unseen /\ AtEnd \cup {p} \subseteq AtEnd'
      <3>1. p \in Procs \ AtEnd
        BY DEF AtEnd
      <3>2. Cardinality(AtEnd \cup {p}) = Cardinality(AtEnd) + 1
        BY <1>1, <3>1, ProcsCounted
      <3>3. Cardinality(AtEnd \cup {p}) <= Cardinality(AtEnd')
        BY <1>3, <2>1, ProcsCounted
      <3> QED BY <1>1, <1>3, <2>1, <3>2, <3>3
    <2>2. CASE unseen' = unseen + 1 /\ AtEnd \subseteq AtEnd'
      <3>1. Cardinality(AtEnd) <= Cardinality(AtEnd')
        BY <1>3, <2>2, ProcsCounted
      <3> QED BY <1>1, <1>3, <2>2, <3>1
    <2>3. CASE top > 0
      BY <1>1, <2>3
    <2> QED BY <2>1, <2>2, <2>3
  <1>6. unseen' \in Nat /\ unseen' >= unseen
    BY <1>1
  <1>7. ASSUME NEW a \in Hashes
        PROVE  /\ applied'[a] + Cardinality(Able') <= 1 + overlaps + unseen'
               /\ top' = 0 => applied'[a] <= Cardinality(AtEnd') + unseen'
    <2>1. /\ applied[a] + Cardinality(Able) <= 1 + overlaps + unseen
          /\ top = 0 => applied[a] <= Cardinality(AtEnd) + unseen
      BY DEF ExecutionsCounted
    <2> QED BY <1>1, <1>2, <1>3, <1>4, <1>5, <1>6, <2>1
  <1> QED BY <1>7 DEF ExecutionsCounted

(* A call comes to drive: where nobody else does, all that was executed    *)
(* was so unseen.                                                          *)
LEMMA CheckCounted ==
  ASSUME IInv, TypeOK', ExecutionsCounted, NEW p \in Procs, Check(p)
  PROVE  ExecutionsCounted'
  <1>0. TypeOK
    BY DEF IInv
  <1>1. pc[p] = "check" /\ UNCHANGED <<state, next, keys, saver, calls, applied, unseen>>
    BY DEF Check
  <1>2. top' = top
    BY <1>1 DEF saver
  <1>3. CASE cp # None
    <2>1. pc' = [pc EXCEPT ![p] = "returned"] /\ overlaps' = overlaps
      BY <1>3 DEF Check, ReturnsPrior
    <2>2. Able' \subseteq Able /\ AtEnd \subseteq AtEnd'
      BY <1>0, <1>1, <2>1 DEF Able, AtEnd, TypeOK
    <2> QED BY <1>0, <1>1, <1>2, <2>1, <2>2, NothingExecuted
  <1>4. CASE cp = None
    <2>1. /\ pc' = [pc EXCEPT ![p] = "begin"]
          /\ overlaps' = IF \E q \in Procs \ {p} : pc[q] \in Driving
                           THEN overlaps + 1 ELSE overlaps
      BY <1>4 DEF Check, DrivesOn
    <2>2. top = 0
      BY <1>0, <1>4, LogIndices, NewestStored
    <2>3. Able' = Able \cup {p} /\ p \in Procs \ Able /\ AtEnd' = AtEnd
      BY <1>0, <1>1, <2>1 DEF Able, AtEnd, TypeOK
    <2>4. /\ overlaps \in Nat /\ unseen \in Nat /\ \A a \in Hashes : applied[a] \in Nat
          /\ Able \in SUBSET Procs /\ Cardinality(Able) \in Nat /\ Cardinality(AtEnd) \in Nat
      BY <1>0, CountTypes
    <2>5. Cardinality(Able') = Cardinality(Able) + 1
      BY <2>3, <2>4, ProcsCounted
    <2>6. ASSUME NEW a \in Hashes
          PROVE  /\ applied[a] + Cardinality(Able') <= 1 + overlaps' + unseen
                 /\ applied[a] <= Cardinality(AtEnd') + unseen
      <3>1. /\ applied[a] + Cardinality(Able) <= 1 + overlaps + unseen
            /\ applied[a] <= Cardinality(AtEnd) + unseen
        BY <2>2 DEF ExecutionsCounted
      <3>2. CASE \E q \in Procs \ {p} : pc[q] \in Driving
        BY <2>1, <2>3, <2>4, <2>5, <3>1, <3>2
      <3>3. CASE ~ \E q \in Procs \ {p} : pc[q] \in Driving
        <4>1. Able = {} /\ AtEnd = {}
          BY <1>1, <3>3 DEF Able, AtEnd, Driving
        <4>2. Cardinality(Able) = 0 /\ Cardinality(AtEnd) = 0
          BY <4>1, FS_EmptySet
        <4> QED BY <2>1, <2>3, <2>4, <2>5, <3>1, <3>3, <4>2
      <3> QED BY <3>2, <3>3
    <2> QED BY <1>1, <2>6 DEF ExecutionsCounted
  <1> QED BY <1>3, <1>4

(* Only the Coordinator executes.                                          *)
LEMMA SuperstepCounted ==
  ASSUME IInv, TypeOK', ExecutionsCounted, NEW p \in Procs, Superstep(p)
  PROVE  ExecutionsCounted'
  <1>0. TypeOK
    BY DEF IInv
  <1>1. pc[p] = "run" /\ next[p] \in Node /\ UNCHANGED <<pc, overlaps, unseen>>
    BY DEF Superstep, counts
  <1>2. PICK out \in Outcomes(next[p], state[p], keys) :
          /\ next' = [next EXCEPT ![p] = out.next] /\ top' = top
          /\ \E made \in Makings(state[p], out.state) : applied' = Count(made)
    BY DEF Superstep, Makes
  <1>3. PICK made \in Makings(state[p], out.state) : applied' = Count(made)
    BY <1>2
  <1>4. CASE next[p] \in Early
    <2>1. /\ Executed(out.state) = {} /\ out.state.actions = << >>
          /\ Follows(next[p], out.next)
      BY <1>1, <1>4, SuperstepOutcome DEF Early
    <2>2. Failed(out.state) = {}
      BY <2>1 DEF Failed
    <2>3. made = {}
      BY <2>1, <2>2 DEF Makings
    <2>4. applied' = applied
      BY <1>0, <1>3, <2>3 DEF Count, TypeOK
    <2>5. out.next \in Node
      BY <2>1 DEF Follows, Node
    <2>6. Able' \subseteq Able /\ AtEnd \subseteq AtEnd'
      BY <1>0, <1>1, <1>2, <2>5 DEF Able, AtEnd, TypeOK, Node
    <2> QED BY <1>0, <1>1, <1>2, <2>4, <2>6, NothingExecuted
  <1>5. CASE next[p] = "coordinator"
    <2>1. out.next = "END"
      BY <1>1, <1>5, SuperstepOutcome DEF Early
    <2>2. Able' \subseteq Able \ {p} /\ AtEnd \cup {p} \subseteq AtEnd'
      BY <1>0, <1>1, <1>2, <2>1 DEF Able, AtEnd, TypeOK, Node
    <2> QED BY <1>0, <1>1, <1>2, <1>3, <1>5, <2>2, OneExecutes
  <1> QED BY <1>1, <1>4, <1>5 DEF Node, Early

(* A crash is counted if no later call can know of it.                     *)
LEMMA CrashCounted ==
  ASSUME IInv, TypeOK', ExecutionsCounted, NEW p \in Procs, Crash(p)
  PROVE  ExecutionsCounted'
  <1>0. TypeOK /\ top \in Nat
    BY LogIndices DEF IInv
  <1>1. /\ pc' = [pc EXCEPT ![p] = "crashed"] /\ next' = [next EXCEPT ![p] = "intake"]
        /\ top' = top /\ overlaps' = overlaps /\ AppliedBeforeCrash(p)
        /\ unseen' = IF LeavesNoTrace(p) THEN unseen + 1 ELSE unseen
    BY DEF Crash, Ends
  <1>2. Able' \subseteq Able \ {p} /\ AtEnd \ {p} \subseteq AtEnd'
    BY <1>0, <1>1 DEF Able, AtEnd, TypeOK
  <1>3. cp = None <=> top = 0
    BY <1>0, NewestStored
  <1>4. CASE pc[p] = "run" /\ next[p] = "coordinator"
    <2>1. \E hashes : applied' = Count(hashes)
      <3>1. CASE applied' = applied
        <4>1. Count({}) = applied
          BY <1>0 DEF Count, TypeOK
        <4> QED BY <3>1, <4>1
      <3>2. CASE applied' # applied
        BY <1>1, <3>2 DEF AppliedBeforeCrash
      <3> QED BY <3>1, <3>2
    <2>2. PICK hashes : applied' = Count(hashes)
      BY <2>1
    <2>3. AtEnd \subseteq AtEnd'
      BY <1>2, <1>4 DEF AtEnd
    <2>4. \/ unseen' = unseen + 1
          \/ unseen' = unseen /\ top > 0
      BY <1>0, <1>1, <1>3, <1>4 DEF LeavesNoTrace
    <2> QED BY <1>0, <1>1, <1>2, <1>4, <2>2, <2>3, <2>4, OneExecutes
  <1>5. CASE ~ (pc[p] = "run" /\ next[p] \in {"coordinator", "END"})
    <2>1. applied' = applied /\ unseen' = unseen
      BY <1>1, <1>5 DEF AppliedBeforeCrash, LeavesNoTrace
    <2>2. AtEnd \subseteq AtEnd'
      BY <1>2, <1>5 DEF AtEnd
    <2> QED BY <1>0, <1>1, <1>2, <2>1, <2>2, NothingExecuted
  <1>6. CASE pc[p] = "run" /\ next[p] = "END"
    <2>1. applied' = applied
      BY <1>1, <1>6 DEF AppliedBeforeCrash
    <2>2. CASE top > 0
      <3>1. unseen' = unseen
        BY <1>1, <1>3, <2>2 DEF LeavesNoTrace
      <3> QED BY <1>0, <1>1, <1>2, <2>1, <2>2, <3>1, NothingExecuted
    <2>3. CASE top = 0
      <3>1. unseen' = unseen + 1
        BY <1>1, <1>3, <1>6, <2>3 DEF LeavesNoTrace
      <3>2. /\ overlaps \in Nat /\ unseen \in Nat /\ \A a \in Hashes : applied[a] \in Nat
            /\ Able \in SUBSET Procs /\ Cardinality(Able) \in Nat
            /\ AtEnd \in SUBSET Procs /\ Cardinality(AtEnd) \in Nat
        BY <1>0, CountTypes
      <3>3. Cardinality(Able') \in Nat /\ Cardinality(Able') <= Cardinality(Able)
        BY <1>2, <3>2, ProcsCounted
      <3>4. Cardinality(AtEnd') \in Nat /\ Cardinality(AtEnd) - 1 <= Cardinality(AtEnd')
        <4>1. p \in AtEnd /\ AtEnd' \in SUBSET Procs
          BY <1>6 DEF AtEnd
        <4>2. Cardinality(AtEnd \ {p}) = Cardinality(AtEnd) - 1
          BY <3>2, <4>1, ProcsCounted
        <4> QED BY <1>2, <4>1, <4>2, ProcsCounted
      <3>5. ASSUME NEW a \in Hashes
            PROVE  /\ applied[a] + Cardinality(Able') <= 1 + overlaps + unseen'
                   /\ applied[a] <= Cardinality(AtEnd') + unseen'
        <4>1. /\ applied[a] + Cardinality(Able) <= 1 + overlaps + unseen
              /\ applied[a] <= Cardinality(AtEnd) + unseen
          BY <2>3 DEF ExecutionsCounted
        <4> QED BY <3>1, <3>2, <3>3, <3>4, <4>1
      <3> QED BY <1>1, <2>1, <3>5 DEF ExecutionsCounted
    <2> QED BY <1>0, <2>2, <2>3
  <1> QED BY <1>4, <1>5, <1>6

LEMMA ExecutionStep ==
  IInv /\ IInv' /\ ExecutionsCounted /\ [Next]_vars => ExecutionsCounted'
  <1> SUFFICES ASSUME IInv, IInv', ExecutionsCounted, [Next]_vars PROVE ExecutionsCounted'
    OBVIOUS
  <1>0. TypeOK /\ TypeOK' /\ top \in Nat
    BY LogIndices DEF IInv
  <1>1. ASSUME NEW p \in Procs, Check(p) \/ Superstep(p) \/ Crash(p)
        PROVE  ExecutionsCounted'
    BY <1>0, <1>1, CheckCounted, SuperstepCounted, CrashCounted
  <1>2. ASSUME NEW p \in Procs,
               Call(p) \/ Begin(p) \/ NodeRaises(p) \/ RunFails(p) \/ ReadBack(p)
        PROVE  ExecutionsCounted'
    <2>1. UNCHANGED <<applied, overlaps, unseen>> /\ top' = top
      BY <1>2 DEF Call, Begin, Makes, NodeRaises, RunFails, ReadBack, saver, counts
    <2>2. Able' \subseteq Able /\ AtEnd \subseteq AtEnd'
      <3>1. CASE Begin(p)
        <4>1. pc[p] = "begin" /\ pc' = [pc EXCEPT ![p] = "run"] /\ next' = next
          BY <3>1 DEF Begin
        <4> QED BY <1>0, <4>1 DEF Able, AtEnd, TypeOK
      <3>2. CASE NodeRaises(p)
        <4>1. /\ pc[p] = "run" /\ next[p] # "END"
              /\ pc' = pc /\ next' = [next EXCEPT ![p] = "raised"]
          BY <3>2 DEF NodeRaises, MayRaise
        <4> QED BY <1>0, <4>1 DEF Able, AtEnd, TypeOK, Node
      <3>3. CASE Call(p)
        <4>1. pc[p] # "run" /\ next' = next /\ pc' = [pc EXCEPT ![p] = "check"]
          BY <3>3 DEF Call, Idle
        <4> QED BY <1>0, <4>1 DEF Able, AtEnd, TypeOK
      <3>4. CASE RunFails(p) \/ ReadBack(p)
        <4>1. PICK how \in {"raised", "returned", "lost"} :
                /\ pc' = [pc EXCEPT ![p] = how] /\ next' = [next EXCEPT ![p] = "intake"]
          BY <3>4 DEF RunFails, ReadBack, Ends
        <4>2. p \notin AtEnd
          BY <3>4 DEF RunFails, ReadBack, AtEnd
        <4> QED BY <1>0, <4>1, <4>2 DEF Able, AtEnd, TypeOK
      <3> QED BY <1>2, <3>1, <3>2, <3>3, <3>4
    <2> QED BY <1>0, <2>1, <2>2, NothingExecuted
  <1>3. ASSUME NEW p \in Procs, StreamEnds(p) PROVE ExecutionsCounted'
    <2>1. /\ pc[p] = "run" /\ next[p] = "END" /\ Queued(p) = {}
          /\ next' = next /\ pc' = [pc EXCEPT ![p] = "readback"]
          /\ UNCHANGED <<saver, applied, overlaps, unseen>>
      BY <1>3 DEF StreamEnds, counts
    <2>2. top > 0
      BY <2>1 DEF IInv, ProcessSound
    <2>3. Able' \subseteq Able
      BY <1>0, <2>1 DEF Able, TypeOK
    <2>4. top' = top
      BY <2>1 DEF saver
    <2> QED BY <1>0, <2>1, <2>2, <2>3, <2>4, NothingExecuted
  <1>4. ASSUME NEW p \in Procs, Persist(p) PROVE ExecutionsCounted'
    <2>1. UNCHANGED <<pc, next, applied, overlaps, unseen>>
      BY <1>4 DEF Persist, local, counts
    <2>2. Able' = Able
      BY <2>1 DEF Able
    <2>3. top' > 0 /\ top' \in Nat
      BY <1>0, <1>4, PersistLog
    <2> QED BY <1>0, <2>1, <2>2, <2>3, NothingExecuted
  <1>5. ASSUME UNCHANGED vars PROVE ExecutionsCounted'
    BY <1>5 DEF vars, local, saver, counts, ExecutionsCounted, Able, AtEnd
  <1> QED BY <1>1, <1>2, <1>3, <1>4, <1>5 DEF Next, Ended

(* However often run_once is called and wherever a call crashes, an intent *)
(* is executed once, and again at most once for each call that drove       *)
(* beside another and each crash that left no trace of its run: for any    *)
(* number of processes and calls, and however far the saver lags.          *)
THEOREM ExecutesOnce == Spec => []ReexecutedOnlyUnseen
  <1>1. Init => ExecutionsCounted
    <2> SUFFICES ASSUME Init PROVE ExecutionsCounted
      OBVIOUS
    <2>1. Able = {} /\ AtEnd = {}
      BY DEF Init, Able, AtEnd
    <2>2. Cardinality(Able) = 0 /\ Cardinality(AtEnd) = 0
      BY <2>1, FS_EmptySet
    <2> QED BY <2>2 DEF Init, ExecutionsCounted
  <1>2. ASSUME IInv, ExecutionsCounted PROVE ReexecutedOnlyUnseen
    <2>1. /\ overlaps \in Nat /\ unseen \in Nat /\ \A a \in Hashes : applied[a] \in Nat
          /\ Cardinality(Able) \in Nat
      BY <1>2, CountTypes DEF IInv
    <2> QED BY <1>2, <2>1 DEF ExecutionsCounted, ReexecutedOnlyUnseen
  <1>3. IInv /\ IInv' /\ ExecutionsCounted /\ [Next]_vars => ExecutionsCounted'
    BY ExecutionStep
  <1> QED BY <1>1, <1>2, <1>3, Invariance, PTL DEF Spec
----------------------------------------------------------------------------
(* The lifecycle that a reader of the checkpoints sees.  While no two runs *)
(* overlap, the run that drives has its checkpoints in a row at the end of *)
(* the log: the newest in Postgres and those to write, each leading to the *)
(* next, from its input on.  Postgres has nothing before it begins.        *)

Trail(p) == Queued(p) \cup ({top} \ {0})

TrailSound(p) ==
  /\ \A i \in Queued(p) : i > top
  /\ \A i \in Trail(p) : i .. Len(log) \subseteq Trail(p)
  /\ Len(log) \in Trail(p)
  /\ \A i \in Trail(p) : i + 1 \in Trail(p) => Leads(log[i].at, log[i + 1].at)
  /\ top = 0 => \A i \in Trail(p) :
                  i - 1 \notin Trail(p) => log[i].at = At(SeedIncident, "intake")

InOrder ==
  overlaps = 0 => \A p \in Procs : /\ pc[p] = "begin" => top = 0
                                   /\ pc[p] = "run" => TrailSound(p)

LEMMA TrailInLog ==
  ASSUME TypeOK, NEW p \in Procs
  PROVE  /\ Trail(p) \subseteq 1 .. Len(log) /\ Queued(p) \subseteq 1 .. Len(log)
         /\ Len(log) \in Nat /\ DOMAIN log = 1 .. Len(log)
         /\ top \in Nat /\ top <= Len(log)
  <1>1. /\ Len(log) \in Nat /\ DOMAIN log = 1 .. Len(log) /\ Queued(p) \subseteq 1 .. Len(log)
        /\ top \in Nat /\ top <= Len(log)
    BY LogIndices
  <1> QED BY <1>1 DEF Trail

(* A step that writes nothing and makes nothing leaves the row as it is.   *)
LEMMA TrailKept ==
  ASSUME TypeOK, NEW p \in Procs, TrailSound(p), Queued(p)' = Queued(p), top' = top,
         Len(log') = Len(log), \A i \in DOMAIN log : log'[i].at = log[i].at
  PROVE  TrailSound(p)'
  <1>1. Trail(p)' = Trail(p)
    BY DEF Trail
  <1>2. \A i \in Trail(p) : i \in DOMAIN log
    BY TrailInLog
  <1> QED BY <1>1, <1>2 DEF TrailSound

(* A checkpoint that the newest leads to, or the input, makes it longer.   *)
LEMMA TrailGrows ==
  ASSUME TypeOK, NEW p \in Procs, NEW c \in Checkpoint, Makes(p, c),
         \/ top = 0 /\ Queued(p) = {} /\ c = At(SeedIncident, "intake")
         \/ TrailSound(p) /\ Leads(log[Len(log)].at, c)
  PROVE  TrailSound(p)'
  <1> DEFINE n == Len(log) + 1
  <1>1. /\ top' = top /\ Len(log') = n /\ log'[n].at = c
        /\ \A i \in 1 .. Len(log) : log'[i] = log[i]
        /\ Queued(p)' = Queued(p) \cup {n}
    <2>1. /\ top' = top /\ Len(log') = n /\ log'[Len(log')] = [by |-> p, at |-> c]
          /\ \A i \in 1 .. Len(log) : log'[i] = log[i]
          /\ Queued(p)' = Queued(p) \cup {n}
      BY MakesLog
    <2> HIDE DEF n
    <2> QED BY <2>1
  <1>2. /\ Trail(p) \subseteq 1 .. Len(log) /\ Queued(p) \subseteq 1 .. Len(log)
        /\ Len(log) \in Nat /\ top \in Nat /\ top <= Len(log)
    BY TrailInLog
  <1>3. Trail(p)' = Trail(p) \cup {n}
    BY <1>1 DEF Trail
  <1>4. \A i \in Queued(p)' : i > top'
    BY <1>1, <1>2 DEF TrailSound
  <1>5. \A i \in Trail(p)' : i .. Len(log') \subseteq Trail(p)'
    <2>1. SUFFICES ASSUME NEW i \in Trail(p), TrailSound(p) PROVE i .. n \subseteq Trail(p)'
      BY <1>1, <1>2, <1>3 DEF Trail
    <2>2. i .. Len(log) \subseteq Trail(p) /\ i \in 1 .. Len(log)
      BY <1>2, <2>1 DEF TrailSound
    <2>3. i .. n = (i .. Len(log)) \cup {n}
      BY <1>2, <2>2
    <2> QED BY <1>3, <2>2, <2>3
  <1>6. Len(log') \in Trail(p)'
    BY <1>1, <1>3
  <1>7. ASSUME NEW i \in Trail(p)', i + 1 \in Trail(p)'
        PROVE  Leads(log'[i].at, log'[i + 1].at)
    <2>1. i \in Trail(p) /\ i \in 1 .. Len(log)
      BY <1>2, <1>3, <1>7
    <2>2. TrailSound(p) /\ Leads(log[Len(log)].at, c)
      BY <2>1 DEF Trail
    <2>3. CASE i = Len(log)
      BY <1>1, <2>1, <2>2, <2>3
    <2>4. CASE i # Len(log)
      <3>1. i + 1 \in Trail(p) /\ i + 1 \in 1 .. Len(log)
        BY <1>2, <1>3, <1>7, <2>1, <2>4
      <3>2. Leads(log[i].at, log[i + 1].at)
        BY <2>1, <2>2, <3>1 DEF TrailSound
      <3> QED BY <1>1, <2>1, <3>1, <3>2
    <2> QED BY <2>3, <2>4
  <1>8. ASSUME top' = 0, NEW i \in Trail(p)', i - 1 \notin Trail(p)'
        PROVE  log'[i].at = At(SeedIncident, "intake")
    <2>1. CASE TrailSound(p)
      <3>1. Len(log) \in Trail(p) /\ Len(log) = n - 1
        BY <1>2, <2>1 DEF TrailSound
      <3>2. i \in Trail(p) /\ i - 1 \notin Trail(p) /\ i \in 1 .. Len(log)
        BY <1>2, <1>3, <1>8, <3>1
      <3>3. log[i].at = At(SeedIncident, "intake")
        BY <1>1, <1>8, <2>1, <3>2 DEF TrailSound
      <3> QED BY <1>1, <3>2, <3>3
    <2>2. CASE Queued(p) = {} /\ top = 0 /\ c = At(SeedIncident, "intake")
      <3>1. i = n
        BY <1>3, <2>2 DEF Trail
      <3> QED BY <1>1, <2>2, <3>1
    <2> QED BY <2>1, <2>2
  <1> QED BY <1>4, <1>5, <1>6, <1>7, <1>8 DEF TrailSound

(* What the saver writes is the input of the run, or the checkpoint after  *)
(* the newest in Postgres.                                                 *)
LEMMA WritesNext ==
  ASSUME TypeOK, NEW p \in Procs, TrailSound(p), Persist(p)
  PROVE  /\ top' \in Trail(p) /\ top' \in 1 .. Len(log)
         /\ Queued(p)' = Queued(p) \ {top'}
         /\ \/ top = 0 /\ top' - 1 \notin Trail(p) /\ \A k \in Queued(p) : top' <= k
            \/ top > 0 /\ top' = top + 1
  <1>1. /\ Trail(p) \subseteq 1 .. Len(log) /\ Queued(p) \subseteq 1 .. Len(log)
        /\ Len(log) \in Nat /\ top \in Nat /\ top <= Len(log)
    BY TrailInLog
  <1>2. PICK i \in Queued(p) :
          /\ \A k \in Queued(p) : i <= k
          /\ Queued(p)' = Queued(p) \ {i} /\ top' = IF i > top THEN i ELSE top
    BY PersistLog
  <1>3. i > top /\ top' = i /\ i \in Trail(p) /\ i \in 1 .. Len(log)
    BY <1>1, <1>2 DEF TrailSound, Trail
  <1>4. CASE top = 0
    <2>1. i - 1 \notin Queued(p) /\ Trail(p) = Queued(p)
      BY <1>1, <1>2, <1>3, <1>4 DEF Trail
    <2> QED BY <1>2, <1>3, <1>4, <2>1
  <1>5. CASE top > 0
    <2>1. top \in Trail(p)
      BY <1>1, <1>5 DEF Trail
    <2>2. top + 1 \in top .. Len(log)
      BY <1>1, <1>3
    <2>3. top + 1 \in Trail(p)
      BY <2>1, <2>2 DEF TrailSound
    <2>4. top + 1 \in Queued(p)
      BY <1>1, <2>3 DEF Trail
    <2>5. i <= top + 1
      BY <1>2, <2>4
    <2> QED BY <1>1, <1>2, <1>3, <1>5, <2>5
  <1> QED BY <1>1, <1>2, <1>3, <1>4, <1>5

LEMMA TrailWritten ==
  ASSUME TypeOK, NEW p \in Procs, TrailSound(p), Persist(p)
  PROVE  TrailSound(p)'
  <1>1. /\ Trail(p) \subseteq 1 .. Len(log) /\ Queued(p) \subseteq 1 .. Len(log)
        /\ Len(log) \in Nat /\ DOMAIN log = 1 .. Len(log) /\ top \in Nat /\ top <= Len(log)
    BY TrailInLog
  <1>2. /\ top' \in Trail(p) /\ top' \in 1 .. Len(log)
        /\ Queued(p)' = Queued(p) \ {top'}
        /\ \/ top = 0 /\ \A k \in Queued(p) : top' <= k
           \/ top > 0 /\ top' = top + 1
    BY WritesNext
  <1>3. Len(log') = Len(log) /\ \A i \in 1 .. Len(log) : log'[i].at = log[i].at
    BY <1>1, PersistLog
  <1>4. /\ Trail(p)' \subseteq Trail(p) /\ \A i \in Trail(p)' : i >= top'
        /\ \A i \in Trail(p) : i >= top' => i \in Trail(p)'
    <2>1. Trail(p)' = (Queued(p) \ {top'}) \cup {top'}
      BY <1>2 DEF Trail
    <2>2. \A i \in Queued(p) : i > top
      BY DEF TrailSound
    <2> QED BY <1>1, <1>2, <2>1, <2>2 DEF Trail
  <1>5. \A i \in Queued(p)' : i > top'
    <2>1. \A i \in Queued(p)' : i \in Trail(p)' /\ i # top' /\ i \in 1 .. Len(log)
      BY <1>1, <1>2 DEF Trail
    <2> QED BY <1>2, <1>4, <2>1
  <1>6. ASSUME NEW i \in Trail(p)' PROVE i .. Len(log') \subseteq Trail(p)'
    <2>1. i \in Trail(p) /\ i >= top' /\ i \in 1 .. Len(log)
      BY <1>1, <1>4
    <2>2. \A j \in i .. Len(log) : j \in Trail(p) /\ j >= top'
      BY <1>1, <1>2, <2>1 DEF TrailSound
    <2> QED BY <1>3, <1>4, <2>2
  <1>7. Len(log') \in Trail(p)'
    BY <1>1, <1>2, <1>3, <1>4 DEF TrailSound
  <1>8. ASSUME NEW i \in Trail(p)', i + 1 \in Trail(p)'
        PROVE  Leads(log'[i].at, log'[i + 1].at)
    <2>1. i \in Trail(p) /\ i + 1 \in Trail(p)
      BY <1>4, <1>8
    <2>2. Leads(log[i].at, log[i + 1].at)
      BY <2>1 DEF TrailSound
    <2> QED BY <1>1, <1>3, <2>1, <2>2
  <1>9. top' # 0
    BY <1>2
  <1> QED BY <1>5, <1>6, <1>7, <1>8, <1>9 DEF TrailSound

(* While no two runs overlap, nobody drives beside a process that does.    *)
LEMMA OthersRest ==
  ASSUME IInv, overlaps = 0, NEW p \in Procs, pc[p] \in Driving, Moves(p)
  PROVE  \A q \in Procs \ {p} : pc'[q] # "begin" /\ pc'[q] # "run"
  <1>1. SUFFICES ASSUME NEW q \in Procs \ {p} PROVE pc[q] \notin Driving
    BY DEF Moves, Driving
  <1>2. p \in DrivingProcs
    BY DEF DrivingProcs
  <1> QED BY <1>2, Alone DEF IInv, DrivingProcs

(* A step that neither makes nor writes a checkpoint, after which its      *)
(* process does not begin, and does not run if it did not.                 *)
LEMMA InOrderKept ==
  ASSUME IInv, InOrder, NEW p \in Procs, Moves(p), overlaps' = overlaps, top' = top,
         Len(log') = Len(log), \A i \in DOMAIN log : log'[i].at = log[i].at,
         \A q \in Procs \ {p} : Queued(q)' = Queued(q),
         pc'[p] \notin {"begin", "run"} \/ (pc' = pc /\ Queued(p)' = Queued(p))
  PROVE  InOrder'
  <1>1. SUFFICES ASSUME overlaps = 0, NEW q \in Procs
                 PROVE  /\ pc'[q] = "begin" => top' = 0
                        /\ pc'[q] = "run" => TrailSound(q)'
    BY DEF InOrder
  <1>2. CASE pc'[q] = pc[q] /\ Queued(q)' = Queued(q)
    <2>1. pc'[q] = "begin" => top' = 0
      BY <1>1, <1>2 DEF InOrder
    <2>2. pc'[q] = "run" => TrailSound(q)
      BY <1>1, <1>2 DEF InOrder
    <2>3. TrailSound(q) => TrailSound(q)'
      BY <1>2, TrailKept DEF IInv
    <2> QED BY <2>1, <2>2, <2>3
  <1>3. CASE q = p /\ pc'[p] \notin {"begin", "run"}
    BY <1>3
  <1> QED BY <1>2, <1>3 DEF Moves

LEMMA InOrderStep == IInv /\ InOrder /\ [Next]_vars => InOrder'
  <1> SUFFICES ASSUME IInv, InOrder, [Next]_vars PROVE InOrder'
    OBVIOUS
  <1>0. TypeOK /\ overlaps \in Nat /\ top \in Nat
    BY LogIndices DEF IInv, TypeOK
  <1>1. ASSUME NEW p \in Procs, Check(p) PROVE InOrder'
    <2>1. pc[p] = "check" /\ UNCHANGED <<state, next, keys, saver, calls, applied, unseen>>
      BY <1>1 DEF Check
    <2>2. top' = top /\ log' = log /\ \A q \in Procs : Queued(q)' = Queued(q)
      BY <1>0, <2>1, QuietLog
    <2>3. CASE cp # None
      <3>1. pc' = [pc EXCEPT ![p] = "returned"] /\ overlaps' = overlaps
            /\ result' = [result EXCEPT ![p] = cp.next]
        BY <1>1, <2>3 DEF Check, ReturnsPrior
      <3>2. Moves(p) /\ pc'[p] = "returned"
        BY <1>0, <2>1, <3>1, MovesBy DEF TypeOK
      <3> QED BY <2>2, <3>1, <3>2, InOrderKept
    <2>4. CASE cp = None
      <3>1. /\ pc' = [pc EXCEPT ![p] = "begin"] /\ result' = result
            /\ overlaps' = 0 => overlaps = 0
        BY <1>0, <1>1, <2>4 DEF Check, DrivesOn
      <3>2. top' = 0
        BY <1>0, <2>2, <2>4, NewestStored
      <3>3. ASSUME overlaps = 0, NEW q \in Procs, pc'[q] = "run" PROVE TrailSound(q)'
        <4>1. pc[q] = "run"
          BY <1>0, <3>1, <3>3 DEF TypeOK
        <4> QED BY <1>0, <2>2, <3>3, <4>1, TrailKept DEF InOrder
      <3> QED BY <3>1, <3>2, <3>3 DEF InOrder
    <2> QED BY <2>3, <2>4
  <1>2. ASSUME NEW p \in Procs, Begin(p) PROVE InOrder'
    <2> DEFINE c == At(state[p], next[p])
    <2>1. /\ pc[p] = "begin" /\ pc' = [pc EXCEPT ![p] = "run"] /\ Makes(p, c)
          /\ UNCHANGED <<state, next, keys, result, calls, applied, overlaps, unseen>>
      BY <1>2 DEF Begin, counts
    <2>2. ProcessSound(p)
      BY DEF IInv
    <2>3. /\ c = At(SeedIncident, "intake") /\ c \in Checkpoint /\ Queued(p) = {}
      BY <2>1, <2>2, SeedType DEF ProcessSound, At, Checkpoint, Node
    <2> HIDE DEF c
    <2>4. Moves(p) /\ pc'[p] = "run"
      <3>1. Moves(p)
        BY <1>0, <2>1, MovesBy
      <3> QED BY <1>0, <2>1, <3>1 DEF TypeOK
    <2>5. ASSUME overlaps = 0 PROVE TrailSound(p)'
      <3>1. top = 0
        BY <2>1, <2>5 DEF InOrder
      <3> QED BY <1>0, <2>1, <2>3, <3>1, TrailGrows
    <2>6. overlaps = 0 => \A q \in Procs \ {p} : pc'[q] # "begin" /\ pc'[q] # "run"
      BY <2>1, <2>4, OthersRest DEF Driving
    <2> QED BY <2>1, <2>4, <2>5, <2>6 DEF InOrder
  <1>3. ASSUME NEW p \in Procs, Superstep(p) PROVE InOrder'
    <2>1. pc[p] = "run" /\ next[p] \in Node /\ UNCHANGED <<keys, pc, result, overlaps>>
      BY <1>3 DEF Superstep, counts
    <2>2. PICK out \in Outcomes(next[p], state[p], keys) :
            /\ state' = [state EXCEPT ![p] = out.state]
            /\ next' = [next EXCEPT ![p] = out.next] /\ Makes(p, out)
      BY <1>3 DEF Superstep, counts
    <2>3. out \in Checkpoint /\ Leads(At(state[p], next[p]), out)
      BY <2>1, SuperstepOutcome
    <2>4. Moves(p)
      BY <1>0, <2>1, <2>2, MovesBy
    <2>5. ASSUME overlaps = 0 PROVE TrailSound(p)'
      <3>1. TrailSound(p)
        BY <2>1, <2>5 DEF InOrder
      <3>2. log[Len(log)].at = At(state[p], next[p])
        BY <2>1, <2>5 DEF IInv, Newest, Node
      <3> QED BY <1>0, <2>2, <2>3, <3>1, <3>2, TrailGrows
    <2>6. overlaps = 0 => \A q \in Procs \ {p} : pc'[q] # "begin" /\ pc'[q] # "run"
      BY <2>1, <2>4, OthersRest DEF Driving
    <2> QED BY <2>1, <2>5, <2>6 DEF InOrder
  <1>4. ASSUME NEW p \in Procs, Persist(p) PROVE InOrder'
    <2>1. UNCHANGED <<state, next, pc, result, overlaps>> /\ Queued(p) # {}
      BY <1>4 DEF Persist, local, counts
    <2>2. pc[p] = "run"
      BY <2>1 DEF IInv, ProcessSound
    <2>3. Moves(p)
      BY <2>1 DEF Moves
    <2>4. overlaps = 0 => TrailSound(p)'
      BY <1>0, <1>4, <2>2, TrailWritten DEF InOrder
    <2>5. overlaps = 0 => \A q \in Procs \ {p} : pc'[q] # "begin" /\ pc'[q] # "run"
      BY <2>2, <2>3, OthersRest DEF Driving
    <2> QED BY <2>1, <2>2, <2>4, <2>5 DEF InOrder
  <1>5. ASSUME NEW p \in Procs, Call(p) \/ StreamEnds(p) \/ RunFails(p) \/ ReadBack(p)
        PROVE  InOrder'
    <2>1. UNCHANGED saver /\ overlaps' = overlaps
      BY <1>5 DEF Call, StreamEnds, RunFails, ReadBack, counts
    <2>2. top' = top /\ log' = log /\ \A q \in Procs : Queued(q)' = Queued(q)
      BY <1>0, <2>1, QuietLog
    <2>3. PICK how \in {"check", "readback", "raised", "returned", "lost"} :
            pc' = [pc EXCEPT ![p] = how]
      BY <1>5 DEF Call, StreamEnds, RunFails, ReadBack, Ends
    <2>4. Moves(p)
      <3>1. /\ state' = state \/ \E x : state' = [state EXCEPT ![p] = x]
            /\ next' = next \/ \E x : next' = [next EXCEPT ![p] = x]
            /\ result' = result \/ \E x : result' = [result EXCEPT ![p] = x]
        BY <1>5 DEF Call, StreamEnds, RunFails, ReadBack, Ends
      <3> QED BY <1>0, <2>3, <3>1, MovesBy
    <2>5. pc'[p] \notin {"begin", "run"}
      BY <1>0, <2>3 DEF TypeOK
    <2> QED BY <2>1, <2>2, <2>4, <2>5, InOrderKept
  <1>6. ASSUME NEW p \in Procs, NodeRaises(p) PROVE InOrder'
    <2>1. /\ next' = [next EXCEPT ![p] = "raised"]
          /\ UNCHANGED <<state, pc, result, saver, overlaps>>
      BY <1>6 DEF NodeRaises, counts
    <2>2. top' = top /\ log' = log /\ \A q \in Procs : Queued(q)' = Queued(q)
      BY <1>0, <2>1, QuietLog
    <2>3. Moves(p)
      BY <1>0, <2>1, MovesBy
    <2> QED BY <2>1, <2>2, <2>3, InOrderKept
  <1>7. ASSUME NEW p \in Procs, Crash(p) PROVE InOrder'
    <2>1. Ends(p, "crashed") /\ result' = result /\ overlaps' = overlaps
      BY <1>7 DEF Crash
    <2>2. Moves(p) /\ pc'[p] = "crashed"
      <3>1. Moves(p)
        BY <1>0, <2>1, MovesBy DEF Ends
      <3> QED BY <1>0, <2>1, <3>1 DEF TypeOK, Ends
    <2> QED BY <1>0, <1>7, <2>1, <2>2, CrashLog, InOrderKept
  <1>8. ASSUME UNCHANGED vars PROVE InOrder'
    <2>1. top' = top /\ log' = log /\ pc' = pc /\ overlaps' = overlaps
          /\ \A q \in Procs : Queued(q)' = Queued(q)
      BY <1>8 DEF vars, local, saver, counts, Queued
    <2>2. \A q \in Procs : TrailSound(q) => TrailSound(q)'
      BY <1>0, <2>1, TrailKept
    <2> QED BY <2>1, <2>2 DEF InOrder
  <1> QED BY <1>1, <1>2, <1>3, <1>4, <1>5, <1>6, <1>7, <1>8 DEF Next, Ended

(* What the reader sees, named: the mapping of Stored.                     *)
SeenPhase   == IF cp = None THEN "intake" ELSE cp.state.phase
SeenApplied == IF cp = None THEN {} ELSE Executed(cp.state)
SeenRunning == cp = None \/ (cp.next # "END" /\ \E p \in Procs : pc[p] = "run")

(* A step that writes nothing shows the reader nothing, or the end of a    *)
(* run that was cut short.                                                 *)
LEMMA UnwrittenShowsNothing ==
  ASSUME TypeOK, top' = top, Len(log') = Len(log),
         \A i \in DOMAIN log : log'[i].at = log[i].at,
         top > 0 => \A q \in Procs : pc'[q] = "run" => pc[q] = "run"
  PROVE  [Stored!Next]_(Stored!vars)
  <1>1. top \in Nat /\ (top > 0 => top \in DOMAIN log) /\ (cp = None <=> top = 0)
    BY LogIndices, NewestStored
  <1>2. cp' = cp
    BY <1>1 DEF cp
  <1>3. SeenPhase' = SeenPhase /\ SeenApplied' = SeenApplied
    BY <1>2 DEF SeenPhase, SeenApplied
  <1>4. SeenRunning' => SeenRunning
    BY <1>1, <1>2 DEF SeenRunning
  <1>5. SeenRunning \in BOOLEAN /\ SeenRunning' \in BOOLEAN
    BY DEF SeenRunning
  <1>6. CASE SeenRunning' = SeenRunning
    <2>1. UNCHANGED Stored!vars
      BY <1>3, <1>6 DEF Stored!vars, SeenPhase, SeenApplied, SeenRunning
    <2> QED BY <2>1
  <1>7. CASE SeenRunning /\ SeenRunning' = FALSE
    <2>1. Stored!Abort
      BY <1>3, <1>7 DEF Stored!Abort, SeenPhase, SeenApplied, SeenRunning
    <2> QED BY <2>1 DEF Stored!Next
  <1> QED BY <1>4, <1>5, <1>6, <1>7

(* A checkpoint that follows the newest is a step of the lifecycle.        *)
LEMMA LeadsIsStep ==
  ASSUME SeenPhase = cp.state.phase, SeenApplied = Executed(cp.state), SeenRunning,
         SeenPhase' = cp'.state.phase, SeenApplied' = Executed(cp'.state),
         SeenRunning' = (cp'.next # "END"), Leads(cp, cp')
  PROVE  [Stored!Next]_(Stored!vars)
  <1> USE DEF SeenPhase, SeenApplied, SeenRunning
  <1>1. CASE GoesOn(cp, cp') /\ SeenPhase' = SeenPhase
    <2>1. UNCHANGED Stored!vars
      BY <1>1 DEF GoesOn, Stored!vars
    <2> QED BY <2>1
  <1>2. CASE GoesOn(cp, cp') /\ SeenPhase = "intake" /\ SeenPhase' = "investigating"
    <2>1. Stored!Accept
      BY <1>2 DEF GoesOn, Stored!Accept
    <2> QED BY <2>1 DEF Stored!Next
  <1>3. CASE GoesOn(cp, cp') /\ SeenPhase = "investigating" /\ SeenPhase' = "planning"
    <2>1. Stored!Plan
      BY <1>3 DEF GoesOn, Stored!Plan
    <2> QED BY <2>1 DEF Stored!Next
  <1>4. CASE Closes(cp, cp') /\ SeenApplied' = {}
    <2>1. Stored!CloseUntouched
      BY <1>4 DEF Closes, Stored!CloseUntouched
    <2> QED BY <2>1 DEF Stored!Next
  <1>5. CASE Closes(cp, cp') /\ SeenApplied' # {}
    <2>1. Stored!CloseApplied
      BY <1>5 DEF Closes, Stored!CloseApplied
    <2> QED BY <2>1 DEF Stored!Next
  <1> QED BY <1>1, <1>2, <1>3, <1>4, <1>5 DEF Leads, GoesOn

LEMMA StoredStep ==
  IInv /\ InOrder /\ [Next]_vars => [Stored!Next \/ overlaps' > 0]_(Stored!vars)
  <1> SUFFICES ASSUME IInv, InOrder, [Next]_vars, ~ (overlaps' > 0)
               PROVE  [Stored!Next]_(Stored!vars)
    OBVIOUS
  <1>0. TypeOK /\ top \in Nat /\ overlaps \in Nat /\ overlaps = 0
    <2>1. overlaps' = overlaps \/ overlaps' = overlaps + 1
      BY DEF Next, Ended, Call, Check, DrivesOn, ReturnsPrior, Begin, Superstep, NodeRaises,
         Persist, StreamEnds, RunFails, ReadBack, Crash, vars, counts
    <2> QED BY <2>1, LogIndices DEF IInv, TypeOK
  <1>1. ASSUME NEW p \in Procs, Persist(p) PROVE [Stored!Next]_(Stored!vars)
    <2>1. pc' = pc /\ Queued(p) # {}
      BY <1>1 DEF Persist, local, counts
    <2>2. pc[p] = "run" /\ pc'[p] = "run"
      BY <2>1 DEF IInv, ProcessSound
    <2>3. TrailSound(p)
      BY <1>0, <2>2 DEF InOrder
    <2>4. /\ top' \in Trail(p) /\ top' \in 1 .. Len(log)
          /\ \/ top = 0 /\ top' - 1 \notin Trail(p)
             \/ top > 0 /\ top' = top + 1
      BY <1>0, <1>1, <2>3, WritesNext
    <2>5. /\ DOMAIN log = 1 .. Len(log) /\ Len(log) \in Nat
          /\ \A i \in DOMAIN log : log'[i].at = log[i].at
      BY <1>0, <1>1, PersistLog, TrailInLog
    <2>6. cp' = log[top'].at /\ log[top'].at \in Checkpoint
      <3>1. log[top'] \in Entry
        BY <1>0, <2>4 DEF TypeOK
      <3>2. top' # 0
        BY <2>4
      <3> QED BY <2>4, <2>5, <3>1, <3>2 DEF cp, Entry
    <2>7. cp' # None
      BY <2>6, NoneAssumption
    <2>8. /\ SeenPhase' = cp'.state.phase /\ SeenApplied' = Executed(cp'.state)
          /\ SeenRunning' = (cp'.next # "END")
      <3>1. Executed(cp.state)' = Executed(cp'.state)
        BY DEF Executed
      <3> QED BY <2>2, <2>7, <3>1 DEF SeenPhase, SeenApplied, SeenRunning
    <2>9. CASE top = 0
      <3>1. cp = None
        BY <1>0, <2>9, NewestStored
      <3>2. cp' = At(SeedIncident, "intake")
        BY <2>3, <2>4, <2>6, <2>9 DEF TrailSound
      <3>3. Executed(SeedIncident) = {} /\ SeedIncident.phase = "intake"
        BY SeedType, ExecutedMembers
      <3>4. UNCHANGED <<SeenPhase, SeenApplied, SeenRunning>>
        BY <2>8, <3>1, <3>2, <3>3 DEF SeenPhase, SeenApplied, SeenRunning, At
      <3>5. UNCHANGED Stored!vars
        BY <3>4 DEF Stored!vars, SeenPhase, SeenApplied, SeenRunning
      <3> QED BY <3>5
    <2>10. CASE top > 0
      <3>1. cp = log[top].at /\ cp # None
        BY <1>0, <2>10, NewestStored
      <3>2. top \in Trail(p)
        BY <2>10 DEF Trail
      <3>3. Leads(cp, cp')
        BY <2>3, <2>4, <2>6, <2>10, <3>1, <3>2 DEF TrailSound
      <3>4. SeenPhase = cp.state.phase /\ SeenApplied = Executed(cp.state) /\ SeenRunning
        BY <2>2, <3>1, <3>3 DEF SeenPhase, SeenApplied, SeenRunning, Leads
      <3> QED BY <2>8, <3>3, <3>4, LeadsIsStep
    <2> QED BY <1>0, <2>9, <2>10
  <1>2. ASSUME NEW p \in Procs, Begin(p) \/ Superstep(p) PROVE [Stored!Next]_(Stored!vars)
    <2>1. PICK c \in Checkpoint : Makes(p, c)
      <3>1. CASE Begin(p)
        <4>1. Makes(p, At(state[p], next[p])) /\ pc[p] = "begin"
          BY <3>1 DEF Begin, counts
        <4>2. At(state[p], next[p]) \in Checkpoint
          BY <4>1, SeedType DEF IInv, ProcessSound, At, Checkpoint, Node
        <4> QED BY <4>1, <4>2
      <3>2. CASE Superstep(p)
        BY <3>2, SuperstepOutcome DEF Superstep
      <3> QED BY <1>2, <3>1, <3>2
    <2>2. /\ top' = top /\ top <= Len(log) /\ Len(log) \in Nat /\ Len(log') = Len(log) + 1
          /\ \A i \in 1 .. Len(log) : log'[i] = log[i]
      BY <1>0, <2>1, MakesLog, TrailInLog
    <2>3. cp' = cp
      BY <1>0, <2>2 DEF cp
    <2>4. UNCHANGED <<SeenPhase, SeenApplied>>
      BY <2>3 DEF SeenPhase, SeenApplied
    <2>5. SeenRunning' = SeenRunning
      <3>1. CASE Begin(p)
        <4>1. cp = None
          BY <1>0, <3>1, NewestStored DEF Begin, InOrder
        <4> QED BY <2>3, <4>1 DEF SeenRunning
      <3>2. CASE Superstep(p)
        BY <2>3, <3>2 DEF Superstep, SeenRunning
      <3> QED BY <1>2, <3>1, <3>2
    <2>6. UNCHANGED Stored!vars
      BY <2>4, <2>5 DEF Stored!vars, SeenPhase, SeenApplied, SeenRunning
    <2> QED BY <2>6
  <1>3. ASSUME NEW p \in Procs,
               \/ Call(p) \/ Check(p) \/ NodeRaises(p) \/ StreamEnds(p)
               \/ RunFails(p) \/ ReadBack(p) \/ Crash(p)
        PROVE  [Stored!Next]_(Stored!vars)
    <2>1. /\ top' = top /\ Len(log') = Len(log)
          /\ \A i \in DOMAIN log : log'[i].at = log[i].at
      <3>1. CASE Crash(p)
        BY <1>0, <3>1, CrashLog
      <3>2. CASE UNCHANGED saver
        BY <3>2 DEF saver
      <3> QED
        BY <1>3, <3>1, <3>2 DEF Call, Check, NodeRaises, StreamEnds, RunFails, ReadBack
    <2>2. \A q \in Procs : pc'[q] = "run" => pc[q] = "run"
      <3>1. pc' = pc \/ \E how \in {"check", "begin", "readback", "raised", "returned",
                                     "lost", "crashed"} : pc' = [pc EXCEPT ![p] = how]
        BY <1>3 DEF Call, Check, DrivesOn, ReturnsPrior, NodeRaises, StreamEnds, RunFails,
           ReadBack, Crash, Ends
      <3> QED BY <1>0, <3>1 DEF TypeOK
    <2> QED BY <1>0, <2>1, <2>2, UnwrittenShowsNothing
  <1>4. ASSUME UNCHANGED vars PROVE [Stored!Next]_(Stored!vars)
    BY <1>0, <1>4, UnwrittenShowsNothing DEF vars, local, saver
  <1> QED BY <1>1, <1>2, <1>3, <1>4 DEF Next, Ended

(* A reader of the checkpoints sees the incident move through its          *)
(* lifecycle and never set back, over all calls and crashes and however    *)
(* far the saver lags, as long as no two runs overlap: for any number of   *)
(* processes and calls.                                                    *)
THEOREM StoresLifecycle == Spec => StoredLifecycle
  <1>1. Init => InOrder /\ Stored!Init
    BY DEF Init, InOrder, cp, Stored!Init
  <1>2. IInv /\ InOrder /\ [Next]_vars => InOrder'
    BY InOrderStep
  <1>3. IInv /\ InOrder /\ [Next]_vars => [Stored!Next \/ overlaps' > 0]_(Stored!vars)
    BY StoredStep
  <1> QED BY <1>1, <1>2, <1>3, Invariance, PTL DEF Spec, StoredLifecycle
=============================================================================
