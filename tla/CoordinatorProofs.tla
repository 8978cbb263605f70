------------------------- MODULE CoordinatorProofs -------------------------
(***************************************************************************)
(* Safety of the Coordinator for every list of intents, every map of       *)
(* hypotheses and every set of hashes and keys.                            *)
(***************************************************************************)
EXTENDS Coordinator, SequenceTheorems, TLAPS

AllVerified == \A j \in DOMAIN st.intents : Verifies(st.intents[j], verifyKey)

(* What each point of the call knows.  Nothing is touched before the whole *)
(* list is verified and the preflight is ok; in the execution loop exactly *)
(* the hashes before idx have been applied, and they are in seen.          *)
UntouchedEarly ==
  pc \in {"start", "verify", "preflight", "raised"} =>
    seen = {} /\ applied = [a \in Hashes |-> 0]

VerifiedSoFar ==
  /\ pc = "verify" => \A j \in 1 .. idx - 1 : Verifies(st.intents[j], verifyKey)
  /\ pc \in {"preflight", "execute", "compensate"} => AllVerified

StartsAtOne == pc \in {"start", "preflight"} => idx = 1

CheckedBeforeExecution ==
  pc \in {"execute", "compensate"} => Preflight(st) = "ok"

CompensatesCurrent == pc = "compensate" => idx <= Len(st.intents)

ExecutedSoFar ==
  pc = "execute" =>
    /\ \A a \in Hashes : applied[a] = IF a \in seen THEN 1 ELSE 0
    /\ \A j \in 1 .. idx - 1 : st.intents[j].hash \in seen

IInv ==
  /\ TypeOK
  /\ UntouchedEarly
  /\ VerifiedSoFar
  /\ StartsAtOne
  /\ CheckedBeforeExecution
  /\ CompensatesCurrent
  /\ ExecutedSoFar
  /\ FailClosed
  /\ TouchedOnConfirmed
  /\ OncePerHash
  /\ ResolvedIsComplete

----------------------------------------------------------------------------
(* Facts about the operators of IncidentNodes *)

(* An ok preflight has a confirmed hypothesis; one that says the incident  *)
(* is already resolved knows no hypothesis.                                *)
LEMMA PreflightMeaning ==
  ASSUME NEW s \in IncidentState
  PROVE  /\ Preflight(s) = "ok" => Confirmed(s) # {} /\ s.intents # << >>
         /\ Preflight(s) = "already_resolved" => Known(s) = {}
<1>1. Confirmed(s) \subseteq Known(s)
  BY DEF Confirmed, Known, Absent
<1>2. s.intents # << >> /\ Known(s) # {} /\ Confirmed(s) = {}
        => Preflight(s) \in {"diagnosis_invalidated", "parameter_drift"}
  BY DEF Preflight
<1>3. Preflight(s) = "ok" => Known(s) # {} /\ s.intents # << >>
  BY DEF Preflight
<1>4. Preflight(s) = "already_resolved" => Known(s) = {}
  BY DEF Preflight
<1> QED BY <1>1, <1>2, <1>3, <1>4

(* Closing changes the phase and the actions, and keeps the state a state. *)
LEMMA ClosingType ==
  ASSUME NEW s \in IncidentState, NEW p \in Phase, NEW acts \in Seq(Action)
  PROVE  /\ Closing(s, p, acts) \in IncidentState
         /\ Closing(s, p, acts).phase = p
         /\ Closing(s, p, acts).hyp = s.hyp
         /\ Closing(s, p, acts).intents = s.intents
<1>1. s.actions \o acts \in Seq(Action)
  BY DEF IncidentState
<1> QED BY <1>1 DEF Closing, IncidentState

LEMMA DidType ==
  /\ \A kind \in {"verify_failed", "executed", "skipped", "exec_failed", "compensated"},
        a \in Hashes :
       Did(kind, a) \in Action /\ Did(kind, a).kind = kind /\ Did(kind, a).hash = a
  /\ Did("no_op", Unset) \in Action /\ Did("no_op", Unset).kind = "no_op"
BY DEF Did, Action

(* The intent the loops look at is an intent.                              *)
LEMMA CurrentType ==
  ASSUME TypeOK, idx <= Len(st.intents)
  PROVE  /\ idx \in DOMAIN st.intents
         /\ Current \in Intent
         /\ Current.hash \in Hashes
<1>1. st.intents \in Seq(Intent) /\ idx \in 1 .. Len(st.intents)
  BY DEF TypeOK, IncidentState
<1>2. idx \in DOMAIN st.intents /\ st.intents[idx] \in Intent
  BY <1>1
<1>3. \A i \in Intent : i.hash \in Hashes
  BY DEF Intent
<1> QED BY <1>2, <1>3 DEF Current

----------------------------------------------------------------------------

LEMMA InitIInv == Init => IInv
<1> SUFFICES ASSUME Init PROVE IInv
  OBVIOUS
<1>1. st \in IncidentState
  BY SeedAssumption DEF Init
<1>2. TypeOK
  <2>1. 1 \in 1 .. Len(st.intents) + 1
    BY <1>1 DEF IncidentState
  <2> QED BY <1>1, <2>1 DEF Init, TypeOK, Point
<1>3. Touched = {}
  BY DEF Init, Touched
<1> QED
  BY <1>2, <1>3 DEF Init, IInv, UntouchedEarly, VerifiedSoFar, StartsAtOne,
     CheckedBeforeExecution, CompensatesCurrent, ExecutedSoFar, FailClosed, TouchedOnConfirmed,
     OncePerHash, ResolvedIsComplete

----------------------------------------------------------------------------
(* One lemma for every action, or for actions that return alike.           *)

(* A return from before the execution touches nothing, and resolves only   *)
(* an incident without a hypothesis.                                       *)
LEMMA ReturnsEarly ==
  ASSUME IInv,
         pc \in {"verify", "preflight"},
         NEW p \in Phase, NEW acts \in Seq(Action),
         p = "resolved" => Known(st) = {},
         Returns(p, acts)
  PROVE  IInv'
<1>1. /\ st' \in IncidentState /\ st'.phase = p
      /\ st'.hyp = st.hyp /\ st'.intents = st.intents
  BY ClosingType DEF Returns, IInv, TypeOK
<1>2. TypeOK'
  BY <1>1 DEF Returns, IInv, TypeOK, Point
<1>3. Touched = {} /\ Touched' = {}
  BY DEF IInv, UntouchedEarly, Touched, Returns
<1>4. OncePerHash'
  BY DEF IInv, OncePerHash, Returns
<1>5. ResolvedIsComplete'
  BY <1>1 DEF ResolvedIsComplete, Known
<1>6. pc' = "returned"
  BY DEF Returns
<1> QED
  BY <1>2, <1>3, <1>4, <1>5, <1>6 DEF IInv, UntouchedEarly, VerifiedSoFar,
     StartsAtOne, CheckedBeforeExecution, CompensatesCurrent, ExecutedSoFar, FailClosed, TouchedOnConfirmed

(* A step that leaves the state, the key and what was applied alone keeps  *)
(* the part of the invariant that is about them.                           *)
LEMMA NothingTouched ==
  ASSUME IInv, UNCHANGED <<st, verifyKey, applied>>, pc' # "returned"
  PROVE  FailClosed' /\ TouchedOnConfirmed' /\ OncePerHash' /\ ResolvedIsComplete'
BY DEF IInv, FailClosed, TouchedOnConfirmed, OncePerHash, ResolvedIsComplete,
   Touched, Confirmed

LEMMA StartStep == IInv /\ Start => IInv'
<1> SUFFICES ASSUME IInv, Start PROVE IInv'
  OBVIOUS
<1>1. TypeOK' /\ idx = 1
  BY DEF IInv, TypeOK, Start, internal, Point, StartsAtOne
<1>2. FailClosed' /\ TouchedOnConfirmed' /\ OncePerHash' /\ ResolvedIsComplete'
  BY NothingTouched DEF Start, internal
<1> QED
  BY <1>1, <1>2 DEF IInv, Start, internal, UntouchedEarly, VerifiedSoFar,
     StartsAtOne, CheckedBeforeExecution, CompensatesCurrent, ExecutedSoFar

LEMMA VerifyOneStep == IInv /\ VerifyOne => IInv'
<1> SUFFICES ASSUME IInv, VerifyOne PROVE IInv'
  OBVIOUS
<1>1. Len(st.intents) \in Nat
  BY DEF IInv, TypeOK, IncidentState
<1>2. TypeOK'
  BY <1>1 DEF IInv, TypeOK, VerifyOne
<1>3. FailClosed' /\ TouchedOnConfirmed' /\ OncePerHash' /\ ResolvedIsComplete'
  BY NothingTouched DEF VerifyOne
<1>4. \A j \in 1 .. idx' - 1 : Verifies(st.intents[j], verifyKey)
  <2>1. \A j \in 1 .. idx' - 1 : j \in 1 .. idx - 1 \/ j = idx
    BY DEF VerifyOne, IInv, TypeOK
  <2> QED BY <2>1 DEF VerifyOne, Current, IInv, VerifiedSoFar
<1> QED
  BY <1>2, <1>3, <1>4 DEF IInv, VerifyOne, UntouchedEarly, VerifiedSoFar,
     StartsAtOne, CheckedBeforeExecution, CompensatesCurrent, ExecutedSoFar

LEMMA VerifyFailsStep == IInv /\ VerifyFails => IInv'
<1> SUFFICES ASSUME IInv, VerifyFails PROVE IInv'
  OBVIOUS
<1>1. Did("verify_failed", Current.hash) \in Action
  BY CurrentType, DidType DEF IInv, VerifyFails
<1>2. Append(done, Did("verify_failed", Current.hash)) \in Seq(Action)
  BY <1>1 DEF IInv, TypeOK
<1> QED
  BY <1>2, ReturnsEarly DEF VerifyFails, Phase

LEMMA VerifiedAllStep == IInv /\ VerifiedAll => IInv'
<1> SUFFICES ASSUME IInv, VerifiedAll PROVE IInv'
  OBVIOUS
<1>1. st.intents \in Seq(Intent) /\ Len(st.intents) \in Nat /\ idx \in Nat
  BY DEF IInv, TypeOK, IncidentState
<1>2. TypeOK'
  BY <1>1 DEF IInv, TypeOK, VerifiedAll, Point
<1>3. FailClosed' /\ TouchedOnConfirmed' /\ OncePerHash' /\ ResolvedIsComplete'
  BY NothingTouched DEF VerifiedAll
<1>4. AllVerified
  <2>1. \A j \in DOMAIN st.intents : j \in 1 .. idx - 1
    BY <1>1 DEF VerifiedAll
  <2> QED BY <2>1 DEF AllVerified, VerifiedAll, IInv, VerifiedSoFar
<1> QED
  BY <1>2, <1>3, <1>4 DEF IInv, VerifiedAll, UntouchedEarly, VerifiedSoFar,
     AllVerified, StartsAtOne, CheckedBeforeExecution, CompensatesCurrent, ExecutedSoFar

LEMMA PreflightStep ==
  IInv /\ (PreflightInvalidated \/ PreflightDrift \/ PreflightResolved) => IInv'
<1> SUFFICES ASSUME IInv,
                    PreflightInvalidated \/ PreflightDrift \/ PreflightResolved
             PROVE  IInv'
  OBVIOUS
<1>1. done \in Seq(Action) /\ st \in IncidentState
  BY DEF IInv, TypeOK
<1>2. CASE PreflightInvalidated
  BY <1>1, <1>2, ReturnsEarly DEF PreflightInvalidated, Phase
<1>3. CASE PreflightDrift
  BY <1>1, <1>3, ReturnsEarly DEF PreflightDrift, Phase
<1>4. CASE PreflightResolved
  <2>1. Append(done, Did("no_op", Unset)) \in Seq(Action)
    BY <1>1, DidType
  <2>2. Known(st) = {}
    BY <1>1, <1>4, PreflightMeaning DEF PreflightResolved
  <2> QED BY <1>4, <2>1, <2>2, ReturnsEarly DEF PreflightResolved, Phase
<1> QED BY <1>2, <1>3, <1>4

LEMMA PreflightOkStep == IInv /\ PreflightOk => IInv'
<1> SUFFICES ASSUME IInv, PreflightOk PROVE IInv'
  OBVIOUS
<1>1. TypeOK'
  BY DEF IInv, TypeOK, PreflightOk, internal, Point
<1>2. FailClosed' /\ TouchedOnConfirmed' /\ OncePerHash' /\ ResolvedIsComplete'
  BY NothingTouched DEF PreflightOk, internal
<1>3. Preflight(st)' = "ok"
  BY DEF PreflightOk, Preflight, Known, Confirmed
<1> QED
  BY <1>1, <1>2, <1>3 DEF IInv, PreflightOk, internal, UntouchedEarly, VerifiedSoFar,
     AllVerified, StartsAtOne, CheckedBeforeExecution, CompensatesCurrent, ExecutedSoFar

(* In the execution loop the whole list is verified and the diagnosis      *)
(* confirmed, so whatever is applied there may be.                         *)
LEMMA MayTouch ==
  ASSUME IInv, pc \in {"execute", "compensate"}
  PROVE  AllVerified /\ Confirmed(st) # {}
BY PreflightMeaning DEF IInv, TypeOK, VerifiedSoFar, CheckedBeforeExecution

LEMMA ExecuteNewStep == IInv /\ ExecuteNew => IInv'
<1> SUFFICES ASSUME IInv, ExecuteNew PROVE IInv'
  OBVIOUS
<1>1. Current.hash \in Hashes /\ idx \in DOMAIN st.intents
  BY CurrentType DEF IInv, ExecuteNew
<1>2. applied \in [Hashes -> Nat] /\ idx \in Nat /\ Len(st.intents) \in Nat
  BY DEF IInv, TypeOK, IncidentState
<1>3. TypeOK'
  <2>1. done' \in Seq(Action)
    BY <1>1, DidType DEF ExecuteNew, IInv, TypeOK
  <2>2. applied' \in [Hashes -> Nat]
    BY <1>1, <1>2 DEF ExecuteNew
  <2> QED BY <1>1, <1>2, <2>1, <2>2 DEF ExecuteNew, IInv, TypeOK
<1>4. \A a \in Hashes : applied'[a] = IF a \in seen' THEN 1 ELSE 0
  BY <1>1, <1>2 DEF ExecuteNew, Fresh, IInv, ExecutedSoFar
<1>5. \A j \in 1 .. idx' - 1 : st.intents[j].hash \in seen'
  <2>1. \A j \in 1 .. idx' - 1 : j \in 1 .. idx - 1 \/ j = idx
    BY <1>2 DEF ExecuteNew
  <2> QED BY <2>1 DEF ExecuteNew, Current, IInv, ExecutedSoFar
<1>6. AllVerified /\ Confirmed(st) # {}
  BY MayTouch DEF ExecuteNew
<1>7. FailClosed' /\ TouchedOnConfirmed'
  BY <1>6 DEF FailClosed, TouchedOnConfirmed, AllVerified, Confirmed, ExecuteNew
<1>8. OncePerHash' /\ ResolvedIsComplete'
  BY <1>4 DEF OncePerHash, ResolvedIsComplete, ExecuteNew
<1>9. CheckedBeforeExecution'
  BY DEF ExecuteNew, IInv, CheckedBeforeExecution, Preflight, Known, Confirmed
<1> QED
  BY <1>3, <1>4, <1>5, <1>7, <1>8, <1>9 DEF ExecuteNew, IInv, UntouchedEarly,
     VerifiedSoFar, AllVerified, StartsAtOne, CompensatesCurrent, ExecutedSoFar

LEMMA ExecuteAgainStep == IInv /\ ExecuteAgain => IInv'
<1> SUFFICES ASSUME IInv, ExecuteAgain PROVE IInv'
  OBVIOUS
<1>1. Current.hash \in Hashes /\ idx \in DOMAIN st.intents
  BY CurrentType DEF IInv, ExecuteAgain
<1>2. idx \in Nat /\ Len(st.intents) \in Nat
  BY DEF IInv, TypeOK, IncidentState
<1>3. TypeOK'
  <2>1. done' \in Seq(Action)
    BY <1>1, DidType DEF ExecuteAgain, IInv, TypeOK
  <2> QED BY <1>1, <1>2, <2>1 DEF ExecuteAgain, IInv, TypeOK
<1>4. \A j \in 1 .. idx' - 1 : st.intents[j].hash \in seen
  <2>1. \A j \in 1 .. idx' - 1 : j \in 1 .. idx - 1 \/ j = idx
    BY <1>2 DEF ExecuteAgain
  <2> QED BY <2>1 DEF ExecuteAgain, Fresh, Current, IInv, ExecutedSoFar
<1>5. FailClosed' /\ TouchedOnConfirmed' /\ OncePerHash' /\ ResolvedIsComplete'
  BY NothingTouched DEF ExecuteAgain
<1>6. CheckedBeforeExecution'
  BY DEF ExecuteAgain, IInv, CheckedBeforeExecution, Preflight, Known, Confirmed
<1> QED
  BY <1>3, <1>4, <1>5, <1>6 DEF ExecuteAgain, IInv, UntouchedEarly,
     VerifiedSoFar, AllVerified, StartsAtOne, CompensatesCurrent, ExecutedSoFar

LEMMA ExecuteFailsStep == IInv /\ ExecuteFails => IInv'
<1> SUFFICES ASSUME IInv, ExecuteFails PROVE IInv'
  OBVIOUS
<1>1. Current.hash \in Hashes
  BY CurrentType DEF IInv, ExecuteFails
<1>2. applied \in [Hashes -> Nat]
  BY DEF IInv, TypeOK
<1>3. PICK made \in 0 .. 1 : applied' = [applied EXCEPT ![Current.hash] = @ + made]
  BY DEF ExecuteFails
<1>4. TypeOK'
  <2>1. done' \in Seq(Action)
    BY <1>1, DidType DEF ExecuteFails, IInv, TypeOK
  <2>2. applied' \in [Hashes -> Nat]
    BY <1>1, <1>2, <1>3
  <2> QED BY <2>1, <2>2 DEF ExecuteFails, IInv, TypeOK, Point
<1>5. OncePerHash'
  BY <1>1, <1>2, <1>3 DEF OncePerHash, ExecuteFails, Fresh, IInv, ExecutedSoFar
<1>6. AllVerified /\ Confirmed(st) # {}
  BY MayTouch DEF ExecuteFails
<1>7. FailClosed' /\ TouchedOnConfirmed' /\ ResolvedIsComplete'
  BY <1>6 DEF FailClosed, TouchedOnConfirmed, ResolvedIsComplete, AllVerified,
     Confirmed, ExecuteFails
<1>8. CheckedBeforeExecution'
  BY DEF ExecuteFails, IInv, CheckedBeforeExecution, Preflight, Known, Confirmed
<1> QED
  BY <1>4, <1>5, <1>7, <1>8 DEF ExecuteFails, IInv, UntouchedEarly,
     VerifiedSoFar, AllVerified, StartsAtOne, CompensatesCurrent, ExecutedSoFar

(* A return from the execution or the compensation changes what was        *)
(* applied no more, and resolves only when the whole list was.             *)
LEMMA ReturnsLate ==
  ASSUME IInv,
         NEW p \in {"resolved", "escalated"}, NEW acts \in Seq(Action),
         p = "resolved" => \A j \in DOMAIN st.intents : applied[st.intents[j].hash] = 1,
         st' = Closing(st, p, acts), done' = acts, pc' = "returned",
         undone' \subseteq Hashes,
         UNCHANGED <<verifyKey, idx, seen, applied>>
  PROVE  IInv'
<1>0. p \in Phase
  BY DEF Phase
<1>1. /\ st' \in IncidentState /\ st'.phase = p
      /\ st'.hyp = st.hyp /\ st'.intents = st.intents
  BY <1>0, ClosingType DEF IInv, TypeOK
<1>2. TypeOK'
  BY <1>1 DEF IInv, TypeOK, Point
<1>3. FailClosed' /\ TouchedOnConfirmed' /\ OncePerHash'
  BY <1>1 DEF IInv, FailClosed, TouchedOnConfirmed, OncePerHash, Touched, Confirmed
<1>4. ResolvedIsComplete'
  BY <1>1 DEF ResolvedIsComplete
<1> QED
  BY <1>2, <1>3, <1>4 DEF IInv, UntouchedEarly, VerifiedSoFar, StartsAtOne,
     CheckedBeforeExecution, CompensatesCurrent, ExecutedSoFar

LEMMA ResolveStep == IInv /\ Resolve => IInv'
<1> SUFFICES ASSUME IInv, Resolve PROVE IInv'
  OBVIOUS
<1>1. /\ done \in Seq(Action) /\ undone \subseteq Hashes
      /\ st.intents \in Seq(Intent) /\ idx \in Nat
  BY DEF IInv, TypeOK, IncidentState
<1>2. \A j \in DOMAIN st.intents : j \in 1 .. idx - 1 /\ st.intents[j] \in Intent
  BY <1>1 DEF Resolve
<1>3. \A i \in Intent : i.hash \in Hashes
  BY DEF Intent
<1>4. \A j \in DOMAIN st.intents : applied[st.intents[j].hash] = 1
  BY <1>2, <1>3 DEF Resolve, IInv, ExecutedSoFar
<1> QED
  BY <1>1, <1>4, ReturnsLate DEF Resolve, Returns

LEMMA CompensationStep == IInv /\ (Compensate \/ CompensationFails) => IInv'
<1> SUFFICES ASSUME IInv, Compensate \/ CompensationFails PROVE IInv'
  OBVIOUS
<1>1. done \in Seq(Action) /\ undone \subseteq Hashes
  BY DEF IInv, TypeOK
<1>2. CASE Compensate
  <2>1. Current.hash \in Hashes
    BY <1>2, CurrentType DEF Compensate, IInv, CompensatesCurrent
  <2>2. Append(done, Did("compensated", Current.hash)) \in Seq(Action)
    BY <1>1, <2>1, DidType
  <2>3. undone' \subseteq Hashes
    BY <1>1, <1>2, <2>1 DEF Compensate
  <2> QED
    BY <1>2, <2>2, <2>3, ReturnsLate DEF Compensate
<1>3. CASE CompensationFails
  <2>1. Current.hash \in Hashes
    BY <1>3, CurrentType DEF CompensationFails, IInv, CompensatesCurrent
  <2>2. undone' \subseteq Hashes
    BY <1>1, <1>3, <2>1 DEF CompensationFails
  <2> QED
    BY <1>1, <1>3, <2>2, ReturnsLate DEF CompensationFails
<1> QED BY <1>2, <1>3

LEMMA NextIInv == IInv /\ [Next]_vars => IInv'
<1> SUFFICES ASSUME IInv, [Next]_vars PROVE IInv'
  OBVIOUS
<1>1. CASE Ended \/ UNCHANGED vars
  <2>1. UNCHANGED vars
    BY <1>1 DEF Ended
  <2> QED
    BY <2>1 DEF vars, IInv, TypeOK, UntouchedEarly, VerifiedSoFar, AllVerified,
       StartsAtOne, CheckedBeforeExecution, CompensatesCurrent, ExecutedSoFar,
       FailClosed, TouchedOnConfirmed, OncePerHash, ResolvedIsComplete, Touched,
       Preflight, Known, Confirmed
<1> QED
  BY <1>1, StartStep, VerifyOneStep, VerifyFailsStep, VerifiedAllStep, PreflightStep,
     PreflightOkStep, ExecuteNewStep, ExecuteAgainStep, ExecuteFailsStep,
     ResolveStep, CompensationStep DEF Next

----------------------------------------------------------------------------
(* The audit trail, on top of the invariant above: while the loops run, the *)
(* local list of actions names every touched hash and the failure that is   *)
(* being compensated, what it says has happened did, and nothing is undone  *)
(* before the call returns.                                                 *)

Named(acts, a) == \E kind \in {"executed", "exec_failed"} : Recorded(acts, kind, a)

AuditedSoFar == pc \in {"execute", "compensate"} => \A a \in Touched : Named(done, a)

FailureNamed == pc = "compensate" => Recorded(done, "exec_failed", Current.hash)

Happened ==
  \A a \in Hashes : /\ Recorded(done, "executed", a) => a \in Touched
                    /\ Recorded(done, "compensated", a) => a \in undone

UndoneLast == pc # "returned" => undone = {}

Audit ==
  IInv /\ AuditedSoFar /\ FailureNamed /\ Happened /\ UndoneLast /\ EffectsAudited

(* What a list records, when it is extended at its end and put behind      *)
(* another one.                                                            *)
LEMMA RecordsGrow ==
  ASSUME NEW s \in Seq(Action), NEW t \in Seq(Action), NEW x \in Action, NEW kind, NEW a
  PROVE  /\ Recorded(Append(s, x), kind, a) <=> Recorded(s, kind, a) \/ x = Did(kind, a)
         /\ Recorded(s, kind, a) => Recorded(t \o s, kind, a)
<1>1. /\ DOMAIN Append(s, x) = DOMAIN s \cup {Len(s) + 1}
      /\ \A j \in DOMAIN s : Append(s, x)[j] = s[j]
      /\ Append(s, x)[Len(s) + 1] = x
  BY SMT
<1>2. \A j \in DOMAIN s : Len(t) + j \in DOMAIN (t \o s) /\ (t \o s)[Len(t) + j] = s[j]
  BY SMT
<1>3. Recorded(Append(s, x), kind, a) <=> Recorded(s, kind, a) \/ x = Did(kind, a)
  BY <1>1 DEF Recorded
<1>4. Recorded(s, kind, a) => Recorded(t \o s, kind, a)
  BY <1>2 DEF Recorded
<1> QED BY <1>3, <1>4

(* Actions of different kinds, or for different intents, are different.    *)
LEMMA DidInjective ==
  \A k1, k2, a1, a2 : Did(k1, a1) = Did(k2, a2) => k1 = k2 /\ a1 = a2
BY DEF Did

(* A step before the execution touches and undoes nothing, and reports at  *)
(* most that an intent did not verify or that there was nothing to do.     *)
LEMMA QuietAudit ==
  ASSUME Audit, IInv',
         Start \/ VerifyOne \/ VerifyFails \/ VerifiedAll \/ PreflightInvalidated
           \/ PreflightDrift \/ PreflightResolved \/ PreflightOk
  PROVE  Audit'
<1>1. /\ pc \in {"start", "verify", "preflight"} /\ UNCHANGED <<applied, undone>>
      /\ pc' # "compensate"
  BY DEF Start, VerifyOne, VerifyFails, VerifiedAll, PreflightInvalidated, PreflightDrift,
     PreflightResolved, PreflightOk, Returns, internal
<1>2. Touched' = {} /\ undone' = {} /\ undone = {} /\ Touched = {}
  BY <1>1 DEF Audit, IInv, UntouchedEarly, UndoneLast, Touched
<1>3. done \in Seq(Action)
  BY DEF Audit, IInv, TypeOK
<1>4. ASSUME NEW a \in Hashes, NEW kind \in {"executed", "compensated"},
             Recorded(done', kind, a)
      PROVE  Recorded(done, kind, a)
  <2>1. CASE done' = done
    BY <1>4, <2>1
  <2>2. CASE VerifyFails
    <3>1. Did("verify_failed", Current.hash) \in Action
      BY <2>2, CurrentType, DidType DEF Audit, IInv, VerifyFails
    <3>2. done' = Append(done, Did("verify_failed", Current.hash))
      BY <2>2 DEF VerifyFails, Returns
    <3>3. Did("verify_failed", Current.hash) # Did(kind, a)
      BY DidInjective
    <3> QED BY <1>3, <1>4, <3>1, <3>2, <3>3, RecordsGrow
  <2>3. CASE PreflightResolved
    <3>1. Did("no_op", Unset) \in Action
      BY DidType
    <3>2. done' = Append(done, Did("no_op", Unset))
      BY <2>3 DEF PreflightResolved, Returns
    <3>3. Did("no_op", Unset) # Did(kind, a)
      BY DidInjective
    <3> QED BY <1>3, <1>4, <3>1, <3>2, <3>3, RecordsGrow
  <2> QED
    BY <2>1, <2>2, <2>3 DEF Start, VerifyOne, VerifiedAll, PreflightInvalidated,
       PreflightDrift, PreflightOk, Returns, internal
<1>5. Happened'
  BY <1>2, <1>4 DEF Audit, Happened
<1>6. EffectsAudited'
  BY <1>2, <1>5 DEF EffectsAudited, Happened
<1> QED BY <1>1, <1>2, <1>5, <1>6 DEF Audit, AuditedSoFar, FailureNamed, UndoneLast

(* A step of the execution loop records what it touches.                   *)
LEMMA ExecutionAudit ==
  ASSUME Audit, IInv', ExecuteNew \/ ExecuteAgain \/ ExecuteFails
  PROVE  Audit'
<1>1. /\ pc = "execute" /\ pc' # "returned" /\ undone' = undone
      /\ Current.hash \in Hashes /\ done \in Seq(Action) /\ applied \in [Hashes -> Nat]
  BY CurrentType DEF Audit, IInv, TypeOK, ExecuteNew, ExecuteAgain, ExecuteFails
<1>2. PICK kind \in {"executed", "skipped", "exec_failed"} :
        /\ done' = Append(done, Did(kind, Current.hash))
        /\ kind = "skipped" => applied' = applied
        /\ kind = "executed" => applied'[Current.hash] > 0
        /\ ExecuteFails => kind = "exec_failed"
  <2>1. CASE ExecuteNew
    BY <1>1, <2>1 DEF ExecuteNew, ExecuteFails
  <2>2. CASE ExecuteAgain
    BY <2>2 DEF ExecuteAgain, ExecuteFails
  <2>3. CASE ExecuteFails
    BY <2>3 DEF ExecuteFails
  <2> QED BY <2>1, <2>2, <2>3
<1>3. \A a \in Hashes : applied'[a] \in Nat /\ applied'[a] >= applied[a]
                          /\ (a # Current.hash => applied'[a] = applied[a])
  BY <1>1 DEF ExecuteNew, ExecuteAgain, ExecuteFails
<1>4. Did(kind, Current.hash) \in Action
  BY <1>1, DidType
<1>5. \A k, a : Recorded(done', k, a)
                  <=> Recorded(done, k, a) \/ (k = kind /\ a = Current.hash)
  BY <1>1, <1>2, <1>4, RecordsGrow, DidInjective
<1>6. ASSUME NEW a \in Touched' PROVE Named(done', a)
  <2>1. a \in Hashes
    BY <1>6 DEF Touched
  <2>2. CASE a \in Touched
    BY <1>1, <1>5, <2>2 DEF Audit, AuditedSoFar, Named
  <2>3. CASE a \notin Touched
    <3>1. a = Current.hash /\ kind # "skipped"
      BY <1>2, <1>3, <1>6, <2>1, <2>3 DEF Touched
    <3> QED BY <1>5, <3>1 DEF Named
  <2> QED BY <2>2, <2>3
<1>7. AuditedSoFar'
  BY <1>6 DEF AuditedSoFar
<1>8. FailureNamed'
  <2>1. pc' = "compensate" => kind = "exec_failed" /\ Current' = Current
    BY <1>1, <1>2 DEF ExecuteNew, ExecuteAgain, ExecuteFails, Current
  <2> QED BY <1>5, <2>1 DEF FailureNamed
<1>9. Happened'
  <2>1. ASSUME NEW a \in Hashes, Recorded(done', "executed", a) PROVE a \in Touched'
    <3>1. CASE Recorded(done, "executed", a)
      BY <1>1, <1>3, <3>1 DEF Audit, Happened, Touched
    <3>2. CASE ~ Recorded(done, "executed", a)
      BY <1>2, <1>5, <2>1, <3>2 DEF Touched
    <3> QED BY <3>1, <3>2
  <2>2. ASSUME NEW a \in Hashes, Recorded(done', "compensated", a) PROVE a \in undone'
    BY <1>1, <1>5, <2>2 DEF Audit, Happened
  <2> QED BY <2>1, <2>2 DEF Happened
<1>10. UndoneLast' /\ EffectsAudited'
  BY <1>1 DEF Audit, UndoneLast, EffectsAudited
<1> QED BY <1>7, <1>8, <1>9, <1>10 DEF Audit

(* A return from the loops takes the local list into the state.            *)
LEMMA ReturnAudit ==
  ASSUME Audit, IInv', Resolve \/ Compensate \/ CompensationFails
  PROVE  Audit'
<1>1. /\ pc \in {"execute", "compensate"} /\ pc' = "returned" /\ applied' = applied
      /\ undone = {} /\ done \in Seq(Action) /\ st.actions \in Seq(Action)
      /\ st \in IncidentState
  BY DEF Audit, UndoneLast, IInv, TypeOK, IncidentState, Resolve, Compensate,
     CompensationFails, Returns
<1>2. PICK phase \in Phase : /\ st' = Closing(st, phase, done')
                             /\ Compensate \/ CompensationFails => phase = "escalated"
  BY DEF Resolve, Compensate, CompensationFails, Returns, Phase
<1>3. st'.actions = st.actions \o done' /\ st'.phase = phase
  BY <1>1, <1>2 DEF Closing, IncidentState
<1>4. /\ done' \in Seq(Action)
      /\ \A k, a : Recorded(done, k, a) => Recorded(done', k, a)
      /\ \A a : Recorded(done', "executed", a) => Recorded(done, "executed", a)
      /\ \A a : Recorded(done', "compensated", a) => a \in undone' \/ Recorded(done, "compensated", a)
  <2>1. CASE Resolve \/ CompensationFails
    BY <1>1, <2>1 DEF Resolve, CompensationFails, Returns
  <2>2. CASE Compensate
    <3>1. Current.hash \in Hashes
      BY <2>2, CurrentType DEF Compensate, Audit, IInv, CompensatesCurrent
    <3>2. Did("compensated", Current.hash) \in Action
      BY <3>1, DidType
    <3>3. /\ done' = Append(done, Did("compensated", Current.hash))
          /\ Current.hash \in undone'
      BY <2>2 DEF Compensate
    <3>4. \A k, a : Recorded(done', k, a)
                      <=> Recorded(done, k, a) \/ (k = "compensated" /\ a = Current.hash)
      BY <1>1, <3>2, <3>3, RecordsGrow, DidInjective
    <3>5. done' \in Seq(Action)
      BY <1>1, <3>2, <3>3
    <3> QED BY <3>3, <3>4, <3>5
  <2> QED BY <2>1, <2>2
<1>5. Touched' = Touched
  BY <1>1 DEF Touched
<1>6. \A k, a : Recorded(done, k, a) => Recorded(st'.actions, k, a)
  <2>1. \E x : x \in Action
    BY DidType
  <2> QED BY <1>1, <1>3, <1>4, <2>1, RecordsGrow
<1>7. ASSUME NEW a \in Touched'
      PROVE  \E kind \in {"executed", "exec_failed"} : Recorded(st'.actions, kind, a)
  BY <1>1, <1>5, <1>6, <1>7 DEF Audit, AuditedSoFar, Named
<1>8. Happened'
  BY <1>1, <1>4, <1>5 DEF Audit, Happened
<1>9. ASSUME NEW a \in undone'
      PROVE  Recorded(st'.actions, "exec_failed", a) /\ st'.phase = "escalated"
  <2>1. CASE Resolve
    BY <1>1, <1>9, <2>1 DEF Resolve, Returns
  <2>2. CASE Compensate \/ CompensationFails
    <3>1. a = Current.hash /\ pc = "compensate"
      BY <1>1, <1>9, <2>2 DEF Compensate, CompensationFails
    <3> QED BY <1>2, <1>3, <1>6, <2>2, <3>1 DEF Audit, FailureNamed
  <2> QED BY <2>1, <2>2
<1>10. EffectsAudited'
  BY <1>7, <1>8, <1>9 DEF EffectsAudited, Happened
<1> QED BY <1>1, <1>8, <1>10 DEF Audit, AuditedSoFar, FailureNamed, UndoneLast

LEMMA Audits == Spec => []Audit
<1>1. Init => Audit
  <2> SUFFICES ASSUME Init PROVE Audit
    OBVIOUS
  <2>1. pc = "start" /\ undone = {} /\ done = << >>
    BY DEF Init
  <2>2. Happened
    BY <2>1 DEF Happened, Recorded
  <2> QED
    BY <2>1, <2>2, InitIInv DEF Audit, AuditedSoFar, FailureNamed, UndoneLast, EffectsAudited
<1>2. Audit /\ [Next]_vars => Audit'
  <2> SUFFICES ASSUME Audit, [Next]_vars PROVE Audit'
    OBVIOUS
  <2>1. IInv'
    BY NextIInv DEF Audit
  <2>2. CASE Ended \/ UNCHANGED vars
    <3>1. UNCHANGED vars
      BY <2>2 DEF Ended
    <3> QED
      BY <2>1, <3>1 DEF vars, Audit, AuditedSoFar, FailureNamed, Happened, UndoneLast,
         EffectsAudited, Touched, Named, Recorded, Current
  <2> QED BY <2>1, <2>2, QuietAudit, ExecutionAudit, ReturnAudit DEF Next
<1> QED BY <1>1, <1>2, PTL DEF Spec

----------------------------------------------------------------------------
(* Refinement: the loops build the lists of which CoordinatorNode speaks.  *)

LocalList ==
  /\ pc \notin {"start", "raised"} => verifyKey # Unset
  /\ pc \in {"start", "verify", "preflight"} => done = << >>
  /\ pc = "execute" => /\ done = ExecutedUpTo(st.intents, idx - 1)
                       /\ seen = {st.intents[j].hash : j \in 1 .. idx - 1}
  /\ pc = "compensate" =>
       done = Append(ExecutedUpTo(st.intents, idx - 1), Did("exec_failed", Current.hash))

(* What the executor reports is a list of actions, which the next intent   *)
(* extends by one.                                                         *)
LEMMA UpToGrows ==
  ASSUME NEW s \in Seq(Intent), NEW n \in Nat, n <= Len(s)
  PROVE  /\ ExecutedUpTo(s, n) \in Seq(Action)
         /\ n = 0 => ExecutedUpTo(s, n) = << >>
         /\ n > 0 => ExecutedUpTo(s, n) = Append(ExecutedUpTo(s, n - 1), ExecutedAs(s, n))
<1>1. \A j \in 1 .. n : s[j].hash \in Hashes
  <2>1. \A j \in 1 .. n : s[j] \in Intent
    OBVIOUS
  <2>2. \A i \in Intent : i.hash \in Hashes
    BY DEF Intent
  <2> QED BY <2>1, <2>2
<1>2. \A j \in 1 .. n : ExecutedAs(s, j) \in Action
  BY <1>1, DidType DEF ExecutedAs
<1>3. \A m \in 0 .. n : /\ ExecutedUpTo(s, m) \in Seq(Action)
                        /\ Len(ExecutedUpTo(s, m)) = m
                        /\ \A j \in 1 .. m : ExecutedUpTo(s, m)[j] = ExecutedAs(s, j)
  BY <1>2 DEF ExecutedUpTo
<1>4. n = 0 => ExecutedUpTo(s, n) = << >>
  BY <1>3
<1>5. ASSUME n > 0
      PROVE  ExecutedUpTo(s, n) = Append(ExecutedUpTo(s, n - 1), ExecutedAs(s, n))
  <2> DEFINE e == ExecutedUpTo(s, n)
             f == ExecutedUpTo(s, n - 1)
             g == Append(f, ExecutedAs(s, n))
  <2>1. /\ e \in Seq(Action) /\ Len(e) = n
        /\ f \in Seq(Action) /\ Len(f) = n - 1
        /\ \A j \in 1 .. n - 1 : f[j] = e[j]
        /\ e[n] = ExecutedAs(s, n) /\ ExecutedAs(s, n) \in Action
    BY <1>2, <1>3, <1>5
  <2> HIDE DEF e, f
  <2>2. g \in Seq(Action) /\ Len(g) = n
    BY <1>5, <2>1
  <2>3. \A j \in 1 .. n : g[j] = e[j]
    BY <1>5, <2>1
  <2> HIDE DEF g
  <2>4. e = g
    BY <2>1, <2>2, <2>3, SeqEqual
  <2> QED BY <2>4 DEF e, f, g
<1> QED BY <1>3, <1>4, <1>5

(* Sequences of one and two actions.                                       *)
LEMMA ShortLists ==
  ASSUME NEW s \in Seq(Action), NEW x \in Action, NEW y \in Action
  PROVE  /\ Append(<< >>, x) = << x >>
         /\ s \o << >> = s
         /\ Append(s, x) = s \o << x >> \o << >>
         /\ Append(Append(s, x), y) = s \o << x >> \o << y >>
<1> DEFINE a == Append(<< >>, x)
           b == s \o << >>
           c == Append(s, x)
           d == s \o << x >> \o << >>
           e == Append(Append(s, x), y)
           f == s \o << x >> \o << y >>
<1>0. << >> \in Seq(Action) /\ << x >> \in Seq(Action) /\ << y >> \in Seq(Action)
  BY SMT
<1>1. a \in Seq(Action) /\ Len(a) = 1 /\ Len(<< x >>) = 1 /\ a[1] = << x >>[1]
  BY SMT
<1>2. b \in Seq(Action) /\ Len(b) = Len(s) /\ \A i \in 1 .. Len(s) : b[i] = s[i]
  BY SMT
<1>3. /\ c \in Seq(Action) /\ Len(c) = Len(s) + 1
      /\ \A i \in 1 .. Len(s) : c[i] = s[i]
      /\ c[Len(s) + 1] = x
  BY SMT
<1>4. /\ d \in Seq(Action) /\ Len(d) = Len(s) + 1
      /\ \A i \in 1 .. Len(s) : d[i] = s[i]
      /\ d[Len(s) + 1] = x
  BY <1>0, SMT
<1>5. /\ e \in Seq(Action) /\ Len(e) = Len(s) + 2
      /\ \A i \in 1 .. Len(s) : e[i] = s[i]
      /\ e[Len(s) + 1] = x /\ e[Len(s) + 2] = y
  BY SMT
<1>6. /\ f \in Seq(Action) /\ Len(f) = Len(s) + 2
      /\ \A i \in 1 .. Len(s) : f[i] = s[i]
      /\ f[Len(s) + 1] = x /\ f[Len(s) + 2] = y
  BY <1>0, SMT
<1> HIDE DEF a, b, c, d, e, f
<1>7. a = << x >>
  <2>1. \A i \in 1 .. Len(a) : a[i] = << x >>[i]
    BY <1>1
  <2> QED BY <1>0, <1>1, <2>1, SeqEqual
<1>8. b = s
  BY <1>2, SeqEqual
<1>9. c = d
  <2>1. \A i \in 1 .. Len(c) : c[i] = d[i]
    BY <1>3, <1>4
  <2> QED BY <1>3, <1>4, <2>1, SeqEqual
<1>10. e = f
  <2>1. \A i \in 1 .. Len(e) : e[i] = f[i]
    BY <1>5, <1>6
  <2> QED BY <1>5, <1>6, <2>1, SeqEqual
<1> QED BY <1>7, <1>8, <1>9, <1>10 DEF a, b, c, d, e, f

LEMMA LocalListStep ==
  ASSUME IInv, IInv', LocalList, [Next]_vars
  PROVE  LocalList'
<1>0. st \in IncidentState /\ done \in Seq(Action) /\ idx \in Nat /\ st.intents \in Seq(Intent)
  BY DEF IInv, TypeOK, IncidentState
<1>1. CASE Start
  BY <1>1 DEF Start, internal, LocalList
<1>2. CASE VerifyOne \/ VerifiedAll
  BY <1>2 DEF VerifyOne, VerifiedAll, LocalList
<1>3. CASE VerifyFails \/ PreflightInvalidated \/ PreflightDrift \/ PreflightResolved \/ Resolve
             \/ Compensate \/ CompensationFails
  BY <1>3 DEF VerifyFails, PreflightInvalidated, PreflightDrift, PreflightResolved, Resolve,
     Compensate, CompensationFails, Returns, LocalList
<1>4. CASE PreflightOk
  <2>1. idx = 1 /\ seen = {} /\ pc' = "execute"
    BY <1>4 DEF PreflightOk, IInv, StartsAtOne, UntouchedEarly
  <2>2. ExecutedUpTo(st.intents, 0) = << >>
    BY <1>0, UpToGrows
  <2> QED BY <1>4, <2>1, <2>2 DEF PreflightOk, internal, LocalList
<1>5. CASE ExecuteNew \/ ExecuteAgain
  <2>1. /\ idx \in DOMAIN st.intents /\ idx' = idx + 1 /\ pc = "execute" /\ pc' = "execute"
        /\ UNCHANGED <<st, verifyKey>>
    BY <1>5, CurrentType DEF IInv, ExecuteNew, ExecuteAgain
  <2>2. /\ done = ExecutedUpTo(st.intents, idx - 1)
        /\ seen = {st.intents[j].hash : j \in 1 .. idx - 1}
    BY <2>1 DEF LocalList
  <2>3. done' = Append(done, ExecutedAs(st.intents, idx))
    <3>1. Fresh(Current.hash, seen) <=>
            ~ \E i \in 1 .. idx - 1 : st.intents[i].hash = st.intents[idx].hash
      BY <2>2 DEF Fresh, Current
    <3> QED BY <1>5, <3>1 DEF ExecuteNew, ExecuteAgain, ExecutedAs, Current
  <2>4. ExecutedUpTo(st.intents, idx) = Append(ExecutedUpTo(st.intents, idx - 1), ExecutedAs(st.intents, idx))
    BY <1>0, <2>1, UpToGrows
  <2>5. seen' = {st.intents[j].hash : j \in 1 .. idx}
    <3>1. seen' = seen \cup {st.intents[idx].hash}
      BY <1>5 DEF ExecuteNew, ExecuteAgain, Fresh, Current
    <3>2. \A j \in 1 .. idx : j \in 1 .. idx - 1 \/ j = idx
      BY <1>0
    <3>3. 1 .. idx - 1 \subseteq 1 .. idx /\ idx \in 1 .. idx
      BY <1>0, <2>1
    <3> QED BY <2>2, <3>1, <3>2, <3>3
  <2>6. idx' - 1 = idx
    BY <1>0, <2>1
  <2> QED BY <2>1, <2>2, <2>3, <2>4, <2>5, <2>6 DEF LocalList
<1>6. CASE ExecuteFails
  BY <1>6 DEF ExecuteFails, LocalList, Current
<1>7. CASE Ended \/ UNCHANGED vars
  <2>1. UNCHANGED vars
    BY <1>7 DEF Ended
  <2> QED BY <2>1 DEF vars, LocalList, Current
<1> QED BY <1>1, <1>2, <1>3, <1>4, <1>5, <1>6, <1>7 DEF Next

(* The first forged intent is the one at which the verification stops.     *)
LEMMA FirstForged ==
  ASSUME IInv, VerifyFails
  PROVE  Forged(st, verifyKey) # {} /\ st.intents[FirstOf(Forged(st, verifyKey))] = Current
<1>1. idx \in DOMAIN st.intents /\ st.intents \in Seq(Intent)
  BY CurrentType DEF IInv, VerifyFails, TypeOK, IncidentState
<1>2. idx \in Forged(st, verifyKey)
  BY <1>1 DEF Forged, VerifyFails, Current
<1>3. \A k \in Forged(st, verifyKey) : k \in Nat /\ idx <= k
  BY <1>1 DEF Forged, IInv, VerifiedSoFar, VerifyFails
<1>4. FirstOf(Forged(st, verifyKey)) = idx
  BY <1>2, <1>3 DEF FirstOf
<1> QED BY <1>2, <1>4 DEF Current

(* Every return is the one step that the contract allows.                  *)
LEMMA ReturnsByContract ==
  ASSUME IInv, LocalList,
         VerifyFails \/ PreflightInvalidated \/ PreflightDrift \/ PreflightResolved
           \/ Resolve \/ Compensate \/ CompensationFails
  PROVE  \E failAt \in 0 .. Len(st.intents), compensates \in BOOLEAN :
           st' = CoordinatorNode(st, verifyKey, failAt, compensates)
<1>0. /\ st \in IncidentState /\ st.actions \in Seq(Action) /\ st.intents \in Seq(Intent)
      /\ Len(st.intents) \in Nat /\ 0 \in 0 .. Len(st.intents)
      /\ idx \in 1 .. Len(st.intents) + 1 /\ done \in Seq(Action)
  BY DEF IInv, TypeOK, IncidentState
<1>1. pc \in {"preflight", "execute", "compensate"} => Forged(st, verifyKey) = {}
  BY DEF IInv, VerifiedSoFar, AllVerified, Forged
<1>2. pc \in {"execute", "compensate"} => Preflight(st) = "ok"
  BY DEF IInv, CheckedBeforeExecution
<1>3. CASE VerifyFails
  <2>1. Did("verify_failed", Current.hash) \in Action
    BY <1>3, CurrentType, DidType DEF IInv, VerifyFails
  <2>2. Append(done, Did("verify_failed", Current.hash)) = << Did("verify_failed", Current.hash) >>
    BY <1>0, <1>3, <2>1, ShortLists DEF LocalList, VerifyFails
  <2>3. st' = CoordinatorNode(st, verifyKey, 0, TRUE)
    BY <1>3, <2>2, FirstForged DEF VerifyFails, Returns, CoordinatorNode
  <2> QED BY <1>0, <2>3
<1>4. CASE PreflightInvalidated \/ PreflightDrift
  <2>1. done = << >> /\ pc = "preflight"
    BY <1>4 DEF PreflightInvalidated, PreflightDrift, LocalList
  <2>2. \A phase : Closing(st, phase, << >>) = [st EXCEPT !.phase = phase]
    <3>1. st.actions \o << >> = st.actions
      BY <1>0, DidType, ShortLists
    <3> QED BY <1>0, <3>1 DEF Closing, IncidentState
  <2>3. st' = CoordinatorNode(st, verifyKey, 0, TRUE)
    BY <1>1, <1>4, <2>1, <2>2 DEF PreflightInvalidated, PreflightDrift, Returns, CoordinatorNode
  <2> QED BY <1>0, <2>3
<1>5. CASE PreflightResolved
  <2>1. Append(done, Did("no_op", Unset)) = << Did("no_op", Unset) >>
    BY <1>0, <1>5, DidType, ShortLists DEF LocalList, PreflightResolved
  <2>2. st' = CoordinatorNode(st, verifyKey, 0, TRUE)
    BY <1>1, <1>5, <2>1 DEF PreflightResolved, Returns, CoordinatorNode
  <2> QED BY <1>0, <2>2
<1>6. CASE Resolve
  <2>1. idx - 1 = Len(st.intents)
    BY <1>0, <1>6 DEF Resolve
  <2>2. st' = ExecutionOutcome(st, 0, TRUE)
    BY <1>6, <2>1 DEF Resolve, Returns, LocalList, ExecutionOutcome
  <2>3. st' = CoordinatorNode(st, verifyKey, 0, TRUE)
    BY <1>1, <1>2, <1>6, <2>2 DEF Resolve, CoordinatorNode
  <2> QED BY <1>0, <2>3
<1>7. CASE Compensate \/ CompensationFails
  <2>1. pc = "compensate" /\ idx \in 1 .. Len(st.intents) /\ Current = st.intents[idx]
    BY <1>0, <1>7 DEF Compensate, CompensationFails, IInv, CompensatesCurrent, Current
  <2>2. /\ Did("exec_failed", Current.hash) \in Action
        /\ Did("compensated", Current.hash) \in Action
    BY <2>1, CurrentType, DidType DEF IInv
  <2> DEFINE upTo == ExecutedUpTo(st.intents, idx - 1)
             failed == Did("exec_failed", Current.hash)
             undo == Did("compensated", Current.hash)
  <2>3. upTo \in Seq(Action) /\ done = Append(upTo, failed)
    <3>1. st.intents \in Seq(Intent) /\ idx - 1 \in Nat /\ idx - 1 <= Len(st.intents)
      BY <1>0, <2>1
    <3>2. ExecutedUpTo(st.intents, idx - 1) \in Seq(Action)
      BY <3>1, UpToGrows
    <3>3. done = Append(ExecutedUpTo(st.intents, idx - 1), Did("exec_failed", Current.hash))
      BY <2>1 DEF LocalList
    <3> QED BY <3>2, <3>3
  <2>4. /\ Append(upTo, failed) = upTo \o << failed >> \o << >>
        /\ Append(Append(upTo, failed), undo) = upTo \o << failed >> \o << undo >>
    <3> HIDE DEF upTo, failed, undo
    <3> QED BY <2>2, <2>3, ShortLists DEF failed, undo
  <2>5. /\ Compensate => st' = Closing(st, "escalated", upTo \o << failed >> \o << undo >>)
        /\ CompensationFails => st' = Closing(st, "escalated", upTo \o << failed >> \o << >>)
    BY <2>3, <2>4 DEF Compensate, CompensationFails, Returns
  <2>6. idx # 0
    BY <2>1
  <2>7. /\ Compensate => st' = ExecutionOutcome(st, idx, TRUE)
        /\ CompensationFails => st' = ExecutionOutcome(st, idx, FALSE)
    BY <2>1, <2>5, <2>6 DEF ExecutionOutcome
  <2>8. \A b \in BOOLEAN : CoordinatorNode(st, verifyKey, idx, b) = ExecutionOutcome(st, idx, b)
    BY <1>1, <1>2, <2>1 DEF CoordinatorNode
  <2>9. \E b \in BOOLEAN : st' = CoordinatorNode(st, verifyKey, idx, b)
    BY <1>7, <2>7, <2>8
  <2> QED BY <2>1, <2>9
<1> QED BY <1>3, <1>4, <1>5, <1>6, <1>7

(* The contract speaks of the same nodes: its instance of IncidentNodes is  *)
(* over the same constants.                                                 *)
LEMMA SameStates == Contract!IncidentState = IncidentState
BY DEF IncidentState, HypothesisMap, Status, Absent, Finding, Intent, Action, Phase,
   Contract!IncidentState, Contract!HypothesisMap, Contract!Status, Contract!Absent,
   Contract!Finding, Contract!Intent, Contract!Action, Contract!Phase

LEMMA SameCoordinator ==
  ASSUME NEW s, NEW key, NEW failAt, NEW compensates
  PROVE  Contract!CoordinatorNode(s, key, failAt, compensates)
           = CoordinatorNode(s, key, failAt, compensates)
<1>1. Contract!Forged(s, key) = Forged(s, key)
  BY DEF Forged, Verifies, Contract!Forged, Contract!Verifies
<1>2. Contract!FirstOf(Forged(s, key)) = FirstOf(Forged(s, key))
  BY DEF FirstOf, Contract!FirstOf
<1>3. Contract!Known(s) = Known(s) /\ Contract!Confirmed(s) = Confirmed(s)
  BY DEF Known, Confirmed, Absent, Contract!Known, Contract!Confirmed, Contract!Absent
<1>4. Contract!Preflight(s) = Preflight(s)
  BY <1>3 DEF Preflight, Contract!Preflight
<1>5. \A kind, hash : Contract!Did(kind, hash) = Did(kind, hash)
  BY DEF Did, Contract!Did
<1>6. \A phase, acts : Contract!Closing(s, phase, acts) = Closing(s, phase, acts)
  BY DEF Closing, Contract!Closing
<1>7. \A n : Contract!ExecutedUpTo(s.intents, n) = ExecutedUpTo(s.intents, n)
  BY <1>5 DEF ExecutedUpTo, ExecutedAs, Contract!ExecutedUpTo, Contract!ExecutedAs
<1>8. Contract!ExecutionOutcome(s, failAt, compensates) = ExecutionOutcome(s, failAt, compensates)
  BY <1>5, <1>6, <1>7 DEF ExecutionOutcome, Contract!ExecutionOutcome
<1> QED BY <1>1, <1>2, <1>4, <1>5, <1>6, <1>8 DEF CoordinatorNode, Contract!CoordinatorNode

ContractSteps == Contract!Init /\ [][Contract!Next]_(Contract!vars)

LEMMA StepContract ==
  IInv /\ LocalList /\ [Next]_vars => [Contract!Next]_(Contract!vars)
<1> SUFFICES ASSUME IInv, LocalList, [Next]_vars PROVE [Contract!Next]_(Contract!vars)
  OBVIOUS
<1> USE DEF Contract!vars
<1>1. CASE Start
  <2>1. CASE verifyKey = Unset
    BY <1>1, <2>1 DEF Start, Contract!Next, Contract!Raise
  <2>2. CASE verifyKey # Unset
    BY <1>1, <2>2 DEF Start
  <2> QED BY <2>1, <2>2
<1>2. CASE VerifyOne \/ VerifiedAll \/ PreflightOk \/ ExecuteNew \/ ExecuteAgain \/ ExecuteFails
  BY <1>2 DEF VerifyOne, VerifiedAll, PreflightOk, ExecuteNew, ExecuteAgain, ExecuteFails
<1>3. CASE VerifyFails \/ PreflightInvalidated \/ PreflightDrift \/ PreflightResolved
             \/ Resolve \/ Compensate \/ CompensationFails
  <2>1. /\ pc \notin {"start", "raised", "returned"} /\ pc' = "returned"
        /\ verifyKey' = verifyKey
    BY <1>3 DEF VerifyFails, PreflightInvalidated, PreflightDrift, PreflightResolved, Resolve,
       Compensate, CompensationFails, Returns
  <2>2. verifyKey # Unset
    BY <2>1 DEF LocalList
  <2>3. \E failAt \in 0 .. Len(st.intents), compensates \in BOOLEAN :
          st' = CoordinatorNode(st, verifyKey, failAt, compensates)
    BY <1>3, ReturnsByContract
  <2>4. Contract!Return
    BY <2>1, <2>2, <2>3, SameCoordinator DEF Contract!Return
  <2> QED BY <2>4 DEF Contract!Next
<1>4. CASE Ended \/ UNCHANGED vars
  BY <1>4 DEF Ended, vars
<1> QED BY <1>1, <1>2, <1>3, <1>4 DEF Next

----------------------------------------------------------------------------
(* Theorems *)

LEMMA Inductive == Spec => []IInv
BY InitIInv, NextIInv, PTL DEF Spec

(* Every variable keeps its type; the phase is one of IncidentPhase.       *)
THEOREM TypeCorrect == Spec => []TypeOK
<1>1. IInv => TypeOK
  BY DEF IInv
<1> QED BY <1>1, Inductive, PTL

(* The call touches nothing unless every intent of the list verifies.      *)
THEOREM FailsClosed == Spec => []FailClosed
<1>1. IInv => FailClosed
  BY DEF IInv
<1> QED BY <1>1, Inductive, PTL

(* The call touches nothing without a confirmed hypothesis.                *)
THEOREM TouchesOnConfirmed == Spec => []TouchedOnConfirmed
<1>1. IInv => TouchedOnConfirmed
  BY DEF IInv
<1> QED BY <1>1, Inductive, PTL

(* A hash repeated in the list is applied once.                            *)
THEOREM AppliesOnce == Spec => []OncePerHash
<1>1. IInv => OncePerHash
  BY DEF IInv
<1> QED BY <1>1, Inductive, PTL

(* An incident resolved on a hypothesis had its whole list applied.        *)
THEOREM ResolvesComplete == Spec => []ResolvedIsComplete
<1>1. IInv => ResolvedIsComplete
  BY DEF IInv
<1> QED BY <1>1, Inductive, PTL

(* Wherever the executor raises, before or after its effect, the returned  *)
(* state names all that was touched, what it reports has happened, and a   *)
(* rollback that it does not report is one of a failure that it does.      *)
THEOREM AuditsEffects == Spec => []EffectsAudited
<1>1. Audit => EffectsAudited
  BY DEF Audit
<1> QED BY <1>1, Audits, PTL

(* The statements of the call, taken together, are one step of the contract *)
(* that the graph relies on: the call returns what CoordinatorNode says, or *)
(* raises, and nothing in between shows.                                    *)
THEOREM FollowsContract == Spec => ContractSteps
<1>1. Init => Contract!Init
  BY SeedAssumption, SameStates DEF Init, Contract!Init
<1>2. Init => LocalList
  BY DEF Init, LocalList
<1>3. IInv /\ IInv' /\ LocalList /\ [Next]_vars => LocalList'
  BY LocalListStep
<1>4. Spec => []LocalList
  BY <1>2, <1>3, Inductive, PTL DEF Spec
<1>5. IInv /\ LocalList /\ [Next]_vars => [Contract!Next]_(Contract!vars)
  BY StepContract
<1> QED BY <1>1, <1>4, <1>5, Inductive, PTL DEF Spec, ContractSteps

----------------------------------------------------------------------------
(* What is left to do of a call, at most: each of the two loops looks at   *)
(* every intent once, and the preflight, the ends of the loops and the     *)
(* compensation are a step each.                                           *)
StepsLeft ==
  CASE pc = "start"      -> 2 * Len(st.intents) + 4
    [] pc = "verify"     -> 2 * Len(st.intents) + 4 - idx
    [] pc = "preflight"  -> Len(st.intents) + 2
    [] pc = "execute"    -> Len(st.intents) + 2 - idx
    [] pc = "compensate" -> 1
    [] OTHER             -> 0

(* Neither loop looks at an intent again, whatever fails: there is always  *)
(* less left to do after a step than before it.                            *)
GetsOn == StepsLeft' < StepsLeft

(* A call takes at most 2 * Len(intents) + 4 steps for any list, which is  *)
(* what the fairness of Spec needs to bring it to its end.                 *)
THEOREM WorksBoundedly ==
  Spec => /\ [](StepsLeft \in 0 .. 2 * Len(st.intents) + 4)
          /\ [][GetsOn]_vars
<1>1. ASSUME IInv PROVE StepsLeft \in 0 .. 2 * Len(st.intents) + 4
  <2>1. Len(st.intents) \in Nat /\ idx \in 1 .. Len(st.intents) + 1
    BY <1>1 DEF IInv, TypeOK, IncidentState
  <2> QED BY <2>1 DEF StepsLeft
<1>2. ASSUME IInv, [Next]_vars PROVE [GetsOn]_vars
  <2>1. Len(st.intents) \in Nat /\ idx \in 1 .. Len(st.intents) + 1
    BY <1>2 DEF IInv, TypeOK, IncidentState
  <2>2. StartsAtOne /\ CompensatesCurrent
    BY <1>2 DEF IInv
  <2>3. CASE Start
    BY <2>1, <2>2, <2>3 DEF Start, internal, StartsAtOne, GetsOn, StepsLeft
  <2>4. CASE VerifyOne
    BY <2>1, <2>4 DEF VerifyOne, GetsOn, StepsLeft
  <2>5. CASE VerifiedAll
    BY <2>1, <2>5 DEF VerifiedAll, GetsOn, StepsLeft
  <2>6. CASE \/ VerifyFails
             \/ PreflightInvalidated \/ PreflightDrift \/ PreflightResolved
             \/ Resolve \/ Compensate \/ CompensationFails
    <3>1. /\ pc' = "returned"
          /\ \/ pc \in {"verify", "preflight", "compensate"}
             \/ pc = "execute" /\ idx > Len(st.intents)
      BY <2>6 DEF VerifyFails, PreflightInvalidated, PreflightDrift, PreflightResolved,
         Resolve, Compensate, CompensationFails, Returns
    <3>2. StepsLeft > 0
      BY <2>1, <3>1 DEF StepsLeft
    <3>3. StepsLeft' = 0
      BY <3>1 DEF StepsLeft
    <3> QED BY <3>2, <3>3 DEF GetsOn
  <2>7. CASE PreflightOk
    BY <2>1, <2>2, <2>7 DEF PreflightOk, internal, StartsAtOne, GetsOn, StepsLeft
  <2>8. CASE ExecuteNew \/ ExecuteAgain
    BY <2>1, <2>8 DEF ExecuteNew, ExecuteAgain, GetsOn, StepsLeft
  <2>9. CASE ExecuteFails
    BY <2>1, <2>9 DEF ExecuteFails, GetsOn, StepsLeft
  <2> QED
    BY <1>2, <2>3, <2>4, <2>5, <2>6, <2>7, <2>8, <2>9 DEF Next, Ended
<1> QED BY <1>1, <1>2, Inductive, PTL DEF Spec
=============================================================================
