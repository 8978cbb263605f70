---------------------------- MODULE Coordinator ----------------------------
(***************************************************************************)
(* One call of the Coordinator, statement by statement: the verification   *)
(* loop, the preflight check, the execution loop of the IdempotentExecutor *)
(* and the compensation.  The call works on its own list of actions, which *)
(* reaches the state only when it returns; what the executor does to the   *)
(* cluster is there at once.                                               *)
(*                                                                         *)
(* The executor logs its mutations (dry run), so it never fails today; the *)
(* error paths are modelled as the code has them, for an executor that may *)
(* raise at any mutation and at the rollback, before or after it took      *)
(* effect.                                                                 *)
(***************************************************************************)
EXTENDS IncidentNodes

CONSTANT Seeds   \* the states the Coordinator is called with

ASSUME SeedAssumption == Seeds \subseteq IncidentState

VARIABLES
  st,         \* the IncidentState: given, and replaced when the call returns
  verifyKey,  \* PLANNER_VERIFY_KEY
  pc,         \* where the call is
  idx,        \* the intent the loop at pc looks at
  done,       \* the actions this call has appended to its actions_taken
  seen,       \* _executed_hashes of this call's executor
  applied,    \* how often each intent's mutation was made
  undone      \* intents whose rollback_hint was executed

vars == <<st, verifyKey, pc, idx, done, seen, applied, undone>>
internal == <<idx, done, seen, applied, undone>>

Init ==
  /\ st \in Seeds
  /\ verifyKey \in Keys \cup {Unset}
  /\ pc = "start"
  /\ idx = 1
  /\ done = << >>
  /\ seen = {}
  /\ applied = [a \in Hashes |-> 0]
  /\ undone = {}

\* Every return statement: the update is merged into the state.
Returns(phase, actions) ==
  /\ pc' = "returned"
  /\ st' = Closing(st, phase, actions)
  /\ done' = actions
  /\ UNCHANGED <<verifyKey, idx, seen, applied, undone>>

Start ==
  /\ pc = "start"
  /\ pc' = IF verifyKey = Unset THEN "raised" ELSE "verify"
  /\ UNCHANGED <<st, verifyKey, internal>>

Current == st.intents[idx]

\* Step 1.  The whole list is verified before anything else happens.
VerifyOne ==
  /\ pc = "verify" /\ idx <= Len(st.intents)
  /\ Verifies(Current, verifyKey)
  /\ idx' = idx + 1
  /\ UNCHANGED <<st, verifyKey, pc, done, seen, applied, undone>>

\* Mutation: a bad intent is reported, and the loop goes on.
VerifyFailsAndContinues ==
  /\ pc = "verify" /\ idx <= Len(st.intents)
  /\ ~ Verifies(Current, verifyKey)
  /\ done' = Append(done, Did("verify_failed", Current.hash))
  /\ idx' = idx + 1
  /\ UNCHANGED <<st, verifyKey, pc, seen, applied, undone>>

VerifyFails ==
  /\ pc = "verify" /\ idx <= Len(st.intents)
  /\ ~ Verifies(Current, verifyKey)
  /\ Returns("escalated", Append(done, Did("verify_failed", Current.hash)))

\* Mutation: the second loop starts where the first one ended.
VerifiedAllWithoutReset ==
  /\ pc = "verify" /\ idx > Len(st.intents)
  /\ pc' = "preflight"
  /\ UNCHANGED <<st, verifyKey, idx, done, seen, applied, undone>>

VerifiedAll ==
  /\ pc = "verify" /\ idx > Len(st.intents)
  /\ pc' = "preflight"
  /\ idx' = 1
  /\ UNCHANGED <<st, verifyKey, done, seen, applied, undone>>

\* Mutation: the outcome is taken for a phase.
InvalidatedByOutcome ==
  /\ pc = "preflight" /\ Preflight(st) = "diagnosis_invalidated"
  /\ Returns(Preflight(st), done)

\* Step 2.
PreflightInvalidated ==
  /\ pc = "preflight" /\ Preflight(st) = "diagnosis_invalidated"
  /\ Returns("investigating", done)

PreflightDrift ==
  /\ pc = "preflight" /\ Preflight(st) = "parameter_drift"
  /\ Returns(IF st.intents = << >> THEN "escalated" ELSE "planning", done)

PreflightResolved ==
  /\ pc = "preflight" /\ Preflight(st) = "already_resolved"
  /\ Returns("resolved", Append(done, Did("no_op", Unset)))

\* Step 3 cannot escalate: a preflight that is ok has intents.
PreflightOk ==
  /\ pc = "preflight" /\ Preflight(st) = "ok"
  /\ pc' = "execute"
  /\ UNCHANGED <<st, verifyKey, internal>>

\* Mutation: the executor does not look at _executed_hashes.
AlwaysFresh(hash, hashes) == TRUE

\* IdempotentExecutor.execute makes the mutation only for a new hash.
Fresh(hash, hashes) == hash \notin hashes

\* Step 4.  A new hash is in _executed_hashes before the action is recorded.
ExecuteNew ==
  /\ pc = "execute" /\ idx <= Len(st.intents)
  /\ Fresh(Current.hash, seen)
  /\ seen' = seen \cup {Current.hash}
  /\ applied' = [applied EXCEPT ![Current.hash] = @ + 1]
  /\ done' = Append(done, Did("executed", Current.hash))
  /\ idx' = idx + 1
  /\ UNCHANGED <<st, verifyKey, pc, undone>>

ExecuteAgain ==
  /\ pc = "execute" /\ idx <= Len(st.intents)
  /\ ~ Fresh(Current.hash, seen)
  /\ done' = Append(done, Did("skipped", Current.hash))
  /\ idx' = idx + 1
  /\ UNCHANGED <<st, verifyKey, pc, seen, applied, undone>>

\* Mutation: the loop goes on to the next intent.
ExecuteFailsAndContinues ==
  /\ pc = "execute" /\ idx <= Len(st.intents)
  /\ Fresh(Current.hash, seen)
  /\ done' = Append(done, Did("exec_failed", Current.hash))
  /\ idx' = idx + 1
  /\ UNCHANGED <<st, verifyKey, pc, seen, applied, undone>>

\* The loop breaks at the first exception.
ExecuteFails ==
  /\ pc = "execute" /\ idx <= Len(st.intents)
  /\ Fresh(Current.hash, seen)
  /\ \E made \in 0 .. 1 :
       applied' = [applied EXCEPT ![Current.hash] = @ + made]
  /\ done' = Append(done, Did("exec_failed", Current.hash))
  /\ pc' = "compensate"
  /\ UNCHANGED <<st, verifyKey, idx, seen, undone>>

Resolve ==
  /\ pc = "execute" /\ idx > Len(st.intents)
  /\ Returns("resolved", done)

\* Step 5.  Only the intent that failed is compensated.
Compensate ==
  /\ pc = "compensate"
  /\ done' = Append(done, Did("compensated", Current.hash))
  /\ undone' = undone \cup {Current.hash}
  /\ st' = Closing(st, "escalated", done')
  /\ pc' = "returned"
  /\ UNCHANGED <<verifyKey, idx, seen, applied>>

\* Mutation: the action is there before compensate() is awaited.
CompensationFailsRecorded ==
  /\ pc = "compensate"
  /\ undone' \in {undone, undone \cup {Current.hash}}
  /\ done' = Append(done, Did("compensated", Current.hash))
  /\ st' = Closing(st, "escalated", done')
  /\ pc' = "returned"
  /\ UNCHANGED <<verifyKey, idx, seen, applied>>

\* compensate() raised, and no action says what it did.
CompensationFails ==
  /\ pc = "compensate"
  /\ undone' \in {undone, undone \cup {Current.hash}}
  /\ st' = Closing(st, "escalated", done)
  /\ pc' = "returned"
  /\ UNCHANGED <<verifyKey, idx, done, seen, applied>>

\* The call is over.
Ended == pc \in {"returned", "raised"} /\ UNCHANGED vars

Next ==
  \/ Start
  \/ VerifyOne \/ VerifyFails \/ VerifiedAll
  \/ PreflightInvalidated \/ PreflightDrift \/ PreflightResolved \/ PreflightOk
  \/ ExecuteNew \/ ExecuteAgain \/ ExecuteFails \/ Resolve
  \/ Compensate \/ CompensationFails
  \/ Ended

\* One coroutine, run to its end by asyncio.run.
Spec == Init /\ [][Next]_vars /\ WF_vars(Next)

----------------------------------------------------------------------------
(* Properties *)

Point == {"start", "verify", "preflight", "execute", "compensate",
          "returned", "raised"}

TypeOK ==
  /\ st \in IncidentState
  /\ verifyKey \in Keys \cup {Unset}
  /\ pc \in Point
  /\ idx \in 1 .. Len(st.intents) + 1
  /\ done \in Seq(Action)
  /\ seen \subseteq Hashes
  /\ applied \in [Hashes -> Nat]
  /\ undone \subseteq Hashes

Touched == {a \in Hashes : applied[a] > 0}

(* Fail closed: nothing is touched when any intent of the list does not    *)
(* verify, wherever in the list it stands.                                 *)
FailClosed ==
  Touched # {} => \A j \in DOMAIN st.intents : Verifies(st.intents[j], verifyKey)

(* Nothing is touched without a confirmed hypothesis in the state that the *)
(* Coordinator was given, whoever put the intents there.                   *)
TouchedOnConfirmed == Touched # {} => Confirmed(st) # {}

(* The hash is an idempotency key: however often it is in the list, its    *)
(* mutation is made at most once by a call.                                *)
OncePerHash == \A a \in Hashes : applied[a] <= 1

Recorded(acts, kind, a) == \E j \in DOMAIN acts : acts[j] = Did(kind, a)

(* What a reader of the returned state may conclude about the cluster: an  *)
(* intent that the actions do not name as executed or failed has not       *)
(* touched it; an execution or a rollback that the call reports has        *)
(* happened; and a rollback that it does not report, because compensate()  *)
(* raised after its effect, is one of an intent named as failed, in an     *)
(* escalated incident.                                                     *)
EffectsAudited ==
  pc = "returned" =>
    /\ \A a \in Touched : \E kind \in {"executed", "exec_failed"} :
         Recorded(st.actions, kind, a)
    /\ \A a \in Hashes :
         /\ Recorded(done, "executed", a) => a \in Touched
         /\ Recorded(done, "compensated", a) => a \in undone
    /\ \A a \in undone :
         Recorded(st.actions, "exec_failed", a) /\ st.phase = "escalated"

(* A partly executed list is never reported as resolved.                   *)
ResolvedIsComplete ==
  pc = "returned" /\ st.phase = "resolved" /\ Known(st) # {}
    => \A j \in DOMAIN st.intents : applied[st.intents[j].hash] = 1

(* The loops compute what CoordinatorNode says, in one step of its caller, *)
(* and they end: the caller gets its answer, or an exception.              *)
Contract == INSTANCE CoordinatorContract WITH
              ended <- CASE pc = "returned" -> "returned"
                         [] pc = "raised" -> "raised"
                         [] OTHER -> "no"

ImplementsContract == Contract!Spec
=============================================================================
