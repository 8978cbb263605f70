--------------------------- MODULE IntakeProofs ---------------------------
(***************************************************************************)
(* Proofs about Intake, for any mentions, any number of deliveries, with   *)
(* the model's key or without.                                             *)
(***************************************************************************)
EXTENDS Intake, TLAPS

Raised(r, m) == outcome[r][m] = "raised"

\* What the places of the handler know about the collectors.
AskedSoFar(r) ==
  /\ pc[r] = "prom" => "kube" \in asked[r]
  /\ pc[r] \in {"llm", "results"} => asked[r] = Collector

\* Nothing concludes the thread before the investigation is done or given up.
NothingConcluded(r) ==
  pc[r] \in {"unsent", "ack", "announce", "status", "kube", "prom", "llm", "results"} =>
    shown[r] \cap {"results", "error"} = {}

\* What sent the handler into the except, and what it leaves there.
BehindError(r) ==
  /\ pc[r] = "error" =>
       /\ Raised(r, "status") \/ (Raised(r, "results") /\ asked[r] = Collector)
       /\ "results" \in shown[r] => Raised(r, "results")
       /\ "error" \notin shown[r]
  /\ "error" \in shown[r] =>
       /\ Raised(r, "status") \/ Raised(r, "results")
       /\ "results" \in shown[r] => Raised(r, "results")

Investigation(r) ==
  pc[r] \in {"accepted", "failed"} =>
    asked[r] = Collector \/ \E m \in {"ack", "announce", "status"} : Raised(r, m)

Conclusion(r) ==
  pc[r] = "accepted" /\ Thread(r) =>
    \/ "results" \in shown[r] /\ asked[r] = Collector
    \/ "error" \in shown[r]
    \/ "refused" \in {outcome[r]["results"], outcome[r]["error"]}

Sound(r) ==
  /\ AskedSoFar(r)
  /\ NothingConcluded(r)
  /\ BehindError(r)
  /\ Investigation(r)
  /\ Conclusion(r)

\* The loop is held by a handler that is at its model call.
LoopHeld == thinking # None => pc[thinking] = "llm"

IInv == TypeOK /\ LoopHeld /\ \A r \in Request : Sound(r)

----------------------------------------------------------------------------

\* What post_message does, on one request and to the others.
LEMMA PostEffect ==
  ASSUME TypeOK, NEW r \in Request, NEW m \in Message, NEW sent, NEW raises,
         Post(r, m, sent, raises)
  PROVE  /\ pc[r] = m /\ thinking = None
         /\ \A q \in Request \ {r} :
              pc'[q] = pc[q] /\ outcome'[q] = outcome[q] /\ shown'[q] = shown[q]
         /\ \A n \in Message \ {m} : outcome'[r][n] = outcome[r][n]
         /\ \/ outcome'[r][m] = "ok" /\ pc'[r] = sent /\ shown'[r] = shown[r] \cup {m}
            \/ outcome'[r][m] = "refused" /\ pc'[r] = sent /\ shown'[r] = shown[r]
            \/ /\ outcome'[r][m] = "raised" /\ pc'[r] = raises
               /\ shown'[r] = shown[r] \/ shown'[r] = shown[r] \cup {m}
         /\ outcome' \in [Request -> [Message -> Answer \cup {"none"}]]
         /\ shown' \in [Request -> SUBSET Message]
         /\ DOMAIN pc' = Request /\ pc' = [q \in Request |-> pc'[q]]
         /\ UNCHANGED <<late, asked, thinking>>
<1>1. PICK answer \in Answer :
        /\ outcome' = [outcome EXCEPT ![r][m] = answer]
        /\ pc' = [pc EXCEPT ![r] = IF answer = "raised" THEN raises ELSE sent]
        /\ \/ answer # "refused" /\ shown' = [shown EXCEPT ![r] = shown[r] \cup {m}]
           \/ answer # "ok" /\ UNCHANGED shown
  BY DEF Post
<1>2. outcome[r] \in [Message -> Answer \cup {"none"}]
  BY DEF TypeOK
<1>3. /\ outcome' = [outcome EXCEPT ![r] = [outcome[r] EXCEPT ![m] = answer]]
      /\ [outcome[r] EXCEPT ![m] = answer] \in [Message -> Answer \cup {"none"}]
  BY <1>1, <1>2
<1>4. /\ outcome' \in [Request -> [Message -> Answer \cup {"none"}]]
      /\ outcome'[r] = [outcome[r] EXCEPT ![m] = answer]
      /\ \A q \in Request \ {r} : outcome'[q] = outcome[q]
  BY <1>3 DEF TypeOK
<1>5. /\ outcome'[r][m] = answer
      /\ \A n \in Message \ {m} : outcome'[r][n] = outcome[r][n]
  BY <1>2, <1>4
<1>6. /\ shown' \in [Request -> SUBSET Message]
      /\ \A q \in Request \ {r} : shown'[q] = shown[q]
      /\ \/ answer # "refused" /\ shown'[r] = shown[r] \cup {m}
         \/ answer # "ok" /\ shown'[r] = shown[r]
  BY <1>1 DEF TypeOK
<1>7. /\ \A q \in Request \ {r} : pc'[q] = pc[q]
      /\ pc'[r] = IF answer = "raised" THEN raises ELSE sent
      /\ DOMAIN pc' = Request /\ pc' = [q \in Request |-> pc'[q]]
  BY <1>1 DEF TypeOK
<1>8. pc[r] = m /\ thinking = None /\ UNCHANGED <<late, asked, thinking>>
  BY DEF Post, Runs
<1> QED
  BY <1>4, <1>5, <1>6, <1>7, <1>8 DEF Answer

\* A request that a step does not touch stays sound.
LEMMA SoundUntouched ==
  ASSUME NEW q \in Request, Sound(q),
         pc'[q] = pc[q], outcome'[q] = outcome[q], shown'[q] = shown[q],
         asked'[q] = asked[q]
  PROVE  Sound(q)'
BY DEF Sound, AskedSoFar, NothingConcluded, BehindError, Investigation, Conclusion,
       Thread, Raised

\* A post that has its right continuation keeps the invariant.
LEMMA PostKeeps ==
  ASSUME IInv, NEW r \in Request, NEW m \in Message, NEW sent, NEW raises,
         Post(r, m, sent, raises),
         pc'[r] \in Place \cup Over,
         pc'[r] \in {"status", "results", "error"} => Thread(r)',
         Sound(r)'
  PROVE  IInv'
<1>1. TypeOK /\ LoopHeld /\ \A q \in Request : Sound(q)
  BY DEF IInv
<1>2. /\ thinking = None
      /\ \A q \in Request \ {r} :
           pc'[q] = pc[q] /\ outcome'[q] = outcome[q] /\ shown'[q] = shown[q]
      /\ outcome' \in [Request -> [Message -> Answer \cup {"none"}]]
      /\ shown' \in [Request -> SUBSET Message]
      /\ pc' = [q \in Request |-> pc'[q]]
      /\ UNCHANGED <<late, asked, thinking>>
  BY <1>1, PostEffect
<1>3. ASSUME NEW q \in Request PROVE Sound(q)'
  BY <1>1, <1>2, <1>3, SoundUntouched
<1>4. \A q \in Request : pc'[q] \in Place \cup Over \cup {"unsent"}
  BY <1>1, <1>2 DEF TypeOK
<1>5. \A q \in Request : pc'[q] \in {"status", "results", "error"} => Thread(q)'
  BY <1>1, <1>2 DEF TypeOK, Thread
<1>6. TypeOK'
  BY <1>1, <1>2, <1>4, <1>5 DEF TypeOK
<1>7. LoopHeld'
  BY <1>2 DEF LoopHeld
<1> QED
  BY <1>3, <1>6, <1>7 DEF IInv

\* A step of one handler that posts nothing.
LEMMA QuietStepKeeps ==
  ASSUME IInv, NEW r \in Request, UNCHANGED <<late, outcome, shown>>,
         NEW place \in Place \cup Over,
         place \in {"status", "results", "error"} => Thread(r),
         pc' = [pc EXCEPT ![r] = place],
         asked' \in [Request -> SUBSET Collector],
         \A q \in Request \ {r} : asked'[q] = asked[q],
         thinking' = None,
         Sound(r)'
  PROVE  IInv'
<1>1. TypeOK /\ LoopHeld /\ \A q \in Request : Sound(q)
  BY DEF IInv
<1>2. /\ pc' \in [Request -> Place \cup Over \cup {"unsent"}]
      /\ pc'[r] = place
      /\ \A q \in Request \ {r} : pc'[q] = pc[q]
  BY <1>1 DEF TypeOK
<1>3. ASSUME NEW q \in Request PROVE Sound(q)'
  BY <1>1, <1>2, SoundUntouched
<1>4. \A q \in Request : pc'[q] \in {"status", "results", "error"} => Thread(q)'
  BY <1>1, <1>2 DEF TypeOK, Thread
<1>5. TypeOK'
  BY <1>1, <1>2, <1>4 DEF TypeOK
<1> QED
  BY <1>3, <1>5 DEF IInv, LoopHeld

----------------------------------------------------------------------------

LEMMA InitIInv == Init => IInv
<1> SUFFICES ASSUME Init PROVE IInv
  OBVIOUS
<1>1. TypeOK /\ LoopHeld
  BY DEF Init, TypeOK, LoopHeld, Answer
<1>2. \A r \in Request : Sound(r)
  BY DEF Init, Sound, AskedSoFar, NothingConcluded, BehindError, Investigation, Conclusion
<1> QED
  BY <1>1, <1>2 DEF IInv

\* The six posts.
LEMMA AcknowledgeKeeps ==
  ASSUME IInv, NEW r \in Request, Acknowledge(r) PROVE IInv'
<1>1. TypeOK /\ Sound(r) /\ Post(r, "ack", "announce", "failed")
  BY DEF IInv, Acknowledge
<1>2. /\ pc[r] = "ack" /\ pc'[r] \in {"announce", "failed"}
      /\ \A n \in Message \ {"ack"} : outcome'[r][n] = outcome[r][n]
      /\ pc'[r] = "failed" => outcome'[r]["ack"] = "raised"
      /\ shown'[r] \subseteq shown[r] \cup {"ack"}
      /\ UNCHANGED asked
  BY <1>1, PostEffect DEF Message
<1>3. Sound(r)'
  BY <1>1, <1>2 DEF Sound, AskedSoFar, NothingConcluded, BehindError, Investigation,
       Conclusion, Raised, Message
<1>4. pc'[r] \in Place \cup Over
  BY <1>2 DEF Place, Over, Message
<1> QED
  BY <1>1, <1>2, <1>3, <1>4, PostKeeps DEF Message

LEMMA AnnounceKeeps ==
  ASSUME IInv, NEW r \in Request, Announce(r) PROVE IInv'
<1>1. TypeOK /\ Sound(r)
  BY DEF IInv
<1>2. PICK next \in {"status", "kube"} :
        /\ Post(r, "announce", next, "failed")
        /\ next = "status" <=> outcome'[r]["announce"] = "ok"
  BY DEF Announce
<1>3. /\ pc[r] = "announce" /\ pc'[r] \in {"status", "kube", "failed"}
      /\ \A n \in Message \ {"announce"} : outcome'[r][n] = outcome[r][n]
      /\ pc'[r] = "status" => outcome'[r]["announce"] = "ok"
      /\ pc'[r] = "failed" => outcome'[r]["announce"] = "raised"
      /\ shown'[r] \subseteq shown[r] \cup {"announce"}
      /\ UNCHANGED asked
  BY <1>1, <1>2, PostEffect DEF Message
<1>4. Sound(r)'
  BY <1>1, <1>3 DEF Sound, AskedSoFar, NothingConcluded, BehindError, Investigation,
       Conclusion, Raised, Message
<1>5. pc'[r] \in Place \cup Over /\ (pc'[r] \in {"status", "results", "error"} => Thread(r)')
  BY <1>3 DEF Place, Over, Message, Collector, Thread
<1> QED
  BY <1>2, <1>4, <1>5, PostKeeps DEF Message

LEMMA PostStatusKeeps ==
  ASSUME IInv, NEW r \in Request, PostStatus(r) PROVE IInv'
<1>1. TypeOK /\ Sound(r) /\ Post(r, "status", "kube", "error")
  BY DEF IInv, PostStatus
<1>2. /\ pc[r] = "status" /\ pc'[r] \in {"kube", "error"}
      /\ \A n \in Message \ {"status"} : outcome'[r][n] = outcome[r][n]
      /\ pc'[r] = "error" => outcome'[r]["status"] = "raised"
      /\ shown'[r] \subseteq shown[r] \cup {"status"}
      /\ UNCHANGED asked
  BY <1>1, PostEffect DEF Message
<1>3. Sound(r)'
  BY <1>1, <1>2 DEF Sound, AskedSoFar, NothingConcluded, BehindError, Investigation,
       Conclusion, Raised, Message
<1>4. pc'[r] \in Place \cup Over /\ Thread(r)'
  BY <1>1, <1>2 DEF Place, Over, Message, Collector, Thread, TypeOK
<1> QED
  BY <1>1, <1>3, <1>4, PostKeeps DEF Message

LEMMA PostResultsKeeps ==
  ASSUME IInv, NEW r \in Request, PostResults(r) PROVE IInv'
<1>1. TypeOK /\ Sound(r) /\ Post(r, "results", "accepted", "error")
  BY DEF IInv, PostResults
<1>2. /\ pc[r] = "results"
      /\ \A n \in Message \ {"results"} : outcome'[r][n] = outcome[r][n]
      /\ \/ outcome'[r]["results"] = "ok" /\ pc'[r] = "accepted"
            /\ shown'[r] = shown[r] \cup {"results"}
         \/ outcome'[r]["results"] = "refused" /\ pc'[r] = "accepted" /\ shown'[r] = shown[r]
         \/ /\ outcome'[r]["results"] = "raised" /\ pc'[r] = "error"
            /\ shown'[r] \subseteq shown[r] \cup {"results"}
      /\ UNCHANGED asked
  BY <1>1, PostEffect DEF Message
<1>3. Sound(r)'
  BY <1>1, <1>2 DEF Sound, AskedSoFar, NothingConcluded, BehindError, Investigation,
       Conclusion, Raised, Message
<1>4. pc'[r] \in Place \cup Over /\ Thread(r)'
  BY <1>1, <1>2 DEF Place, Over, Message, Thread, TypeOK
<1> QED
  BY <1>1, <1>3, <1>4, PostKeeps DEF Message

LEMMA PostErrorKeeps ==
  ASSUME IInv, NEW r \in Request, PostError(r) PROVE IInv'
<1>1. TypeOK /\ Sound(r) /\ Post(r, "error", "accepted", "failed")
  BY DEF IInv, PostError
<1>2. /\ pc[r] = "error" /\ pc'[r] \in {"accepted", "failed"}
      /\ \A n \in Message \ {"error"} : outcome'[r][n] = outcome[r][n]
      /\ \/ outcome'[r]["error"] = "ok" /\ "error" \in shown'[r]
         \/ outcome'[r]["error"] = "refused"
         \/ pc'[r] = "failed"
      /\ shown'[r] = shown[r] \/ shown'[r] = shown[r] \cup {"error"}
      /\ UNCHANGED asked
  BY <1>1, PostEffect DEF Message
<1>3. Sound(r)'
  BY <1>1, <1>2 DEF Sound, AskedSoFar, NothingConcluded, BehindError, Investigation,
       Conclusion, Raised, Message
<1>4. pc'[r] \in Place \cup Over /\ pc'[r] \notin {"status", "results", "error"}
  BY <1>2 DEF Place, Over, Message
<1> QED
  BY <1>1, <1>3, <1>4, PostKeeps DEF Message

\* The collectors and the model.
LEMMA AskKubeKeeps ==
  ASSUME IInv, NEW r \in Request, AskKube(r) PROVE IInv'
<1>1. TypeOK /\ Sound(r) /\ pc[r] = "kube" /\ thinking = None
  BY DEF IInv, AskKube, Runs
<1>2. /\ pc' = [pc EXCEPT ![r] = "prom"] /\ pc'[r] = "prom"
      /\ asked' \in [Request -> SUBSET Collector]
      /\ asked'[r] = asked[r] \cup {"kube"}
      /\ \A q \in Request \ {r} : asked'[q] = asked[q]
      /\ UNCHANGED <<late, outcome, shown, thinking>>
  BY <1>1 DEF AskKube, TypeOK, Collector
<1>3. Sound(r)'
  BY <1>1, <1>2 DEF Sound, AskedSoFar, NothingConcluded, BehindError, Investigation,
       Conclusion, Raised
<1> QED
  BY <1>1, <1>2, <1>3, QuietStepKeeps DEF Place, Collector

LEMMA AskPromKeeps ==
  ASSUME IInv, NEW r \in Request, AskProm(r) PROVE IInv'
<1> DEFINE place == IF AnthropicKey THEN "llm" ELSE Investigated(r)
<1>1. TypeOK /\ Sound(r) /\ pc[r] = "prom" /\ thinking = None
  BY DEF IInv, AskProm, Runs
<1>2. /\ pc' = [pc EXCEPT ![r] = place] /\ pc'[r] = place
      /\ asked' \in [Request -> SUBSET Collector]
      /\ asked'[r] = asked[r] \cup {"prom"}
      /\ \A q \in Request \ {r} : asked'[q] = asked[q]
      /\ UNCHANGED <<late, outcome, shown, thinking>>
  BY <1>1 DEF AskProm, TypeOK, Collector
<1>3. /\ place \in {"llm", "results", "accepted"}
      /\ place = "results" => Thread(r)
      /\ place = "accepted" => ~ Thread(r)
  BY DEF Investigated
<1>4. asked'[r] = Collector
  BY <1>1, <1>2 DEF Sound, AskedSoFar, Collector, TypeOK
<1> HIDE DEF place
<1>5. Sound(r)'
  BY <1>1, <1>2, <1>3, <1>4 DEF Sound, AskedSoFar, NothingConcluded, BehindError,
       Investigation, Conclusion, Raised, Thread
<1> QED
  BY <1>1, <1>2, <1>3, <1>5, QuietStepKeeps DEF Place, Over, Message

LEMMA ModelAnswersKeeps ==
  ASSUME IInv, NEW r \in Request, ModelAnswers(r) PROVE IInv'
<1> DEFINE place == Investigated(r)
<1>1. TypeOK /\ Sound(r) /\ pc[r] = "llm" /\ asked[r] = Collector
  BY NoneAssumption DEF IInv, ModelAnswers, LoopHeld, Sound, AskedSoFar
<1>2. /\ pc' = [pc EXCEPT ![r] = place] /\ pc'[r] = place
      /\ UNCHANGED <<late, outcome, shown, asked>> /\ thinking' = None
  BY <1>1 DEF ModelAnswers, TypeOK
<1>3. /\ place \in {"results", "accepted"}
      /\ place = "results" => Thread(r)
      /\ place = "accepted" => ~ Thread(r)
  BY DEF Investigated
<1> HIDE DEF place
<1>4. Sound(r)'
  BY <1>1, <1>2, <1>3 DEF Sound, AskedSoFar, NothingConcluded, BehindError,
       Investigation, Conclusion, Raised, Thread
<1>5. asked' \in [Request -> SUBSET Collector] /\ \A q \in Request \ {r} : asked'[q] = asked[q]
  BY <1>1, <1>2 DEF TypeOK
<1> QED
  BY <1>2, <1>3, <1>4, <1>5, QuietStepKeeps DEF Place, Over, Message

LEMMA CallModelKeeps ==
  ASSUME IInv, NEW r \in Request, CallModel(r) PROVE IInv'
<1>1. TypeOK /\ UNCHANGED <<pc, late, outcome, shown, asked>> /\ thinking' = r /\ pc[r] = "llm"
  BY DEF IInv, CallModel, Runs
<1>2. \A q \in Request : Sound(q)'
  BY <1>1, SoundUntouched DEF IInv
<1> QED
  BY <1>1, <1>2 DEF IInv, TypeOK, LoopHeld, Thread

LEMMA DeliverKeeps ==
  ASSUME IInv, NEW r \in Request, Deliver(r) PROVE IInv'
<1>1. /\ TypeOK /\ LoopHeld /\ Sound(r) /\ pc[r] = "unsent"
      /\ UNCHANGED <<late, outcome, shown, asked, thinking>>
      /\ pc' = [pc EXCEPT ![r] = "ack"]
  BY DEF IInv, Deliver
<1>2. /\ pc' \in [Request -> Place \cup Over \cup {"unsent"}] /\ pc'[r] = "ack"
      /\ \A q \in Request \ {r} : pc'[q] = pc[q]
  BY <1>1 DEF TypeOK, Place, Message
<1>3. Sound(r)'
  BY <1>1, <1>2 DEF Sound, AskedSoFar, NothingConcluded, BehindError, Investigation,
       Conclusion, Raised
<1>4. ASSUME NEW q \in Request PROVE Sound(q)'
  BY <1>1, <1>2, <1>3, SoundUntouched DEF IInv
<1>5. TypeOK'
  BY <1>1, <1>2 DEF TypeOK, Thread
<1>6. LoopHeld'
  BY <1>1, <1>2 DEF LoopHeld, TypeOK
<1> QED
  BY <1>4, <1>5, <1>6 DEF IInv

LEMMA RestartKeeps == ASSUME IInv, Restart PROVE IInv'
<1>1. /\ TypeOK /\ UNCHANGED <<late, outcome, shown, asked>> /\ thinking' = None
      /\ pc' = [r \in Request |-> IF InFlight(r) THEN "lost" ELSE pc[r]]
  BY DEF IInv, Restart
<1>2. ASSUME NEW r \in Request PROVE Sound(r)'
  <2>1. Sound(r) /\ pc'[r] \in {"lost", pc[r]}
    BY <1>1 DEF IInv
  <2>2. CASE pc'[r] = pc[r]
    BY <1>1, <2>1, <2>2, SoundUntouched
  <2>3. CASE pc'[r] = "lost"
    BY <1>1, <2>1, <2>3 DEF Sound, AskedSoFar, NothingConcluded, BehindError,
         Investigation, Conclusion, Raised
  <2> QED
    BY <2>1, <2>2, <2>3
<1>3. TypeOK' /\ LoopHeld'
  BY <1>1 DEF TypeOK, LoopHeld, Thread, Over
<1> QED
  BY <1>2, <1>3 DEF IInv

LEMMA StutterKeeps ==
  ASSUME IInv, UNCHANGED <<pc, outcome, shown, asked, thinking>>, late' \subseteq Request
  PROVE  IInv'
<1>1. \A q \in Request : Sound(q)'
  BY SoundUntouched DEF IInv
<1> QED
  BY <1>1 DEF IInv, TypeOK, LoopHeld, Thread

\* Every step keeps the invariant.
LEMMA StepIInv == IInv /\ [Next]_vars => IInv'
<1> SUFFICES ASSUME IInv, [Next]_vars PROVE IInv'
  OBVIOUS
<1>1. ASSUME NEW r \in Request, Deliver(r) PROVE IInv'
  BY <1>1, DeliverKeeps
<1>2. ASSUME NEW r \in Request, GiveUpWaiting(r) PROVE IInv'
  BY <1>2, StutterKeeps DEF GiveUpWaiting, IInv, TypeOK
<1>3. ASSUME NEW r \in Request, Handle(r) PROVE IInv'
  BY <1>3, AcknowledgeKeeps, AnnounceKeeps, PostStatusKeeps, AskKubeKeeps, AskPromKeeps,
     CallModelKeeps, ModelAnswersKeeps, PostResultsKeeps, PostErrorKeeps DEF Handle
<1>4. CASE Restart
  BY <1>4, RestartKeeps
<1>5. CASE UNCHANGED vars
  BY <1>5, StutterKeeps DEF vars, IInv, TypeOK
<1> QED
  BY <1>1, <1>2, <1>3, <1>4, <1>5 DEF Next, Quiet

LEMMA Inductive == Spec => []IInv
BY InitIInv, StepIInv, PTL DEF Spec

----------------------------------------------------------------------------
(* The handlers keep their types, and post into a thread only where there  *)
(* is one.                                                                 *)
THEOREM TypeCorrect == Spec => []TypeOK
<1>1. IInv => TypeOK
  BY DEF IInv
<1> QED
  BY <1>1, Inductive, PTL

(* A request that is through asked both collectors, unless one of the      *)
(* posts before the investigation raised.                                  *)
THEOREM Investigates == Spec => []InvestigatedUnlessPostRaised
<1>1. IInv => InvestigatedUnlessPostRaised
  BY DEF IInv, Sound, Investigation, InvestigatedUnlessPostRaised, Raised
<1> QED
  BY <1>1, Inductive, PTL

(* The thread of an answered request is concluded, unless Slack refused    *)
(* the message that would have concluded it.                               *)
THEOREM Concludes == Spec => []ThreadConcluded
<1>1. IInv => ThreadConcluded
  BY DEF IInv, Sound, Conclusion, ThreadConcluded
<1> QED
  BY <1>1, Inductive, PTL

(* The call for manual investigation goes back to a post that raised.      *)
THEOREM BlamesSlack == Spec => []ErrorBlamesSlack
<1>1. IInv => ErrorBlamesSlack
  BY DEF IInv, Sound, BehindError, ErrorBlamesSlack, Raised
<1> QED
  BY <1>1, Inductive, PTL

----------------------------------------------------------------------------
(* What is left to happen to a request, at most: the places its handler    *)
(* has before it, and Slack's giving up on it.                             *)
PlacesLeft(r) ==
  CASE pc[r] = "unsent"   -> 10
    [] pc[r] = "ack"      -> 9
    [] pc[r] = "announce" -> 8
    [] pc[r] = "status"   -> 7
    [] pc[r] = "kube"     -> 6
    [] pc[r] = "prom"     -> 5
    [] pc[r] = "llm"      -> IF thinking = r THEN 3 ELSE 4
    [] pc[r] = "results"  -> 2
    [] pc[r] = "error"    -> 1
    [] OTHER              -> 0

StepsLeft(r) == PlacesLeft(r) + (IF r \in late THEN 0 ELSE 1)

(* Every step is progress of some request and delays none: no request is   *)
(* sent back, by its own failures or by the model calls of the others.     *)
GetsOn ==
  /\ \A r \in Request : StepsLeft(r)' <= StepsLeft(r)
  /\ \E r \in Request : StepsLeft(r)' < StepsLeft(r)

\* A step that moves one request on and leaves the places of the others alone.
LEMMA MovesOn ==
  ASSUME NEW r \in Request, UNCHANGED late,
         PlacesLeft(r)' < PlacesLeft(r),
         \A q \in Request \ {r} : pc'[q] = pc[q] /\ (thinking' = q <=> thinking = q)
  PROVE  GetsOn
<1>1. /\ PlacesLeft(r) \in Nat /\ PlacesLeft(r)' \in Nat
      /\ \A q \in Request \ {r} : PlacesLeft(q)' = PlacesLeft(q) /\ PlacesLeft(q) \in Nat
  BY DEF PlacesLeft
<1> HIDE DEF PlacesLeft
<1>2. /\ StepsLeft(r)' < StepsLeft(r)
      /\ \A q \in Request \ {r} : StepsLeft(q)' <= StepsLeft(q)
  BY <1>1 DEF StepsLeft
<1>3. StepsLeft(r)' <= StepsLeft(r)
  BY <1>1 DEF StepsLeft
<1> QED
  BY <1>2, <1>3 DEF GetsOn

\* A post that was made or that raised is not made again.
LEMMA PostMovesOn ==
  ASSUME IInv, NEW r \in Request, NEW m \in Message, NEW sent, NEW raises,
         Post(r, m, sent, raises),
         <<m, sent, raises>> \in
           {<<"ack", "announce", "failed">>, <<"announce", "status", "failed">>,
            <<"announce", "kube", "failed">>, <<"status", "kube", "error">>,
            <<"results", "accepted", "error">>, <<"error", "accepted", "failed">>}
  PROVE  GetsOn
<1>1. /\ pc[r] = m /\ pc'[r] \in {sent, raises} /\ UNCHANGED <<late, thinking>>
      /\ \A q \in Request \ {r} : pc'[q] = pc[q]
  BY PostEffect DEF IInv
<1>2. PlacesLeft(r)' < PlacesLeft(r)
  BY <1>1 DEF PlacesLeft
<1> QED
  BY <1>1, <1>2, MovesOn

LEMMA HandleMovesOn == ASSUME IInv, NEW r \in Request, Handle(r) PROVE GetsOn
<1>1. CASE \/ Acknowledge(r) \/ Announce(r) \/ PostStatus(r)
           \/ PostResults(r) \/ PostError(r)
  BY <1>1, PostMovesOn DEF Acknowledge, Announce, PostStatus, PostResults, PostError, Message
<1>2. CASE AskKube(r) \/ AskProm(r) \/ ModelAnswers(r)
  <2>1. PICK place \in {"prom", "llm", "results", "accepted"} :
          /\ pc' = [pc EXCEPT ![r] = place] /\ UNCHANGED late
          /\ \/ pc[r] = "kube" /\ place = "prom" /\ UNCHANGED thinking
             \/ pc[r] = "prom" /\ place # "prom" /\ UNCHANGED thinking
             \/ /\ pc[r] = "llm" /\ place \in {"results", "accepted"}
                /\ thinking = r /\ thinking' = None
    BY <1>2, NoneAssumption
       DEF AskKube, AskProm, ModelAnswers, Runs, Investigated, IInv, LoopHeld
  <2>2. /\ pc'[r] = place
        /\ \A q \in Request \ {r} : pc'[q] = pc[q] /\ (thinking' = q <=> thinking = q)
    BY <2>1, NoneAssumption DEF IInv, TypeOK
  <2>3. PlacesLeft(r)' < PlacesLeft(r)
    BY <2>1, <2>2 DEF PlacesLeft
  <2> QED
    BY <2>1, <2>2, <2>3, MovesOn
<1>3. CASE CallModel(r)
  <2>1. /\ pc[r] = "llm" /\ thinking = None /\ thinking' = r /\ UNCHANGED <<pc, late>>
    BY <1>3 DEF CallModel, Runs
  <2>2. PlacesLeft(r)' < PlacesLeft(r)
    BY <2>1, NoneAssumption DEF PlacesLeft
  <2> QED
    BY <2>1, <2>2, NoneAssumption, MovesOn
<1> QED
  BY <1>1, <1>2, <1>3 DEF Handle

\* A restart ends every request that is in flight.
LEMMA RestartMovesOn == ASSUME IInv, Restart PROVE GetsOn
<1>1. /\ \A q \in Request : pc'[q] = IF InFlight(q) THEN "lost" ELSE pc[q]
      /\ \E q \in Request : InFlight(q)
      /\ thinking' = None /\ UNCHANGED late
  BY DEF Restart
<1>2. ASSUME NEW q \in Request
      PROVE  /\ InFlight(q) => StepsLeft(q)' < StepsLeft(q)
             /\ ~ InFlight(q) => StepsLeft(q)' = StepsLeft(q)
             /\ StepsLeft(q) \in Nat
  BY <1>1 DEF StepsLeft, PlacesLeft, InFlight, Place, Message, Collector, IInv, TypeOK
<1>3. ASSUME NEW q \in Request PROVE StepsLeft(q)' <= StepsLeft(q)
  <2>1. StepsLeft(q)' \in Nat
    BY DEF StepsLeft, PlacesLeft
  <2> QED
    BY <1>2, <2>1
<1> QED
  BY <1>1, <1>2, <1>3 DEF GetsOn

(* A delivery takes at most nine steps of its handler, and no step takes  *)
(* one of another request back: whatever Slack, the collectors and the     *)
(* model answer, and however often the process restarts, the intake does   *)
(* not go round.  That it goes on is the fairness of its event loop.       *)
THEOREM WorksBoundedly ==
  Spec => /\ [](\A r \in Request : StepsLeft(r) \in 0 .. 11)
          /\ [][GetsOn]_vars
<1>1. \A r \in Request : StepsLeft(r) \in 0 .. 11
  BY DEF StepsLeft, PlacesLeft
<1>2. ASSUME IInv, [Next]_vars PROVE [GetsOn]_vars
  <2>1. ASSUME NEW r \in Request, Deliver(r) PROVE GetsOn
    <3>1. /\ pc[r] = "unsent" /\ pc'[r] = "ack" /\ UNCHANGED <<late, thinking>>
          /\ \A q \in Request \ {r} : pc'[q] = pc[q]
      BY <1>2, <2>1 DEF Deliver, IInv, TypeOK
    <3>2. PlacesLeft(r)' < PlacesLeft(r)
      BY <3>1 DEF PlacesLeft
    <3> QED
      BY <3>1, <3>2, MovesOn
  <2>2. ASSUME NEW r \in Request, GiveUpWaiting(r) PROVE GetsOn
    <3>1. /\ r \notin late /\ late' = late \cup {r} /\ UNCHANGED <<pc, thinking>>
      BY <2>2 DEF GiveUpWaiting
    <3>2. \A q \in Request : PlacesLeft(q)' = PlacesLeft(q) /\ PlacesLeft(q) \in Nat
      BY <3>1 DEF PlacesLeft
    <3>3. StepsLeft(r)' < StepsLeft(r)
      BY <3>1, <3>2 DEF StepsLeft
    <3>4. \A q \in Request : StepsLeft(q)' <= StepsLeft(q)
      BY <3>1, <3>2 DEF StepsLeft
    <3> QED
      BY <3>3, <3>4 DEF GetsOn
  <2>3. ASSUME NEW r \in Request, Handle(r) PROVE GetsOn
    BY <1>2, <2>3, HandleMovesOn
  <2>4. ASSUME Restart PROVE GetsOn
    BY <1>2, <2>4, RestartMovesOn
  <2> QED
    BY <1>2, <2>1, <2>2, <2>3, <2>4 DEF Next, Quiet
<1> QED
  BY <1>1, <1>2, Inductive, PTL DEF Spec
=============================================================================
