-------------------------- MODULE ModelCallProofs --------------------------
(***************************************************************************)
(* Proofs of the invariants of ModelCall, for every number of retries of   *)
(* the client.                                                             *)
(***************************************************************************)
EXTENDS ModelCall, TLAPS

(* The call sites allow one correction at most, so that the budget is the  *)
(* requests of one attempt or of two.                                      *)
LEMMA BudgetOf ==
  ASSUME NEW m \in OutputModel, model = m
  PROVE  /\ MaxRetries(m) = 0 => Budget = ApiRetries + 1
         /\ MaxRetries(m) = 1 => Budget = 2 * (ApiRetries + 1)
         /\ MaxRetries(m) \in {0, 1}
         /\ Budget \in Nat
  BY RetriesAssumption, SMT DEF Budget, MaxRetries

(* What the attempts before the current one, and the current one, have     *)
(* sent at most.                                                           *)
SentSoFar ==
  /\ pc = "send" => sent <= (IF attempt = 0 THEN 0 ELSE ApiRetries + 1) + tries
  /\ pc # "send" => sent <= (IF attempt = 0 THEN 0 ELSE ApiRetries + 1) + ApiRetries + 1

(* The conversation has its form at every point of the call.               *)
ConversationForm ==
  /\ Len(convo) = 2 * attempt + 1
  /\ \A i \in DOMAIN convo :
       convo[i].role = IF i % 2 = 1 THEN "user" ELSE "assistant"
  /\ \A i \in DOMAIN convo :
       i % 2 = 0 => convo[i + 1].about = convo[i].about

(* What is known of the answer at each point of the call.                  *)
AnswerKnown ==
  /\ pc = "parse" => answer \in Shape
  /\ pc \in {"rejected", "invalid"} =>
       /\ answer \in Shape
       /\ lastExc = answer /\ lastRaw = answer /\ ~ Validates(model, answer)

IInv == TypeOK /\ SentSoFar /\ ConversationForm /\ AnswerKnown

LEMMA InitHolds == Init => IInv
  <1> SUFFICES ASSUME Init PROVE IInv
    OBVIOUS
  <1>1. TypeOK
    BY RetriesAssumption, SMT DEF Init, TypeOK, Turn, Terminal, OutputModel, MaxRetries
  <1>2. SentSoFar /\ ConversationForm /\ AnswerKnown
    BY RetriesAssumption, SMT DEF Init, SentSoFar, ConversationForm, AnswerKnown
  <1> QED BY <1>1, <1>2 DEF IInv

(* One step of the call keeps the invariant, action by action.             *)
LEMMA StepHolds == IInv /\ [Next]_vars => IInv'
  <1> SUFFICES ASSUME IInv, [Next]_vars PROVE IInv'
    OBVIOUS
  <1> USE RetriesAssumption DEF IInv
  <1>1. ASSUME BacksOff PROVE IInv'
    <2>1. TypeOK'
      BY <1>1, SMT DEF BacksOff, Sends, TypeOK
    <2>2. SentSoFar'
      BY <1>1, SMT DEF BacksOff, Sends, TypeOK, SentSoFar
    <2>3. ConversationForm'
      <3>1. UNCHANGED <<convo, attempt>>
        BY <1>1 DEF BacksOff
      <3> QED BY <3>1 DEF ConversationForm
    <2>4. AnswerKnown'
      BY <1>1 DEF BacksOff, Sends, AnswerKnown
    <2> QED BY <2>1, <2>2, <2>3, <2>4
  <1>2. ASSUME Exhausts \/ Refused PROVE IInv'
    <2>1. TypeOK'
      BY <1>2, SMT DEF Exhausts, Refused, Sends, TypeOK, Terminal
    <2>2. SentSoFar'
      BY <1>2, SMT DEF Exhausts, Refused, Sends, TypeOK, SentSoFar
    <2>3. ConversationForm'
      <3>1. UNCHANGED <<convo, attempt>>
        BY <1>2 DEF Exhausts, Refused, Sends
      <3> QED BY <3>1 DEF ConversationForm
    <2>4. AnswerKnown'
      BY <1>2 DEF Exhausts, Refused, Sends, AnswerKnown
    <2> QED BY <2>1, <2>2, <2>3, <2>4
  <1>3. ASSUME Answered PROVE IInv'
    <2>1. TypeOK'
      BY <1>3, SMT DEF Answered, Sends, TypeOK
    <2>2. SentSoFar'
      BY <1>3, SMT DEF Answered, Sends, TypeOK, SentSoFar
    <2>3. ConversationForm'
      <3>1. UNCHANGED <<convo, attempt>>
        BY <1>3 DEF Answered
      <3> QED BY <3>1 DEF ConversationForm
    <2>4. AnswerKnown'
      BY <1>3 DEF Answered, Sends, AnswerKnown
    <2> QED BY <2>1, <2>2, <2>3, <2>4
  <1>4. ASSUME NoTool \/ Reject PROVE IInv'
    <2>1. TypeOK' /\ SentSoFar'
      BY <1>4, SMT DEF NoTool, Reject, TypeOK, SentSoFar, AnswerKnown
    <2>2. ConversationForm'
      <3>1. UNCHANGED <<convo, attempt>>
        BY <1>4 DEF NoTool, Reject
      <3> QED BY <3>1 DEF ConversationForm
    <2>3. AnswerKnown'
      BY <1>4, SMT DEF NoTool, Reject, AnswerKnown, Validates, Fitting, Shape
    <2> QED BY <2>1, <2>2, <2>3
  <1>5. ASSUME Accept PROVE IInv'
    <2>1. TypeOK' /\ SentSoFar'
      BY <1>5, SMT DEF Accept, TypeOK, SentSoFar, AnswerKnown, Terminal
    <2>2. ConversationForm'
      <3>1. UNCHANGED <<convo, attempt>>
        BY <1>5 DEF Accept
      <3> QED BY <3>1 DEF ConversationForm
    <2>3. AnswerKnown'
      BY <1>5 DEF Accept, AnswerKnown
    <2> QED BY <2>1, <2>2, <2>3
  <1>6. ASSUME Correct PROVE IInv'
    <2> DEFINE said == [role |-> "assistant", about |-> answer]
               told == [role |-> "user", about |-> answer]
    <2>1. said \in Turn /\ told \in Turn
      BY <1>6 DEF Correct, AnswerKnown, Turn
    <2>2. convo' = convo \o <<said, told>>
      BY <1>6 DEF Correct
    <2>3. convo' \in Seq(Turn) /\ Len(convo') = Len(convo) + 2
      BY <2>1, <2>2, SMT DEF TypeOK
    <2>4. attempt = 0 /\ attempt' = 1 /\ attempt' <= MaxRetries(model)
      BY <1>6, SMT DEF Correct, TypeOK, MaxRetries
    <2>5. TypeOK'
      BY <1>6, <2>3, <2>4, SMT DEF Correct, TypeOK, MaxRetries
    <2>6. SentSoFar'
      BY <1>6, <2>4, SMT DEF Correct, SentSoFar, TypeOK
    <2>7. ConversationForm'
      <3>1. Len(convo) = 1 /\ DOMAIN convo' = 1 .. 3
        BY <2>3, <2>4, SMT DEF ConversationForm, TypeOK
      <3>2. convo'[1] = convo[1] /\ convo'[2] = said /\ convo'[3] = told
        BY <2>1, <2>2, <3>1, SMT DEF TypeOK
      <3>3. convo[1].role = "user"
        BY <3>1, SMT DEF ConversationForm, TypeOK
      <3>4. said.role = "assistant" /\ told.role = "user" /\ said.about = told.about
        OBVIOUS
      <3> HIDE DEF said, told
      <3>5. \A i \in DOMAIN convo' :
              convo'[i].role = IF i % 2 = 1 THEN "user" ELSE "assistant"
        BY <3>1, <3>2, <3>3, <3>4, SMT
      <3>6. \A i \in DOMAIN convo' : i % 2 = 0 => convo'[i + 1].about = convo'[i].about
        BY <3>1, <3>2, <3>4, SMT
      <3>7. Len(convo') = 2 * attempt' + 1
        BY <2>3, <2>4, <3>1, SMT
      <3> QED BY <3>5, <3>6, <3>7 DEF ConversationForm
    <2>8. AnswerKnown'
      BY <1>6, SMT DEF Correct, AnswerKnown
    <2> QED BY <2>5, <2>6, <2>7, <2>8
  <1>7. ASSUME GiveUp PROVE IInv'
    <2>1. TypeOK' /\ SentSoFar'
      BY <1>7, SMT DEF GiveUp, TypeOK, SentSoFar, Terminal
    <2>2. ConversationForm' /\ AnswerKnown'
      BY <1>7, SMT DEF GiveUp, ConversationForm, AnswerKnown
    <2> QED BY <2>1, <2>2
  <1>8. ASSUME UNCHANGED vars PROVE IInv'
    BY <1>8 DEF vars, TypeOK, SentSoFar, ConversationForm, AnswerKnown, Budget
  <1> QED
    BY <1>1, <1>2, <1>3, <1>4, <1>5, <1>6, <1>7, <1>8 DEF Next, Ended

(* Whatever the retries of the client, the invariant holds throughout.     *)
LEMMA Invariance == Spec => []IInv
  BY InitHolds, StepHolds, PTL DEF Spec

(* The call keeps its types.                                               *)
THEOREM TypeCorrect == Spec => []TypeOK
  <1>1. IInv => TypeOK
    BY DEF IInv
  <1> QED BY <1>1, Invariance, PTL

(* A call never makes more requests than the product of the two loops'     *)
(* bounds, whatever the number of retries of the client.                   *)
THEOREM StaysWithinBudget == Spec => []WithinBudget
  <1>1. ASSUME IInv PROVE WithinBudget
    <2>1. model \in OutputModel /\ attempt \in 0 .. MaxRetries(model)
      BY <1>1 DEF IInv, TypeOK
    <2>2. CASE MaxRetries(model) = 0
      BY <1>1, <2>1, <2>2, BudgetOf, RetriesAssumption, SMT
         DEF IInv, TypeOK, SentSoFar, WithinBudget
    <2>3. CASE MaxRetries(model) = 1
      BY <1>1, <2>1, <2>3, BudgetOf, RetriesAssumption, SMT
         DEF IInv, TypeOK, SentSoFar, WithinBudget
    <2> QED BY <2>1, <2>2, <2>3, BudgetOf
  <1> QED BY <1>1, Invariance, PTL

(* Every request is a conversation of alternating roles in which each      *)
(* correction is about the answer before it.                               *)
THEOREM ConversesSoundly == Spec => []ConversationSound
  <1>1. IInv => ConversationSound
    BY DEF IInv, ConversationForm, ConversationSound
  <1> QED BY <1>1, Invariance, PTL

(* A StructuredOutputError is always about the last answer.                *)
THEOREM ExplainsLast == Spec => []ErrorIsLast
  <1>1. IInv => ErrorIsLast
    BY DEF IInv, AnswerKnown, ErrorIsLast
  <1> QED BY <1>1, Invariance, PTL

----------------------------------------------------------------------------
(* What is left to do of the call, at most: an attempt repeats the request *)
(* ApiRetries times, gets an answer, parses it and corrects it or gives up.*)
Attempts == MaxRetries(model) - attempt

StepsLeft ==
  CASE pc = "send"     -> Attempts * (ApiRetries + 3) + (ApiRetries - tries) + 3
    [] pc = "parse"    -> Attempts * (ApiRetries + 3) + 2
    [] pc = "rejected" -> Attempts * (ApiRetries + 3) + 1
    [] OTHER           -> 0

(* No step of a call leaves as much to do as there was: neither loop goes  *)
(* round for ever, and neither restarts the other one for free.            *)
GetsOn == StepsLeft' < StepsLeft

(* The attempts left are none or one, which keeps the arithmetic linear.   *)
LEMMA StepsLeftOf ==
  ASSUME IInv
  PROVE  /\ Attempts \in {0, 1} /\ tries \in 0 .. ApiRetries
         /\ Attempts * (ApiRetries + 3) = IF Attempts = 0 THEN 0 ELSE ApiRetries + 3
  <1>1. /\ MaxRetries(model) \in {0, 1} /\ attempt \in 0 .. MaxRetries(model)
        /\ tries \in 0 .. ApiRetries
    BY BudgetOf DEF IInv, TypeOK
  <1>2. Attempts \in {0, 1}
    BY <1>1, SMT DEF Attempts
  <1> HIDE DEF Attempts
  <1>3. Attempts * (ApiRetries + 3) = IF Attempts = 0 THEN 0 ELSE ApiRetries + 3
    BY <1>2, RetriesAssumption, SMT
  <1> QED BY <1>1, <1>2, <1>3

(* A call takes at most (max_retries + 1) * (ApiRetries + 3) steps,        *)
(* whatever the API and the model answer and however many retries there    *)
(* are; with the fairness of a scheduler that means that it ends.          *)
THEOREM WorksBoundedly ==
  Spec => /\ [](StepsLeft \in 0 .. (MaxRetries(model) + 1) * (ApiRetries + 3))
          /\ [][GetsOn]_vars
  <1>1. ASSUME IInv
        PROVE  StepsLeft \in 0 .. (MaxRetries(model) + 1) * (ApiRetries + 3)
    <2>1. MaxRetries(model) \in {0, 1} /\ attempt \in 0 .. MaxRetries(model)
      BY <1>1, BudgetOf DEF IInv, TypeOK
    <2>2. Attempts <= MaxRetries(model)
      BY <2>1, SMT DEF Attempts
    <2>3. (MaxRetries(model) + 1) * (ApiRetries + 3)
            = IF MaxRetries(model) = 0 THEN ApiRetries + 3 ELSE 2 * (ApiRetries + 3)
      BY <2>1, RetriesAssumption, SMT
    <2> HIDE DEF Attempts
    <2> QED BY <1>1, <2>1, <2>2, <2>3, StepsLeftOf, RetriesAssumption, SMT DEF StepsLeft
  <1>2. ASSUME IInv, IInv', [Next]_vars PROVE [GetsOn]_vars
    <2>1. /\ Attempts \in {0, 1} /\ tries \in 0 .. ApiRetries
          /\ Attempts * (ApiRetries + 3) = IF Attempts = 0 THEN 0 ELSE ApiRetries + 3
      BY <1>2, StepsLeftOf
    <2>2. tries' \in 0 .. ApiRetries
      BY <1>2 DEF IInv, TypeOK
    <2> USE RetriesAssumption
    <2>3. ASSUME UNCHANGED <<model, attempt>> PROVE Attempts' = Attempts
      BY <2>3 DEF Attempts
    <2>4. CASE BacksOff
      BY <2>1, <2>2, <2>3, <2>4, SMT DEF BacksOff, Sends, GetsOn, StepsLeft
    <2>5. CASE Exhausts \/ Refused
      BY <2>1, <2>5, SMT DEF Exhausts, Refused, Sends, GetsOn, StepsLeft
    <2>6. CASE Answered
      BY <2>1, <2>3, <2>6, SMT DEF Answered, Sends, GetsOn, StepsLeft
    <2>7. CASE NoTool \/ Reject
      BY <2>1, <2>3, <2>7, SMT DEF NoTool, Reject, GetsOn, StepsLeft
    <2>8. CASE Accept
      BY <2>1, <2>8, SMT DEF Accept, GetsOn, StepsLeft
    <2>9. CASE Correct
      <3>1. Attempts = 1 /\ Attempts' = 0
        <4>1. /\ attempt \in Nat /\ attempt < MaxRetries(model)
              /\ MaxRetries(model) \in {0, 1}
              /\ attempt' = attempt + 1 /\ MaxRetries(model)' = MaxRetries(model)
          BY <1>2, <2>9, BudgetOf DEF Correct, IInv, TypeOK
        <4> QED BY <4>1, SMT DEF Attempts
      <3> QED BY <2>1, <2>2, <2>9, <3>1, SMT DEF Correct, GetsOn, StepsLeft
    <2>10. CASE GiveUp
      BY <2>1, <2>10, SMT DEF GiveUp, GetsOn, StepsLeft
    <2> QED
      BY <1>2, <2>4, <2>5, <2>6, <2>7, <2>8, <2>9, <2>10 DEF Next, Ended
  <1> QED BY <1>1, <1>2, Invariance, StepHolds, PTL DEF Spec
=============================================================================
