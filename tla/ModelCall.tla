----------------------------- MODULE ModelCall -----------------------------
(***************************************************************************)
(* One structured call of the language model: complete_typed, which asks   *)
(* for an instance of an output model and corrects the answers that do not *)
(* validate, over Client.complete, which repeats a request that the API    *)
(* answers with a retryable status.                                        *)
(*                                                                         *)
(* An answer is its shape: no call of the tool, a call whose input does    *)
(* not fit the schema, or one that fits it, with its lists empty or not.   *)
(* Whether a fitting answer validates depends on the kinds of field it     *)
(* holds: strict validation takes no JSON string for an enum or a time.    *)
(***************************************************************************)
EXTENDS Naturals, Sequences

CONSTANT ApiRetries   \* LLMSettings.max_retries, 2 by default

ASSUME RetriesAssumption == ApiRetries \in Nat

VARIABLES
  model,     \* the output model of the call
  pc,        \* where the call is
  attempt,   \* the attempt of complete_typed
  tries,     \* the attempt of Client.complete, its loop variable
  convo,     \* conversation
  sent,      \* requests made of the API
  answer,    \* the shape of the last answer
  lastRaw,   \* last_raw and last_exc: the answer each one is about
  lastExc

vars == <<model, pc, attempt, tries, convo, sent, answer, lastRaw, lastExc>>

OutputModel == {"InvestigatorOutput", "_LLMPlannerDecision", "VerifierLLMOutput",
                "ReviewerOutput", "DevLLMOutput"}

\* max_retries at the call sites: Dev retries on its own, the others take 1.
MaxRetries(m) == IF m = "DevLLMOutput" THEN 0 ELSE 1

Shape   == {"no_tool", "misfit", "bare", "full"}
Fitting == {"bare", "full"}
Nothing == "nothing"

\* The kinds of field that an answer of a fitting shape holds; every model has
\* required fields.
FieldKinds(m, shape) ==
  CASE m = "InvestigatorOutput" ->
         IF shape = "full" THEN {"text", "number", "enum", "datetime"} ELSE {"text"}
    [] m = "_LLMPlannerDecision" -> {"text", "number", "flag", "literal"}
    [] m = "VerifierLLMOutput"   -> {"text", "enum"}
    [] m = "ReviewerOutput"      -> {"text", "literal"}
    [] m = "DevLLMOutput"        -> {"text"}

\* model_validate(..., strict=True) on the decoded JSON.
Validates(m, shape) ==
  shape \in Fitting /\ FieldKinds(m, shape) \cap {"enum", "datetime"} = {}

\* A turn is who speaks and the answer it is about.  Its blocks are left out:
\* the assistant's is the rejected tool_use, the user's is text and no tool_result.
Turn == [role : {"user", "assistant"}, about : Shape \cup {"task"}]

Init ==
  /\ model \in OutputModel
  /\ pc = "send"
  /\ attempt = 0 /\ tries = 0
  /\ convo = << [role |-> "user", about |-> "task"] >>
  /\ sent = 0
  /\ answer = Nothing /\ lastRaw = Nothing /\ lastExc = Nothing

Budget == (MaxRetries(model) + 1) * (ApiRetries + 1)

\* The count stops one past the budget: that it never gets there is WithinBudget.
Sends ==
  /\ pc = "send"
  /\ sent' = IF sent <= Budget THEN sent + 1 ELSE sent

\* Mutation: one attempt too many.
BacksOffOnceMore ==
  /\ Sends /\ tries <= ApiRetries
  /\ tries' = tries + 1
  /\ UNCHANGED <<model, pc, attempt, convo, answer, lastRaw, lastExc>>

\* 429 or one of the 5xx: wait, and send the same request.
BacksOff ==
  /\ Sends /\ tries < ApiRetries
  /\ tries' = tries + 1
  /\ UNCHANGED <<model, pc, attempt, convo, answer, lastRaw, lastExc>>

\* Mutation: the last retryable status is retried too.
ExhaustsLate ==
  /\ Sends /\ tries >= ApiRetries
  /\ tries' = 0
  /\ UNCHANGED <<model, pc, attempt, convo, answer, lastRaw, lastExc>>

Exhausts ==
  /\ Sends /\ tries >= ApiRetries
  /\ pc' = "api_error"
  /\ UNCHANGED <<model, attempt, tries, convo, answer, lastRaw, lastExc>>

\* Another status, a timeout or a broken connection: no status, no retry.
Refused ==
  /\ Sends
  /\ pc' = "api_error"
  /\ UNCHANGED <<model, attempt, tries, convo, answer, lastRaw, lastExc>>

\* complete returns; no tool_choice is sent, so the tool need not be called.
Answered ==
  /\ Sends
  /\ answer' \in Shape
  /\ pc' = "parse"
  /\ tries' = 0
  /\ UNCHANGED <<model, attempt, convo, lastRaw, lastExc>>

\* Mutation: no error is produced for a missing tool call.
NoToolUnvalidated ==
  /\ pc = "parse" /\ answer = "no_tool"
  /\ lastRaw' = answer
  /\ pc' = "rejected"
  /\ UNCHANGED <<model, attempt, tries, convo, sent, answer, lastExc>>

\* The error is the one of validating {}.
NoTool ==
  /\ pc = "parse" /\ answer = "no_tool"
  /\ lastRaw' = answer /\ lastExc' = answer
  /\ pc' = "rejected"
  /\ UNCHANGED <<model, attempt, tries, convo, sent, answer>>

Accept ==
  /\ pc = "parse" /\ Validates(model, answer)
  /\ lastRaw' = answer
  /\ pc' = "returned"
  /\ UNCHANGED <<model, attempt, tries, convo, sent, answer, lastExc>>

Reject ==
  /\ pc = "parse" /\ answer # "no_tool" /\ ~ Validates(model, answer)
  /\ lastRaw' = answer /\ lastExc' = answer
  /\ pc' = "rejected"
  /\ UNCHANGED <<model, attempt, tries, convo, sent, answer>>

\* Mutation: the bad answer is not made a turn of the conversation.
CorrectWithoutAnswer ==
  /\ pc = "rejected" /\ attempt < MaxRetries(model)
  /\ convo' = Append(convo, [role |-> "user", about |-> answer])
  /\ attempt' = attempt + 1
  /\ pc' = "send"
  /\ UNCHANGED <<model, tries, sent, answer, lastRaw, lastExc>>

\* The bad answer and a corrective turn about it; the next attempt.
Correct ==
  /\ pc = "rejected" /\ attempt < MaxRetries(model)
  /\ convo' = convo \o << [role |-> "assistant", about |-> answer],
                          [role |-> "user", about |-> answer] >>
  /\ attempt' = attempt + 1
  /\ pc' = "send"
  /\ UNCHANGED <<model, tries, sent, answer, lastRaw, lastExc>>

\* StructuredOutputError, after the assertion that last_exc is set.
GiveUp ==
  /\ pc = "rejected" /\ attempt >= MaxRetries(model)
  /\ lastExc # Nothing
  /\ pc' = "invalid"
  /\ UNCHANGED <<model, attempt, tries, convo, sent, answer, lastRaw, lastExc>>

Terminal == {"returned", "invalid", "api_error"}

\* The call is over.
Ended == pc \in Terminal /\ UNCHANGED vars

Next ==
  \/ BacksOff \/ Exhausts \/ Refused \/ Answered
  \/ NoTool \/ Accept \/ Reject
  \/ Correct \/ GiveUp
  \/ Ended

Spec == Init /\ [][Next]_vars

----------------------------------------------------------------------------
(* Properties *)

TypeOK ==
  /\ model \in OutputModel
  /\ pc \in Terminal \cup {"send", "parse", "rejected"}
  /\ attempt \in 0 .. MaxRetries(model)
  /\ tries \in 0 .. ApiRetries
  /\ convo \in Seq(Turn)
  /\ sent \in Nat
  /\ answer \in Shape \cup {Nothing}
  /\ lastRaw \in Shape \cup {Nothing} /\ lastExc \in Shape \cup {Nothing}

(* The two retry loops multiply, and no further: a call makes at most      *)
(* (max_retries + 1) * (ApiRetries + 1) requests.                          *)
WithinBudget == sent <= Budget

(* Every request is a conversation: the roles alternate, it ends with the  *)
(* user, and each correction answers the bad answer it follows.            *)
ConversationSound ==
  pc = "send" =>
    /\ Len(convo) = 2 * attempt + 1
    /\ \A i \in DOMAIN convo :
         convo[i].role = IF i % 2 = 1 THEN "user" ELSE "assistant"
    /\ \A i \in DOMAIN convo :
         i % 2 = 0 => convo[i + 1].about = convo[i].about

(* The StructuredOutputError explains the last answer: the raw output and  *)
(* the validation error it carries are about the same, rejected, one.      *)
ErrorIsLast ==
  pc = "invalid" => lastExc = answer /\ lastRaw = answer /\ ~ Validates(model, answer)

(* What the docstring of complete_typed says: the model is asked for the   *)
(* schema of the output model, and the returned JSON is validated: an      *)
(* answer that fits the schema is not rejected.                            *)
FittingAccepted == lastExc \notin Fitting
=============================================================================
