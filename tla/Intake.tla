------------------------------ MODULE Intake ------------------------------
(***************************************************************************)
(* The Slack side of the intake process: Slack delivers a mention of the   *)
(* bot as an HTTP request, and again when it had no good answer in time;   *)
(* the handler acknowledges, opens a thread, asks two collectors and the   *)
(* language model, posts the results, and only then answers the request.   *)
(*                                                                         *)
(* All requests run on one event loop.  The handler gives it up while it   *)
(* waits for Slack or for a collector, but not while it waits for the      *)
(* language model, which it calls through the synchronous client.          *)
(* Slack, the collectors and the model are the environment.  Every         *)
(* exception of a collector or the model is turned into a line of the      *)
(* findings, so their answers are not told apart.                          *)
(***************************************************************************)
EXTENDS Integers, FiniteSets

CONSTANTS
  Mentions,      \* messages that mention the bot
  MaxTries,      \* how often Slack delivers one: 4, the first and 3 retries
  MaxDeliveries, \* bound on the deliveries altogether
  AnthropicKey,  \* is ANTHROPIC_API_KEY set?
  None           \* no request

ASSUME TriesAssumption == MaxTries \in Nat \ {0} /\ MaxDeliveries \in Nat
ASSUME KeyAssumption == AnthropicKey \in BOOLEAN

\* The k-th delivery of a mention.  The handler cannot tell it from another.
Request == Mentions \X (1 .. MaxTries)

ASSUME NoneAssumption == None \notin Request

VARIABLES
  pc,        \* where the handler of each request is
  late,      \* requests that Slack no longer waits for
  outcome,   \* what post_message returned or raised, per request and message
  shown,     \* the messages of each request that are in Slack
  asked,     \* the collectors that each request has asked
  thinking   \* the request whose model call holds the event loop, or None

vars == <<pc, late, outcome, shown, asked, thinking>>

Message   == {"ack", "announce", "status", "results", "error"}
Answer    == {"ok", "refused", "raised"}
Collector == {"kube", "prom"}
Over      == {"accepted", "failed", "lost"}
Place     == Message \cup Collector \cup {"llm"}

InFlight(r) == pc[r] \in Place
\* investigation_thread_ts: the announcement was accepted.
Thread(r)   == outcome[r]["announce"] = "ok"
Sent        == {r \in Request : pc[r] # "unsent"}

Init ==
  /\ pc = [r \in Request |-> "unsent"]
  /\ late = {}
  /\ outcome = [r \in Request |-> [m \in Message |-> "none"]]
  /\ shown = [r \in Request |-> {}]
  /\ asked = [r \in Request |-> {}]
  /\ thinking = None

----------------------------------------------------------------------------
(* Slack *)

Missed(r) == r \in late \/ pc[r] \in {"failed", "lost"}

Deliver(r) ==
  /\ pc[r] = "unsent"
  /\ r[2] > 1 => Missed(<<r[1], r[2] - 1>>)
  /\ Cardinality(Sent) < MaxDeliveries
  /\ pc' = [pc EXCEPT ![r] = "ack"]
  /\ UNCHANGED <<late, outcome, shown, asked, thinking>>

\* Three seconds without an answer.  The handler is not told.
GiveUpWaiting(r) ==
  /\ InFlight(r) /\ r \notin late
  /\ late' = late \cup {r}
  /\ UNCHANGED <<pc, outcome, shown, asked, thinking>>

----------------------------------------------------------------------------
(* slack_events_webhook *)

Runs(r, place) == pc[r] = place /\ thinking = None

(* post_message.  Slack accepts or refuses the message, the latter as well *)
(* without a token, and the handler looks at this answer once only.  Or    *)
(* httpx raises, and the message may be in Slack all the same.             *)
Post(r, message, sent, raises) ==
  /\ Runs(r, message)
  /\ \E answer \in Answer :
       /\ outcome' = [outcome EXCEPT ![r][message] = answer]
       /\ pc' = [pc EXCEPT ![r] = IF answer = "raised" THEN raises ELSE sent]
       /\ \/ /\ answer # "refused"
             /\ shown' = [shown EXCEPT ![r] = @ \cup {message}]
          \/ /\ answer # "ok"
             /\ UNCHANGED shown
  /\ UNCHANGED <<late, asked, thinking>>

Acknowledge(r) == Post(r, "ack", "announce", "failed")

\* Mutation: the time stamp of the answer is taken without a look at its ok.
AnnounceUnchecked(r) == Post(r, "announce", "status", "failed")

\* Mutation: without a thread there is no investigation.
AnnounceOrStop(r) ==
  \E next \in {"status", "accepted"} :
    /\ Post(r, "announce", next, "failed")
    /\ next = "status" <=> outcome'[r]["announce"] = "ok"

\* Outside the try: an exception is the request's answer, a 500.
Announce(r) ==
  \E next \in {"status", "kube"} :
    /\ Post(r, "announce", next, "failed")
    /\ next = "status" <=> outcome'[r]["announce"] = "ok"

PostStatus(r) == Post(r, "status", "kube", "error")

AskKube(r) ==
  /\ Runs(r, "kube")
  /\ asked' = [asked EXCEPT ![r] = @ \cup {"kube"}]
  /\ pc' = [pc EXCEPT ![r] = "prom"]
  /\ UNCHANGED <<late, outcome, shown, thinking>>

\* Without a thread the findings go to the log.
Investigated(r) == IF Thread(r) THEN "results" ELSE "accepted"

AskProm(r) ==
  /\ Runs(r, "prom")
  /\ asked' = [asked EXCEPT ![r] = @ \cup {"prom"}]
  /\ pc' = [pc EXCEPT ![r] = IF AnthropicKey THEN "llm" ELSE Investigated(r)]
  /\ UNCHANGED <<late, outcome, shown, thinking>>

\* Not an await: from here no other handler takes a step.
CallModel(r) ==
  /\ Runs(r, "llm")
  /\ thinking' = r
  /\ UNCHANGED <<pc, late, outcome, shown, asked>>

\* Mutation: a model that fails is called again.
ModelAnswersOrAgain(r) ==
  /\ thinking = r
  /\ thinking' = None
  /\ pc' \in {pc, [pc EXCEPT ![r] = Investigated(r)]}
  /\ UNCHANGED <<late, outcome, shown, asked>>

ModelAnswers(r) ==
  /\ thinking = r
  /\ thinking' = None
  /\ pc' = [pc EXCEPT ![r] = Investigated(r)]
  /\ UNCHANGED <<late, outcome, shown, asked>>

\* Mutation: an exception of the last post ends the handler without a word.
PostResultsQuietly(r) == Post(r, "results", "accepted", "accepted")

\* Mutation: the error message stands in a finally, not in the except.
PostResultsThenError(r) == Post(r, "results", "error", "error")

PostResults(r) == Post(r, "results", "accepted", "error")

\* The except: "Unable to connect to collectors ... manual investigation".
PostError(r) == Post(r, "error", "accepted", "failed")

Handle(r) ==
  \/ Acknowledge(r) \/ Announce(r) \/ PostStatus(r)
  \/ AskKube(r) \/ AskProm(r) \/ CallModel(r) \/ ModelAnswers(r)
  \/ PostResults(r) \/ PostError(r)

\* The process dies and is started again.  It keeps nothing.
Restart ==
  /\ \E r \in Request : InFlight(r)
  /\ pc' = [r \in Request |-> IF InFlight(r) THEN "lost" ELSE pc[r]]
  /\ thinking' = None
  /\ UNCHANGED <<late, outcome, shown, asked>>

\* Nothing arrives any more.
Quiet == (\A r \in Request : ~ InFlight(r)) /\ UNCHANGED vars

Next ==
  \/ \E r \in Request : Deliver(r) \/ GiveUpWaiting(r) \/ Handle(r)
  \/ Restart
  \/ Quiet

(* The event loop runs every handler that can go on, and the calls of the  *)
(* handlers have time limits, the model's that of its client.  Slack need  *)
(* not deliver, and the process need not die.                              *)
Spec == Init /\ [][Next]_vars /\ \A r \in Request : WF_vars(Handle(r))

----------------------------------------------------------------------------
(* Properties *)

(* Types; and the handler writes into a thread only if it has one.         *)
TypeOK ==
  /\ pc \in [Request -> Place \cup Over \cup {"unsent"}]
  /\ late \subseteq Request
  /\ outcome \in [Request -> [Message -> Answer \cup {"none"}]]
  /\ shown \in [Request -> SUBSET Message]
  /\ asked \in [Request -> SUBSET Collector]
  /\ thinking \in Request \cup {None}
  /\ \A r \in Request : pc[r] \in {"status", "results", "error"} => Thread(r)

(* "Always run investigation, regardless of Slack posting success": what   *)
(* the code keeps of it.  A handler that is through asked both collectors, *)
(* however often Slack refused its messages, unless a post before the      *)
(* investigation raised.                                                   *)
InvestigatedUnlessPostRaised ==
  \A r \in Request :
    pc[r] \in {"accepted", "failed"} =>
      \/ asked[r] = Collector
      \/ \E m \in {"ack", "announce", "status"} : outcome[r][m] = "raised"

(* A reader is not left before "Starting investigation...": the thread of  *)
(* a request that was answered with 200 ends with the results of both      *)
(* collectors or with a call for manual investigation, or Slack refused    *)
(* that message.                                                           *)
ThreadConcluded ==
  \A r \in Request :
    pc[r] = "accepted" /\ Thread(r) =>
      \/ "results" \in shown[r] /\ asked[r] = Collector
      \/ "error" \in shown[r]
      \/ "refused" \in {outcome[r]["results"], outcome[r]["error"]}

(* The call for manual investigation names the collectors, but only Slack  *)
(* is ever behind it: the status or the results could not be posted.  A    *)
(* thread that shows results as well is one whose results were reported    *)
(* lost after they had arrived.                                            *)
ErrorBlamesSlack ==
  \A r \in Request :
    "error" \in shown[r] =>
      /\ "raised" \in {outcome[r]["status"], outcome[r]["results"]}
      /\ "results" \in shown[r] => outcome[r]["results"] = "raised"

(* Every request that arrives comes to its end, in spite of the others'    *)
(* model calls, during which its handler cannot go on.                     *)
RequestEnds == \A r \in Request : pc[r] = "ack" ~> pc[r] \in Over
=============================================================================
