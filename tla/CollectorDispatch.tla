------------------------- MODULE CollectorDispatch -------------------------
(***************************************************************************)
(* The evidence path of an incident: the Collectors node picks a collector *)
(* for the focus hypothesis and posts the question to it; the collector, a *)
(* Go service, queries its source and stores the evidence in MinIO within  *)
(* a deadline, and answers; the node parses the answer and merges one      *)
(* finding into the state.  An incident has one tick at a time, but a tick *)
(* that gave up leaves its request behind in the collector.                *)
(*                                                                         *)
(* A question is its form: a prefix of the registry's table, a pattern of  *)
(* a collector's parser, another text, or none.  A query takes no time, or *)
(* all the time it may take.  The node's cache is left out: its key holds  *)
(* the current time, so that no tick finds what another one put there.     *)
(***************************************************************************)
EXTENDS Integers, Sequences, FiniteSets

CONSTANTS
  Hyps,        \* hypothesis ids
  Questions,   \* the forms of question asked
  Deadline,    \* seconds of a request, 30 in the server and in the client
  Iterations,  \* max_internal_iterations, 5 by default
  MaxTicks,    \* bound on the ticks of the incident
  None         \* no request, no blob

QuestionForm == {"metric.", "log.", "pod.", "event.",
                 "metric:", "log:", "pod:", "deploy:", "other", "empty"}

ASSUME QuestionAssumption == Questions \subseteq QuestionForm

\* The schema admits 1 too; the Prometheus collector then has one query's time
\* for everything, which StoresInTime excludes.
ASSUME TimeAssumption ==
  /\ Iterations \in 2 .. 10 /\ Deadline \in Nat /\ Deadline >= 2
  /\ MaxTicks \in Nat

VARIABLES
  ticks,     \* dispatches so far
  waiting,   \* does the node wait for the answer to the last one?
  req,       \* the request of each tick, as its collector sees it
  blob,      \* what MinIO holds for each tick: the question it answers
  findings   \* the findings of the state

vars == <<ticks, waiting, req, blob, findings>>

Tick == 1 .. MaxTicks

Collector == {"prom", "loki", "kube"}

\* Mutation: the prefix that matched, for the collector it stands for.
PrefixOf(q) == IF q \in {"log.", "pod.", "event."} THEN q ELSE "prom"

\* select_collector; the parsers' patterns are none of its prefixes.
SelectCollector(q) ==
  CASE q = "log." -> "loki"
    [] q \in {"pod.", "event."} -> "kube"
    [] OTHER -> "prom"

Request ==
  [hyp : Hyps, q : Questions, coll : Collector,
   at : {"sent", "storing", "replied"},
   left : 0 .. Deadline,     \* seconds to the deadline of the request
   open : BOOLEAN,           \* has the client not hung up?
   ok : BOOLEAN,             \* did the query succeed?
   status : {0, 200, 400, 500}]

ASSUME NoneAssumption == None \notin Request \cup Questions \cup Tick

FindingId == ({"f"} \X Tick) \cup ({"fail"} \X Hyps \X Collector)

Init ==
  /\ ticks = 0
  /\ waiting = FALSE
  /\ req = [n \in Tick |-> None]
  /\ blob = [n \in Tick |-> None]
  /\ findings = << >>

----------------------------------------------------------------------------
(* The Collectors node *)

\* The focus is a hypothesis of the state; its text may change between ticks.
Dispatch(h, q) ==
  /\ ~ waiting /\ ticks < MaxTicks
  /\ ticks' = ticks + 1
  /\ waiting' = TRUE
  /\ req' = [req EXCEPT ![ticks + 1] =
               [hyp |-> h, q |-> q, coll |-> SelectCollector(q), at |-> "sent",
                left |-> Deadline, open |-> TRUE, ok |-> FALSE, status |-> 0]]
  /\ UNCHANGED <<blob, findings>>

Success(n) == [id |-> <<"f", n>>, hyp |-> req[n].hyp, evidence |-> n]

\* _failure_finding: neither the question nor the time is part of the id.
Failure(n) ==
  [id |-> <<"fail", req[n].hyp, req[n].coll>>, hyp |-> req[n].hyp, evidence |-> None]

\* Mutation: findings are told apart by what they are about.
KnownHypothesis(f) == \E i \in DOMAIN findings : findings[i].hyp = f.hyp

KnownFinding(f) == \E i \in DOMAIN findings : findings[i].id = f.id

Merge(f) ==
  /\ findings' = IF KnownFinding(f) THEN findings ELSE Append(findings, f)
  /\ waiting' = FALSE

\* A nil slice is null in JSON, which is no list of strings; only the kube
\* collector makes a slice, unless its confidence is 1.
FollowupsNull(r) == r.coll # "kube" \/ (r.ok /\ r.q = "deploy:")

Parses(r) == r.status = 200 /\ ~ FollowupsNull(r)

\* The answer arrives; the request is then over for the collector too.
Answered(n) ==
  /\ waiting /\ n = ticks /\ req[n].at = "replied"
  /\ Merge(IF Parses(req[n]) THEN Success(n) ELSE Failure(n))
  /\ UNCHANGED <<ticks, req, blob>>

HungUp(r) == [r EXCEPT !.open = FALSE]

\* Mutation: the client has no timeout, and relies on the collector's.
TimesOutByServer(n) ==
  /\ waiting /\ n = ticks
  /\ req[n].left = 0
  /\ Merge(Failure(n))
  /\ req' = [req EXCEPT ![n] = HungUp(req[n])]
  /\ UNCHANGED <<ticks, blob>>

\* The client's 30 seconds: no reply yet, or one that took as long.
TimesOut(n) ==
  /\ waiting /\ n = ticks
  /\ req[n].at # "replied" \/ req[n].left = 0
  /\ Merge(Failure(n))
  /\ req' = [req EXCEPT ![n] = HungUp(req[n])]
  /\ UNCHANGED <<ticks, blob>>

\* The connection is refused, or breaks.
ConnectionFails(n) ==
  /\ waiting /\ n = ticks
  /\ Merge(Failure(n))
  /\ req' = [req EXCEPT ![n] = HungUp(req[n])]
  /\ UNCHANGED <<ticks, blob>>

----------------------------------------------------------------------------
(* The collectors *)

Replied(r, status) == [r EXCEPT !.at = "replied", !.status = status]

Queried(r, ok, left) == [r EXCEPT !.at = "storing", !.ok = ok, !.left = left]

\* Validate: no question.
Rejects(n) ==
  /\ req[n] # None /\ req[n].at = "sent" /\ req[n].q = "empty"
  /\ req' = [req EXCEPT ![n] = Replied(req[n], 400)]
  /\ UNCHANGED <<ticks, waiting, blob, findings>>

\* Mutation: the deadline is not divided.
UndividedQueryTime(r) == r.left

AtLeastOne(t) == IF t < 1 THEN 1 ELSE t

\* The Prometheus collector gives its queries one share of the remaining time,
\* and at least a second; the others give them all of it.
QueryTime(r) == IF r.coll = "prom" THEN AtLeastOne(r.left \div Iterations) ELSE r.left

\* A query that takes all its time has failed, and one of a client that hung up
\* fails at once, as does a kube collector without its kubeconfig; the finding
\* says so.
Queries(n) ==
  /\ req[n] # None /\ req[n].at = "sent" /\ req[n].q # "empty"
  /\ \E ok \in BOOLEAN, time \in {0, QueryTime(req[n])} :
       /\ ok => time = 0
       /\ ok \/ time > 0 => req[n].open
       /\ req' = [req EXCEPT ![n] = Queried(req[n], ok, req[n].left - time)]
  /\ UNCHANGED <<ticks, waiting, blob, findings>>

InTime(r) == r.open /\ r.left > 0

\* Mutation: an error of Put is logged, and the finding returned.
StoreFailsUnnoticed(n) ==
  /\ req[n] # None /\ req[n].at = "storing"
  /\ req' = [req EXCEPT ![n] = Replied(req[n], 200)]
  /\ UNCHANGED <<ticks, waiting, blob, findings>>

\* Put under the request's context, then the finding.
Stores(n) ==
  /\ req[n] # None /\ req[n].at = "storing" /\ InTime(req[n])
  /\ blob' = [blob EXCEPT ![n] = req[n].q]
  /\ req' = [req EXCEPT ![n] = Replied(req[n], 200)]
  /\ UNCHANGED <<ticks, waiting, findings>>

\* MinIO may hold a blob whose answer did not arrive.
StoreFails(n) ==
  /\ req[n] # None /\ req[n].at = "storing"
  /\ blob' \in {blob} \cup (IF InTime(req[n]) THEN {[blob EXCEPT ![n] = req[n].q]} ELSE {})
  /\ req' = [req EXCEPT ![n] = Replied(req[n], 500)]
  /\ UNCHANGED <<ticks, waiting, findings>>

\* The incident has had its ticks.
Ended ==
  /\ ~ waiting /\ ticks = MaxTicks
  /\ \A n \in Tick : req[n].at = "replied"
  /\ UNCHANGED vars

Next ==
  \/ \E h \in Hyps, q \in Questions : Dispatch(h, q)
  \/ \E n \in Tick :
       \/ Answered(n) \/ TimesOut(n) \/ ConnectionFails(n)
       \/ Rejects(n) \/ Queries(n) \/ Stores(n) \/ StoreFails(n)
  \/ Ended

(* The client waits for an answer or for its timeout.  A request, its      *)
(* reply and the store's answer may each take for ever.                    *)
Spec ==
  /\ Init /\ [][Next]_vars
  /\ WF_vars(\E n \in Tick : Answered(n) \/ TimesOut(n))

----------------------------------------------------------------------------
(* Properties *)

TypeOK ==
  /\ ticks \in 0 .. MaxTicks
  /\ waiting \in BOOLEAN
  /\ req \in [Tick -> Request \cup {None}]
  /\ blob \in [Tick -> Questions \cup {None}]
  /\ findings \in Seq([id : FindingId, hyp : Hyps, evidence : Tick \cup {None}])

(* A finding that cites evidence can be followed: MinIO holds the blob,    *)
(* and the blob answers the question that was asked for the finding's      *)
(* hypothesis, whatever request timed out or answered late.                *)
EvidenceBehindFinding ==
  \A i \in DOMAIN findings :
    LET f == findings[i]
    IN  f.evidence # None =>
          /\ blob[f.evidence] = req[f.evidence].q
          /\ req[f.evidence].hyp = f.hyp

\* What a tick that is over was worth: its answer, if that came and parses.
Outcome(n) == IF req[n].open /\ Parses(req[n]) THEN Success(n) ELSE Failure(n)

(* No tick is silent: once it is over, the state has the finding of its    *)
(* own answer, whatever failed for the same hypothesis before, and if none *)
(* came or it could not be read, that its collector failed its hypothesis. *)
NoSilentTick ==
  \A n \in 1 .. (IF waiting THEN ticks - 1 ELSE ticks) :
    \E i \in DOMAIN findings : findings[i].id = Outcome(n).id

(* A finding is in the state once, and its id identifies it.               *)
UniqueFindings ==
  \A i, j \in DOMAIN findings : findings[i].id = findings[j].id => i = j

(* A hung Prometheus leaves the time to store that it did not answer.      *)
StoresInTime ==
  \A n \in 1 .. ticks : req[n].coll = "prom" /\ req[n].at = "storing" => req[n].left > 0

(* Every tick comes to an end, whatever is lost and whatever hangs.        *)
TickEnds == waiting ~> ~ waiting

(* What dispatch and the contract say: an answer with status 200 is a      *)
(* CollectorOutput, and the node merges the finding it carries.            *)
SuccessIsMerged ==
  \A n \in 1 .. (IF waiting THEN ticks - 1 ELSE ticks) :
    req[n].open /\ req[n].status = 200 =>
      \E i \in DOMAIN findings : findings[i].id = Success(n).id
=============================================================================
