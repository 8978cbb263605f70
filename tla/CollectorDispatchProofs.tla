---------------------- MODULE CollectorDispatchProofs ----------------------
(***************************************************************************)
(* Proofs of the invariants of CollectorDispatch, for any hypotheses, any  *)
(* number of ticks and any division of the deadline among 2 to 10 queries. *)
(***************************************************************************)
EXTENDS CollectorDispatch, TLAPS

\* The rest of the incident's state, which the nodes of the graph know.
CONSTANTS Hashes, Keys, Unset, MaxAttempts, RouteAttempts

Graph == INSTANCE IncidentNodes

FindingRecord == [id : FindingId, hyp : Hyps, evidence : Tick \cup {None}]

(* The requests are those of the ticks so far, and 200 is said only of a   *)
(* request whose blob is stored.                                           *)
RequestsSound ==
  /\ \A n \in Tick : req[n] # None <=> n <= ticks
  /\ \A n \in Tick :
       req[n] # None =>
         /\ req[n].at = "sent" => req[n].status = 0 /\ req[n].left = Deadline
         /\ req[n].at = "storing" => req[n].status = 0
         /\ req[n].status = 200 => blob[n] = req[n].q
         /\ req[n].at = "storing" /\ req[n].coll = "prom" => req[n].left > 0

(* Evidence is cited only of a request with status 200, which is final.    *)
CitedStored ==
  \A i \in DOMAIN findings :
    findings[i].evidence # None =>
      /\ req[findings[i].evidence] # None
      /\ req[findings[i].evidence].status = 200
      /\ req[findings[i].evidence].at = "replied"
      /\ req[findings[i].evidence].hyp = findings[i].hyp

IInv ==
  /\ TypeOK
  /\ waiting => ticks >= 1
  /\ RequestsSound
  /\ CitedStored
  /\ UniqueFindings

(* A share of the deadline leaves something of it.                         *)
LEMMA ShareIsLess ==
  AtLeastOne(Deadline \div Iterations) \in 1 .. Deadline - 1
  <1> DEFINE share == Deadline \div Iterations
  <1>1. Deadline \in Nat /\ Deadline >= 2 /\ Iterations \in 2 .. 10
    BY TimeAssumption
  <1>2. share \in Nat /\ share < Deadline
    <2>1. Iterations \in {2, 3, 4, 5, 6, 7, 8, 9, 10}
      BY <1>1, SMT
    <2> QED BY <1>1, <2>1, SMT
  <1> HIDE DEF share
  <1>3. AtLeastOne(share) \in 1 .. Deadline - 1
    BY <1>1, <1>2, SMT DEF AtLeastOne
  <1> QED BY <1>3 DEF share

(* What a step of the collector, or the client's hanging up, does to the   *)
(* requests: the one of tick n goes on being the same question.            *)
Advances(n) ==
  /\ n \in Tick /\ req[n] \in Request
  /\ req' \in [Tick -> Request \cup {None}]
  /\ \A m \in Tick \ {n} : req'[m] = req[m]
  /\ req'[n] \in Request
  /\ req'[n].hyp = req[n].hyp /\ req'[n].q = req[n].q /\ req'[n].coll = req[n].coll

(* The three changes that a request goes through keep its question.        *)
LEMMA ReplyKeeps ==
  ASSUME NEW r \in Request, NEW status \in {200, 400, 500}
  PROVE  /\ Replied(r, status) \in Request
         /\ Replied(r, status).hyp = r.hyp /\ Replied(r, status).q = r.q
         /\ Replied(r, status).coll = r.coll /\ Replied(r, status).left = r.left
         /\ Replied(r, status).at = "replied" /\ Replied(r, status).status = status
         /\ Replied(r, status).open = r.open
  <1> DEFINE first == [r EXCEPT !.at = "replied"]
  <1>1. first \in Request
    BY SMT DEF Request
  <1>2. Replied(r, status) = [first EXCEPT !.status = status]
    BY SMT DEF Request, Replied
  <1> HIDE DEF first
  <1>3. Replied(r, status) \in Request
    BY <1>1, <1>2, SMT DEF Request
  <1>4. Replied(r, status).hyp = r.hyp /\ Replied(r, status).q = r.q
    BY SMT DEF Request, Replied
  <1>5. Replied(r, status).coll = r.coll /\ Replied(r, status).left = r.left
    BY SMT DEF Request, Replied
  <1>6. /\ Replied(r, status).at = "replied" /\ Replied(r, status).status = status
        /\ Replied(r, status).open = r.open
    BY SMT DEF Request, Replied
  <1> QED BY <1>3, <1>4, <1>5, <1>6

LEMMA QueryKeeps ==
  ASSUME NEW r \in Request, NEW ok \in BOOLEAN, NEW left \in 0 .. Deadline
  PROVE  /\ Queried(r, ok, left) \in Request
         /\ Queried(r, ok, left).hyp = r.hyp /\ Queried(r, ok, left).q = r.q
         /\ Queried(r, ok, left).coll = r.coll /\ Queried(r, ok, left).left = left
         /\ Queried(r, ok, left).at = "storing"
         /\ Queried(r, ok, left).status = r.status
  <1> DEFINE first == [r EXCEPT !.at = "storing"]
             second == [first EXCEPT !.ok = ok]
  <1>1. first \in Request
    BY SMT DEF Request
  <1>2. Queried(r, ok, left) = [second EXCEPT !.left = left]
    BY SMT DEF Request, Queried
  <1>3. second \in Request
    <2> HIDE DEF first
    <2> QED BY <1>1, SMT DEF Request
  <1> HIDE DEF second
  <1>4. Queried(r, ok, left) \in Request
    BY <1>2, <1>3, SMT DEF Request
  <1>5. Queried(r, ok, left).hyp = r.hyp /\ Queried(r, ok, left).q = r.q
    BY SMT DEF Request, Queried
  <1>6. Queried(r, ok, left).coll = r.coll /\ Queried(r, ok, left).left = left
    BY SMT DEF Request, Queried
  <1>7. Queried(r, ok, left).at = "storing" /\ Queried(r, ok, left).status = r.status
    BY SMT DEF Request, Queried
  <1> QED BY <1>4, <1>5, <1>6, <1>7

LEMMA HangUpKeeps ==
  ASSUME NEW r \in Request
  PROVE  /\ HungUp(r) \in Request
         /\ HungUp(r).hyp = r.hyp /\ HungUp(r).q = r.q /\ HungUp(r).coll = r.coll
         /\ HungUp(r).at = r.at /\ HungUp(r).left = r.left /\ HungUp(r).status = r.status
         /\ HungUp(r).open = FALSE
  <1>1. HungUp(r) \in Request
    <2>1. \A open \in BOOLEAN : [r EXCEPT !.open = open] \in Request
      BY SMT DEF Request
    <2> QED BY <2>1 DEF HungUp
  <1>2. HungUp(r).hyp = r.hyp /\ HungUp(r).q = r.q /\ HungUp(r).coll = r.coll
    BY SMT DEF Request, HungUp
  <1>3. /\ HungUp(r).at = r.at /\ HungUp(r).left = r.left /\ HungUp(r).status = r.status
        /\ HungUp(r).open = FALSE
    BY SMT DEF Request, HungUp
  <1> QED BY <1>1, <1>2, <1>3

(* Replacing the request of a tick by a record that keeps its question.    *)
LEMMA AdvanceBy ==
  ASSUME TypeOK, NEW n \in Tick, req[n] \in Request, NEW new \in Request,
         new.hyp = req[n].hyp, new.q = req[n].q, new.coll = req[n].coll,
         req' = [req EXCEPT ![n] = new]
  PROVE  Advances(n) /\ req'[n] = new
  <1>1. req \in [Tick -> Request \cup {None}]
    BY DEF TypeOK
  <1>2. req'[n] = new /\ \A m \in Tick \ {n} : req'[m] = req[m]
    BY <1>1, SMT
  <1>3. req' \in [Tick -> Request \cup {None}]
    BY <1>1, SMT
  <1> QED BY <1>2, <1>3 DEF Advances

(* Merging a finding keeps the ids unique, and adds nothing else.          *)
LEMMA MergeKeeps ==
  ASSUME TypeOK, UniqueFindings, NEW f \in FindingRecord,
         findings' = IF KnownFinding(f) THEN findings ELSE Append(findings, f)
  PROVE  /\ findings' \in Seq(FindingRecord)
         /\ UniqueFindings'
         /\ \A i \in DOMAIN findings' :
              findings'[i] = f \/ (i \in DOMAIN findings /\ findings'[i] = findings[i])
  <1>1. findings \in Seq(FindingRecord)
    BY DEF TypeOK, FindingRecord
  <1>2. CASE KnownFinding(f)
    BY <1>1, <1>2, SMT DEF UniqueFindings
  <1>3. CASE ~ KnownFinding(f)
    <2>1. findings' = Append(findings, f)
      BY <1>3
    <2>2. \A i \in DOMAIN findings : findings[i].id # f.id
      BY <1>3 DEF KnownFinding
    <2>3. /\ findings' \in Seq(FindingRecord) /\ Len(findings') = Len(findings) + 1
          /\ \A i \in 1 .. Len(findings) : findings'[i] = findings[i]
          /\ findings'[Len(findings) + 1] = f
      BY <1>1, <2>1, SMT
    <2>4. DOMAIN findings = 1 .. Len(findings) /\ DOMAIN findings' = 1 .. Len(findings) + 1
      BY <1>1, <2>3, SMT
    <2>5. UniqueFindings'
      BY <1>1, <2>2, <2>3, <2>4, SMT DEF UniqueFindings
    <2> QED BY <2>3, <2>4, <2>5, SMT
  <1> QED BY <1>2, <1>3

LEMMA InitHolds == Init => IInv
  <1> SUFFICES ASSUME Init PROVE IInv
    OBVIOUS
  <1> USE TimeAssumption DEF Init
  <1>1. TypeOK
    <2>1. findings \in Seq([id : FindingId, hyp : Hyps, evidence : Tick \cup {None}])
      BY SMT
    <2>2. /\ req \in [Tick -> Request \cup {None}]
          /\ blob \in [Tick -> Questions \cup {None}]
      OBVIOUS
    <2>3. ticks \in 0 .. MaxTicks
      BY SMT
    <2> QED BY <2>1, <2>2, <2>3 DEF TypeOK
  <1>2. RequestsSound /\ CitedStored /\ UniqueFindings
    BY SMT DEF RequestsSound, CitedStored, UniqueFindings, Tick
  <1> QED BY <1>1, <1>2 DEF IInv

(* What a finding cites is a tick, or nothing.                             *)
LEMMA CitesTick ==
  ASSUME TypeOK
  PROVE  \A i \in DOMAIN findings : findings[i].evidence \in Tick \cup {None}
  <1>1. findings \in Seq(FindingRecord)
    BY DEF TypeOK, FindingRecord
  <1>2. \A i \in DOMAIN findings : findings[i] \in FindingRecord
    BY <1>1, SMT
  <1> QED BY <1>2 DEF FindingRecord

(* A step that moves the request of one tick on, and perhaps its blob,     *)
(* keeps what the findings cite.                                           *)
LEMMA CitedKept ==
  ASSUME IInv, NEW n \in Tick, Advances(n), UNCHANGED findings,
         req[n].status = 200 => req'[n].status = 200 /\ req'[n].at = req[n].at
  PROVE  CitedStored' /\ UniqueFindings'
  <1>1. None \notin Request
    BY NoneAssumption
  <1>2. \A i \in DOMAIN findings : findings[i].evidence \in Tick \cup {None}
    BY CitesTick DEF IInv
  <1>3. CitedStored'
    BY <1>1, <1>2 DEF IInv, CitedStored, Advances
  <1>4. UniqueFindings'
    BY DEF IInv, UniqueFindings
  <1> QED BY <1>3, <1>4

(* One step keeps the invariant, action by action.                         *)
LEMMA StepHolds == IInv /\ [Next]_vars => IInv'
  <1> SUFFICES ASSUME IInv, [Next]_vars PROVE IInv'
    OBVIOUS
  <1>0. TypeOK /\ RequestsSound /\ CitedStored /\ UniqueFindings
    BY DEF IInv
  <1>t. ticks \in 0 .. MaxTicks /\ MaxTicks \in Nat /\ Tick = 1 .. MaxTicks
    BY <1>0, TimeAssumption DEF TypeOK, Tick
  <1>n. None \notin Request /\ None \notin Tick
    BY NoneAssumption
  <1>1. ASSUME NEW h \in Hyps, NEW q \in Questions, Dispatch(h, q) PROVE IInv'
    <2> DEFINE n == ticks + 1
               new == [hyp |-> h, q |-> q, coll |-> SelectCollector(q), at |-> "sent",
                       left |-> Deadline, open |-> TRUE, ok |-> FALSE, status |-> 0]
    <2>1. n \in Tick /\ ticks' = n /\ n \in 1 .. MaxTicks
      BY <1>1, <1>t, SMT DEF Dispatch
    <2>2. new \in Request
      <3>1. SelectCollector(q) \in Collector
        BY SMT DEF SelectCollector, Collector
      <3> QED BY <3>1, TimeAssumption, SMT DEF Request
    <2>3. new.at = "sent" /\ new.status = 0 /\ new.left = Deadline
      OBVIOUS
    <2>4. req' = [req EXCEPT ![n] = new] /\ req \in [Tick -> Request \cup {None}]
      BY <1>0, <1>1 DEF Dispatch, TypeOK
    <2>5. req[n] = None
      BY <1>0, <1>t, <2>1, SMT DEF RequestsSound
    <2> HIDE DEF new
    <2>6. /\ req' \in [Tick -> Request \cup {None}] /\ req'[n] = new
          /\ \A m \in Tick \ {n} : req'[m] = req[m]
      BY <2>1, <2>2, <2>4, SMT
    <2>7. TypeOK'
      BY <1>0, <1>1, <2>1, <2>6, <1>t, SMT DEF TypeOK, Dispatch
    <2>8. RequestsSound'
      <3>1. \A m \in Tick \ {n} : m <= ticks <=> m <= ticks'
        BY <2>1, <1>t, SMT
      <3>2. \A m \in Tick : req'[m] # None <=> m <= ticks'
        BY <1>0, <2>1, <2>2, <2>6, <3>1, <1>n, <1>t, SMT DEF RequestsSound
      <3>3. UNCHANGED blob
        BY <1>1 DEF Dispatch
      <3> QED BY <1>0, <2>3, <2>6, <3>2, <3>3 DEF RequestsSound
    <2>9. CitedStored' /\ UniqueFindings'
      <3>1. UNCHANGED findings
        BY <1>1 DEF Dispatch
      <3>2. \A i \in DOMAIN findings : findings[i].evidence \in Tick \cup {None}
        BY <1>0, CitesTick
      <3>3. CitedStored'
        BY <1>0, <2>5, <2>6, <3>1, <3>2 DEF CitedStored
      <3> QED BY <1>0, <3>1, <3>3 DEF UniqueFindings
    <2> QED BY <2>1, <2>7, <2>8, <2>9, SMT DEF IInv
  <1>r. ASSUME NEW n \in Tick, req[n] # None
        PROVE  /\ req[n] \in Request /\ req[n].hyp \in Hyps /\ req[n].coll \in Collector
               /\ req[n].left \in 0 .. Deadline /\ req[n].open \in BOOLEAN
               /\ req[n].ok \in BOOLEAN /\ req[n].status \in {0, 200, 400, 500}
               /\ req[n].at \in {"sent", "storing", "replied"} /\ req[n].q \in Questions
    <2>1. req[n] \in Request
      BY <1>0, <1>r DEF TypeOK
    <2> QED BY <2>1, SMT DEF Request
  <1>s. ASSUME NEW n \in Tick, req[n] # None
        PROVE  Success(n) \in FindingRecord /\ Failure(n) \in FindingRecord
    BY <1>r, <1>s, SMT DEF Success, Failure, FindingRecord, FindingId
  <1>2. ASSUME NEW n \in Tick, Answered(n) PROVE IInv'
    <2>1. req[n] # None
      BY <1>0, <1>2, <1>t, SMT DEF Answered, RequestsSound
    <2>2. PICK f \in {Success(n), Failure(n)} :
            /\ findings' = IF KnownFinding(f) THEN findings ELSE Append(findings, f)
            /\ f.evidence # None => Parses(req[n])
      BY <1>2 DEF Answered, Merge, Success, Failure
    <2>3. f \in FindingRecord
      BY <1>s, <2>1
    <2>4. /\ findings' \in Seq(FindingRecord) /\ UniqueFindings'
          /\ \A i \in DOMAIN findings' :
               findings'[i] = f \/ (i \in DOMAIN findings /\ findings'[i] = findings[i])
      BY <1>0, <2>2, <2>3, MergeKeeps
    <2>5. UNCHANGED <<ticks, req, blob>> /\ waiting' = FALSE /\ req[n].at = "replied"
      BY <1>2 DEF Answered, Merge
    <2>6. TypeOK'
      BY <1>0, <2>4, <2>5 DEF TypeOK, FindingRecord
    <2>7. RequestsSound'
      BY <1>0, <2>5 DEF RequestsSound
    <2>8. f.evidence # None =>
            /\ f.evidence = n /\ f.hyp = req[n].hyp
            /\ req[n].status = 200
      BY <2>2 DEF Success, Failure, Parses
    <2>9. CitedStored'
      BY <1>0, <2>1, <2>4, <2>5, <2>8 DEF CitedStored
    <2> QED BY <2>4, <2>5, <2>6, <2>7, <2>9 DEF IInv
  <1>3. ASSUME NEW n \in Tick, TimesOut(n) \/ ConnectionFails(n) PROVE IInv'
    <2>1. req[n] # None
      BY <1>0, <1>3, <1>t, SMT DEF TimesOut, ConnectionFails, RequestsSound, IInv
    <2>2. findings' = IF KnownFinding(Failure(n)) THEN findings
                                                  ELSE Append(findings, Failure(n))
      BY <1>3 DEF TimesOut, ConnectionFails, Merge
    <2>3. Failure(n).evidence = None /\ Failure(n) \in FindingRecord
      BY <1>s, <2>1 DEF Failure
    <2>4. /\ findings' \in Seq(FindingRecord) /\ UniqueFindings'
          /\ \A i \in DOMAIN findings' :
               \/ findings'[i] = Failure(n)
               \/ i \in DOMAIN findings /\ findings'[i] = findings[i]
      BY <1>0, <2>2, <2>3, MergeKeeps
    <2>5. /\ UNCHANGED <<ticks, blob>> /\ waiting' = FALSE
          /\ req' = [req EXCEPT ![n] = HungUp(req[n])]
      BY <1>3 DEF TimesOut, ConnectionFails, Merge
    <2>6. /\ Advances(n)
          /\ req'[n].at = req[n].at /\ req'[n].left = req[n].left
          /\ req'[n].status = req[n].status
      <3>1. req' = [req EXCEPT ![n] = HungUp(req[n])]
        BY <2>5
      <3>2. req[n] \in Request
        BY <1>r, <2>1
      <3> QED BY <1>0, <3>1, <3>2, HangUpKeeps, AdvanceBy, ZenonT(30)
    <2>7. TypeOK'
      BY <1>0, <2>4, <2>5, <2>6 DEF TypeOK, FindingRecord, Advances
    <2>8. RequestsSound'
      BY <1>0, <1>n, <2>1, <2>5, <2>6 DEF RequestsSound, Advances
    <2>9. CitedStored'
      BY <1>0, <1>n, <2>1, <2>3, <2>4, <2>6, CitesTick DEF CitedStored, Advances
    <2> QED BY <2>4, <2>5, <2>7, <2>8, <2>9 DEF IInv
  <1>4. ASSUME NEW n \in Tick, Rejects(n) PROVE IInv'
    <2>1. req[n] # None /\ req[n] \in Request /\ req[n].at = "sent" /\ req[n].status = 0
      BY <1>0, <1>4, <1>r DEF Rejects, RequestsSound
    <2>2. req' = [req EXCEPT ![n] = Replied(req[n], 400)]
      BY <1>4 DEF Rejects
    <2> DEFINE new == Replied(req[n], 400)
    <2>r. /\ new \in Request /\ new.hyp = req[n].hyp /\ new.q = req[n].q
          /\ new.coll = req[n].coll /\ new.status = 400 /\ new.at = "replied"
      BY <2>1, ReplyKeeps, SMT
    <2>s. req' = [req EXCEPT ![n] = new]
      BY <2>2
    <2> HIDE DEF new
    <2>t. TypeOK
      BY <1>0
    <2>3. Advances(n) /\ req'[n] = new
      BY <2>t, <2>1, <2>r, <2>s, AdvanceBy, ZenonT(30)
    <2>4. req'[n].status = 400 /\ req'[n].at = "replied"
      BY <2>3, <2>r
    <2>5. UNCHANGED <<ticks, waiting, blob, findings>>
      BY <1>4 DEF Rejects
    <2>6. TypeOK'
      BY <1>0, <2>3, <2>5 DEF TypeOK, Advances
    <2>7. RequestsSound'
      BY <1>0, <1>n, <2>1, <2>3, <2>4, <2>5, SMT DEF RequestsSound, Advances
    <2>8. CitedStored' /\ UniqueFindings'
      BY <2>1, <2>3, <2>5, CitedKept, SMT
    <2> QED BY <2>5, <2>6, <2>7, <2>8 DEF IInv
  <1>5. ASSUME NEW n \in Tick, Queries(n) PROVE IInv'
    <2>1. /\ req[n] # None /\ req[n] \in Request /\ req[n].at = "sent"
          /\ req[n].status = 0 /\ req[n].left = Deadline
      BY <1>0, <1>5, <1>r DEF Queries, RequestsSound
    <2>2. PICK ok \in BOOLEAN, time \in {0, QueryTime(req[n])} :
            req' = [req EXCEPT ![n] = Queried(req[n], ok, req[n].left - time)]
      BY <1>5 DEF Queries
    <2> DEFINE left == req[n].left - time
    <2>3. left \in 0 .. Deadline /\ (req[n].coll = "prom" => left > 0)
      <3>1. Deadline \in Nat /\ Deadline >= 2
        BY TimeAssumption
      <3>2. CASE req[n].coll = "prom"
        <4>1. QueryTime(req[n]) \in 1 .. Deadline - 1
          BY <2>1, <3>2, ShareIsLess DEF QueryTime
        <4> QED BY <2>1, <3>1, <4>1, SMT
      <3>3. CASE req[n].coll # "prom"
        <4>1. QueryTime(req[n]) = Deadline
          BY <2>1, <3>3 DEF QueryTime
        <4> QED BY <2>1, <3>1, <3>3, <4>1, SMT
      <3> QED BY <3>2, <3>3
    <2>4. req' = [req EXCEPT ![n] = Queried(req[n], ok, left)]
      BY <2>2
    <2> DEFINE new == Queried(req[n], ok, left)
    <2> HIDE DEF left
    <2>r. /\ new \in Request /\ new.hyp = req[n].hyp /\ new.q = req[n].q
          /\ new.coll = req[n].coll /\ new.status = 0 /\ new.at = "storing"
          /\ new.left = left
      BY <2>1, <2>3, QueryKeeps
    <2> HIDE DEF new
    <2>5. Advances(n) /\ req'[n] = new
      BY <1>0, <2>1, <2>4, <2>r, AdvanceBy, ZenonT(30) DEF new
    <2>6. req'[n].status = 0 /\ req'[n].at = "storing" /\ req'[n].left = left
      BY <2>5, <2>r
    <2>7. UNCHANGED <<ticks, waiting, blob, findings>>
      BY <1>5 DEF Queries
    <2>8. TypeOK'
      BY <1>0, <2>5, <2>7 DEF TypeOK, Advances
    <2>9. RequestsSound'
      BY <1>0, <1>n, <2>1, <2>3, <2>5, <2>6, <2>7, SMT DEF RequestsSound, Advances
    <2>10. CitedStored' /\ UniqueFindings'
      BY <2>1, <2>5, <2>7, CitedKept, SMT
    <2> QED BY <2>7, <2>8, <2>9, <2>10 DEF IInv
  <1>6. ASSUME NEW n \in Tick, Stores(n) \/ StoreFails(n) PROVE IInv'
    <2>1. /\ req[n] # None /\ req[n] \in Request /\ req[n].at = "storing"
          /\ req[n].status = 0 /\ req[n].q \in Questions
      BY <1>0, <1>6, <1>r DEF Stores, StoreFails, RequestsSound
    <2>2. PICK status \in {200, 500} :
            /\ req' = [req EXCEPT ![n] = Replied(req[n], status)]
            /\ blob' = blob \/ blob' = [blob EXCEPT ![n] = req[n].q]
            /\ status = 200 => blob' = [blob EXCEPT ![n] = req[n].q]
      BY <1>6 DEF Stores, StoreFails
    <2> DEFINE new == Replied(req[n], status)
    <2>r. /\ new \in Request /\ new.hyp = req[n].hyp /\ new.q = req[n].q
          /\ new.coll = req[n].coll /\ new.status = status /\ new.at = "replied"
      <3>1. status \in {200, 400, 500}
        BY SMT
      <3> QED BY <2>1, <3>1, ReplyKeeps
    <2> HIDE DEF new
    <2>3. Advances(n) /\ req'[n] = new
      BY <1>0, <2>1, <2>2, <2>r, AdvanceBy, ZenonT(30) DEF new
    <2>4. req'[n].status = status /\ req'[n].at = "replied"
      BY <2>3, <2>r
    <2>5. UNCHANGED <<ticks, waiting, findings>>
      BY <1>6 DEF Stores, StoreFails
    <2>6. blob \in [Tick -> Questions \cup {None}]
      BY <1>0 DEF TypeOK
    <2>7. /\ blob' \in [Tick -> Questions \cup {None}]
          /\ \A m \in Tick \ {n} : blob'[m] = blob[m]
          /\ status = 200 => blob'[n] = req[n].q
      BY <2>1, <2>2, <2>6, SMT
    <2>8. TypeOK'
      BY <1>0, <2>3, <2>5, <2>7 DEF TypeOK, Advances
    <2>9. RequestsSound'
      <3>1. \A m \in Tick : req'[m] # None <=> m <= ticks'
        BY <1>0, <1>n, <2>1, <2>3, <2>5 DEF RequestsSound, Advances
      <3>2. ASSUME NEW m \in Tick, m # n, req'[m] # None
            PROVE  /\ req'[m].at = "sent" => req'[m].status = 0 /\ req'[m].left = Deadline
                   /\ req'[m].at = "storing" => req'[m].status = 0
                   /\ req'[m].status = 200 => blob'[m] = req'[m].q
                   /\ req'[m].at = "storing" /\ req'[m].coll = "prom" => req'[m].left > 0
        <4>1. req'[m] = req[m] /\ blob'[m] = blob[m]
          BY <2>3, <2>7, <3>2 DEF Advances
        <4> QED BY <1>0, <3>2, <4>1 DEF RequestsSound
      <3>3. req'[n].status = 200 => blob'[n] = req'[n].q
        BY <2>3, <2>4, <2>7 DEF Advances
      <3> QED BY <2>4, <3>1, <3>2, <3>3 DEF RequestsSound
    <2>10. CitedStored' /\ UniqueFindings'
      BY <2>1, <2>3, <2>5, CitedKept, SMT
    <2> QED BY <2>5, <2>8, <2>9, <2>10 DEF IInv
  <1>7. ASSUME UNCHANGED vars PROVE IInv'
    BY <1>7 DEF vars, IInv, TypeOK, RequestsSound, CitedStored, UniqueFindings
  <1> QED
    BY <1>1, <1>2, <1>3, <1>4, <1>5, <1>6, <1>7 DEF Next, Ended

(* The invariant holds throughout.                                         *)
LEMMA Invariance == Spec => []IInv
  BY InitHolds, StepHolds, PTL DEF Spec

(* The state of the evidence path keeps its types.                         *)
THEOREM TypeCorrect == Spec => []TypeOK
  <1>1. IInv => TypeOK
    BY DEF IInv
  <1> QED BY <1>1, Invariance, PTL

(* A finding that cites evidence cites a blob that MinIO holds, for any    *)
(* number of ticks and whatever times out in between.                      *)
THEOREM CitesStoredEvidence == Spec => []EvidenceBehindFinding
  <1>1. ASSUME IInv PROVE EvidenceBehindFinding
    <2>1. \A i \in DOMAIN findings : findings[i].evidence \in Tick \cup {None}
      BY <1>1, CitesTick DEF IInv
    <2> QED BY <1>1, <2>1 DEF IInv, CitedStored, RequestsSound, EvidenceBehindFinding
  <1> QED BY <1>1, Invariance, PTL

(* No id is in the findings twice.                                         *)
THEOREM FindsUniquely == Spec => []UniqueFindings
  <1>1. IInv => UniqueFindings
    BY DEF IInv
  <1> QED BY <1>1, Invariance, PTL

(* The time to store remains for every deadline of two seconds or more and *)
(* every division of it among 2 to 10 queries.                             *)
THEOREM LeavesTimeToStore == Spec => []StoresInTime
  <1>1. ASSUME IInv PROVE StoresInTime
    <2>1. \A n \in 1 .. ticks : n \in Tick /\ req[n] # None
      BY <1>1, TimeAssumption, SMT DEF IInv, TypeOK, RequestsSound, Tick
    <2> QED BY <1>1, <2>1 DEF IInv, RequestsSound, StoresInTime
  <1> QED BY <1>1, Invariance, PTL

(* The ticks that are over, and what records one.  The outcome of a tick   *)
(* that is over is final: the client hung up, or had the reply.            *)
Over(n) == n \in 1 .. ticks /\ (waiting => n < ticks)

Recorded(n) ==
  /\ req[n].open => req[n].at = "replied"
  /\ \E i \in DOMAIN findings : findings[i].id = Outcome(n).id

(* The findings grow only, the question of a tick stays the same, and only *)
(* one without a reply goes on: what records a tick that is over goes on   *)
(* recording it.                                                           *)
FindingsGrow ==
  \A i \in DOMAIN findings : i \in DOMAIN findings' /\ findings'[i] = findings[i]

SameAsk(n) ==
  \/ req'[n] = req[n]
  \/ /\ req'[n].hyp = req[n].hyp /\ req'[n].coll = req[n].coll
     /\ req'[n].open = req[n].open /\ req[n].at # "replied"

LEMMA StaysRecorded ==
  ASSUME FindingsGrow, NEW n, SameAsk(n), Recorded(n)
  PROVE  Recorded(n)'
  <1>1. Outcome(n)'.id = Outcome(n).id /\ (req'[n].open => req'[n].at = "replied")
    <2>1. CASE req'[n] = req[n]
      BY <2>1 DEF Outcome, Parses, FollowupsNull, Success, Failure, Recorded
    <2>2. CASE req'[n] # req[n]
      <3>1. ~ req[n].open /\ ~ req'[n].open
        BY <2>2 DEF SameAsk, Recorded
      <3>2. Failure(n)'.id = Failure(n).id
        BY <2>2 DEF SameAsk, Failure
      <3> QED BY <3>1, <3>2 DEF Outcome
    <2> QED BY <2>1, <2>2
  <1>2. PICK i \in DOMAIN findings : findings[i].id = Outcome(n).id
    BY DEF Recorded
  <1>3. i \in DOMAIN findings' /\ findings'[i].id = Outcome(n)'.id
    BY <1>1, <1>2 DEF FindingsGrow
  <1> QED BY <1>1, <1>3 DEF Recorded

(* What is merged is in the findings afterwards, under its id.             *)
LEMMA MergeRecords ==
  ASSUME TypeOK, NEW f \in FindingRecord,
         findings' = IF KnownFinding(f) THEN findings ELSE Append(findings, f)
  PROVE  /\ FindingsGrow
         /\ \E i \in DOMAIN findings' : findings'[i].id = f.id
  <1>1. findings \in Seq(FindingRecord)
    BY DEF TypeOK, FindingRecord
  <1>2. CASE KnownFinding(f)
    BY <1>2 DEF KnownFinding, FindingsGrow
  <1>3. CASE ~ KnownFinding(f)
    <2>1. findings' = Append(findings, f)
      BY <1>3
    <2>2. /\ Len(findings) \in Nat /\ DOMAIN findings = 1 .. Len(findings)
          /\ DOMAIN findings' = 1 .. Len(findings) + 1
          /\ \A i \in 1 .. Len(findings) : findings'[i] = findings[i]
          /\ findings'[Len(findings) + 1] = f
      BY <1>1, <2>1, SMT
    <2>3. FindingsGrow
      BY <2>2, SMT DEF FindingsGrow
    <2>4. Len(findings) + 1 \in DOMAIN findings'
      BY <2>2, SMT
    <2> QED BY <2>2, <2>3, <2>4
  <1> QED BY <1>2, <1>3

(* A step of the collector is of a request without a reply, and keeps its  *)
(* hypothesis, its collector and whether the client hung up.               *)
LEMMA CollectorKeepsAsk ==
  ASSUME IInv, NEW n \in Tick, Rejects(n) \/ Queries(n) \/ Stores(n) \/ StoreFails(n)
  PROVE  /\ \A m \in Tick : SameAsk(m) /\ req'[m].open = req[m].open
         /\ UNCHANGED <<ticks, waiting, findings>>
  <1>1. TypeOK /\ req \in [Tick -> Request \cup {None}] /\ req[n] \in Request
    BY DEF IInv, TypeOK, Rejects, Queries, Stores, StoreFails
  <1>2. UNCHANGED <<ticks, waiting, findings>>
    BY DEF Rejects, Queries, Stores, StoreFails
  <1>3. PICK new : /\ req' = [req EXCEPT ![n] = new]
                   /\ new.hyp = req[n].hyp /\ new.coll = req[n].coll
                   /\ new.open = req[n].open
    <2>1. CASE Rejects(n)
      <3>1. req' = [req EXCEPT ![n] = Replied(req[n], 400)]
        BY <2>1 DEF Rejects
      <3>2. /\ Replied(req[n], 400).hyp = req[n].hyp
            /\ Replied(req[n], 400).coll = req[n].coll
            /\ Replied(req[n], 400).open = req[n].open
        BY <1>1, ReplyKeeps
      <3> QED BY <3>1, <3>2
    <2>2. CASE Stores(n) \/ StoreFails(n)
      <3>1. PICK status \in {200, 400, 500} : req' = [req EXCEPT ![n] = Replied(req[n], status)]
        BY <2>2 DEF Stores, StoreFails
      <3>2. /\ Replied(req[n], status).hyp = req[n].hyp
            /\ Replied(req[n], status).coll = req[n].coll
            /\ Replied(req[n], status).open = req[n].open
        BY <1>1, ReplyKeeps
      <3> QED BY <3>1, <3>2
    <2>3. CASE Queries(n)
      <3>1. PICK ok \in BOOLEAN, time \in {0, QueryTime(req[n])} :
              req' = [req EXCEPT ![n] = Queried(req[n], ok, req[n].left - time)]
        BY <2>3 DEF Queries
      <3>2. /\ Queried(req[n], ok, req[n].left - time).hyp = req[n].hyp
            /\ Queried(req[n], ok, req[n].left - time).coll = req[n].coll
            /\ Queried(req[n], ok, req[n].left - time).open = req[n].open
        BY <1>1, SMT DEF Queried, Request
      <3> QED BY <3>1, <3>2
    <2> QED BY <2>1, <2>2, <2>3
  <1>4. req'[n] = new /\ \A m \in Tick \ {n} : req'[m] = req[m]
    BY <1>1, <1>3
  <1>5. req[n].at # "replied"
    BY DEF Rejects, Queries, Stores, StoreFails
  <1> QED BY <1>2, <1>3, <1>4, <1>5 DEF SameAsk

(* A tick that ends is the last one; what it may leave is a finding.       *)
LEMMA EndsOne ==
  ASSUME IInv, NEW n \in Tick, Answered(n) \/ TimesOut(n) \/ ConnectionFails(n)
  PROVE  /\ waiting /\ ~ waiting' /\ n = ticks /\ ticks' = ticks
         /\ req[n] \in Request
         /\ Success(n) \in FindingRecord /\ Failure(n) \in FindingRecord
  <1>1. waiting /\ ~ waiting' /\ n = ticks /\ ticks' = ticks
    BY DEF Answered, TimesOut, ConnectionFails, Merge
  <1>2. req[n] \in Request
    <2>1. n \in Nat
      BY TimeAssumption, SMT DEF Tick
    <2>2. n <= ticks
      BY <1>1, <2>1, SMT
    <2> QED BY <2>2 DEF IInv, TypeOK, RequestsSound
  <1>3. req[n].hyp \in Hyps /\ req[n].coll \in Collector
    BY <1>2, SMT DEF Request
  <1>4. Success(n) \in FindingRecord /\ Failure(n) \in FindingRecord
    BY <1>3, SMT DEF Success, Failure, FindingRecord, FindingId
  <1> QED BY <1>1, <1>2, <1>4

(* The three ends of a tick record it, and no tick before it is touched.   *)
LEMMA EndRecords ==
  ASSUME IInv, NEW n \in Tick, req[n].open,
         Answered(n) \/ TimesOut(n) \/ ConnectionFails(n)
  PROVE  /\ \A m \in Tick \ {n} : SameAsk(m)
         /\ FindingsGrow /\ Recorded(n)'
         /\ waiting /\ n = ticks /\ ticks' = ticks
  <1>1. TypeOK /\ RequestsSound /\ req \in [Tick -> Request \cup {None}]
    BY DEF IInv, TypeOK
  <1>2. waiting /\ n = ticks /\ ticks' = ticks
    BY EndsOne
  <1>3. req[n] \in Request
    BY EndsOne
  <1>4. req' = req \/ req' = [req EXCEPT ![n] = HungUp(req[n])]
    BY DEF Answered, TimesOut, ConnectionFails
  <1>5. \A m \in Tick \ {n} : SameAsk(m)
    BY <1>1, <1>4 DEF SameAsk
  <1>6. PICK f \in {Success(n), Failure(n)} :
          /\ findings' = IF KnownFinding(f) THEN findings ELSE Append(findings, f)
          /\ f.id = Outcome(n)'.id /\ (req'[n].open => req'[n].at = "replied")
    <2>1. CASE Answered(n)
      <3>1. req' = req /\ req[n].at = "replied"
        BY <2>1 DEF Answered
      <3>2. Outcome(n) = (IF Parses(req[n]) THEN Success(n) ELSE Failure(n))
        BY DEF Outcome
      <3>3. Outcome(n)' = Outcome(n)
        BY <3>1 DEF Outcome, Parses, FollowupsNull, Success, Failure
      <3> QED BY <2>1, <3>1, <3>2, <3>3 DEF Answered, Merge
    <2>2. CASE TimesOut(n) \/ ConnectionFails(n)
      <3>1. /\ req' = [req EXCEPT ![n] = HungUp(req[n])]
            /\ findings' = IF KnownFinding(Failure(n)) THEN findings
                           ELSE Append(findings, Failure(n))
        BY <2>2 DEF TimesOut, ConnectionFails, Merge
      <3>2. req'[n].open = FALSE /\ req'[n].hyp = req[n].hyp /\ req'[n].coll = req[n].coll
        BY <1>1, <1>3, <3>1, HangUpKeeps
      <3>3. Failure(n)'.id = Failure(n).id
        BY <3>2 DEF Failure
      <3> QED BY <3>1, <3>2, <3>3 DEF Outcome
    <2> QED BY <2>1, <2>2
  <1>7. f \in FindingRecord
    BY <1>6, EndsOne
  <1>8. FindingsGrow /\ \E i \in DOMAIN findings' : findings'[i].id = f.id
    BY <1>1, <1>6, <1>7, MergeRecords
  <1>9. Recorded(n)'
    BY <1>6, <1>8 DEF Recorded
  <1> QED BY <1>2, <1>5, <1>8, <1>9

(* The client of the tick in progress has not hung up.                     *)
AllRecorded ==
  /\ \A n \in Tick : Over(n) => Recorded(n)
  /\ waiting => req[ticks].open

(* A tick that is over is recorded: it was when it ended, and stays so.    *)
LEMMA RecordedStep == IInv /\ AllRecorded /\ [Next]_vars => AllRecorded'
  <1> SUFFICES ASSUME IInv, AllRecorded, [Next]_vars PROVE AllRecorded'
    OBVIOUS
  <1>t. ticks \in 0 .. MaxTicks /\ MaxTicks \in Nat /\ Tick = 1 .. MaxTicks
    BY TimeAssumption DEF IInv, TypeOK, Tick
  <1>1. ASSUME NEW h \in Hyps, NEW q \in Questions, Dispatch(h, q) PROVE AllRecorded'
    <2>1. /\ ~ waiting /\ waiting' = TRUE /\ ticks' = ticks + 1 /\ ticks < MaxTicks
          /\ UNCHANGED findings
      BY <1>1 DEF Dispatch
    <2>2. \A m \in Tick : m # ticks + 1 => req'[m] = req[m]
      BY <1>1 DEF Dispatch, IInv, TypeOK
    <2>3. req'[ticks'].open
      <3>1. ticks + 1 \in Tick /\ ticks' = ticks + 1
        BY <1>t, <2>1, SMT
      <3> QED BY <1>1, <3>1 DEF Dispatch, IInv, TypeOK
    <2>4. ASSUME NEW m \in Tick, Over(m)' PROVE Recorded(m)'
      <3>1. m \in 1 .. ticks /\ m # ticks + 1
        BY <1>t, <2>1, <2>4, SMT DEF Over
      <3>2. Recorded(m)
        BY <2>1, <3>1, <2>4 DEF AllRecorded, Over
      <3>3. FindingsGrow /\ SameAsk(m)
        BY <2>1, <2>2, <2>4, <3>1 DEF FindingsGrow, SameAsk
      <3> QED BY <3>2, <3>3, StaysRecorded
    <2> QED BY <2>3, <2>4 DEF AllRecorded
  <1>2. ASSUME NEW n \in Tick, Answered(n) \/ TimesOut(n) \/ ConnectionFails(n)
        PROVE  AllRecorded'
    <2>0. waiting /\ ~ waiting' /\ n = ticks
      BY <1>2, EndsOne
    <2>1. /\ \A m \in Tick \ {n} : SameAsk(m)
          /\ FindingsGrow /\ Recorded(n)'
          /\ waiting /\ n = ticks /\ ticks' = ticks
      BY <1>2, <2>0, EndRecords DEF AllRecorded
    <2>2. SUFFICES ASSUME NEW m \in Tick, Over(m)', m # n PROVE Recorded(m)'
      BY <2>0, <2>1 DEF AllRecorded
    <2>3. Over(m)
      BY <1>t, <2>1, <2>2, SMT DEF Over
    <2>4. Recorded(m)
      BY <2>3 DEF AllRecorded
    <2> QED BY <2>1, <2>2, <2>4, StaysRecorded
  <1>3. ASSUME NEW n \in Tick, Rejects(n) \/ Queries(n) \/ Stores(n) \/ StoreFails(n)
        PROVE  AllRecorded'
    <2>1. /\ \A m \in Tick : SameAsk(m) /\ req'[m].open = req[m].open
          /\ UNCHANGED <<ticks, waiting, findings>>
      BY <1>3, CollectorKeepsAsk
    <2>2. FindingsGrow
      BY <2>1 DEF FindingsGrow
    <2>0. waiting' => req'[ticks'].open
      <3>1. waiting => ticks \in Tick
        BY <1>t, SMT DEF IInv
      <3> QED BY <2>1, <3>1 DEF AllRecorded
    <2>3. SUFFICES ASSUME NEW m \in Tick, Over(m)' PROVE Recorded(m)'
      BY <2>0 DEF AllRecorded
    <2>4. Over(m)
      BY <2>1, <2>3 DEF Over
    <2>5. Recorded(m)
      BY <2>4 DEF AllRecorded
    <2> QED BY <2>1, <2>2, <2>5, StaysRecorded
  <1>4. ASSUME UNCHANGED vars PROVE AllRecorded'
    BY <1>4 DEF vars, AllRecorded, Over, Recorded, Outcome, Parses, FollowupsNull,
       Success, Failure
  <1> QED BY <1>1, <1>2, <1>3, <1>4 DEF Next, Ended

(* No tick is silent, for any number of ticks: one that got an answer left *)
(* the finding of that answer, whatever failed before it, any other that   *)
(* of its collector's failure, and no later answer replaces it.            *)
THEOREM RecordsEveryTick == Spec => []NoSilentTick
  <1>1. Init => AllRecorded
    <2> SUFFICES ASSUME Init PROVE AllRecorded
      OBVIOUS
    <2> QED BY SMT DEF Init, AllRecorded, Over
  <1>2. ASSUME IInv, AllRecorded PROVE NoSilentTick
    <2>1. ticks \in 0 .. MaxTicks /\ MaxTicks \in Nat /\ waiting \in BOOLEAN
      BY <1>2, TimeAssumption DEF IInv, TypeOK
    <2>2. SUFFICES ASSUME NEW n \in 1 .. (IF waiting THEN ticks - 1 ELSE ticks)
                   PROVE  Recorded(n)
      BY DEF NoSilentTick, Recorded
    <2>3. n \in Tick /\ Over(n)
      BY <2>1, <2>2, SMT DEF Tick, Over
    <2> QED BY <1>2, <2>3 DEF AllRecorded
  <1> QED BY <1>1, <1>2, RecordedStep, Invariance, PTL DEF Spec

----------------------------------------------------------------------------
(* The Collectors node of the graph.  IncidentNodes dispatches in one step *)
(* and keeps of a finding its hypothesis and whether it is a failure; here *)
(* a dispatch takes many steps, and a finding is told apart by its id.     *)

Abstraction(f) == [hyp |-> f.hyp, failed |-> f.evidence = None]

Abstracted == {Abstraction(findings[i]) : i \in DOMAIN findings}

(* A tick that ends is a step of the graph's Collectors node, which either *)
(* failed or did not, from any state with the findings of the tick and its *)
(* focus; no other step changes what the graph sees of the findings.       *)
TickAsInGraph(states) ==
  IF waiting /\ ~ waiting'
    THEN \A s \in states :
           /\ s.focus = req[ticks].hyp /\ s.focus \in Graph!Known(s)
           /\ s.findings = Abstracted
           => \E failed \in BOOLEAN :
                Graph!CollectorsNode(s, failed) = [s EXCEPT !.findings = Abstracted']
    ELSE Abstracted' = Abstracted

(* What the id of a finding says of it: whether it is a failure, and what  *)
(* evidence it cites otherwise.  A finding that is dropped because its id  *)
(* is known would have looked to the graph like the one that is kept.      *)
IdSays(f) ==
  \/ f.id[1] = "f" /\ f.evidence = f.id[2]
  \/ f.id[1] = "fail" /\ f.hyp = f.id[2] /\ f.evidence = None

IdsSay == \A i \in DOMAIN findings : IdSays(findings[i])

LEMMA EndFindings ==
  \A n \in Tick : IdSays(Success(n)) /\ IdSays(Failure(n))
  BY DEF IdSays, Success, Failure

LEMMA IdsSayStep == IInv /\ IdsSay /\ [Next]_vars => IdsSay'
  <1> SUFFICES ASSUME IInv, IdsSay, [Next]_vars PROVE IdsSay'
    OBVIOUS
  <1>1. CASE UNCHANGED findings
    BY <1>1 DEF IdsSay
  <1>2. ASSUME NEW n \in Tick, Answered(n) \/ TimesOut(n) \/ ConnectionFails(n)
        PROVE  IdsSay'
    <2>1. PICK f \in {Success(n), Failure(n)} :
            findings' = IF KnownFinding(f) THEN findings ELSE Append(findings, f)
      BY <1>2 DEF Answered, TimesOut, ConnectionFails, Merge
    <2>2. f \in FindingRecord
      BY <1>2, <2>1, EndsOne
    <2>3. \A i \in DOMAIN findings' :
            findings'[i] = f \/ (i \in DOMAIN findings /\ findings'[i] = findings[i])
      BY <2>1, <2>2, MergeKeeps DEF IInv
    <2>4. IdSays(f)
      BY <2>1, EndFindings
    <2> QED BY <2>3, <2>4 DEF IdsSay
  <1> QED BY <1>1, <1>2
        DEF Next, Ended, vars, Dispatch, Rejects, Queries, Stores, StoreFails

(* What a tick's end adds to the graph's findings: the one of its          *)
(* hypothesis, as a failure or not.                                        *)
LEMMA EndAddsOne ==
  ASSUME IInv, IdsSay, NEW n \in Tick,
         Answered(n) \/ TimesOut(n) \/ ConnectionFails(n)
  PROVE  \E failed \in BOOLEAN :
           Abstracted' = Abstracted \cup {[hyp |-> req[n].hyp, failed |-> failed]}
  <1>1. PICK f \in {Success(n), Failure(n)} :
          findings' = IF KnownFinding(f) THEN findings ELSE Append(findings, f)
    BY DEF Answered, TimesOut, ConnectionFails, Merge
  <1>2. f \in FindingRecord /\ f.hyp = req[n].hyp
    <2>1. f \in FindingRecord
      BY <1>1, EndsOne
    <2> QED BY <1>1, <2>1 DEF Success, Failure
  <1>3. (f.evidence = None) \in BOOLEAN
    OBVIOUS
  <1>4. Abstraction(f) = [hyp |-> req[n].hyp, failed |-> f.evidence = None]
    BY <1>2 DEF Abstraction
  <1>5. Abstracted' = Abstracted \cup {Abstraction(f)}
    <2>1. CASE KnownFinding(f)
      <3>1. PICK i \in DOMAIN findings : findings[i].id = f.id
        BY <2>1 DEF KnownFinding
      <3>2. IdSays(findings[i])
        BY <3>1 DEF IdsSay
      <3>3. ASSUME f = Success(n) PROVE Abstraction(f) = Abstraction(findings[i])
        <4>1. findings[i].evidence = n /\ f.evidence = n
          BY <3>1, <3>2, <3>3 DEF IdSays, Success
        <4>2. n # None
          BY NoneAssumption
        <4>3. findings[i].hyp = req[n].hyp
          BY <3>1, <4>1, <4>2 DEF IInv, CitedStored
        <4> QED BY <1>2, <4>1, <4>3 DEF Abstraction
      <3>4. ASSUME f = Failure(n) PROVE Abstraction(f) = Abstraction(findings[i])
        <4>1. findings[i].evidence = None /\ f.evidence = None
          BY <3>1, <3>2, <3>4 DEF IdSays, Failure
        <4>2. findings[i].hyp = req[n].hyp
          BY <3>1, <3>2, <3>4 DEF IdSays, Failure
        <4> QED BY <1>2, <4>1, <4>2 DEF Abstraction
      <3>5. Abstraction(f) = Abstraction(findings[i])
        BY <1>1, <3>3, <3>4
      <3>6. findings' = findings
        BY <1>1, <2>1
      <3> QED BY <3>1, <3>5, <3>6 DEF Abstracted
    <2>2. CASE ~ KnownFinding(f)
      <3>1. findings' = Append(findings, f) /\ findings \in Seq(FindingRecord)
        BY <1>1, <2>2 DEF IInv, TypeOK, FindingRecord
      <3>2. /\ DOMAIN findings = 1 .. Len(findings) /\ Len(findings) \in Nat
            /\ DOMAIN findings' = 1 .. Len(findings) + 1
            /\ \A i \in 1 .. Len(findings) : findings'[i] = findings[i]
            /\ findings'[Len(findings) + 1] = f
        BY <1>2, <3>1, SMT
      <3>3. \A i : i \in DOMAIN findings' <=>
                   i \in DOMAIN findings \/ i = Len(findings) + 1
        BY <3>2, SMT
      <3> QED BY <3>2, <3>3 DEF Abstracted
    <2> QED BY <2>1, <2>2
  <1> QED BY <1>3, <1>4, <1>5

(* The evidence path implements the graph's Collectors node, for any ticks *)
(* and collectors: the ids it tells findings apart by say nothing less     *)
(* than what the graph sees, whatever times out and is asked again.        *)
THEOREM ImplementsCollectorsNode ==
  Spec => [][TickAsInGraph(Graph!IncidentState)]_vars
  <1>1. Init => IdsSay
    <2> SUFFICES ASSUME Init PROVE IdsSay
      OBVIOUS
    <2>1. DOMAIN findings = {}
      BY SMT DEF Init
    <2> QED BY <2>1 DEF IdsSay
  <1> DEFINE step == TickAsInGraph(Graph!IncidentState)
  <1>2. ASSUME IInv, IdsSay, [Next]_vars PROVE [step]_vars
    <2>1. CASE UNCHANGED vars
      BY <2>1
    <2>2. ASSUME NEW h \in Hyps, NEW q \in Questions, Dispatch(h, q) PROVE step
      <3>1. ~ waiting /\ findings' = findings
        BY <2>2 DEF Dispatch
      <3> QED BY <3>1 DEF Abstracted, TickAsInGraph
    <2>3. ASSUME NEW n \in Tick, Answered(n) \/ TimesOut(n) \/ ConnectionFails(n)
          PROVE  step
      <3>1. waiting /\ ~ waiting' /\ n = ticks
        BY <1>2, <2>3, EndsOne
      <3>2. PICK failed \in BOOLEAN :
              Abstracted' = Abstracted \cup {[hyp |-> req[n].hyp, failed |-> failed]}
        BY <1>2, <2>3, EndAddsOne
      <3>3. ASSUME NEW s \in Graph!IncidentState, s.focus = req[ticks].hyp,
                   s.focus \in Graph!Known(s), s.findings = Abstracted
            PROVE  Graph!CollectorsNode(s, failed) = [s EXCEPT !.findings = Abstracted']
        <4>1. s.findings \cup {[hyp |-> s.focus, failed |-> failed]} = Abstracted'
          BY <3>1, <3>2, <3>3
        <4> QED BY <3>3, <4>1 DEF Graph!CollectorsNode
      <3> QED BY <3>1, <3>3 DEF TickAsInGraph
    <2>4. ASSUME NEW n \in Tick, Rejects(n) \/ Queries(n) \/ Stores(n) \/ StoreFails(n)
          PROVE  step
      <3>1. waiting' = waiting /\ findings' = findings
        BY <2>4 DEF Rejects, Queries, Stores, StoreFails
      <3> QED BY <3>1 DEF Abstracted, TickAsInGraph
    <2> QED BY <1>2, <2>1, <2>2, <2>3, <2>4 DEF Next, Ended
  <1> QED BY <1>1, <1>2, IdsSayStep, Invariance, PTL DEF Spec

----------------------------------------------------------------------------
(* What is left to happen to the question of a tick, at most: to be sent,  *)
(* asked and stored, and the waiting for its answer, which may end first.  *)

LeftOfRequest(n) ==
  IF req[n] = None THEN 3
  ELSE CASE req[n].at = "sent"    -> 2
         [] req[n].at = "storing" -> 1
         [] OTHER                 -> 0

Awaited(n) == n > ticks \/ (n = ticks /\ waiting)

StepsLeft(n) == LeftOfRequest(n) + (IF Awaited(n) THEN 1 ELSE 0)

(* Every step is progress of one question and delays none: an answer that  *)
(* came too late, or was lost, is not asked for again.                     *)
GetsOn ==
  /\ \A n \in Tick : StepsLeft(n)' <= StepsLeft(n)
  /\ \E n \in Tick : StepsLeft(n)' < StepsLeft(n)

\* A step that concerns one tick alone, and leaves less of it.
LEMMA TickGetsOn ==
  ASSUME NEW n \in Tick, StepsLeft(n)' < StepsLeft(n),
         \A m \in Tick \ {n} : StepsLeft(m)' = StepsLeft(m)
  PROVE  GetsOn
  <1>1. \A m \in Tick : StepsLeft(m) \in Nat /\ StepsLeft(m)' \in Nat
    BY DEF StepsLeft, LeftOfRequest
  <1> HIDE DEF StepsLeft
  <1>2. ASSUME NEW m \in Tick PROVE StepsLeft(m)' <= StepsLeft(m)
    BY <1>1
  <1> QED BY <1>2 DEF GetsOn

\* The collector's steps: the node waits for what it waited for.
LEMMA CollectorGetsOn ==
  ASSUME IInv, NEW n \in Tick, Rejects(n) \/ Queries(n) \/ Stores(n) \/ StoreFails(n)
  PROVE  GetsOn
  <1>1. /\ ticks' = ticks /\ waiting' = waiting
        /\ req \in [Tick -> Request \cup {None}] /\ req[n] # None
    BY DEF Rejects, Queries, Stores, StoreFails, IInv, TypeOK
  <1>2. \/ req[n].at = "sent" /\ req'[n].at \in {"storing", "replied"}
        \/ req[n].at = "storing" /\ req'[n].at = "replied"
    <2>1. req[n] \in Request
      BY <1>1
    <2>2. CASE Rejects(n)
      BY <1>1, <2>1, <2>2, SMT DEF Rejects, Replied, Request
    <2>3. CASE Queries(n)
      <3>1. PICK ok \in BOOLEAN, time \in {0, QueryTime(req[n])} :
              req' = [req EXCEPT ![n] = Queried(req[n], ok, req[n].left - time)]
        BY <2>3 DEF Queries
      <3>2. Queried(req[n], ok, req[n].left - time).at = "storing"
        BY <2>1, SMT DEF Queried, Request
      <3> QED BY <1>1, <2>3, <3>1, <3>2 DEF Queries
    <2>4. CASE Stores(n) \/ StoreFails(n)
      <3>1. Replied(req[n], 200).at = "replied" /\ Replied(req[n], 500).at = "replied"
        BY <2>1, SMT DEF Replied, Request
      <3> QED BY <1>1, <2>4, <3>1 DEF Stores, StoreFails
    <2> QED BY <2>2, <2>3, <2>4
  <1>3. /\ req'[n] # None
        /\ \A m \in Tick \ {n} : req'[m] = req[m]
    <2>1. \A m \in Tick \ {n} : req'[m] = req[m]
      BY <1>1 DEF Rejects, Queries, Stores, StoreFails
    <2>2. req'[n] \in Request
      <3>1. IInv'
        BY StepHolds DEF Next
      <3> QED BY <1>1, <3>1 DEF IInv, TypeOK, RequestsSound
    <2> QED BY <2>1, <2>2, NoneAssumption
  <1>4. \A m \in Tick : Awaited(m)' <=> Awaited(m)
    BY <1>1 DEF Awaited
  <1>5. LeftOfRequest(n) \in Nat /\ LeftOfRequest(n)' \in Nat
        /\ LeftOfRequest(n)' < LeftOfRequest(n)
    BY <1>1, <1>2, <1>3 DEF LeftOfRequest
  <1>6. \A m \in Tick \ {n} : LeftOfRequest(m)' = LeftOfRequest(m)
    BY <1>3 DEF LeftOfRequest
  <1>7. /\ StepsLeft(n)' < StepsLeft(n)
        /\ \A m \in Tick \ {n} : StepsLeft(m)' = StepsLeft(m)
    BY <1>4, <1>5, <1>6 DEF StepsLeft
  <1> QED BY <1>7, TickGetsOn

(* A tick takes at most four steps, its request's in the collector and the *)
(* one that ends it: nothing is asked twice, and no late answer brings the *)
(* node back to a tick that is over.  That the client goes on at all is    *)
(* the fairness of its timeout.                                            *)
THEOREM WorksBoundedly ==
  Spec => /\ [](\A n \in Tick : StepsLeft(n) \in 0 .. 4)
          /\ [][GetsOn]_vars
  <1>1. \A n \in Tick : StepsLeft(n) \in 0 .. 4
    BY DEF StepsLeft, LeftOfRequest
  <1>2. ASSUME IInv, [Next]_vars PROVE [GetsOn]_vars
    <2>1. CASE UNCHANGED vars
      BY <2>1
    <2>2. ASSUME NEW h \in Hyps, NEW q \in Questions, Dispatch(h, q) PROVE GetsOn
      <3>0. PICK n \in Tick : n = ticks + 1
        BY <1>2, <2>2, TimeAssumption, SMT DEF Dispatch, IInv, TypeOK, Tick
      <3>1. /\ ticks \in Nat /\ ticks' = n /\ n > ticks /\ ~ waiting /\ waiting'
            /\ req \in [Tick -> Request \cup {None}] /\ req[n] = None
        BY <1>2, <2>2, <3>0, TimeAssumption, SMT
           DEF Dispatch, IInv, TypeOK, RequestsSound
      <3>2. req'[n] # None /\ req'[n].at = "sent" /\ \A m \in Tick \ {n} : req'[m] = req[m]
        <4> DEFINE new == [hyp |-> h, q |-> q, coll |-> SelectCollector(q), at |-> "sent",
                           left |-> Deadline, open |-> TRUE, ok |-> FALSE, status |-> 0]
        <4>1. req' = [req EXCEPT ![n] = new]
          BY <2>2, <3>0 DEF Dispatch
        <4>2. new \in Request
          BY TimeAssumption, SMT DEF Request, SelectCollector, Collector
        <4>3. new # None /\ new.at = "sent"
          BY <4>2, NoneAssumption
        <4> QED BY <3>1, <4>1, <4>3
      <3>3. ASSUME NEW m \in Tick PROVE m \in Nat
        BY TimeAssumption, SMT DEF Tick
      <3>4. /\ Awaited(n) /\ Awaited(n)'
            /\ \A m \in Tick \ {n} : Awaited(m)' <=> Awaited(m)
        BY <3>0, <3>1, <3>3, SMT DEF Awaited
      <3>5. /\ LeftOfRequest(n) = 3 /\ LeftOfRequest(n)' = 2
            /\ \A m \in Tick \ {n} : LeftOfRequest(m)' = LeftOfRequest(m)
        <4>1. LeftOfRequest(n) = 3
          BY <3>1 DEF LeftOfRequest
        <4>2. LeftOfRequest(n)' = 2
          BY <3>2 DEF LeftOfRequest
        <4>3. \A m \in Tick \ {n} : LeftOfRequest(m)' = LeftOfRequest(m)
          BY <3>2 DEF LeftOfRequest
        <4> QED BY <4>1, <4>2, <4>3
      <3>6. /\ StepsLeft(n)' < StepsLeft(n)
            /\ \A m \in Tick \ {n} : StepsLeft(m)' = StepsLeft(m)
        BY <3>4, <3>5 DEF StepsLeft
      <3> QED BY <3>1, <3>6, TickGetsOn
    <2>3. ASSUME NEW n \in Tick, Answered(n) \/ TimesOut(n) \/ ConnectionFails(n)
          PROVE  GetsOn
      <3>1. /\ waiting /\ ~ waiting' /\ n = ticks /\ ticks' = ticks
            /\ req[n] \in Request /\ req \in [Tick -> Request \cup {None}]
        BY <1>2, <2>3, EndsOne DEF IInv, TypeOK
      <3>2. /\ req'[n] \in Request /\ req'[n].at = req[n].at
            /\ \A m \in Tick \ {n} : req'[m] = req[m]
        <4>1. HungUp(req[n]) \in Request /\ HungUp(req[n]).at = req[n].at
          BY <3>1, HangUpKeeps
        <4>2. req' = req \/ req' = [req EXCEPT ![n] = HungUp(req[n])]
          BY <2>3 DEF Answered, TimesOut, ConnectionFails
        <4> QED BY <3>1, <4>1, <4>2
      <3>3. ASSUME NEW m \in Tick PROVE LeftOfRequest(m)' = LeftOfRequest(m)
        BY <3>1, <3>2, NoneAssumption DEF LeftOfRequest
      <3>4. ASSUME NEW m \in Tick PROVE m \in Nat
        BY TimeAssumption, SMT DEF Tick
      <3>5. /\ Awaited(n) /\ ~ Awaited(n)'
            /\ \A m \in Tick \ {n} : Awaited(m)' <=> Awaited(m)
        BY <3>1, <3>4, SMT DEF Awaited
      <3>6. LeftOfRequest(n) \in Nat
        BY DEF LeftOfRequest
      <3>7. /\ StepsLeft(n)' < StepsLeft(n)
            /\ \A m \in Tick \ {n} : StepsLeft(m)' = StepsLeft(m)
        BY <3>3, <3>5, <3>6 DEF StepsLeft
      <3> QED BY <3>7, TickGetsOn
    <2>4. ASSUME NEW n \in Tick, Rejects(n) \/ Queries(n) \/ Stores(n) \/ StoreFails(n)
          PROVE  GetsOn
      BY <1>2, <2>4, CollectorGetsOn
    <2> QED BY <1>2, <2>1, <2>2, <2>3, <2>4 DEF Next, Ended
  <1> QED BY <1>1, <1>2, Invariance, PTL DEF Spec
=============================================================================
