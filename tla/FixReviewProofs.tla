-------------------------- MODULE FixReviewProofs --------------------------
(***************************************************************************)
(* Safety of FixReview for any repositories, hypotheses and findings: its  *)
(* types, what an approval vouches for, and what a blocked report says.    *)
(***************************************************************************)
EXTENDS FixReview, SequenceTheorems, TLAPS

\* While Dev is at work there is no result, and its record is up to date.
DevAtWork ==
  pc \in {"ask", "validate"} =>
    /\ report = None /\ proposal = None
    /\ tried = IF pc = "ask" /\ attempt = 1 THEN << >> ELSE Attempts
    /\ pc = "validate" => answer \in Fix

\* A proposal has passed Dev's own checks.
ProposalSound ==
  proposal # None =>
    /\ ValidDiffs(proposal) /\ InScope(proposal)
    /\ brief.hyp # None => brief.hyp \in proposal.body
    /\ report = None

DecidedLast == decision # None => pc = "done"

IInv ==
  /\ TypeOK /\ DevAtWork /\ ProposalSound /\ DecidedLast
  /\ ApprovedIsSound /\ ReportIsComplete

\* The initial states satisfy the invariant.
LEMMA InitHolds == Init => IInv
<1> SUFFICES ASSUME Init PROVE IInv
  OBVIOUS
<1>1. TypeOK
  BY SMT DEF Init, TypeOK
<1>2. DevAtWork /\ ProposalSound /\ DecidedLast /\ ReportIsComplete
  BY SMT DEF Init, DevAtWork, ProposalSound, DecidedLast, ReportIsComplete
<1>3. decision # "approve"
  BY NoneAssumption DEF Init, Decision
<1> QED BY <1>1, <1>2, <1>3 DEF IInv, ApprovedIsSound

\* The record of an attempt is one of the sequences of attempts.
LEMMA TriedType ==
  ASSUME IInv, pc = "ask"
  PROVE  Tried = Attempts /\ Tried \in Seq({1, 2})
<1>1. attempt \in {1, 2} /\ tried = IF attempt = 1 THEN << >> ELSE Attempts
  BY DEF IInv, DevAtWork, TypeOK
<1>2. CASE attempt = 1
  BY <1>1, <1>2, SMT DEF Tried, Attempts
<1>3. CASE attempt = 2
  BY <1>1, <1>3, SMT DEF Tried, Attempts
<1> QED BY <1>1, <1>2, <1>3

\* What blocking with a last reason leaves behind.
LEMMA BlockedReport ==
  ASSUME NEW ts \in Seq({1, 2}), NEW fs \in Seq(Reason), NEW why \in Reason
  PROVE  /\ Append(fs, why) \in Seq(Reason)
         /\ Append(fs, why) # << >>
         /\ Append(fs, why)[Len(Append(fs, why))] = why
         /\ [tried |-> ts, failed |-> Append(fs, why)] \in Report
<1> HIDE DEF Reason
<1>1. Append(fs, why) \in Seq(Reason) /\ Append(fs, why) # << >>
  BY SMT
<1>2. Append(fs, why)[Len(Append(fs, why))] = why
  BY SMT
<1> QED BY <1>1, <1>2 DEF Report

\* A step that leaves Dev's results and the brief alone, decides nothing and
\* does not go back to Dev keeps the invariant.
LEMMA ReviewersKeep ==
  ASSUME IInv, UNCHANGED <<brief, dev, decision>>,
         pc \notin {"ask", "validate"},
         pc' \in {"verify", "interpret", "review", "done", "raised"},
         decision # None => pc' = "done",
         checks' \subseteq Check, verdict' \in Kind \cup {None}
  PROVE  IInv'
<1>1. TypeOK'
  BY SMT DEF IInv, TypeOK, dev
<1>2. DevAtWork' /\ DecidedLast'
  BY DEF IInv, DevAtWork, DecidedLast
<1>3. ProposalSound' /\ ApprovedIsSound' /\ ReportIsComplete'
  BY DEF IInv, ProposalSound, ApprovedIsSound, ReportIsComplete, dev,
         ValidDiffs, InScope, Attempts
<1> QED BY <1>1, <1>2, <1>3 DEF IInv

\* A report on the last answer keeps the invariant.
LEMMA BlockKeeps ==
  ASSUME IInv, pc \in {"ask", "validate"},
         UNCHANGED <<brief, attempt, proposal, checks, verdict, decision>>,
         answer' \in Fix \cup {None},
         failed' \in Seq(Reason), tried' \in Seq({1, 2}),
         NEW ts, NEW fs, ts = Attempts,
         [tried |-> ts, failed |-> fs] \in Report,
         Blocks(ts, fs),
         fs # << >>,
         fs[Len(fs)] = IF answer' = None THEN "schema"
                         ELSE IF ValidDiffs(answer') THEN "scope" ELSE "diff"
  PROVE  IInv'
<1>1. TypeOK'
  BY SMT DEF IInv, TypeOK, Blocks
<1>2. proposal' = None /\ decision' = None
  BY DEF IInv, DevAtWork, DecidedLast
<1>3. decision' # "approve"
  BY <1>2, NoneAssumption DEF Decision
<1>4. report'.tried = ts /\ report'.failed = fs
  BY DEF Blocks
<1>5. ReportIsComplete'
  BY <1>2, <1>4 DEF ReportIsComplete, Attempts, ValidDiffs
<1>6. DevAtWork'
  BY DEF Blocks, DevAtWork
<1>7. ProposalSound' /\ DecidedLast' /\ ApprovedIsSound'
  BY <1>2, <1>3 DEF ProposalSound, DecidedLast, ApprovedIsSound
<1> QED BY <1>1, <1>5, <1>6, <1>7 DEF IInv

\* An answer of the model keeps the invariant.
LEMMA AnswersStep ==
  ASSUME IInv, NEW out \in Fix, Answers(out)
  PROVE  IInv'
<1>1. tried' = Attempts /\ tried' \in Seq({1, 2})
  BY TriedType DEF Answers
<1>2. TypeOK'
  BY <1>1, SMT DEF IInv, TypeOK, Answers
<1>3. DevAtWork'
  BY <1>1 DEF IInv, DevAtWork, Answers, Attempts
<1>4. report' = None /\ proposal' = None /\ decision' = None
  BY DEF IInv, DevAtWork, DecidedLast, Answers
<1>5. decision' # "approve"
  BY <1>4, NoneAssumption DEF Decision
<1>6. ProposalSound' /\ DecidedLast' /\ ApprovedIsSound' /\ ReportIsComplete'
  BY <1>4, <1>5 DEF ProposalSound, DecidedLast, ApprovedIsSound, ReportIsComplete
<1> QED BY <1>2, <1>3, <1>6 DEF IInv

\* An answer without a schema blocks.
LEMMA SchemaFailsStep ==
  ASSUME IInv, SchemaFails
  PROVE  IInv'
<1>1. tried' = Attempts /\ tried' \in Seq({1, 2})
  BY TriedType DEF SchemaFails
<1>2. failed \in Seq(Reason) /\ "schema" \in Reason
  BY DEF IInv, TypeOK, Reason
<1> DEFINE fs == Append(failed, "schema")
<1>3. /\ fs \in Seq(Reason) /\ fs # << >> /\ fs[Len(fs)] = "schema"
      /\ [tried |-> tried', failed |-> fs] \in Report
  BY <1>1, <1>2, BlockedReport
<1>4. /\ pc = "ask" /\ answer' = None /\ failed' = fs /\ Blocks(tried', fs)
      /\ UNCHANGED <<brief, attempt, proposal, checks, verdict, decision>>
  BY DEF SchemaFails
<1> HIDE DEF fs
<1> QED BY <1>1, <1>3, <1>4, BlockKeeps

\* The second attempt.
LEMMA RetriesStep ==
  ASSUME IInv, Retries
  PROVE  IInv'
<1>1. attempt = 1 /\ tried = <<1>>
  BY DEF IInv, DevAtWork, Retries, Attempts
<1>2. tried' = <<1, 2>> /\ tried' \in Seq({1, 2})
  <2> DEFINE s == Append(<<1>>, 2)
  <2>a. s \in Seq({1, 2}) /\ <<1, 2>> \in Seq({1, 2})
    BY SMT
  <2>b. Len(s) = 2 /\ Len(<<1, 2>>) = 2 /\ s[1] = 1 /\ s[2] = 2
    BY SMT
  <2>c. \A i \in 1 .. Len(s) : s[i] = <<1, 2>>[i]
    BY <2>b, SMT
  <2> HIDE DEF s
  <2>d. s = <<1, 2>>
    BY <2>a, <2>b, <2>c, SeqEqual
  <2>1. Append(<<1>>, 2) = <<1, 2>>
    BY <2>d DEF s
  <2>2. <<1, 2>> \in Seq({1, 2})
    BY SMT
  <2> QED BY <1>1, <2>1, <2>2 DEF Retries
<1>3. failed \in Seq(Reason) /\ "diff" \in Reason
  BY DEF IInv, TypeOK, Reason
<1>4. failed' \in Seq(Reason)
  BY <1>2, <1>3, BlockedReport DEF Retries
<1>5. TypeOK'
  BY <1>2, <1>4, SMT DEF IInv, TypeOK, Retries
<1>6. report' = None /\ proposal' = None /\ decision' = None
  BY DEF IInv, DevAtWork, DecidedLast, Retries
<1>7. DevAtWork'
  <2>1. pc' = "ask" /\ attempt' = 2
    BY DEF Retries
  <2>2. Attempts' = <<1, 2>>
    BY <2>1, SMT DEF Attempts
  <2>3. "ask" # "validate" /\ attempt' # 1
    BY <2>1, SMT
  <2> QED BY <1>2, <1>6, <2>1, <2>2, <2>3 DEF DevAtWork
<1>8. decision' # "approve"
  BY <1>6, NoneAssumption DEF Decision
<1>9. ProposalSound' /\ DecidedLast' /\ ApprovedIsSound' /\ ReportIsComplete'
  BY <1>6, <1>8 DEF ProposalSound, DecidedLast, ApprovedIsSound, ReportIsComplete
<1> QED BY <1>5, <1>7, <1>9 DEF IInv

\* Invalid diffs again, and changes out of scope, block.
LEMMA ValidationBlocks ==
  ASSUME IInv, InvalidAgain \/ OutOfScope
  PROVE  IInv'
<1>1. pc = "validate" /\ tried = Attempts /\ answer \in Fix /\ answer # None
  BY NoneAssumption DEF IInv, DevAtWork, InvalidAgain, OutOfScope
<1>2. tried \in Seq({1, 2}) /\ failed \in Seq(Reason)
  BY DEF IInv, TypeOK
<1>3. CASE InvalidAgain
  <2> DEFINE fs == Append(failed, "diff")
  <2>1. "diff" \in Reason
    BY DEF Reason
  <2>2. /\ fs \in Seq(Reason) /\ fs # << >> /\ fs[Len(fs)] = "diff"
        /\ [tried |-> tried, failed |-> fs] \in Report
    BY <1>2, <2>1, BlockedReport
  <2>3. /\ failed' = fs /\ Blocks(tried, fs) /\ tried' = tried /\ answer' = answer
        /\ ~ ValidDiffs(answer)
        /\ UNCHANGED <<brief, attempt, proposal, checks, verdict, decision>>
    BY <1>3 DEF InvalidAgain
  <2> HIDE DEF fs
  <2> QED BY <1>1, <1>2, <2>2, <2>3, BlockKeeps
<1>4. CASE OutOfScope
  <2> DEFINE fs == <<"scope">>
  <2>1. /\ fs \in Seq(Reason) /\ fs # << >> /\ fs[Len(fs)] = "scope"
    BY SMT DEF Reason
  <2>2. [tried |-> tried, failed |-> fs] \in Report
    BY <1>2, <2>1 DEF Report
  <2>3. /\ Blocks(tried, fs) /\ tried' = tried /\ answer' = answer /\ failed' = failed
        /\ ValidDiffs(answer)
        /\ UNCHANGED <<brief, attempt, proposal, checks, verdict, decision>>
    BY <1>4 DEF OutOfScope
  <2> HIDE DEF fs
  <2> QED BY <1>1, <1>2, <2>1, <2>2, <2>3, BlockKeeps
<1> QED BY <1>3, <1>4

\* A proposal is Dev's valid answer with the hypothesis in its body.
LEMMA ProposesStep ==
  ASSUME IInv, Proposes
  PROVE  IInv'
<1>1. answer \in Fix /\ brief \in Brief /\ report = None /\ decision = None
  BY DEF IInv, TypeOK, DevAtWork, DecidedLast, Proposes
<1>2. answer.body \subseteq Mention
  BY <1>1 DEF Fix
<1>3. Cited(answer.body) \subseteq Mention
  BY <1>1, <1>2 DEF Cited, Brief, Mention
<1>4. /\ proposal' = [answer EXCEPT !.body = Cited(answer.body)]
      /\ brief' = brief /\ pc' = "verify"
  BY DEF Proposes
<1>5. /\ proposal'.changes = answer.changes
      /\ proposal'.body = Cited(answer.body)
      /\ proposal' \in Fix
  <2> HIDE DEF Cited, Mention, FileChange
  <2> QED BY <1>1, <1>3, <1>4, SMT DEF Fix
<1>6. TypeOK'
  BY <1>5, SMT DEF IInv, TypeOK, Proposes
<1>7. ProposalSound'
  BY <1>1, <1>4, <1>5 DEF ProposalSound, Proposes, ValidDiffs, InScope, Cited
<1>8. report' = None /\ decision' = None
  BY <1>1 DEF Proposes
<1>9. decision' # "approve"
  BY <1>8, NoneAssumption DEF Decision
<1>10. DevAtWork' /\ DecidedLast' /\ ApprovedIsSound' /\ ReportIsComplete'
  BY <1>4, <1>8, <1>9 DEF DevAtWork, DecidedLast, ApprovedIsSound, ReportIsComplete
<1> QED BY <1>6, <1>7, <1>10 DEF IInv

\* The Verifier, and the ends of the path without a decision.
LEMMA VerifierStep ==
  ASSUME IInv,
         ChecksProposal \/ ChecksIntent \/ NoSubject \/ Interprets \/ SkipsReview
  PROVE  IInv'
<1>1. /\ pc \in {"verify", "interpret", "review"}
      /\ pc' \in {"interpret", "review", "done"}
      /\ UNCHANGED <<brief, dev, decision>>
  BY DEF ChecksProposal, ChecksIntent, NoSubject, Interprets, SkipsReview
<1>2. decision = None
  BY <1>1 DEF IInv, DecidedLast
<1>3. checks' \subseteq Check
  <2>1. \A n \in {"git", "kubectl", "precondition", "noop"}, b \in BOOLEAN :
          [name |-> n, passed |-> b] \in Check
    BY DEF Check
  <2>2. checks \subseteq Check
    BY DEF IInv, TypeOK
  <2>3. CASE ChecksProposal
    <3>1. PICK git \in BOOLEAN, kubectl \in SUBSET BOOLEAN :
            checks' = {[name |-> "git", passed |-> git]}
                        \cup {[name |-> "kubectl", passed |-> k] : k \in kubectl}
      BY <2>3 DEF ChecksProposal
    <3>2. [name |-> "git", passed |-> git] \in Check
      BY <2>1
    <3>3. \A k \in kubectl : [name |-> "kubectl", passed |-> k] \in Check
      BY <2>1
    <3> HIDE DEF Check
    <3> QED BY <3>1, <3>2, <3>3
  <2>4. CASE ChecksIntent
    BY <2>1, <2>4 DEF ChecksIntent
  <2>5. CASE NoSubject
    BY <2>1, <2>5 DEF NoSubject
  <2>6. CASE Interprets \/ SkipsReview
    BY <2>2, <2>6 DEF Interprets, SkipsReview
  <2> QED BY <2>3, <2>4, <2>5, <2>6
<1>4. verdict' \in Kind \cup {None}
  BY DEF IInv, TypeOK, Kind, ChecksProposal, ChecksIntent, NoSubject, Interprets, SkipsReview
<1> QED BY <1>1, <1>2, <1>3, <1>4, ReviewersKeep

\* A decision of the Reviewer.
LEMMA DecisionStep ==
  ASSUME IInv, PolicyFails \/ Judges
  PROVE  IInv'
<1>1. /\ proposal # None /\ pc' = "done" /\ pc = "review"
      /\ UNCHANGED <<brief, dev, checks, verdict>>
  BY DEF PolicyFails, Judges
<1>2. decision' \in Decision
  BY DEF PolicyFails, Judges, Guarded, Decision
<1>3. decision' = "approve" => Policy(proposal)
  BY DEF PolicyFails, Judges
<1>4. TypeOK'
  BY <1>1, <1>2 DEF IInv, TypeOK, dev
<1>5. DevAtWork' /\ ProposalSound' /\ DecidedLast' /\ ReportIsComplete'
  BY <1>1 DEF IInv, DevAtWork, ProposalSound, DecidedLast, ReportIsComplete, dev,
              ValidDiffs, InScope, Attempts
<1>6. ApprovedIsSound'
  BY <1>1, <1>3 DEF IInv, ProposalSound, ApprovedIsSound, Policy, CommitNamesHypothesis,
                    BodyNamesEvidence, Contains, ValidDiffs, InScope, dev
<1> QED BY <1>4, <1>5, <1>6 DEF IInv

\* An exception changes nothing but the place in the path.
LEMMA RaisesStep ==
  ASSUME IInv, Raises
  PROVE  IInv'
<1>1. pc' = "raised" /\ pc # "done" /\ UNCHANGED <<brief, dev, checks, verdict, decision>>
  BY DEF Raises
<1>2. decision' = None
  BY <1>1 DEF IInv, DecidedLast
<1>3. TypeOK'
  BY <1>1, SMT DEF IInv, TypeOK, dev
<1>4. DevAtWork' /\ DecidedLast'
  BY <1>1, <1>2 DEF DevAtWork, DecidedLast
<1>5. ProposalSound' /\ ApprovedIsSound' /\ ReportIsComplete'
  BY <1>1 DEF IInv, ProposalSound, ApprovedIsSound, ReportIsComplete, dev,
              ValidDiffs, InScope, Attempts
<1> QED BY <1>3, <1>4, <1>5 DEF IInv

\* Every step keeps the invariant.
LEMMA StepHolds == IInv /\ [Next]_vars => IInv'
<1> SUFFICES ASSUME IInv, [Next]_vars PROVE IInv'
  OBVIOUS
<1>1. ASSUME NEW out \in Fix, Answers(out) PROVE IInv'
  BY <1>1, AnswersStep
<1>2. CASE SchemaFails
  BY <1>2, SchemaFailsStep
<1>3. CASE Retries
  BY <1>3, RetriesStep
<1>4. CASE InvalidAgain \/ OutOfScope
  BY <1>4, ValidationBlocks
<1>5. CASE Proposes
  BY <1>5, ProposesStep
<1>6. CASE ChecksProposal \/ ChecksIntent \/ NoSubject \/ Interprets \/ SkipsReview
  BY <1>6, VerifierStep
<1>7. CASE PolicyFails \/ Judges
  BY <1>7, DecisionStep
<1>8. CASE Raises
  BY <1>8, RaisesStep
<1>9. CASE UNCHANGED vars
  BY <1>9 DEF vars, IInv, TypeOK, DevAtWork, ProposalSound, DecidedLast, ApprovedIsSound,
              ReportIsComplete, ValidDiffs, InScope, Attempts
<1> QED BY <1>1, <1>2, <1>3, <1>4, <1>5, <1>6, <1>7, <1>8, <1>9 DEF Next, Ended

\* The invariant holds of every behaviour.
LEMMA Invariance == Spec => []IInv
  BY InitHolds, StepHolds, PTL DEF Spec

\* The results of run_dev, of the Verifier and of the Reviewer keep their types.
THEOREM TypeCorrect == Spec => []TypeOK
<1>1. IInv => TypeOK
  BY DEF IInv
<1> QED BY <1>1, Invariance, PTL

\* The Reviewer approves only a proposal that Dev validated and scoped, and
\* whose commit message and body name the confirmed hypothesis.
THEOREM ApprovesSoundly == Spec => []ApprovedIsSound
<1>1. IInv => ApprovedIsSound
  BY DEF IInv
<1> QED BY <1>1, Invariance, PTL

\* A blocked report of run_dev lists its attempts, and ends with what was wrong
\* with the last answer.
THEOREM ReportsCompletely == Spec => []ReportIsComplete
<1>1. IInv => ReportIsComplete
  BY DEF IInv
<1> QED BY <1>1, Invariance, PTL

----------------------------------------------------------------------------
\* After run_dev there is a proposal or a blocked report, and never both.
DevDecided ==
  pc \in {"verify", "interpret", "review", "done"} => (proposal = None) # (report = None)

LEMMA DecidedStep == IInv /\ IInv' /\ DevDecided /\ [Next]_vars => DevDecided'
<1> SUFFICES ASSUME IInv, IInv', DevDecided, [Next]_vars PROVE DevDecided'
  OBVIOUS
<1>1. ASSUME NEW out \in Fix, Answers(out) PROVE DevDecided'
  BY <1>1 DEF Answers, DevDecided
<1>2. CASE Retries
  BY <1>2 DEF Retries, DevDecided
<1>3. CASE SchemaFails \/ InvalidAgain \/ OutOfScope
  <2>1. /\ pc \in {"ask", "validate"} /\ UNCHANGED proposal
        /\ report' \in {[tried |-> tried', failed |-> failed'], [tried |-> tried, failed |-> failed'],
                        [tried |-> tried, failed |-> <<"scope">>]}
    BY <1>3 DEF SchemaFails, InvalidAgain, OutOfScope, Blocks
  <2>2. proposal' = None
    BY <2>1 DEF IInv, DevAtWork
  <2>3. report' # None
    <3>1. <<"scope">> \in Seq(Reason)
      BY DEF Reason
    <3>2. tried \in Seq({1, 2}) /\ tried' \in Seq({1, 2}) /\ failed' \in Seq(Reason)
      BY DEF IInv, TypeOK
    <3>3. \A ts \in Seq({1, 2}), fs \in Seq(Reason) : [tried |-> ts, failed |-> fs] \in Report
      BY DEF Report
    <3> QED BY <2>1, <3>1, <3>2, <3>3, NoneAssumption
  <2> QED BY <2>2, <2>3 DEF DevDecided
<1>4. CASE Proposes
  <2>1. proposal' \in Fix /\ report' = None
    <3>1. answer \in Fix /\ report = None
      BY <1>4 DEF Proposes, IInv, DevAtWork
    <3>2. Cited(answer.body) \subseteq Mention
      BY <3>1 DEF Cited, Fix, Mention, IInv, TypeOK, Brief
    <3>3. [answer EXCEPT !.body = Cited(@)] \in Fix
      BY <3>1, <3>2 DEF Fix
    <3> QED BY <1>4, <3>1, <3>3 DEF Proposes
  <2> QED BY <2>1, NoneAssumption DEF DevDecided
<1>5. CASE \/ ChecksProposal \/ ChecksIntent \/ NoSubject \/ Interprets
           \/ SkipsReview \/ PolicyFails \/ Judges
  BY <1>5 DEF ChecksProposal, ChecksIntent, NoSubject, Interprets, SkipsReview,
     PolicyFails, Judges, dev, DevDecided
<1>6. CASE Raises
  BY <1>6 DEF Raises, DevDecided
<1>7. CASE UNCHANGED vars
  BY <1>7 DEF vars, DevDecided
<1> QED BY <1>1, <1>2, <1>3, <1>4, <1>5, <1>6, <1>7 DEF Next, Ended

\* What is left to do of the path, at most.
StepsLeft ==
  CASE pc = "ask"       -> 9 - 2 * attempt
    [] pc = "validate"  -> 8 - 2 * attempt
    [] pc = "verify"    -> 3
    [] pc = "interpret" -> 2
    [] pc = "review"    -> 1
    [] OTHER            -> 0

\* The path only goes on, and what Dev has decided it does not decide again.
GetsOn ==
  /\ StepsLeft' < StepsLeft
  /\ proposal # None \/ report # None => UNCHANGED <<proposal, report>>

\* A path takes at most seven steps: Dev asks the model twice at most, and the
\* nodes after it work on what Dev decided, a proposal or a blocked report.
THEOREM DecidesOnce ==
  Spec => [](DevDecided /\ StepsLeft \in 0 .. 7) /\ [][GetsOn]_vars
<1>1. Init => DevDecided
  BY DEF Init, DevDecided
<1>2. IInv => StepsLeft \in 0 .. 7
  BY DEF IInv, TypeOK, StepsLeft
<1>3. ASSUME IInv, [Next]_vars PROVE [GetsOn]_vars
  <2>1. attempt \in {1, 2}
    BY <1>3 DEF IInv, TypeOK
  <2>2. pc \in {"ask", "validate"} => proposal = None /\ report = None
    BY <1>3 DEF IInv, DevAtWork
  <2>3. ASSUME NEW out \in Fix, Answers(out) PROVE GetsOn
    BY <2>1, <2>2, <2>3 DEF Answers, GetsOn, StepsLeft
  <2>4. CASE Retries
    BY <2>1, <2>2, <2>4 DEF Retries, GetsOn, StepsLeft
  <2>5. CASE SchemaFails \/ InvalidAgain \/ OutOfScope \/ Proposes
    <3>1. pc \in {"ask", "validate"} /\ pc' = "verify"
      BY <2>5 DEF SchemaFails, InvalidAgain, OutOfScope, Proposes, Blocks
    <3> QED BY <2>1, <2>2, <3>1 DEF GetsOn, StepsLeft
  <2>6. CASE ChecksProposal \/ ChecksIntent \/ NoSubject
    BY <2>6 DEF ChecksProposal, ChecksIntent, NoSubject, dev, GetsOn, StepsLeft
  <2>7. CASE Interprets \/ SkipsReview \/ PolicyFails \/ Judges
    BY <2>7 DEF Interprets, SkipsReview, PolicyFails, Judges, dev, GetsOn, StepsLeft
  <2>8. CASE Raises
    BY <2>1, <2>8 DEF Raises, dev, GetsOn, StepsLeft
  <2> QED BY <1>3, <2>3, <2>4, <2>5, <2>6, <2>7, <2>8 DEF Next, Ended
<1> QED BY <1>1, <1>2, <1>3, DecidedStep, Invariance, PTL DEF Spec
=============================================================================
