----------------------------- MODULE FixReview -----------------------------
(***************************************************************************)
(* One pass over the fixing path of the graph, Dev, Verifier, Reviewer, as *)
(* its edges have it: run_dev asks the model for a fix, once more if its   *)
(* diffs are invalid, and answers with a proposal or a blocked report; the *)
(* Verifier runs its checks and lets the model interpret them; the         *)
(* Reviewer applies the policy rules and then asks the model.  No edge     *)
(* leads into the path yet; the proposal reaches the other two nodes the   *)
(* way their interfaces take it.                                           *)
(*                                                                         *)
(* A text is the set of ids it contains.  The answers of the model and the *)
(* outcomes of git, kubectl and the precondition check are the             *)
(* environment.  The phase (fixing, verifying, reviewing) goes with pc.    *)
(***************************************************************************)
EXTENDS Naturals, Sequences

CONSTANTS
  Repos,        \* repositories
  Hyps,         \* hypothesis ids
  EvidenceIds,  \* evidence ids of successful findings
  NoEvidence,   \* the empty evidence_id of a failure finding
  None          \* no hypothesis, no answer, no proposal, no report

VARIABLES
  brief,     \* what run_dev and the nodes are given: see Brief
  pc,        \* where the path is
  attempt,   \* Dev's attempt, 1 or 2
  answer,    \* the last DevLLMOutput
  tried,     \* what_was_tried: the attempts
  failed,    \* what_failed
  proposal,  \* the FixProposal
  report,    \* the BlockedReport
  checks,    \* the check results of the Verifier
  verdict,   \* the kind of its VerifierResult
  decision   \* the decision of the ReviewerOutput

vars == <<brief, pc, attempt, answer, tried, failed, proposal, report,
          checks, verdict, decision>>
dev == <<attempt, answer, tried, failed, proposal, report>>

Mention == Hyps \cup EvidenceIds

\* "in" on strings: the empty string is in every text.
Contains(text, id) == id = NoEvidence \/ id \in text

\* The plan's target_repos, the first confirmed hypothesis, the evidence ids of
\* the findings, and whether the state holds an intent.
Brief ==
  [repos : SUBSET Repos, hyp : Hyps \cup {None},
   evidence : SUBSET (EvidenceIds \cup {NoEvidence}), intended : BOOLEAN]

FileChange == [repo : Repos, diff : {"valid", "invalid"}]

\* The fields of a DevLLMOutput that a FixProposal takes over.
Fix == [changes : SUBSET FileChange, commit : SUBSET Hyps, body : SUBSET Mention]

Reason == {"schema", "diff", "scope"}
Report == [tried : Seq({1, 2}), failed : Seq(Reason)]

Kind     == {"passed", "implementation_error", "diagnosis_invalidated"}
Decision == {"approve", "request_changes_on_fix", "challenge_root_cause"}
Check    == [name : {"git", "kubectl", "precondition", "noop"}, passed : BOOLEAN]

ASSUME NoneAssumption ==
  /\ NoEvidence \notin Mention
  /\ None \notin Mention \cup Decision
  /\ None \notin Fix /\ None \notin Report

Init ==
  /\ brief \in Brief
  /\ pc = "ask" /\ attempt = 1
  /\ answer = None
  /\ tried = << >> /\ failed = << >>
  /\ proposal = None /\ report = None
  /\ checks = {} /\ verdict = None /\ decision = None

----------------------------------------------------------------------------
(* run_dev *)

\* The first attempt is recorded once its call is over, the second before.
Tried == IF attempt = 1 THEN Append(tried, 1) ELSE tried

Blocks(attempts, reasons) ==
  /\ report' = [tried |-> attempts, failed |-> reasons]
  /\ pc' = "verify"

Answers(out) ==
  /\ pc = "ask"
  /\ answer' = out
  /\ tried' = Tried
  /\ pc' = "validate"
  /\ UNCHANGED <<brief, attempt, failed, proposal, report, checks, verdict, decision>>

\* StructuredOutputError: no second attempt after the first.
SchemaFails ==
  /\ pc = "ask"
  /\ answer' = None
  /\ tried' = Tried
  /\ failed' = Append(failed, "schema")
  /\ Blocks(tried', failed')
  /\ UNCHANGED <<brief, attempt, proposal, checks, verdict, decision>>

\* Mutation: an empty list of changes is valid.
ParsableDiffs(out) == \A c \in out.changes : c.diff = "valid"

\* validate_file_changes
ValidDiffs(out) == out.changes # {} /\ \A c \in out.changes : c.diff = "valid"

InScope(out) == \A c \in out.changes : c.repo \in brief.repos

\* Mutation: the second attempt is not recorded.
RetriesUnrecorded ==
  /\ pc = "validate" /\ ~ ValidDiffs(answer) /\ attempt = 1
  /\ failed' = Append(failed, "diff")
  /\ attempt' = 2
  /\ pc' = "ask"
  /\ UNCHANGED <<brief, answer, tried, proposal, report, checks, verdict, decision>>

Retries ==
  /\ pc = "validate" /\ ~ ValidDiffs(answer) /\ attempt = 1
  /\ failed' = Append(failed, "diff")
  /\ attempt' = 2
  /\ tried' = Append(tried, 2)
  /\ pc' = "ask"
  /\ UNCHANGED <<brief, answer, proposal, report, checks, verdict, decision>>

InvalidAgain ==
  /\ pc = "validate" /\ ~ ValidDiffs(answer) /\ attempt = 2
  /\ failed' = Append(failed, "diff")
  /\ Blocks(tried, failed')
  /\ UNCHANGED <<brief, attempt, answer, tried, proposal, checks, verdict, decision>>

\* This report does not repeat what failed before.
OutOfScope ==
  /\ pc = "validate" /\ ValidDiffs(answer) /\ ~ InScope(answer)
  /\ Blocks(tried, <<"scope">>)
  /\ UNCHANGED <<brief, attempt, answer, tried, failed, proposal, checks, verdict, decision>>

\* Mutation: the reference is appended without a confirmed hypothesis, too.
CitedAlways(body) == body \cup {brief.hyp}

Cited(body) == body \cup ({brief.hyp} \ {None})

Proposes ==
  /\ pc = "validate" /\ ValidDiffs(answer) /\ InScope(answer)
  /\ proposal' = [answer EXCEPT !.body = Cited(@)]
  /\ pc' = "verify"
  /\ UNCHANGED <<brief, attempt, answer, tried, failed, report, checks, verdict, decision>>

----------------------------------------------------------------------------
(* The Verifier *)

\* kubectl is asked when a change looks like a manifest.
ChecksProposal ==
  /\ pc = "verify" /\ proposal # None
  /\ \E git \in BOOLEAN, kubectl \in SUBSET BOOLEAN :
       /\ kubectl # BOOLEAN
       /\ checks' = {[name |-> "git", passed |-> git]}
                      \cup {[name |-> "kubectl", passed |-> k] : k \in kubectl}
  /\ pc' = "interpret"
  /\ UNCHANGED <<brief, dev, verdict, decision>>

\* The target of the intent is in the snapshot, or is not.
ChecksIntent ==
  /\ pc = "verify" /\ proposal = None /\ brief.intended
  /\ \E present \in BOOLEAN : checks' = {[name |-> "precondition", passed |-> present]}
  /\ pc' = "interpret"
  /\ UNCHANGED <<brief, dev, verdict, decision>>

NoSubject ==
  /\ pc = "verify" /\ proposal = None /\ ~ brief.intended
  /\ checks' = {[name |-> "noop", passed |-> TRUE]}
  /\ verdict' = "passed"
  /\ pc' = "review"
  /\ UNCHANGED <<brief, dev, decision>>

\* The kind is the model's; nothing compares it with the results.
Interprets ==
  /\ pc = "interpret"
  /\ verdict' \in Kind
  /\ pc' = "review"
  /\ UNCHANGED <<brief, dev, checks, decision>>

----------------------------------------------------------------------------
(* The Reviewer, which the graph runs whatever the verdict *)

\* check_diff_repos: with no target_repos nothing passes.
DiffInRepos(p) == brief.repos # {} /\ InScope(p)

\* check_commit_message
CommitNamesHypothesis(p) == brief.hyp # None /\ brief.hyp \in p.commit

\* check_pr_body_evidence
BodyNamesEvidence(p) == \E e \in brief.evidence : Contains(p.body, e)

Policy(p) == DiffInRepos(p) /\ CommitNamesHypothesis(p) /\ BodyNamesEvidence(p)

Guarded(choice, cites) ==
  IF choice = "challenge_root_cause" /\ ~ cites THEN "request_changes_on_fix" ELSE choice

SkipsReview ==
  /\ pc = "review" /\ proposal = None
  /\ pc' = "done"
  /\ UNCHANGED <<brief, dev, checks, verdict, decision>>

\* No confirmed hypothesis is a violation too.
PolicyFails ==
  /\ pc = "review" /\ proposal # None /\ ~ Policy(proposal)
  /\ decision' = "request_changes_on_fix"
  /\ pc' = "done"
  /\ UNCHANGED <<brief, dev, checks, verdict>>

Judges ==
  /\ pc = "review" /\ proposal # None /\ Policy(proposal)
  /\ \E choice \in Decision, cites \in BOOLEAN : decision' = Guarded(choice, cites)
  /\ pc' = "done"
  /\ UNCHANGED <<brief, dev, checks, verdict>>

\* An API error in Dev; any error of complete_typed in the others; a check whose
\* program is not there.
Raises ==
  /\ \/ pc \in {"ask", "interpret"}
     \/ pc = "verify" /\ proposal # None
     \/ pc = "review" /\ proposal # None /\ Policy(proposal)
  /\ pc' = "raised"
  /\ UNCHANGED <<brief, dev, checks, verdict, decision>>

\* The path is over.
Ended == pc \in {"done", "raised"} /\ UNCHANGED vars

Next ==
  \/ \E out \in Fix : Answers(out)
  \/ SchemaFails \/ Retries \/ InvalidAgain \/ OutOfScope \/ Proposes
  \/ ChecksProposal \/ ChecksIntent \/ NoSubject \/ Interprets
  \/ SkipsReview \/ PolicyFails \/ Judges
  \/ Raises
  \/ Ended

Spec == Init /\ [][Next]_vars

----------------------------------------------------------------------------
(* Properties *)

TypeOK ==
  /\ brief \in Brief
  /\ pc \in {"ask", "validate", "verify", "interpret", "review", "done", "raised"}
  /\ attempt \in {1, 2}
  /\ answer \in Fix \cup {None}
  /\ tried \in Seq({1, 2}) /\ failed \in Seq(Reason)
  /\ proposal \in Fix \cup {None}
  /\ report \in Report \cup {None}
  /\ checks \subseteq Check
  /\ verdict \in Kind \cup {None}
  /\ decision \in Decision \cup {None}

(* What an approval vouches for, by what Dev and the Reviewer check        *)
(* between them: at least one change, valid diffs only, none outside the   *)
(* plan's repositories, a commit message and a body that both name the     *)
(* confirmed hypothesis, and a body that cites a finding.  The last only   *)
(* as long as no collector request failed: the empty evidence_id of a      *)
(* failure finding is in every body.                                       *)
ApprovedIsSound ==
  decision = "approve" =>
    /\ proposal # None
    /\ proposal.changes # {}
    /\ \A c \in proposal.changes : c.diff = "valid" /\ c.repo \in brief.repos
    /\ brief.hyp # None
    /\ brief.hyp \in proposal.commit \cap proposal.body
    /\ NoEvidence \notin brief.evidence => brief.evidence \cap proposal.body # {}

Attempts == IF attempt = 1 THEN <<1>> ELSE <<1, 2>>

(* A blocked report is complete: there is no proposal beside it, it lists  *)
(* every attempt that was made, and its last reason is what was wrong with *)
(* the last answer.                                                        *)
ReportIsComplete ==
  report # None =>
    /\ proposal = None
    /\ report.tried = Attempts
    /\ report.failed # << >>
    /\ report.failed[Len(report.failed)] =
         IF answer = None THEN "schema" ELSE IF ValidDiffs(answer) THEN "scope" ELSE "diff"
=============================================================================
