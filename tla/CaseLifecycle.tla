--------------------------- MODULE CaseLifecycle ---------------------------
(***************************************************************************)
(* One ClearanceCase object in memory, its methods called one after        *)
(* another in any order a caller of the package may choose (case_test.go   *)
(* drives it the same way).  Unlike the application service it may see     *)
(* pending_evaluation between two calls, any evaluation result, and a      *)
(* certificate that was issued some calls before it is used.               *)
(***************************************************************************)
EXTENDS ClearanceDomain

VARIABLES
  case,      \* the object; nobody drains it, pendingEvents is its history
  issued     \* the last certificate NewCertificate returned

vars == <<case, issued>>

TypeOK == case \in Cases /\ issued \in Certificates

Init == case = NewCase /\ issued = NoCertificate

Bounded == case.revision < MaxRevision

CallReplacePlan(plan) ==
  /\ Bounded /\ CanReplacePlan(case, plan)
  /\ case' = ReplacePlan(case, plan)
  /\ UNCHANGED issued

CallSubmitEvaluation ==
  /\ Bounded /\ CanSubmitEvaluation(case)
  /\ case' = SubmitEvaluation(case)
  /\ UNCHANGED issued

CallApplyEvaluation(found) ==
  /\ Bounded /\ CanApplyEvaluation(case)
  /\ case' = ApplyEvaluation(case, found)
  /\ UNCHANGED issued

CallAddEvidence(f, content, note) ==
  /\ Bounded /\ CanAddEvidence(case, f, note)
  /\ case' = AddEvidence(case, f, content)
  /\ UNCHANGED issued

CallRequestReview ==
  /\ Bounded /\ CanRequestReview(case)
  /\ case' = RequestReview(case)
  /\ UNCHANGED issued

CallReviewFinding(f, verdict, note, reviewer) ==
  /\ Bounded /\ CanReviewFinding(case, f, verdict, note)
  /\ case' = ReviewFinding(case, f, verdict, reviewer)
  /\ UNCHANGED issued

CallNewCertificate(signer) ==
  /\ CanNewCertificate(case)
  /\ issued' = NewCertificate(case, signer)
  /\ UNCHANGED case

CallMarkReleased ==
  /\ Bounded /\ issued # NoCertificate /\ CanMarkReleased(case, issued)
  /\ case' = MarkReleased(case, issued)
  /\ UNCHANGED issued

Next ==
  \/ \E plan \in Plans : CallReplacePlan(plan)
  \/ CallSubmitEvaluation
  \/ \E found \in SUBSET Findings : CallApplyEvaluation(found)
  \/ \E f \in Findings, content \in Contents, note \in BOOLEAN :
        CallAddEvidence(f, content, note)
  \/ CallRequestReview
  \/ \E f \in Findings, verdict \in Verdicts, note \in BOOLEAN, reviewer \in Names :
        CallReviewFinding(f, verdict, note, reviewer)
  \/ \E signer \in Names : CallNewCertificate(signer)
  \/ CallMarkReleased

Spec == Init /\ [][Next]_vars

----------------------------------------------------------------------------
(* Properties.                                                             *)

(* What a released case must be able to show: every finding was accepted   *)
(* by a named reviewer on submitted evidence, and the certificate is a     *)
(* valid seal over this very revision and over the evaluated plan          *)
(* (case.go:223-239; a certificate issued for an earlier revision must not *)
(* release the case).                                                      *)
ReleaseIsJustified ==
  case.status = "released" =>
    /\ \A f \in Found(case) :
         /\ case.findings[f].status = "accepted"
         /\ case.findings[f].evidence # None
         /\ case.findings[f].reviewer # None
    /\ case.certificate.revision = case.revision
    /\ case.certificate.planDigest = PlanDigest(case)
    /\ case.certificate.planDigest.plan \in ValidPlans
    /\ VerifyCertificate(case.certificate)

(* While a case waits for the reviewer every finding can be judged: it has *)
(* evidence and is either undecided or accepted, whatever was returned and *)
(* resubmitted before (case.go:176-188, 190-221).                          *)
ReviewableFindings == Reviewable(case)

(* The status an event leaves its finding in.                              *)
StatusAfter(type) ==
  CASE type = "evidence.submitted" -> "evidence_submitted"
    [] type = "finding.accepted"   -> "accepted"
    [] type = "finding.returned"   -> "returned"

Explained(c, f) ==
  LET about == {i \in DOMAIN c.pendingEvents : c.pendingEvents[i].finding = f}
  IN  IF about = {}
      THEN c.findings[f].status = "open"
      ELSE \E last \in about :
             /\ \A i \in about : i <= last
             /\ c.findings[f].status = StatusAfter(c.pendingEvents[last].type)

(* The queued events account for every finding: its status is the one its  *)
(* last event left, and a finding no event mentions is still open, so the  *)
(* timeline alone explains the case (advance, case.go:272-284).            *)
EventsExplainFindings == \A f \in Found(case) : Explained(case, f)

(* An accepted finding keeps its evidence and its reviewer until it is     *)
(* returned by a review: evidence is never replaced under an acceptance    *)
(* (case.go:158-160).                                                      *)
AcceptanceStands ==
  \A f \in Findings :
    case.findings[f].status = "accepted" =>
      \/ case'.findings[f] = case.findings[f]
      \/ /\ case'.findings[f].status = "returned"
         /\ case'.findings[f].evidence = case.findings[f].evidence

AcceptedEvidenceIsFrozen == [][AcceptanceStands]_vars

(* Once a case left draft its plan and the set of its findings stay what   *)
(* the reviewers were shown, and a released case never changes again       *)
(* (case.go:74-80, 102-105, 114-117).                                      *)
EvaluationStands ==
  /\ case.status # "draft" => case'.plan = case.plan
  /\ case.status \notin {"draft", "pending_evaluation"} => Found(case') = Found(case)
  /\ case.status = "released" => case' = case

EvaluatedPlanIsLocked == [][EvaluationStands]_vars

============================================================================
