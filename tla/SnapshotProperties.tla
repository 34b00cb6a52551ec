------------------------ MODULE SnapshotProperties -------------------------
(***************************************************************************)
(* What must be true of every stored snapshot, and of every change of one. *)
(* SerialClearance and ClearanceService state these of all their files.    *)
(***************************************************************************)
EXTENDS ClearanceCommands

(* The event that is last in the timeline when the command is done.        *)
ClosingEvents ==
  [create_case     |-> {"case.created"},
   replace_plan    |-> {"plan.updated"},
   evaluate        |-> {"evaluation.completed"},
   submit_evidence |-> {"evidence.submitted"},
   request_review  |-> {"review.requested"},
   review_finding  |-> {"finding.accepted", "finding.returned"},
   sign            |-> {"case.released"}]

(* The revisions count the audit events one by one.                        *)
Contiguous(s) ==
  /\ Len(s.audit) = s.case.revision
  /\ \A i \in DOMAIN s.audit : s.audit[i].revision = i

(* The status the case is in when an event is its last.                    *)
StatusAfterLast(type, c) ==
  CASE type \in {"case.created", "plan.updated"} -> "draft"
    [] type = "evaluation.completed" ->
         IF Found(c) = {} THEN "pending_review" ELSE "remediation"
    [] type \in {"evidence.submitted", "finding.returned"} -> "remediation"
    [] type \in {"review.requested", "finding.accepted"} -> "pending_review"
    [] type = "case.released" -> "released"
    [] OTHER -> "none"

StatusTold(s) == StatusAfterLast(s.audit[Len(s.audit)].type, s.case)

TimelineTells(s) == Contiguous(s) /\ s.case.status = StatusTold(s)

(* One processed request for every command that took effect, and one       *)
(* effect for every processed request: requests and closing events match   *)
(* one to one, through the revision both carry.                            *)
AppliedOnce(s) ==
  /\ \A r \in Processed(s.case) :
       LET done == s.case.requests[r]
       IN  /\ done.revision \in DOMAIN s.audit
           /\ s.audit[done.revision].type \in ClosingEvents[done.command]
  /\ \A i \in DOMAIN s.audit :
       s.audit[i].type # "evaluation.requested" =>
         \E r \in Processed(s.case) :
           /\ s.case.requests[r].revision = i
           /\ \A q \in Processed(s.case) :
                s.case.requests[q].revision = i => q = r

(* A stored case is never between the two steps of an evaluation, and once *)
(* it left draft its findings are the engine's for its plan.               *)
Evaluated(c) ==
  /\ c.status # "pending_evaluation"
  /\ c.status # "draft" =>
       c.plan \in EvaluablePlans /\ Found(c) = RuleFindings[c.plan]

(* Some command can still bring an unreleased case forward.                *)
HasNextStep(c) ==
  \/ c.status = "released"
  \/ \E plan \in ValidPlans : CanReplacePlan(c, plan)
  \/ \E f \in Findings : CanAddEvidence(c, f, TRUE)
  \/ CanRequestReview(c)
  \/ \E f \in Findings : CanReviewFinding(c, f, "accepted", TRUE)
  \/ CanNewCertificate(c)

(* A released case is signed for this revision, this plan, and findings    *)
(* that were all accepted on evidence.                                     *)
Justified(c) ==
  /\ HasCertificate(c) <=> c.status = "released"
  /\ HasCertificate(c) =>
       /\ c.certificate.revision = c.revision
       /\ c.certificate.planDigest = PlanDigest(c)
       /\ c.plan \in EvaluablePlans
       /\ Found(c) = RuleFindings[c.plan]
       /\ \A f \in Found(c) :
            c.findings[f].status = "accepted" /\ c.findings[f].evidence # None

(* A later snapshot continues an earlier one: no audit event and no        *)
(* idempotency record is lost or rewritten, and after a release nothing    *)
(* follows.                                                                *)
Continues(earlier, later) ==
  \/ later = earlier
  \/ /\ earlier.case.status # "released"
     /\ Len(earlier.audit) < Len(later.audit)
     /\ \A i \in DOMAIN earlier.audit : later.audit[i] = earlier.audit[i]
     /\ \A r \in Processed(earlier.case) :
          later.case.requests[r] = earlier.case.requests[r]

============================================================================
