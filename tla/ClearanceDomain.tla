-------------------------- MODULE ClearanceDomain --------------------------
(***************************************************************************)
(* The aggregate of internal/domain: one clearance case (ClearanceCase in  *)
(* case.go), its findings, its release certificate and its idempotency     *)
(* table, with one guard CanX and one result X per method X.  A method     *)
(* that returns an error leaves the object alone, so a call whose guard is *)
(* false changes nothing.  Everything here is a constant operator; the     *)
(* modules CaseLifecycle, SerialClearance and ClearanceService are the     *)
(* state machines built from it.                                           *)
(*                                                                         *)
(* Abstractions.  A motion plan is one value of Plans and ValidPlans are   *)
(* those ValidateSteps accepts; names, evidence files and request ids are  *)
(* values compared for equality only; a SHA-256 digest is the record of    *)
(* the fields it covers (no collisions); timestamps, texts and severities  *)
(* are left out because no decision of the code reads them.  A finding or  *)
(* a request a case does not have is the record NoFinding or NotProcessed, *)
(* so that both tables are total functions.                                *)
(*                                                                         *)
(* An operator whose comment begins with "Fault" is not part of the model: *)
(* it is a slip one could make in the definition after it, kept here to    *)
(* show that some property notices.                                        *)
(***************************************************************************)
EXTENDS Integers, Sequences

CONSTANTS
  Plans,        \* step lists a technical director may submit
  ValidPlans,   \* the plans ValidateSteps accepts
  Findings,     \* ids of risk findings
  Contents,     \* evidence files, identified by their SHA-256
  Names,        \* actor names, as the bytes of the X-Actor-Name header
  JsonText,     \* the name that is read back after a name was written as JSON
  Requests,     \* request ids
  None,         \* "no value"
  MaxRevision   \* bound: no method and no command acts at this revision

RuleVersion == "SC-RULES-2026.1"

(* encoding/json replaces bytes that are not UTF-8 by U+FFFD: JsonText     *)
(* moves the names that are not UTF-8 and fixes all others.                *)
ASSUME DomainAssumption ==
  /\ ValidPlans \subseteq Plans
  /\ JsonText \in [Names -> Names]
  /\ \A n \in Names : JsonText[JsonText[n]] = JsonText[n]
  /\ None \notin Plans \cup Findings \cup Contents \cup Names
  /\ None # RuleVersion
  /\ MaxRevision \in Nat

----------------------------------------------------------------------------
(* Data.                                                                   *)

CaseStatuses ==
  {"draft", "pending_evaluation", "remediation", "pending_review", "released"}

FindingStatuses ==
  {"absent", "open", "evidence_submitted", "accepted", "returned"}

EventTypes ==
  {"case.created", "plan.updated", "evaluation.requested",
   "evaluation.completed", "evidence.submitted", "review.requested",
   "finding.accepted", "finding.returned", "case.released"}

(* The values of the accepted flag of a review, named as the status it     *)
(* gives the finding.                                                      *)
Verdicts == {"accepted", "returned"}

CommandNames ==
  {"none", "create_case", "replace_plan", "evaluate", "submit_evidence",
   "request_review", "review_finding", "sign"}

FindingRecords ==
  [status : FindingStatuses, evidence : Contents \cup {None},
   reviewer : Names \cup {None}]

NoFinding == [status |-> "absent", evidence |-> None, reviewer |-> None]

OpenFinding == [status |-> "open", evidence |-> None, reviewer |-> None]

Digests ==
  [plan : Plans \cup {None}, ruleVersion : {RuleVersion, None}]

Seals ==
  [revision : Nat, planDigest : Digests, signer : Names \cup {None}]

Certificates ==
  [revision : Nat, planDigest : Digests, signer : Names \cup {None},
   verificationCode : Seals]

Events ==
  [revision : Nat, type : EventTypes, finding : Findings \cup {None}]

IdempotencyRecords == [command : CommandNames, revision : Nat]

NotProcessed == [command |-> "none", revision |-> 0]

Cases ==
  [status : CaseStatuses, revision : Nat, plan : Plans \cup {None},
   ruleVersion : {RuleVersion, None},
   findings : [Findings -> FindingRecords],
   certificate : Certificates,
   requests : [Requests -> IdempotencyRecords],
   pendingEvents : Seq(Events)]

Found(c) == {f \in Findings : c.findings[f].status # "absent"}

Processed(c) == {r \in Requests : c.requests[r].command # "none"}

----------------------------------------------------------------------------
(* The digest, the seal of a certificate, and what JSON keeps of a case.   *)

(* The plan document covers the steps and the rule version of the case.    *)
PlanDigest(c) == [plan |-> c.plan, ruleVersion |-> c.ruleVersion]

CertificateVerificationCode(cert) ==
  [revision |-> cert.revision, planDigest |-> cert.planDigest,
   signer |-> cert.signer]

VerifyCertificate(cert) ==
  cert.verificationCode = CertificateVerificationCode(cert)

NoCertificate ==
  LET seal == [revision |-> 0,
               planDigest |-> [plan |-> None, ruleVersion |-> None],
               signer |-> None]
  IN  [revision |-> 0, planDigest |-> seal.planDigest, signer |-> None,
       verificationCode |-> seal]

HasCertificate(c) == c.certificate # NoCertificate

NameAfterJson(n) == IF n = None THEN None ELSE JsonText[n]

(* Marshal and unmarshal: the unexported pending events are gone and every *)
(* name has become JSON text; the seal is ASCII and survives.              *)
CloneCase(c) ==
  [c EXCEPT
     !.findings = [f \in Findings |->
        [c.findings[f] EXCEPT !.reviewer = NameAfterJson(@)]],
     !.certificate.signer = NameAfterJson(@),
     !.pendingEvents = <<>>]

----------------------------------------------------------------------------
(* The methods.                                                            *)

Event(revision, type, finding) ==
  [revision |-> revision, type |-> type, finding |-> finding]

(* advance and record: every successful method bumps the revision once and *)
(* queues one audit event that carries the new revision.                   *)
Advance(c, type, finding) ==
  [c EXCEPT !.revision = c.revision + 1,
            !.pendingEvents =
               Append(c.pendingEvents, Event(c.revision + 1, type, finding))]

NewCase ==
  [status |-> "draft", revision |-> 1, plan |-> None, ruleVersion |-> None,
   findings |-> [f \in Findings |-> NoFinding],
   certificate |-> NoCertificate,
   requests |-> [r \in Requests |-> NotProcessed],
   pendingEvents |-> <<Event(1, "case.created", None)>>]

(* Fault: only the first of the two status checks of case.go:75-80.        *)
CanReplacePlanUntilReleased(c, plan) ==
  c.status # "released" /\ plan \in ValidPlans

CanReplacePlan(c, plan) == c.status = "draft" /\ plan \in ValidPlans

ReplacePlan(c, plan) ==
  Advance([c EXCEPT !.plan = plan], "plan.updated", None)

CanSubmitEvaluation(c) == c.status = "draft" /\ c.plan \in ValidPlans

SubmitEvaluation(c) ==
  Advance([c EXCEPT !.status = "pending_evaluation"],
          "evaluation.requested", None)

(* found is a set: a list with a repeated id or with a finding about a     *)
(* step the plan does not have is refused before the case is touched.      *)
CanApplyEvaluation(c) == c.status = "pending_evaluation"

(* Fault: the case goes straight to the reviewer, findings or not.         *)
ApplyEvaluationToReview(c, found) ==
  Advance([c EXCEPT
             !.findings = [f \in Findings |->
                IF f \in found THEN OpenFinding ELSE NoFinding],
             !.ruleVersion = RuleVersion,
             !.status = "pending_review"],
          "evaluation.completed", None)

ApplyEvaluation(c, found) ==
  Advance([c EXCEPT
             !.findings = [f \in Findings |->
                IF f \in found THEN OpenFinding ELSE NoFinding],
             !.ruleVersion = RuleVersion,
             !.status = IF found = {} THEN "pending_review" ELSE "remediation"],
          "evaluation.completed", None)

(* Fault: the evidence of an accepted finding may be replaced.             *)
CanAddEvidenceAnyTime(c, f, note) ==
  c.status = "remediation" /\ f \in Found(c) /\ note

CanAddEvidence(c, f, note) ==
  /\ c.status = "remediation"
  /\ f \in Found(c)
  /\ c.findings[f].status # "accepted"
  /\ note

(* Fault: the finding keeps the status it had.                             *)
AddEvidenceOnly(c, f, content) ==
  Advance([c EXCEPT !.findings[f].evidence = content],
          "evidence.submitted", f)

AddEvidence(c, f, content) ==
  Advance([c EXCEPT !.findings[f] =
             [status |-> "evidence_submitted", evidence |-> content,
              reviewer |-> None]],
          "evidence.submitted", f)

(* Fault: a returned finding goes back to the reviewer as it is.           *)
CanRequestReviewUnchanged(c) ==
  /\ c.status = "remediation"
  /\ \A f \in Found(c) : c.findings[f].evidence # None

CanRequestReview(c) ==
  /\ c.status = "remediation"
  /\ \A f \in Found(c) :
        /\ c.findings[f].evidence # None
        /\ c.findings[f].status \in {"evidence_submitted", "accepted"}

RequestReview(c) ==
  Advance([c EXCEPT !.status = "pending_review"], "review.requested", None)

CanReviewFinding(c, f, verdict, note) ==
  /\ c.status = "pending_review"
  /\ f \in Found(c)
  /\ c.findings[f].evidence # None
  /\ ~ (verdict = "accepted" /\ c.findings[f].status = "accepted")
  /\ note

Judged(finding, verdict, reviewer) ==
  [finding EXCEPT !.status = verdict, !.reviewer = reviewer]

ReviewEvent(verdict) ==
  IF verdict = "accepted" THEN "finding.accepted" ELSE "finding.returned"

ReviewFinding(c, f, verdict, reviewer) ==
  Advance([c EXCEPT
             !.findings[f] = Judged(@, verdict, reviewer),
             !.status = IF verdict = "accepted" THEN @ ELSE "remediation"],
          ReviewEvent(verdict), f)

(* Fault: a finding nobody judged counts as accepted.                      *)
NoneReturned(c) == \A f \in Found(c) : c.findings[f].status # "returned"

AllAccepted(c) == \A f \in Found(c) : c.findings[f].status = "accepted"

CanNewCertificate(c) == c.status = "pending_review" /\ AllAccepted(c)

NewCertificate(c, signer) ==
  LET seal == [revision |-> c.revision + 1, planDigest |-> PlanDigest(c),
               signer |-> signer]
  IN  [revision |-> seal.revision, planDigest |-> seal.planDigest,
       signer |-> signer, verificationCode |-> seal]

(* Fault: a certificate of an earlier revision is taken.                   *)
CanMarkReleasedStale(c, cert) == c.status = "pending_review" /\ AllAccepted(c)

CanMarkReleased(c, cert) ==
  /\ c.status = "pending_review"
  /\ AllAccepted(c)
  /\ cert.revision = c.revision + 1

MarkReleased(c, cert) ==
  Advance([c EXCEPT !.status = "released", !.certificate = cert],
          "case.released", None)

(* A request id already used for this command is a retry and one used for  *)
(* another command an error; both leave the case alone.  So only an        *)
(* unused id reaches RecordRequest.                                        *)
IsNewRequest(c, r) == r \notin Processed(c)

RecordRequest(c, r, command) ==
  [c EXCEPT !.requests[r] = [command |-> command, revision |-> c.revision]]

----------------------------------------------------------------------------
(* What every case satisfies, whatever was done to it: its parts.          *)

(* Nothing is judged without evidence, or accepted by nobody.              *)
JudgedOnEvidence(c) ==
  \A f \in Found(c) :
    /\ c.findings[f].status # "open" => c.findings[f].evidence # None
    /\ c.findings[f].status = "accepted" => c.findings[f].reviewer # None

(* Whatever was returned and resubmitted before, the reviewer can judge    *)
(* every finding of a case that waits for review.                          *)
Reviewable(c) ==
  c.status = "pending_review" =>
    \A f \in Found(c) :
      /\ c.findings[f].evidence # None
      /\ c.findings[f].status \in {"evidence_submitted", "accepted"}

(* Findings come from an evaluation, and only of a valid plan.             *)
PlanBehindFindings(c) ==
  /\ c.status \in {"draft", "pending_evaluation"} => Found(c) = {}
  /\ c.status # "draft" => c.plan \in ValidPlans

(* A released case has a certificate of its last revision and of its plan, *)
(* and no other case has one.                                              *)
CertifiedIfReleased(c) ==
  IF c.status = "released"
  THEN /\ AllAccepted(c)
       /\ c.certificate.revision = c.revision
       /\ c.certificate.planDigest = PlanDigest(c)
  ELSE c.certificate = NoCertificate

(* A case is in remediation only as long as some finding is not accepted.  *)
WorkIsLeft(c) == c.status = "remediation" => ~ AllAccepted(c)

CaseInv(c) ==
  /\ c.revision > 0
  /\ JudgedOnEvidence(c)
  /\ Reviewable(c)
  /\ WorkIsLeft(c)
  /\ PlanBehindFindings(c)
  /\ CertifiedIfReleased(c)

============================================================================
