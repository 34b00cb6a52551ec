-------------------------- MODULE ClearanceLemmas --------------------------
(***************************************************************************)
(* What each method of the aggregate returns, and what one command makes   *)
(* of a stored snapshot, whoever executes it: the lemmas that the proofs   *)
(* about CaseLifecycle, SerialClearance, HttpProtocol, ClearanceService    *)
(* and Process share.                                                      *)
(***************************************************************************)
EXTENDS SnapshotProperties, TLAPS

----------------------------------------------------------------------------
(* The methods of the aggregate.                                           *)

LEMMA NoneFacts ==
  /\ None \notin Findings
  /\ None \notin Contents
  /\ None \notin Names
  BY DomainAssumption DEF DomainAssumption

LEMMA NoCertificateType == NoCertificate \in Certificates
  BY DEF NoCertificate, Certificates, Digests, Seals, RuleVersion

LEMMA NewCaseType == NewCase \in Cases
  BY NoCertificateType
  DEF NewCase, Cases, CaseStatuses, NoFinding, FindingRecords, FindingStatuses,
      NotProcessed, IdempotencyRecords, CommandNames, Event, Events, EventTypes

(* advance keeps everything but the revision and the queue of events.      *)
LEMMA AdvanceType ==
  ASSUME NEW c \in Cases, NEW type \in EventTypes, NEW f \in Findings \cup {None}
  PROVE  Advance(c, type, f) \in Cases
  <1> DEFINE event == Event(c.revision + 1, type, f)
  <1>1. c.revision + 1 \in Nat
    BY DEF Cases
  <1>2. event \in Events
    BY <1>1 DEF Event, Events
  <1>3. c.pendingEvents \in Seq(Events)
    BY DEF Cases
  <1>4. Append(c.pendingEvents, event) \in Seq(Events)
    BY <1>2, <1>3
  <1> HIDE DEF event
  <1>5. [c EXCEPT !.revision = c.revision + 1,
                  !.pendingEvents = Append(c.pendingEvents, event)] \in Cases
    BY <1>1, <1>4 DEF Cases
  <1> QED
    BY <1>5 DEF Advance, event

LEMMA AdvanceFields ==
  ASSUME NEW c \in Cases, NEW type, NEW f
  PROVE  /\ Advance(c, type, f).revision = c.revision + 1
         /\ Advance(c, type, f).pendingEvents =
              Append(c.pendingEvents, Event(c.revision + 1, type, f))
         /\ Advance(c, type, f).status = c.status
         /\ Advance(c, type, f).plan = c.plan
         /\ Advance(c, type, f).ruleVersion = c.ruleVersion
         /\ Advance(c, type, f).findings = c.findings
         /\ Advance(c, type, f).certificate = c.certificate
         /\ Advance(c, type, f).requests = c.requests
  BY DEF Advance, Cases

LEMMA NewCaseFields ==
  /\ NewCase \in Cases
  /\ NewCase.status = "draft" /\ NewCase.revision = 1 /\ NewCase.plan = None
  /\ NewCase.certificate = NoCertificate
  /\ NewCase.findings = [f \in Findings |-> NoFinding]
  /\ NewCase.requests = [r \in Requests |-> NotProcessed]
  /\ NewCase.pendingEvents = <<Event(1, "case.created", None)>>
  BY NewCaseType DEF NewCase

LEMMA ReplacePlanFields ==
  ASSUME NEW c \in Cases, NEW plan \in Plans
  PROVE  LET d == ReplacePlan(c, plan)
         IN  /\ d \in Cases
             /\ d.status = c.status /\ d.revision = c.revision + 1
             /\ d.plan = plan /\ d.ruleVersion = c.ruleVersion
             /\ d.findings = c.findings /\ d.certificate = c.certificate
             /\ d.requests = c.requests
             /\ d.pendingEvents =
                  Append(c.pendingEvents, Event(c.revision + 1, "plan.updated", None))
  <1> DEFINE b == [c EXCEPT !.plan = plan]
  <1>1. b \in Cases /\ b.revision = c.revision /\ b.pendingEvents = c.pendingEvents
        /\ b.status = c.status /\ b.plan = plan /\ b.ruleVersion = c.ruleVersion
        /\ b.findings = c.findings /\ b.certificate = c.certificate
        /\ b.requests = c.requests
    BY DEF Cases
  <1>2. ReplacePlan(c, plan) = Advance(b, "plan.updated", None)
    BY DEF ReplacePlan
  <1> HIDE DEF b
  <1> QED
    BY <1>1, <1>2, AdvanceType, AdvanceFields DEF EventTypes

LEMMA SubmitEvaluationFields ==
  ASSUME NEW c \in Cases
  PROVE  LET d == SubmitEvaluation(c)
         IN  /\ d \in Cases
             /\ d.status = "pending_evaluation" /\ d.revision = c.revision + 1
             /\ d.plan = c.plan /\ d.ruleVersion = c.ruleVersion
             /\ d.findings = c.findings /\ d.certificate = c.certificate
             /\ d.requests = c.requests
             /\ d.pendingEvents =
                  Append(c.pendingEvents, Event(c.revision + 1, "evaluation.requested", None))
  <1> DEFINE b == [c EXCEPT !.status = "pending_evaluation"]
  <1>1. b \in Cases /\ b.revision = c.revision /\ b.pendingEvents = c.pendingEvents
        /\ b.status = "pending_evaluation" /\ b.plan = c.plan
        /\ b.ruleVersion = c.ruleVersion
        /\ b.findings = c.findings /\ b.certificate = c.certificate
        /\ b.requests = c.requests
    BY DEF Cases, CaseStatuses
  <1>2. SubmitEvaluation(c) = Advance(b, "evaluation.requested", None)
    BY DEF SubmitEvaluation
  <1> HIDE DEF b
  <1> QED
    BY <1>1, <1>2, AdvanceType, AdvanceFields DEF EventTypes

LEMMA ApplyEvaluationFields ==
  ASSUME NEW c \in Cases, NEW found \in SUBSET Findings
  PROVE  LET d == ApplyEvaluation(c, found)
         IN  /\ d \in Cases
             /\ d.status = IF found = {} THEN "pending_review" ELSE "remediation"
             /\ d.revision = c.revision + 1
             /\ d.plan = c.plan /\ d.ruleVersion = RuleVersion
             /\ d.findings = [f \in Findings |->
                                IF f \in found THEN OpenFinding ELSE NoFinding]
             /\ d.certificate = c.certificate
             /\ d.requests = c.requests
             /\ d.pendingEvents =
                  Append(c.pendingEvents, Event(c.revision + 1, "evaluation.completed", None))
  <1> DEFINE table == [f \in Findings |->
                         IF f \in found THEN OpenFinding ELSE NoFinding]
             next == IF found = {} THEN "pending_review" ELSE "remediation"
             b == [c EXCEPT !.findings = table, !.ruleVersion = RuleVersion,
                            !.status = next]
  <1>1. table \in [Findings -> FindingRecords]
    BY DEF OpenFinding, NoFinding, FindingRecords, FindingStatuses
  <1>2. next \in CaseStatuses
    BY DEF CaseStatuses
  <1>3. ApplyEvaluation(c, found) = Advance(b, "evaluation.completed", None)
    BY DEF ApplyEvaluation
  <1> HIDE DEF table, next
  <1>4. b \in Cases /\ b.revision = c.revision /\ b.pendingEvents = c.pendingEvents
        /\ b.status = next /\ b.plan = c.plan /\ b.ruleVersion = RuleVersion
        /\ b.findings = table /\ b.certificate = c.certificate
        /\ b.requests = c.requests
    BY <1>1, <1>2 DEF Cases
  <1> HIDE DEF b
  <1>5. "evaluation.completed" \in EventTypes
    BY DEF EventTypes
  <1>6. /\ ApplyEvaluation(c, found) \in Cases
        /\ ApplyEvaluation(c, found).status = next
        /\ ApplyEvaluation(c, found).findings = table
        /\ ApplyEvaluation(c, found).revision = c.revision + 1
        /\ ApplyEvaluation(c, found).plan = c.plan
        /\ ApplyEvaluation(c, found).ruleVersion = RuleVersion
        /\ ApplyEvaluation(c, found).certificate = c.certificate
        /\ ApplyEvaluation(c, found).requests = c.requests
        /\ ApplyEvaluation(c, found).pendingEvents =
             Append(c.pendingEvents, Event(c.revision + 1, "evaluation.completed", None))
    BY <1>3, <1>4, <1>5, AdvanceType, AdvanceFields
  <1> QED
    BY <1>6 DEF table, next

LEMMA AddEvidenceFields ==
  ASSUME NEW c \in Cases, NEW f \in Findings, NEW content \in Contents
  PROVE  LET d == AddEvidence(c, f, content)
         IN  /\ d \in Cases
             /\ d.status = c.status /\ d.revision = c.revision + 1
             /\ d.plan = c.plan /\ d.ruleVersion = c.ruleVersion
             /\ d.findings[f] = [status |-> "evidence_submitted",
                                  evidence |-> content, reviewer |-> None]
             /\ \A g \in Findings \ {f} : d.findings[g] = c.findings[g]
             /\ d.certificate = c.certificate
             /\ d.requests = c.requests
             /\ d.pendingEvents =
                  Append(c.pendingEvents, Event(c.revision + 1, "evidence.submitted", f))
  <1> DEFINE record == [status |-> "evidence_submitted", evidence |-> content,
                        reviewer |-> None]
             b == [c EXCEPT !.findings[f] = record]
  <1>1. record \in FindingRecords
    BY DEF FindingRecords, FindingStatuses
  <1>2. AddEvidence(c, f, content) = Advance(b, "evidence.submitted", f)
    BY DEF AddEvidence
  <1> HIDE DEF record
  <1>3. b \in Cases /\ b.revision = c.revision /\ b.pendingEvents = c.pendingEvents
        /\ b.status = c.status /\ b.plan = c.plan /\ b.ruleVersion = c.ruleVersion
        /\ b.findings = [c.findings EXCEPT ![f] = record]
        /\ b.certificate = c.certificate /\ b.requests = c.requests
    BY <1>1 DEF Cases
  <1> HIDE DEF b
  <1>4. "evidence.submitted" \in EventTypes
    BY DEF EventTypes
  <1> QED
    <2>1. c.findings \in [Findings -> FindingRecords]
      BY DEF Cases
    <2>2. /\ b.findings[f] = record
          /\ \A g \in Findings \ {f} : b.findings[g] = c.findings[g]
      BY <1>3, <2>1
    <2> DEFINE d == AddEvidence(c, f, content)
    <2>3. /\ d \in Cases
          /\ d.status = c.status /\ d.revision = c.revision + 1
          /\ d.plan = c.plan /\ d.ruleVersion = c.ruleVersion
          /\ d.findings = b.findings
          /\ d.certificate = c.certificate
          /\ d.requests = c.requests
          /\ d.pendingEvents =
               Append(c.pendingEvents, Event(c.revision + 1, "evidence.submitted", f))
      BY <1>2, <1>3, <1>4, AdvanceType, AdvanceFields
    <2> QED
      BY <2>2, <2>3 DEF record

LEMMA RequestReviewFields ==
  ASSUME NEW c \in Cases
  PROVE  LET d == RequestReview(c)
         IN  /\ d \in Cases
             /\ d.status = "pending_review" /\ d.revision = c.revision + 1
             /\ d.plan = c.plan /\ d.ruleVersion = c.ruleVersion
             /\ d.findings = c.findings /\ d.certificate = c.certificate
             /\ d.requests = c.requests
             /\ d.pendingEvents =
                  Append(c.pendingEvents, Event(c.revision + 1, "review.requested", None))
  <1> DEFINE b == [c EXCEPT !.status = "pending_review"]
  <1>1. b \in Cases /\ b.revision = c.revision /\ b.pendingEvents = c.pendingEvents
        /\ b.status = "pending_review" /\ b.plan = c.plan
        /\ b.ruleVersion = c.ruleVersion
        /\ b.findings = c.findings /\ b.certificate = c.certificate
        /\ b.requests = c.requests
    BY DEF Cases, CaseStatuses
  <1>2. RequestReview(c) = Advance(b, "review.requested", None)
    BY DEF RequestReview
  <1> HIDE DEF b
  <1> QED
    BY <1>1, <1>2, AdvanceType, AdvanceFields DEF EventTypes

LEMMA JudgedFields ==
  ASSUME NEW old \in FindingRecords, NEW verdict \in Verdicts, NEW who \in Names
  PROVE  /\ Judged(old, verdict, who) \in FindingRecords
         /\ Judged(old, verdict, who).status = verdict
         /\ Judged(old, verdict, who).evidence = old.evidence
         /\ Judged(old, verdict, who).reviewer = who
  BY DEF Judged, FindingRecords, FindingStatuses, Verdicts

LEMMA ReviewFindingFields ==
  ASSUME NEW c \in Cases, NEW f \in Findings, NEW verdict \in Verdicts,
         NEW who \in Names
  PROVE  LET d == ReviewFinding(c, f, verdict, who)
         IN  /\ d \in Cases
             /\ d.status = IF verdict = "accepted" THEN c.status ELSE "remediation"
             /\ d.revision = c.revision + 1
             /\ d.plan = c.plan /\ d.ruleVersion = c.ruleVersion
             /\ d.findings[f] = Judged(c.findings[f], verdict, who)
             /\ \A g \in Findings \ {f} : d.findings[g] = c.findings[g]
             /\ d.certificate = c.certificate
             /\ d.requests = c.requests
             /\ d.pendingEvents =
                  Append(c.pendingEvents, Event(c.revision + 1, ReviewEvent(verdict), f))
  <1> DEFINE next == IF verdict = "accepted" THEN c.status ELSE "remediation"
             table == [c.findings EXCEPT ![f] = Judged(c.findings[f], verdict, who)]
             b == [c EXCEPT !.findings[f] = Judged(@, verdict, who),
                            !.status = IF verdict = "accepted" THEN @ ELSE "remediation"]
  <1>1. ReviewEvent(verdict) \in EventTypes /\ next \in CaseStatuses
    BY DEF ReviewEvent, EventTypes, CaseStatuses, Cases
  <1>2. ReviewFinding(c, f, verdict, who) = Advance(b, ReviewEvent(verdict), f)
    BY DEF ReviewFinding
  <1>3. c.findings \in [Findings -> FindingRecords]
    BY DEF Cases
  <1>4. table \in [Findings -> FindingRecords]
    BY <1>3, JudgedFields
  <1>5. b = [c EXCEPT !.findings = table, !.status = next]
    BY DEF Cases
  <1> HIDE DEF next, table, b
  <1>6. b \in Cases /\ b.revision = c.revision /\ b.pendingEvents = c.pendingEvents
        /\ b.status = next /\ b.plan = c.plan /\ b.ruleVersion = c.ruleVersion
        /\ b.findings = table /\ b.certificate = c.certificate
        /\ b.requests = c.requests
    BY <1>1, <1>4, <1>5 DEF Cases
  <1> QED
    <2>1. /\ table[f] = Judged(c.findings[f], verdict, who)
          /\ \A g \in Findings \ {f} : table[g] = c.findings[g]
      BY <1>3 DEF table
    <2> QED
      BY <1>1, <1>2, <1>6, <2>1, AdvanceType, AdvanceFields DEF next

LEMMA NewCertificateFields ==
  ASSUME NEW c \in Cases, NEW signer \in Names
  PROVE  LET cert == NewCertificate(c, signer)
         IN  /\ cert \in Certificates
             /\ cert.revision = c.revision + 1
             /\ cert.planDigest = PlanDigest(c)
             /\ cert.signer = signer
             /\ VerifyCertificate(cert)
             /\ cert # NoCertificate
  <1>1. c.revision + 1 \in Nat /\ c.revision + 1 # 0
    BY DEF Cases
  <1>2. PlanDigest(c) \in Digests
    BY DEF PlanDigest, Digests, Cases
  <1> QED
    BY <1>1, <1>2
    DEF NewCertificate, VerifyCertificate, CertificateVerificationCode,
        NoCertificate, Certificates, Seals

LEMMA MarkReleasedFields ==
  ASSUME NEW c \in Cases, NEW cert \in Certificates
  PROVE  LET d == MarkReleased(c, cert)
         IN  /\ d \in Cases
             /\ d.status = "released" /\ d.revision = c.revision + 1
             /\ d.plan = c.plan /\ d.ruleVersion = c.ruleVersion
             /\ d.findings = c.findings /\ d.certificate = cert
             /\ d.requests = c.requests
             /\ d.pendingEvents =
                  Append(c.pendingEvents, Event(c.revision + 1, "case.released", None))
  <1> DEFINE b == [c EXCEPT !.status = "released", !.certificate = cert]
  <1>1. "released" \in CaseStatuses /\ "case.released" \in EventTypes
    BY DEF CaseStatuses, EventTypes
  <1>2. b \in Cases /\ b.revision = c.revision /\ b.pendingEvents = c.pendingEvents
        /\ b.status = "released" /\ b.plan = c.plan
        /\ b.ruleVersion = c.ruleVersion
        /\ b.findings = c.findings /\ b.certificate = cert
        /\ b.requests = c.requests
    BY <1>1 DEF Cases
  <1>3. MarkReleased(c, cert) = Advance(b, "case.released", None)
    BY DEF MarkReleased
  <1> HIDE DEF b
  <1> QED
    BY <1>1, <1>2, <1>3, AdvanceType, AdvanceFields

LEMMA RecordRequestFields ==
  ASSUME NEW c \in Cases, NEW r \in Requests, NEW command \in CommandNames
  PROVE  LET d == RecordRequest(c, r, command)
         IN  /\ d \in Cases
             /\ d.status = c.status /\ d.revision = c.revision
             /\ d.plan = c.plan /\ d.ruleVersion = c.ruleVersion
             /\ d.findings = c.findings /\ d.certificate = c.certificate
             /\ d.requests = [c.requests EXCEPT ![r] =
                                [command |-> command, revision |-> c.revision]]
             /\ d.pendingEvents = c.pendingEvents
  <1> DEFINE record == [command |-> command, revision |-> c.revision]
  <1>1. record \in IdempotencyRecords
    BY DEF IdempotencyRecords, Cases
  <1> HIDE DEF record
  <1>2. [c.requests EXCEPT ![r] = record] \in [Requests -> IdempotencyRecords]
    BY <1>1 DEF Cases
  <1>3. RecordRequest(c, r, command) =
          [c EXCEPT !.requests = [c.requests EXCEPT ![r] = record]]
    BY DEF RecordRequest, record
  <1> QED
    BY <1>2, <1>3 DEF Cases, record

----------------------------------------------------------------------------
(* Every method, called when its guard holds, keeps CaseInv.               *)

LEMMA NewCaseInv == CaseInv(NewCase)
  <1>1. Found(NewCase) = {}
    BY NewCaseFields DEF Found, NoFinding
  <1> QED
    BY <1>1, NewCaseFields
    DEF CaseInv, JudgedOnEvidence, Reviewable, WorkIsLeft,
        PlanBehindFindings, CertifiedIfReleased

LEMMA ReplacePlanKeeps ==
  ASSUME NEW c \in Cases, CaseInv(c), NEW plan \in Plans, CanReplacePlan(c, plan)
  PROVE  CaseInv(ReplacePlan(c, plan))
  <1> DEFINE d == ReplacePlan(c, plan)
  <1>1. /\ d.status = "draft" /\ d.revision = c.revision + 1
        /\ d.findings = c.findings /\ d.certificate = c.certificate
    BY ReplacePlanFields DEF CanReplacePlan
  <1>2. c.revision \in Nat /\ c.status = "draft"
    BY DEF Cases, CanReplacePlan
  <1> HIDE DEF d
  <1>3. Found(d) = Found(c)
    BY <1>1 DEF Found
  <1>4. CaseInv(d)
    BY <1>1, <1>2, <1>3
    DEF CaseInv, JudgedOnEvidence, Reviewable, WorkIsLeft,
        PlanBehindFindings, CertifiedIfReleased
  <1> QED
    BY <1>4 DEF d

LEMMA SubmitEvaluationKeeps ==
  ASSUME NEW c \in Cases, CaseInv(c), CanSubmitEvaluation(c)
  PROVE  CaseInv(SubmitEvaluation(c))
  <1> DEFINE d == SubmitEvaluation(c)
  <1>1. /\ d.status = "pending_evaluation" /\ d.revision = c.revision + 1
        /\ d.plan = c.plan
        /\ d.findings = c.findings /\ d.certificate = c.certificate
    BY SubmitEvaluationFields
  <1>2. c.revision \in Nat /\ c.status = "draft" /\ c.plan \in ValidPlans
    BY DEF Cases, CanSubmitEvaluation
  <1> HIDE DEF d
  <1>3. Found(d) = Found(c)
    BY <1>1 DEF Found
  <1>4. CaseInv(d)
    BY <1>1, <1>2, <1>3
    DEF CaseInv, JudgedOnEvidence, Reviewable, WorkIsLeft,
        PlanBehindFindings, CertifiedIfReleased
  <1> QED
    BY <1>4 DEF d

LEMMA ApplyEvaluationFound ==
  ASSUME NEW c \in Cases, NEW found \in SUBSET Findings
  PROVE  Found(ApplyEvaluation(c, found)) = found
  <1> DEFINE d == ApplyEvaluation(c, found)
  <1>1. d.findings = [f \in Findings |->
                        IF f \in found THEN OpenFinding ELSE NoFinding]
    BY ApplyEvaluationFields
  <1> HIDE DEF d
  <1>2. \A f \in Findings : d.findings[f].status # "absent" <=> f \in found
    BY <1>1 DEF OpenFinding, NoFinding
  <1> QED
    BY <1>2 DEF Found, d

LEMMA ApplyEvaluationKeeps ==
  ASSUME NEW c \in Cases, CaseInv(c), NEW found \in SUBSET Findings,
         CanApplyEvaluation(c)
  PROVE  CaseInv(ApplyEvaluation(c, found))
  <1> DEFINE d == ApplyEvaluation(c, found)
  <1>1. /\ d.status = IF found = {} THEN "pending_review" ELSE "remediation"
        /\ d.revision = c.revision + 1
        /\ d.plan = c.plan
        /\ d.findings = [f \in Findings |->
                           IF f \in found THEN OpenFinding ELSE NoFinding]
        /\ d.certificate = c.certificate
    BY ApplyEvaluationFields
  <1>2. c.revision \in Nat /\ c.status = "pending_evaluation"
    BY DEF Cases, CanApplyEvaluation
  <1>3. Found(d) = found
    BY ApplyEvaluationFound
  <1> HIDE DEF d
  <1>4. \A f \in found : d.findings[f].status = "open"
    BY <1>1 DEF OpenFinding
  <1>5. WorkIsLeft(d)
    BY <1>1, <1>3, <1>4 DEF WorkIsLeft, AllAccepted
  <1>6. CaseInv(d)
    BY <1>1, <1>2, <1>3, <1>4, <1>5
    DEF CaseInv, JudgedOnEvidence, Reviewable, PlanBehindFindings,
        CertifiedIfReleased
  <1> QED
    BY <1>6 DEF d

LEMMA AddEvidenceKeeps ==
  ASSUME NEW c \in Cases, CaseInv(c), NEW f \in Findings, NEW content \in Contents,
         NEW note \in BOOLEAN, CanAddEvidence(c, f, note)
  PROVE  /\ CaseInv(AddEvidence(c, f, content))
         /\ Found(AddEvidence(c, f, content)) = Found(c)
  <1> DEFINE d == AddEvidence(c, f, content)
  <1>1. /\ d.status = c.status /\ d.revision = c.revision + 1 /\ d.plan = c.plan
        /\ d.findings[f] = [status |-> "evidence_submitted",
                             evidence |-> content, reviewer |-> None]
        /\ \A g \in Findings \ {f} : d.findings[g] = c.findings[g]
        /\ d.certificate = c.certificate
    BY AddEvidenceFields
  <1>2. /\ c.revision \in Nat /\ c.status = "remediation" /\ f \in Found(c)
        /\ c.findings \in [Findings -> FindingRecords]
    BY DEF Cases, CanAddEvidence
  <1> HIDE DEF d
  <1>3. /\ d.findings[f].status = "evidence_submitted"
        /\ d.findings[f].evidence # None
        /\ \A g \in Findings \ {f} : d.findings[g] = c.findings[g]
    BY <1>1, <1>2, NoneFacts
  <1>4. Found(d) = Found(c)
    BY <1>2, <1>3 DEF Found
  <1>5. JudgedOnEvidence(d)
    BY <1>3, <1>4 DEF CaseInv, JudgedOnEvidence, Found
  <1>6. WorkIsLeft(d)
    BY <1>2, <1>3, <1>4 DEF WorkIsLeft, AllAccepted
  <1>7. CaseInv(d)
    BY <1>1, <1>2, <1>4, <1>5, <1>6
    DEF CaseInv, Reviewable, PlanBehindFindings, CertifiedIfReleased
  <1> QED
    BY <1>4, <1>7 DEF d

LEMMA RequestReviewKeeps ==
  ASSUME NEW c \in Cases, CaseInv(c), CanRequestReview(c)
  PROVE  CaseInv(RequestReview(c))
  <1> DEFINE d == RequestReview(c)
  <1>1. /\ d.status = "pending_review" /\ d.revision = c.revision + 1
        /\ d.plan = c.plan
        /\ d.findings = c.findings /\ d.certificate = c.certificate
    BY RequestReviewFields
  <1>2. c.revision \in Nat /\ c.status = "remediation"
    BY DEF Cases, CanRequestReview
  <1> HIDE DEF d
  <1>3. Found(d) = Found(c)
    BY <1>1 DEF Found
  <1>4. CaseInv(d)
    BY <1>1, <1>2, <1>3
    DEF CaseInv, JudgedOnEvidence, Reviewable, WorkIsLeft,
        PlanBehindFindings, CertifiedIfReleased, CanRequestReview
  <1> QED
    BY <1>4 DEF d

LEMMA ReviewFindingKeeps ==
  ASSUME NEW c \in Cases, CaseInv(c), NEW f \in Findings, NEW verdict \in Verdicts,
         NEW note \in BOOLEAN, NEW who \in Names,
         CanReviewFinding(c, f, verdict, note)
  PROVE  /\ CaseInv(ReviewFinding(c, f, verdict, who))
         /\ Found(ReviewFinding(c, f, verdict, who)) = Found(c)
  <1> DEFINE d == ReviewFinding(c, f, verdict, who)
  <1>1. /\ d.status = IF verdict = "accepted" THEN c.status ELSE "remediation"
        /\ d.revision = c.revision + 1 /\ d.plan = c.plan
        /\ d.findings[f] = Judged(c.findings[f], verdict, who)
        /\ \A g \in Findings \ {f} : d.findings[g] = c.findings[g]
        /\ d.certificate = c.certificate
    BY ReviewFindingFields
  <1>2. /\ c.revision \in Nat /\ c.status = "pending_review" /\ f \in Found(c)
        /\ c.findings[f].evidence # None
        /\ c.findings \in [Findings -> FindingRecords]
    BY DEF Cases, CanReviewFinding
  <1> HIDE DEF d
  <1>3. /\ d.findings[f].status = verdict
        /\ d.findings[f].evidence # None
        /\ d.findings[f].reviewer # None
        /\ \A g \in Findings \ {f} : d.findings[g] = c.findings[g]
    BY <1>1, <1>2, NoneFacts, JudgedFields
  <1>4. Found(d) = Found(c)
    BY <1>2, <1>3 DEF Found, Verdicts
  <1>5. JudgedOnEvidence(d)
    BY <1>3, <1>4 DEF CaseInv, JudgedOnEvidence, Found
  <1>6. Reviewable(d)
    BY <1>1, <1>2, <1>3, <1>4 DEF CaseInv, Reviewable, Found, Verdicts
  <1>7. WorkIsLeft(d)
    BY <1>1, <1>2, <1>3, <1>4 DEF WorkIsLeft, AllAccepted
  <1>8. CaseInv(d)
    BY <1>1, <1>2, <1>4, <1>5, <1>6, <1>7
    DEF CaseInv, PlanBehindFindings, CertifiedIfReleased
  <1> QED
    BY <1>4, <1>8 DEF d

LEMMA MarkReleasedKeeps ==
  ASSUME NEW c \in Cases, CaseInv(c), NEW cert \in Certificates,
         CanMarkReleased(c, cert), cert.planDigest = PlanDigest(c)
  PROVE  CaseInv(MarkReleased(c, cert))
  <1> DEFINE d == MarkReleased(c, cert)
  <1>1. /\ d.status = "released" /\ d.revision = c.revision + 1
        /\ d.plan = c.plan /\ d.ruleVersion = c.ruleVersion
        /\ d.findings = c.findings /\ d.certificate = cert
    BY MarkReleasedFields
  <1>2. /\ c.revision \in Nat /\ c.status = "pending_review" /\ AllAccepted(c)
        /\ cert.revision = c.revision + 1
    BY DEF Cases, CanMarkReleased
  <1> HIDE DEF d
  <1>3. Found(d) = Found(c)
    BY <1>1 DEF Found
  <1>4. CaseInv(d)
    BY <1>1, <1>2, <1>3
    DEF CaseInv, JudgedOnEvidence, Reviewable, WorkIsLeft,
        PlanBehindFindings, CertifiedIfReleased, AllAccepted, PlanDigest
  <1> QED
    BY <1>4 DEF d

LEMMA RecordRequestKeeps ==
  ASSUME NEW c \in Cases, CaseInv(c), NEW r \in Requests, NEW command \in CommandNames
  PROVE  CaseInv(RecordRequest(c, r, command))
  <1> DEFINE d == RecordRequest(c, r, command)
  <1>1. /\ d.status = c.status /\ d.revision = c.revision
        /\ d.plan = c.plan /\ d.ruleVersion = c.ruleVersion
        /\ d.findings = c.findings /\ d.certificate = c.certificate
    BY RecordRequestFields
  <1> HIDE DEF d
  <1>2. Found(d) = Found(c)
    BY <1>1 DEF Found
  <1>3. CaseInv(d)
    BY <1>1, <1>2
    DEF CaseInv, JudgedOnEvidence, Reviewable, WorkIsLeft,
        PlanBehindFindings, CertifiedIfReleased, AllAccepted, PlanDigest
  <1> QED
    BY <1>3 DEF d

----------------------------------------------------------------------------
(* A command and its snapshot.                                             *)

(* The invariant of a stored snapshot.  The timeline and the request table *)
(* explain each other (AppliedOnce) only together with Contiguous, and a   *)
(* case can always go on (HasNextStep) only because of CaseInv.            *)
SnapshotInv(s) ==
  /\ s \in Snapshots
  /\ CaseInv(s.case)
  /\ Evaluated(s.case)
  /\ s.case.pendingEvents = <<>>
  /\ TimelineTells(s)
  /\ AppliedOnce(s)

(* d is c after one command with request id r took effect.                 *)
Applied(c, d, r) ==
  LET new == d.pendingEvents
      last == new[Len(new)].type
  IN  /\ d \in Cases /\ CaseInv(d) /\ Evaluated(d)
      /\ c.status # "released"
      /\ Len(new) > 0
      /\ d.revision = c.revision + Len(new)
      /\ \A i \in 1 .. Len(new) : new[i].revision = c.revision + i
      /\ \A i \in 1 .. Len(new) - 1 : new[i].type = "evaluation.requested"
      /\ last # "evaluation.requested"
      /\ d.status = StatusAfterLast(last, d)
      /\ \E command \in CommandNames \ {"none"} :
           /\ last \in ClosingEvents[command]
           /\ d.requests = [c.requests EXCEPT ![r] =
                              [command |-> command, revision |-> d.revision]]

----------------------------------------------------------------------------
(* Each command that is not refused has been applied.                      *)

(* One event: every command but an evaluation.  m is the case as the       *)
(* method left it, before the request was recorded.                        *)
LEMMA OneEventApplied ==
  ASSUME NEW c \in Cases, NEW m \in Cases, NEW r \in Requests,
         NEW command \in CommandNames \ {"none"},
         NEW type \in EventTypes, NEW f \in Findings \cup {None},
         c.pendingEvents = <<>>, c.status # "released",
         CaseInv(m), Evaluated(m),
         m.revision = c.revision + 1, m.requests = c.requests,
         m.pendingEvents = Append(c.pendingEvents, Event(c.revision + 1, type, f)),
         type # "evaluation.requested", type \in ClosingEvents[command],
         m.status = StatusAfterLast(type, m)
  PROVE  Applied(c, RecordRequest(m, r, command), r)
  <1> DEFINE d == RecordRequest(m, r, command)
             e == Event(c.revision + 1, type, f)
  <1>1. /\ d \in Cases /\ d.status = m.status /\ d.revision = m.revision
        /\ d.plan = m.plan /\ d.findings = m.findings
        /\ d.requests = [m.requests EXCEPT ![r] =
                           [command |-> command, revision |-> m.revision]]
        /\ d.pendingEvents = m.pendingEvents
    BY RecordRequestFields
  <1>2. CaseInv(d)
    BY RecordRequestKeeps
  <1>3. Found(d) = Found(m)
    BY <1>1 DEF Found
  <1>4. Evaluated(d) /\ d.status = StatusAfterLast(type, d)
    BY <1>1, <1>3 DEF Evaluated, StatusAfterLast
  <1> HIDE DEF d
  <1>5. d.pendingEvents = <<e>> /\ Len(d.pendingEvents) = 1
    BY <1>1
  <1>6. d.pendingEvents[1].revision = c.revision + 1 /\ d.pendingEvents[1].type = type
    BY <1>5 DEF Event
  <1>7. c.revision \in Nat
    BY DEF Cases
  <1> QED
    BY <1>1, <1>2, <1>4, <1>5, <1>6, <1>7 DEF Applied, d

LEMMA ReplacePlanApplied ==
  ASSUME NEW c \in Cases, CaseInv(c), Evaluated(c), c.pendingEvents = <<>>,
         NEW r \in Requests, NEW plan \in Plans,
         NEW d \in ReplacePlanResults(c, r, plan)
  PROVE  Applied(c, d, r)
  <1> DEFINE m == ReplacePlan(c, plan)
  <1>1. CanReplacePlan(c, plan) /\ d = RecordRequest(m, r, "replace_plan")
    BY DEF ReplacePlanResults
  <1>2. c.status = "draft"
    BY <1>1 DEF CanReplacePlan
  <1>3. CaseInv(m)
    BY <1>1, ReplacePlanKeeps
  <1>4. /\ m \in Cases /\ m.status = "draft" /\ m.revision = c.revision + 1
        /\ m.requests = c.requests
        /\ m.pendingEvents =
             Append(c.pendingEvents, Event(c.revision + 1, "plan.updated", None))
    BY <1>2, ReplacePlanFields
  <1> HIDE DEF m
  <1>5. Evaluated(m) /\ m.status = StatusAfterLast("plan.updated", m)
    BY <1>4 DEF Evaluated, StatusAfterLast
  <1>6. /\ "plan.updated" \in EventTypes
        /\ "replace_plan" \in CommandNames \ {"none"}
        /\ "plan.updated" \in ClosingEvents["replace_plan"]
    BY DEF EventTypes, CommandNames, ClosingEvents
  <1> QED
    BY <1>1, <1>2, <1>3, <1>4, <1>5, <1>6, OneEventApplied

LEMMA EvidenceApplied ==
  ASSUME NEW c \in Cases, CaseInv(c), Evaluated(c), c.pendingEvents = <<>>,
         NEW r \in Requests, NEW f \in Findings, NEW content \in Contents,
         NEW note \in BOOLEAN, NEW d \in EvidenceResults(c, r, f, content, note)
  PROVE  Applied(c, d, r)
  <1> DEFINE m == AddEvidence(c, f, content)
  <1>1. /\ CanAddEvidence(c, f, note)
        /\ d = RecordRequest(m, r, "submit_evidence")
    BY DEF EvidenceResults
  <1>2. c.status = "remediation"
    BY <1>1 DEF CanAddEvidence
  <1>3. CaseInv(m) /\ Found(m) = Found(c)
    BY <1>1, AddEvidenceKeeps
  <1>4. /\ m \in Cases /\ m.status = "remediation" /\ m.revision = c.revision + 1
        /\ m.plan = c.plan /\ m.requests = c.requests
        /\ m.pendingEvents =
             Append(c.pendingEvents, Event(c.revision + 1, "evidence.submitted", f))
    BY <1>2, AddEvidenceFields
  <1> HIDE DEF m
  <1>5. Evaluated(m) /\ m.status = StatusAfterLast("evidence.submitted", m)
    BY <1>2, <1>3, <1>4 DEF Evaluated, StatusAfterLast
  <1>6. /\ "evidence.submitted" \in EventTypes
        /\ "submit_evidence" \in CommandNames \ {"none"}
        /\ "evidence.submitted" \in ClosingEvents["submit_evidence"]
    BY DEF EventTypes, CommandNames, ClosingEvents
  <1> QED
    BY <1>1, <1>2, <1>3, <1>4, <1>5, <1>6, OneEventApplied

LEMMA RequestReviewApplied ==
  ASSUME NEW c \in Cases, CaseInv(c), Evaluated(c), c.pendingEvents = <<>>,
         NEW r \in Requests, NEW d \in RequestReviewResults(c, r)
  PROVE  Applied(c, d, r)
  <1> DEFINE m == RequestReview(c)
  <1>1. CanRequestReview(c) /\ d = RecordRequest(m, r, "request_review")
    BY DEF RequestReviewResults
  <1>2. c.status = "remediation"
    BY <1>1 DEF CanRequestReview
  <1>3. CaseInv(m)
    BY <1>1, RequestReviewKeeps
  <1>4. /\ m \in Cases /\ m.status = "pending_review"
        /\ m.revision = c.revision + 1
        /\ m.plan = c.plan /\ m.findings = c.findings /\ m.requests = c.requests
        /\ m.pendingEvents =
             Append(c.pendingEvents, Event(c.revision + 1, "review.requested", None))
    BY RequestReviewFields
  <1> HIDE DEF m
  <1>5. Found(m) = Found(c)
    BY <1>4 DEF Found
  <1>6. Evaluated(m) /\ m.status = StatusAfterLast("review.requested", m)
    BY <1>2, <1>4, <1>5 DEF Evaluated, StatusAfterLast
  <1>7. /\ "review.requested" \in EventTypes
        /\ "request_review" \in CommandNames \ {"none"}
        /\ "review.requested" \in ClosingEvents["request_review"]
    BY DEF EventTypes, CommandNames, ClosingEvents
  <1> QED
    BY <1>1, <1>2, <1>3, <1>4, <1>6, <1>7, OneEventApplied

LEMMA ReviewFindingApplied ==
  ASSUME NEW c \in Cases, CaseInv(c), Evaluated(c), c.pendingEvents = <<>>,
         NEW r \in Requests, NEW f \in Findings, NEW verdict \in Verdicts,
         NEW note \in BOOLEAN, NEW who \in Names,
         NEW d \in ReviewFindingResults(c, r, f, verdict, note, who)
  PROVE  Applied(c, d, r)
  <1> DEFINE m == ReviewFinding(c, f, verdict, who)
             type == ReviewEvent(verdict)
  <1>1. /\ CanReviewFinding(c, f, verdict, note)
        /\ d = RecordRequest(m, r, "review_finding")
    BY DEF ReviewFindingResults
  <1>2. c.status = "pending_review"
    BY <1>1 DEF CanReviewFinding
  <1>3. CaseInv(m) /\ Found(m) = Found(c)
    BY <1>1, ReviewFindingKeeps
  <1>4. /\ m \in Cases
        /\ m.status = IF verdict = "accepted" THEN "pending_review" ELSE "remediation"
        /\ m.revision = c.revision + 1
        /\ m.plan = c.plan /\ m.requests = c.requests
        /\ m.pendingEvents = Append(c.pendingEvents, Event(c.revision + 1, type, f))
    BY <1>2, ReviewFindingFields
  <1> HIDE DEF m
  <1>5. Evaluated(m)
    BY <1>2, <1>3, <1>4 DEF Evaluated
  <1>6. m.status = StatusAfterLast(type, m)
    BY <1>4 DEF StatusAfterLast, ReviewEvent, Verdicts
  <1>7. /\ type \in EventTypes /\ type # "evaluation.requested"
        /\ "review_finding" \in CommandNames \ {"none"}
        /\ type \in ClosingEvents["review_finding"]
    BY DEF EventTypes, CommandNames, ClosingEvents, ReviewEvent
  <1> HIDE DEF type
  <1> QED
    BY <1>1, <1>2, <1>3, <1>4, <1>5, <1>6, <1>7, OneEventApplied

LEMMA SignApplied ==
  ASSUME NEW c \in Cases, CaseInv(c), Evaluated(c), c.pendingEvents = <<>>,
         NEW r \in Requests, NEW who \in Names, NEW d \in SignResults(c, r, who)
  PROVE  Applied(c, d, r)
  <1> DEFINE cert == NewCertificate(c, who)
             m == MarkReleased(c, cert)
  <1>1. CanMarkReleased(c, cert) /\ d = RecordRequest(m, r, "sign")
    BY DEF SignResults
  <1>2. c.status = "pending_review"
    BY <1>1 DEF CanMarkReleased
  <1>3. cert \in Certificates /\ cert.planDigest = PlanDigest(c)
    BY NewCertificateFields
  <1> HIDE DEF cert
  <1>4. CaseInv(m)
    BY <1>1, <1>3, MarkReleasedKeeps
  <1>5. /\ m \in Cases /\ m.status = "released" /\ m.revision = c.revision + 1
        /\ m.plan = c.plan /\ m.findings = c.findings /\ m.requests = c.requests
        /\ m.pendingEvents =
             Append(c.pendingEvents, Event(c.revision + 1, "case.released", None))
    BY <1>3, MarkReleasedFields
  <1> HIDE DEF m
  <1>6. Found(m) = Found(c)
    BY <1>5 DEF Found
  <1>7. Evaluated(m) /\ m.status = StatusAfterLast("case.released", m)
    BY <1>2, <1>5, <1>6 DEF Evaluated, StatusAfterLast
  <1>8. /\ "case.released" \in EventTypes
        /\ "sign" \in CommandNames \ {"none"}
        /\ "case.released" \in ClosingEvents["sign"]
    BY DEF EventTypes, CommandNames, ClosingEvents
  <1> QED
    BY <1>1, <1>2, <1>4, <1>5, <1>7, <1>8, OneEventApplied

(* The evaluation leaves two events, the first of the request, the second  *)
(* of the result.                                                          *)
LEMMA EvaluateApplied ==
  ASSUME NEW c \in Cases, CaseInv(c), Evaluated(c), c.pendingEvents = <<>>,
         NEW r \in Requests, NEW d \in EvaluateResults(c, r)
  PROVE  Applied(c, d, r)
  <1> DEFINE asked == SubmitEvaluation(c)
             found == RuleFindings[c.plan]
             m == ApplyEvaluation(asked, found)
             e1 == Event(c.revision + 1, "evaluation.requested", None)
             e2 == Event(c.revision + 2, "evaluation.completed", None)
  <1>1. /\ CanSubmitEvaluation(c) /\ CanApplyEvaluation(asked)
        /\ c.plan \in EvaluablePlans
        /\ d = RecordRequest(m, r, "evaluate")
    BY DEF EvaluateResults
  <1>2. c.status = "draft" /\ c.revision \in Nat
    BY <1>1 DEF CanSubmitEvaluation, Cases
  <1>3. CaseInv(asked)
    BY <1>1, SubmitEvaluationKeeps
  <1>4. /\ asked \in Cases /\ asked.revision = c.revision + 1
        /\ asked.plan = c.plan /\ asked.requests = c.requests
        /\ asked.pendingEvents = Append(c.pendingEvents, e1)
    BY SubmitEvaluationFields
  <1>5. found \in SUBSET Findings
    BY <1>1, CommandsAssumption DEF CommandsAssumption
  <1> HIDE DEF asked, found
  <1>6. CaseInv(m) /\ Found(m) = found
    BY <1>1, <1>3, <1>4, <1>5, ApplyEvaluationKeeps, ApplyEvaluationFound
  <1>7. /\ m \in Cases
        /\ m.status = IF found = {} THEN "pending_review" ELSE "remediation"
        /\ m.revision = asked.revision + 1
        /\ m.plan = asked.plan /\ m.requests = asked.requests
        /\ m.pendingEvents =
             Append(asked.pendingEvents,
                    Event(asked.revision + 1, "evaluation.completed", None))
    BY <1>4, <1>5, ApplyEvaluationFields
  <1> HIDE DEF m
  <1>8. "evaluate" \in CommandNames
    BY DEF CommandNames
  <1>9. /\ d \in Cases /\ d.status = m.status /\ d.revision = m.revision
        /\ d.plan = m.plan /\ d.findings = m.findings
        /\ d.requests = [m.requests EXCEPT ![r] =
                           [command |-> "evaluate", revision |-> m.revision]]
        /\ d.pendingEvents = m.pendingEvents
    BY <1>1, <1>7, <1>8, RecordRequestFields
  <1> HIDE DEF e1, e2
  <1>10. /\ d.revision = c.revision + 2
         /\ d.plan = c.plan
         /\ d.requests = [c.requests EXCEPT ![r] =
                            [command |-> "evaluate", revision |-> d.revision]]
    BY <1>2, <1>4, <1>7, <1>9
  <1>11. CaseInv(d)
    BY <1>1, <1>6, <1>7, <1>8, RecordRequestKeeps
  <1>12. Found(d) = found
    BY <1>6, <1>9 DEF Found
  <1>13. Evaluated(d) /\ d.status = StatusAfterLast("evaluation.completed", d)
    BY <1>1, <1>7, <1>9, <1>10, <1>12 DEF Evaluated, StatusAfterLast, found
  <1>14. e2 = Event(asked.revision + 1, "evaluation.completed", None)
    BY <1>2, <1>4 DEF e2
  <1>15. d.pendingEvents = Append(Append(<<>>, e1), e2)
    BY <1>4, <1>7, <1>9, <1>14
  <1>16. /\ Len(d.pendingEvents) = 2
         /\ d.pendingEvents[1].revision = c.revision + 1
         /\ d.pendingEvents[1].type = "evaluation.requested"
         /\ d.pendingEvents[2].revision = c.revision + 2
         /\ d.pendingEvents[2].type = "evaluation.completed"
    BY <1>15 DEF Event, e1, e2
  <1>17. "evaluation.completed" \in ClosingEvents["evaluate"]
    BY DEF ClosingEvents
  <1> QED
    BY <1>2, <1>8, <1>9, <1>10, <1>11, <1>13, <1>16, <1>17 DEF Applied

LEMMA ResultsApplied ==
  ASSUME NEW c \in Cases, CaseInv(c), Evaluated(c), c.pendingEvents = <<>>,
         NEW r \in Requests, NEW d \in Results(c, r)
  PROVE  Applied(c, d, r)
  <1>1. CASE \E plan \in Plans : d \in ReplacePlanResults(c, r, plan)
    BY <1>1, ReplacePlanApplied
  <1>2. CASE d \in EvaluateResults(c, r)
    BY <1>2, EvaluateApplied
  <1>3. CASE \E f \in Findings, content \in Contents, note \in BOOLEAN :
               d \in EvidenceResults(c, r, f, content, note)
    BY <1>3, EvidenceApplied
  <1>4. CASE d \in RequestReviewResults(c, r)
    BY <1>4, RequestReviewApplied
  <1>5. CASE \E f \in Findings, verdict \in Verdicts, note \in BOOLEAN, who \in Names :
               d \in ReviewFindingResults(c, r, f, verdict, note, who)
    BY <1>5, ReviewFindingApplied
  <1>6. CASE \E who \in Names : d \in SignResults(c, r, who)
    BY <1>6, SignApplied
  <1> QED
    BY <1>1, <1>2, <1>3, <1>4, <1>5, <1>6 DEF Results

----------------------------------------------------------------------------
(* Saving what was applied.                                                *)

LEMMA NameAfterJsonType ==
  ASSUME NEW n \in Names \cup {None}
  PROVE  /\ NameAfterJson(n) \in Names \cup {None}
         /\ NameAfterJson(n) = None <=> n = None
  BY NoneFacts, DomainAssumption DEF DomainAssumption, NameAfterJson

LEMMA CloneCaseFields ==
  ASSUME NEW c \in Cases
  PROVE  LET d == CloneCase(c)
         IN  /\ d \in Cases
             /\ d.status = c.status /\ d.revision = c.revision
             /\ d.plan = c.plan /\ d.ruleVersion = c.ruleVersion
             /\ \A f \in Findings :
                  /\ d.findings[f].status = c.findings[f].status
                  /\ d.findings[f].evidence = c.findings[f].evidence
                  /\ d.findings[f].reviewer = NameAfterJson(c.findings[f].reviewer)
             /\ d.certificate = [c.certificate EXCEPT !.signer = NameAfterJson(@)]
             /\ d.requests = c.requests
             /\ d.pendingEvents = <<>>
  <1> DEFINE table == [f \in Findings |->
                         [c.findings[f] EXCEPT !.reviewer = NameAfterJson(@)]]
             cert == [c.certificate EXCEPT !.signer = NameAfterJson(@)]
  <1>1. \A f \in Findings :
          /\ table[f] \in FindingRecords
          /\ table[f].status = c.findings[f].status
          /\ table[f].evidence = c.findings[f].evidence
          /\ table[f].reviewer = NameAfterJson(c.findings[f].reviewer)
    <2> SUFFICES ASSUME NEW f \in Findings
                 PROVE  /\ table[f] \in FindingRecords
                        /\ table[f].status = c.findings[f].status
                        /\ table[f].evidence = c.findings[f].evidence
                        /\ table[f].reviewer = NameAfterJson(c.findings[f].reviewer)
      OBVIOUS
    <2>1. c.findings[f] \in FindingRecords
      BY DEF Cases
    <2>2. NameAfterJson(c.findings[f].reviewer) \in Names \cup {None}
      BY <2>1, NameAfterJsonType DEF FindingRecords
    <2> QED
      BY <2>1, <2>2 DEF FindingRecords
  <1>2. table \in [Findings -> FindingRecords]
    BY <1>1
  <1>3. cert \in Certificates
    <2>1. c.certificate \in Certificates
      BY DEF Cases
    <2>2. NameAfterJson(c.certificate.signer) \in Names \cup {None}
      BY <2>1, NameAfterJsonType DEF Certificates
    <2> QED
      BY <2>1, <2>2 DEF Certificates
  <1>4. CloneCase(c) = [c EXCEPT !.findings = table, !.certificate = cert,
                                 !.pendingEvents = <<>>]
    BY DEF CloneCase, Cases
  <1>5. <<>> \in Seq(Events)
    OBVIOUS
  <1> HIDE DEF table, cert
  <1>6. /\ CloneCase(c) \in Cases
        /\ CloneCase(c).status = c.status /\ CloneCase(c).revision = c.revision
        /\ CloneCase(c).plan = c.plan /\ CloneCase(c).ruleVersion = c.ruleVersion
        /\ CloneCase(c).findings = table /\ CloneCase(c).certificate = cert
        /\ CloneCase(c).requests = c.requests /\ CloneCase(c).pendingEvents = <<>>
    BY <1>2, <1>3, <1>4, <1>5 DEF Cases
  <1> QED
    BY <1>1, <1>6 DEF cert

LEMMA CloneCaseKeeps ==
  ASSUME NEW c \in Cases, CaseInv(c), Evaluated(c)
  PROVE  CaseInv(CloneCase(c)) /\ Evaluated(CloneCase(c)) /\ Found(CloneCase(c)) = Found(c)
  <1> DEFINE d == CloneCase(c)
  <1>1. /\ d.status = c.status /\ d.revision = c.revision
        /\ d.plan = c.plan /\ d.ruleVersion = c.ruleVersion
        /\ \A f \in Findings :
             /\ d.findings[f].status = c.findings[f].status
             /\ d.findings[f].evidence = c.findings[f].evidence
             /\ d.findings[f].reviewer = NameAfterJson(c.findings[f].reviewer)
        /\ d.certificate = [c.certificate EXCEPT !.signer = NameAfterJson(@)]
    BY CloneCaseFields
  <1> HIDE DEF d
  <1>2. Found(d) = Found(c)
    BY <1>1 DEF Found
  <1>3. \A f \in Findings : c.findings[f].reviewer # None => d.findings[f].reviewer # None
    <2> TAKE f \in Findings
    <2>1. c.findings[f].reviewer \in Names \cup {None}
      BY DEF Cases, FindingRecords
    <2> QED
      BY <1>1, <2>1, NameAfterJsonType
  <1>4. JudgedOnEvidence(d) /\ Reviewable(d) /\ PlanBehindFindings(d) /\ d.revision > 0
    BY <1>1, <1>2, <1>3
    DEF CaseInv, JudgedOnEvidence, Reviewable, PlanBehindFindings, Found
  <1>5. c.certificate \in Certificates
    BY DEF Cases
  <1>6. d.certificate.revision = c.certificate.revision
        /\ d.certificate.planDigest = c.certificate.planDigest
    BY <1>1, <1>5 DEF Certificates
  <1>7. c.certificate = NoCertificate => d.certificate = NoCertificate
    <2> SUFFICES ASSUME c.certificate = NoCertificate
                 PROVE  d.certificate = NoCertificate
      OBVIOUS
    <2>1. NameAfterJson(NoCertificate.signer) = NoCertificate.signer
      BY DEF NoCertificate, NameAfterJson
    <2>2. NoCertificate \in Certificates
      BY NoCertificateType
    <2> QED
      BY <1>1, <2>1, <2>2 DEF Certificates
  <1>8. AllAccepted(c) => AllAccepted(d)
    BY <1>1, <1>2 DEF AllAccepted, Found
  <1>9. CertifiedIfReleased(d)
    BY <1>1, <1>6, <1>7, <1>8 DEF CaseInv, CertifiedIfReleased, PlanDigest
  <1>10. WorkIsLeft(d)
    BY <1>1, <1>2 DEF CaseInv, WorkIsLeft, AllAccepted, Found
  <1> QED
    BY <1>1, <1>2, <1>4, <1>9, <1>10 DEF CaseInv, Evaluated, d

LEMMA CreatedCaseFields ==
  ASSUME NEW key \in CaseKeys
  PROVE  LET c == CreatedCase(key)
         IN  /\ c \in Cases /\ CaseInv(c) /\ Evaluated(c)
             /\ c.status = "draft" /\ c.revision = 1
             /\ c.certificate = NoCertificate
             /\ c.findings = [f \in Findings |-> NoFinding]
             /\ c.requests = [[r \in Requests |-> NotProcessed] EXCEPT ![key[2]] =
                                [command |-> "create_case", revision |-> 1]]
             /\ c.pendingEvents = <<Event(1, "case.created", None)>>
  <1>1. key[2] \in Requests
    BY CommandsAssumption DEF CommandsAssumption
  <1>2. "create_case" \in CommandNames
    BY DEF CommandNames
  <1>3. CaseInv(CreatedCase(key))
    BY <1>1, <1>2, NewCaseFields, NewCaseInv, RecordRequestKeeps DEF CreatedCase
  <1> QED
    BY <1>1, <1>2, <1>3, NewCaseFields, RecordRequestFields DEF CreatedCase, Evaluated

LEMMA CreatedSnapshot ==
  ASSUME NEW key \in CaseKeys
  PROVE  SnapshotInv(Saved(<<>>, CreatedCase(key)))
  <1> DEFINE c == CreatedCase(key)
             s == Saved(<<>>, c)
             e == Event(1, "case.created", None)
  <1>1. /\ c \in Cases /\ CaseInv(c) /\ Evaluated(c)
        /\ c.status = "draft" /\ c.revision = 1
        /\ c.requests = [[r \in Requests |-> NotProcessed] EXCEPT ![key[2]] =
                           [command |-> "create_case", revision |-> 1]]
        /\ c.pendingEvents = <<e>>
    BY CreatedCaseFields
  <1>2. key[2] \in Requests
    BY CommandsAssumption DEF CommandsAssumption
  <1>3. s.case = CloneCase(c) /\ s.audit = <<>> \o c.pendingEvents
        /\ s = [case |-> CloneCase(c), audit |-> <<>> \o c.pendingEvents]
    BY DEF Saved
  <1>4. e \in Events /\ e.revision = 1 /\ e.type = "case.created"
    BY DEF Event, Events, EventTypes
  <1> HIDE DEF c, s, e
  <1>5. s.audit = <<e>> /\ s.audit \in Seq(Events)
    BY <1>1, <1>3, <1>4
  <1>6. /\ s.case \in Cases /\ s.case.status = "draft" /\ s.case.revision = 1
        /\ s.case.requests = c.requests /\ s.case.pendingEvents = <<>>
    BY <1>1, <1>3, CloneCaseFields
  <1>7. CaseInv(s.case) /\ Evaluated(s.case)
    BY <1>1, <1>3, CloneCaseKeeps
  <1>8. s \in Snapshots
    BY <1>3, <1>5, <1>6 DEF Snapshots
  <1>9. TimelineTells(s)
    BY <1>4, <1>5, <1>6 DEF TimelineTells, Contiguous, StatusTold, StatusAfterLast
  <1>10. /\ Processed(s.case) = {key[2]}
         /\ s.case.requests[key[2]] = [command |-> "create_case", revision |-> 1]
    BY <1>1, <1>2, <1>6 DEF Processed, NotProcessed
  <1>11. AppliedOnce(s)
    BY <1>4, <1>5, <1>10 DEF AppliedOnce, ClosingEvents
  <1> QED
    BY <1>6, <1>7, <1>8, <1>9, <1>11 DEF SnapshotInv, s, c

(* The timeline after a save: the old events, then the new ones.           *)
LEMMA LongerTimeline ==
  ASSUME NEW old \in Seq(Events), NEW new \in Seq(Events)
  PROVE  /\ old \o new \in Seq(Events)
         /\ Len(old \o new) = Len(old) + Len(new)
         /\ \A i \in 1 .. Len(old) : (old \o new)[i] = old[i]
         /\ \A i \in 1 .. Len(new) : (old \o new)[Len(old) + i] = new[i]
  OBVIOUS

(* The heart of the proofs: what a command that was not refused makes of a *)
(* sound snapshot is sound and continues it.                               *)
LEMMA SavedSnapshot ==
  ASSUME NEW s, SnapshotInv(s), NEW r \in Requests, IsNewRequest(s.case, r),
         NEW d, Applied(s.case, d, r)
  PROVE  SnapshotInv(Saved(s.audit, d)) /\ Continues(s, Saved(s.audit, d))
  <1> DEFINE t == Saved(s.audit, d)
             new == d.pendingEvents
             n == Len(new)
  <1>1. /\ s \in Snapshots /\ s.case \in Cases /\ s.audit \in Seq(Events)
        /\ Contiguous(s) /\ AppliedOnce(s)
    BY DEF SnapshotInv, Snapshots, TimelineTells
  <1>2. /\ d \in Cases /\ CaseInv(d) /\ Evaluated(d)
        /\ s.case.status # "released"
        /\ n > 0
        /\ d.revision = s.case.revision + n
        /\ \A i \in 1 .. n : new[i].revision = s.case.revision + i
        /\ \A i \in 1 .. n - 1 : new[i].type = "evaluation.requested"
        /\ new[n].type # "evaluation.requested"
        /\ d.status = StatusAfterLast(new[n].type, d)
    BY DEF Applied
  <1>3. PICK command \in CommandNames \ {"none"} :
          /\ new[n].type \in ClosingEvents[command]
          /\ d.requests = [s.case.requests EXCEPT ![r] =
                             [command |-> command, revision |-> d.revision]]
    BY DEF Applied
  <1>4. new \in Seq(Events) /\ n \in Nat
    BY <1>2 DEF Cases
  <1>5. t = [case |-> CloneCase(d), audit |-> s.audit \o new]
        /\ t.case = CloneCase(d) /\ t.audit = s.audit \o new
    BY DEF Saved
  <1> HIDE DEF t, new, n
  <1>6. /\ t.case \in Cases /\ t.case.status = d.status
        /\ t.case.revision = d.revision
        /\ t.case.requests = d.requests /\ t.case.pendingEvents = <<>>
    BY <1>2, <1>5, CloneCaseFields
  <1>7. CaseInv(t.case) /\ Evaluated(t.case) /\ Found(t.case) = Found(d)
    BY <1>2, <1>5, CloneCaseKeeps
  <1>8. s.case.revision \in Nat /\ Len(s.audit) = s.case.revision
    BY <1>1 DEF Contiguous, Cases
  <1>9. /\ t.audit \in Seq(Events)
        /\ Len(t.audit) = Len(s.audit) + n
        /\ \A i \in 1 .. Len(s.audit) : t.audit[i] = s.audit[i]
        /\ \A i \in 1 .. n : t.audit[Len(s.audit) + i] = new[i]
    BY <1>1, <1>4, <1>5, LongerTimeline DEF n
  <1>10. t \in Snapshots
    BY <1>5, <1>6, <1>9 DEF Snapshots
  <1>11. TimelineTells(t)
    <2>1. Len(t.audit) = t.case.revision
      BY <1>2, <1>6, <1>8, <1>9
    <2>2. ASSUME NEW i \in DOMAIN t.audit PROVE t.audit[i].revision = i
      <3>1. i \in 1 .. Len(s.audit) + n
        BY <1>4, <1>8, <1>9
      <3>2. CASE i \in 1 .. Len(s.audit)
        BY <1>1, <1>9, <3>2 DEF Contiguous
      <3>3. CASE i \notin 1 .. Len(s.audit)
        <4>1. i - Len(s.audit) \in 1 .. n /\ i = Len(s.audit) + (i - Len(s.audit))
          BY <1>4, <1>8, <3>1, <3>3
        <4> QED
          BY <1>2, <1>8, <1>9, <4>1
      <3> QED
        BY <3>2, <3>3
    <2>3. t.audit[Len(t.audit)] = new[n]
      BY <1>2, <1>4, <1>8, <1>9
    <2>4. StatusTold(t) = StatusAfterLast(new[n].type, d)
      BY <1>7, <2>3 DEF StatusTold, StatusAfterLast
    <2> QED
      BY <1>2, <1>6, <2>1, <2>2, <2>4 DEF TimelineTells, Contiguous
  <1>12. /\ t.case.requests[r] = [command |-> command, revision |-> Len(t.audit)]
         /\ \A q \in Requests \ {r} : t.case.requests[q] = s.case.requests[q]
         /\ Processed(t.case) = Processed(s.case) \cup {r}
    <2>1. s.case.requests \in [Requests -> IdempotencyRecords]
      BY <1>1 DEF Cases
    <2>2. Len(t.audit) = d.revision
      BY <1>2, <1>8, <1>9
    <2>3. /\ t.case.requests[r] = [command |-> command, revision |-> Len(t.audit)]
          /\ \A q \in Requests \ {r} : t.case.requests[q] = s.case.requests[q]
      BY <1>3, <1>6, <2>1, <2>2
    <2> QED
      BY <1>3, <2>3 DEF Processed
  <1>13. \A q \in Processed(s.case) :
           /\ s.case.requests[q].revision \in 1 .. Len(s.audit)
           /\ s.audit[s.case.requests[q].revision].type
                \in ClosingEvents[s.case.requests[q].command]
    BY <1>1 DEF AppliedOnce
  <1>14. r \notin Processed(s.case)
    BY DEF IsNewRequest
  <1>15. AppliedOnce(t)
    <2>1. ASSUME NEW q \in Processed(t.case)
          PROVE  /\ t.case.requests[q].revision \in DOMAIN t.audit
                 /\ t.audit[t.case.requests[q].revision].type
                      \in ClosingEvents[t.case.requests[q].command]
      <3>1. CASE q = r
        <4>1. Len(t.audit) \in DOMAIN t.audit /\ t.audit[Len(t.audit)] = new[n]
          BY <1>2, <1>4, <1>8, <1>9
        <4> QED
          BY <1>3, <1>12, <3>1, <4>1
      <3>2. CASE q # r
        <4>1. q \in Processed(s.case) /\ t.case.requests[q] = s.case.requests[q]
          BY <1>12, <3>2 DEF Processed
        <4>2. /\ s.case.requests[q].revision \in 1 .. Len(s.audit)
              /\ s.audit[s.case.requests[q].revision].type
                   \in ClosingEvents[s.case.requests[q].command]
          BY <1>13, <4>1
        <4>3. 1 .. Len(s.audit) \subseteq DOMAIN t.audit
          BY <1>4, <1>8, <1>9
        <4> QED
          BY <1>9, <4>1, <4>2, <4>3
      <3> QED
        BY <3>1, <3>2
    <2>2. ASSUME NEW i \in DOMAIN t.audit,
                 t.audit[i].type # "evaluation.requested"
          PROVE  \E q \in Processed(t.case) :
                   /\ t.case.requests[q].revision = i
                   /\ \A p \in Processed(t.case) :
                        t.case.requests[p].revision = i => p = q
      <3>1. i \in 1 .. Len(s.audit) + n
        BY <1>4, <1>8, <1>9
      <3>2. CASE i \in 1 .. Len(s.audit)
        <4>1. i \in DOMAIN s.audit /\ s.audit[i].type # "evaluation.requested"
          BY <1>1, <1>9, <2>2, <3>2
        <4>2. PICK q \in Processed(s.case) :
                /\ s.case.requests[q].revision = i
                /\ \A p \in Processed(s.case) : s.case.requests[p].revision = i => p = q
          BY <1>1, <4>1 DEF AppliedOnce
        <4>3. t.case.requests[r].revision # i
          BY <1>2, <1>4, <1>8, <1>9, <1>12, <3>2
        <4>4. \A p \in Processed(s.case) : t.case.requests[p] = s.case.requests[p]
          BY <1>12, <1>14 DEF Processed
        <4> QED
          BY <1>12, <4>2, <4>3, <4>4
      <3>3. CASE i \notin 1 .. Len(s.audit)
        <4>1. /\ i - Len(s.audit) \in 1 .. n
              /\ t.audit[i] = new[i - Len(s.audit)]
          <5>1. i - Len(s.audit) \in 1 .. n /\ i = Len(s.audit) + (i - Len(s.audit))
            BY <1>4, <1>8, <3>1, <3>3
          <5> QED
            BY <1>9, <5>1
        <4>2. i - Len(s.audit) = n
          BY <1>2, <1>4, <2>2, <4>1
        <4>3. i = Len(t.audit)
          BY <1>4, <1>8, <1>9, <3>1, <4>2
        <4>4. \A p \in Processed(s.case) : t.case.requests[p].revision # i
          BY <1>8, <1>12, <1>13, <1>14, <3>3 DEF Processed
        <4> QED
          BY <1>12, <4>3, <4>4
      <3> QED
        BY <3>2, <3>3
    <2> QED
      BY <2>1, <2>2 DEF AppliedOnce
  <1>16. Continues(s, t)
    <2>1. Len(s.audit) < Len(t.audit)
      BY <1>2, <1>4, <1>8, <1>9
    <2>2. \A i \in DOMAIN s.audit : t.audit[i] = s.audit[i]
      BY <1>1, <1>9
    <2>3. \A q \in Processed(s.case) : t.case.requests[q] = s.case.requests[q]
      BY <1>12, <1>14 DEF Processed
    <2> QED
      BY <1>2, <2>1, <2>2, <2>3 DEF Continues
  <1> QED
    BY <1>6, <1>7, <1>10, <1>11, <1>15, <1>16 DEF SnapshotInv, t

----------------------------------------------------------------------------
(* What the invariant of a case says about its releases and its future.    *)

LEMMA InvJustified ==
  ASSUME NEW c \in Cases, CaseInv(c), Evaluated(c)
  PROVE  Justified(c)
  <1>1. CertifiedIfReleased(c) /\ JudgedOnEvidence(c) /\ c.revision > 0
    BY DEF CaseInv
  <1>2. HasCertificate(c) <=> c.status = "released"
    <2>1. NoCertificate.revision = 0
      BY DEF NoCertificate
    <2> QED
      BY <1>1, <2>1 DEF HasCertificate, CertifiedIfReleased, Cases
  <1>3. SUFFICES ASSUME c.status = "released"
                 PROVE  /\ c.certificate.revision = c.revision
                        /\ c.certificate.planDigest = PlanDigest(c)
                        /\ c.plan \in EvaluablePlans
                        /\ Found(c) = RuleFindings[c.plan]
                        /\ \A f \in Found(c) :
                             /\ c.findings[f].status = "accepted"
                             /\ c.findings[f].evidence # None
    BY <1>2 DEF Justified
  <1> QED
    BY <1>1, <1>3
    DEF CertifiedIfReleased, AllAccepted, JudgedOnEvidence, Evaluated

LEMMA InvHasNextStep ==
  ASSUME NEW c \in Cases, CaseInv(c), Evaluated(c), ValidPlans # {}
  PROVE  HasNextStep(c)
  <1>1. c.status \in CaseStatuses /\ c.status # "pending_evaluation"
    BY DEF Cases, Evaluated
  <1>2. \A f \in Found(c) : f \in Findings /\ c.findings[f].status \in FindingStatuses
    BY DEF Found, Cases, FindingRecords
  <1>3. CASE c.status = "draft"
    BY <1>3 DEF HasNextStep, CanReplacePlan
  <1>4. CASE c.status = "remediation"
    <2>1. CASE CanRequestReview(c)
      BY <2>1 DEF HasNextStep
    <2>2. CASE ~ CanRequestReview(c)
      <3>1. PICK f \in Found(c) :
              \/ c.findings[f].evidence = None
              \/ c.findings[f].status \notin {"evidence_submitted", "accepted"}
        BY <1>4, <2>2 DEF CanRequestReview
      <3>2. c.findings[f].status # "accepted"
        BY <3>1 DEF CaseInv, JudgedOnEvidence
      <3> QED
        BY <1>2, <1>4, <3>1, <3>2 DEF HasNextStep, CanAddEvidence
    <2> QED
      BY <2>1, <2>2
  <1>5. CASE c.status = "pending_review"
    <2>1. CASE AllAccepted(c)
      BY <1>5, <2>1 DEF HasNextStep, CanNewCertificate
    <2>2. CASE ~ AllAccepted(c)
      <3>1. PICK f \in Found(c) : c.findings[f].status # "accepted"
        BY <2>2 DEF AllAccepted
      <3>2. c.findings[f].evidence # None
        BY <1>5 DEF CaseInv, Reviewable
      <3> QED
        BY <1>2, <1>5, <3>1, <3>2 DEF HasNextStep, CanReviewFinding
    <2> QED
      BY <2>1, <2>2
  <1>6. CASE c.status = "released"
    BY <1>6 DEF HasNextStep
  <1> QED
    BY <1>1, <1>3, <1>4, <1>5, <1>6 DEF CaseStatuses

----------------------------------------------------------------------------
(* What validateExisting checks of a case: its evidence is among the files *)
(* there are, and its certificate verifies.                                *)

Backed(c, files) ==
  /\ \A f \in Findings : c.findings[f].evidence \in files \cup {None}
  /\ HasCertificate(c) => VerifyCertificate(c.certificate)

LEMMA CreatedCaseBacked ==
  ASSUME NEW key \in CaseKeys, NEW files
  PROVE  Backed(CreatedCase(key), files)
  <1> DEFINE c == CreatedCase(key)
  <1>1. /\ c.certificate = NoCertificate
        /\ c.findings = [f \in Findings |-> NoFinding]
    BY CreatedCaseFields
  <1>2. NoFinding.evidence = None
    BY DEF NoFinding
  <1> HIDE DEF c
  <1>3. \A f \in Findings : c.findings[f].evidence = None
    BY <1>1, <1>2
  <1> QED
    BY <1>1, <1>3 DEF Backed, HasCertificate, c

LEMMA RecordRequestBacked ==
  ASSUME NEW m \in Cases, NEW r \in Requests, NEW command \in CommandNames,
         NEW files, Backed(m, files)
  PROVE  Backed(RecordRequest(m, r, command), files)
  BY RecordRequestFields DEF Backed, HasCertificate

LEMMA ReplacePlanBacked ==
  ASSUME NEW c \in Cases, NEW r \in Requests, NEW plan \in Plans,
         NEW d \in ReplacePlanResults(c, r, plan), NEW files, Backed(c, files)
  PROVE  Backed(d, files)
  <1>1. d = RecordRequest(ReplacePlan(c, plan), r, "replace_plan")
    BY DEF ReplacePlanResults
  <1>2. ReplacePlan(c, plan) \in Cases /\ Backed(ReplacePlan(c, plan), files)
    BY ReplacePlanFields DEF Backed, HasCertificate
  <1> QED
    BY <1>1, <1>2, RecordRequestBacked DEF CommandNames

LEMMA EvaluateBacked ==
  ASSUME NEW c \in Cases, NEW r \in Requests, NEW d \in EvaluateResults(c, r),
         NEW files, Backed(c, files)
  PROVE  Backed(d, files)
  <1> DEFINE asked == SubmitEvaluation(c)
             found == RuleFindings[c.plan]
             m == ApplyEvaluation(asked, found)
  <1>1. c.plan \in EvaluablePlans /\ d = RecordRequest(m, r, "evaluate")
    BY DEF EvaluateResults
  <1>2. found \in SUBSET Findings
    BY <1>1, CommandsAssumption DEF CommandsAssumption
  <1>3. asked \in Cases /\ asked.certificate = c.certificate
    BY SubmitEvaluationFields
  <1> HIDE DEF asked, found
  <1>4. /\ m \in Cases /\ m.certificate = c.certificate
        /\ m.findings = [f \in Findings |-> IF f \in found THEN OpenFinding ELSE NoFinding]
    BY <1>2, <1>3, ApplyEvaluationFields
  <1> HIDE DEF m
  <1>5. \A f \in Findings : m.findings[f].evidence = None
    BY <1>4 DEF OpenFinding, NoFinding
  <1>6. Backed(m, files)
    BY <1>4, <1>5 DEF Backed, HasCertificate
  <1> QED
    BY <1>1, <1>4, <1>6, RecordRequestBacked DEF CommandNames

LEMMA EvidenceBacked ==
  ASSUME NEW c \in Cases, NEW r \in Requests, NEW f \in Findings,
         NEW content \in Contents, NEW note \in BOOLEAN,
         NEW d \in EvidenceResults(c, r, f, content, note),
         NEW files, Backed(c, files), content \in files
  PROVE  Backed(d, files)
  <1> DEFINE m == AddEvidence(c, f, content)
  <1>1. d = RecordRequest(m, r, "submit_evidence")
    BY DEF EvidenceResults
  <1>2. /\ m \in Cases /\ m.certificate = c.certificate
        /\ m.findings[f] = [status |-> "evidence_submitted",
                              evidence |-> content, reviewer |-> None]
        /\ \A g \in Findings \ {f} : m.findings[g] = c.findings[g]
    BY AddEvidenceFields
  <1> HIDE DEF m
  <1>3. \A g \in Findings : m.findings[g].evidence \in files \cup {None}
    BY <1>2 DEF Backed
  <1>4. Backed(m, files)
    BY <1>2, <1>3 DEF Backed, HasCertificate
  <1> QED
    BY <1>1, <1>2, <1>4, RecordRequestBacked DEF CommandNames

LEMMA RequestReviewBacked ==
  ASSUME NEW c \in Cases, NEW r \in Requests, NEW d \in RequestReviewResults(c, r),
         NEW files, Backed(c, files)
  PROVE  Backed(d, files)
  <1>1. d = RecordRequest(RequestReview(c), r, "request_review")
    BY DEF RequestReviewResults
  <1>2. RequestReview(c) \in Cases /\ Backed(RequestReview(c), files)
    BY RequestReviewFields DEF Backed, HasCertificate
  <1> QED
    BY <1>1, <1>2, RecordRequestBacked DEF CommandNames

LEMMA ReviewFindingBacked ==
  ASSUME NEW c \in Cases, NEW r \in Requests, NEW f \in Findings,
         NEW verdict \in Verdicts, NEW note \in BOOLEAN, NEW who \in Names,
         NEW d \in ReviewFindingResults(c, r, f, verdict, note, who),
         NEW files, Backed(c, files)
  PROVE  Backed(d, files)
  <1> DEFINE m == ReviewFinding(c, f, verdict, who)
  <1>1. d = RecordRequest(m, r, "review_finding")
    BY DEF ReviewFindingResults
  <1>2. /\ m \in Cases /\ m.certificate = c.certificate
        /\ m.findings[f] = Judged(c.findings[f], verdict, who)
        /\ \A g \in Findings \ {f} : m.findings[g] = c.findings[g]
    BY ReviewFindingFields
  <1> HIDE DEF m
  <1>3. c.findings[f] \in FindingRecords
    BY DEF Cases
  <1>4. m.findings[f].evidence = c.findings[f].evidence
    BY <1>2, <1>3, JudgedFields
  <1>5. \A g \in Findings : m.findings[g].evidence = c.findings[g].evidence
    BY <1>2, <1>4
  <1>6. Backed(m, files)
    BY <1>2, <1>5 DEF Backed, HasCertificate
  <1> QED
    BY <1>1, <1>2, <1>6, RecordRequestBacked DEF CommandNames

LEMMA SignBacked ==
  ASSUME NEW c \in Cases, NEW r \in Requests, NEW who \in Names,
         NEW d \in SignResults(c, r, who), NEW files, Backed(c, files)
  PROVE  Backed(d, files)
  <1> DEFINE cert == NewCertificate(c, who)
             m == MarkReleased(c, cert)
  <1>1. d = RecordRequest(m, r, "sign")
    BY DEF SignResults
  <1>2. cert \in Certificates /\ VerifyCertificate(cert)
    BY NewCertificateFields
  <1> HIDE DEF cert
  <1>3. m \in Cases /\ m.certificate = cert /\ m.findings = c.findings
    BY <1>2, MarkReleasedFields
  <1> HIDE DEF m
  <1>4. Backed(m, files)
    BY <1>2, <1>3 DEF Backed
  <1> QED
    BY <1>1, <1>3, <1>4, RecordRequestBacked DEF CommandNames

(* JSON keeps a case backed if it keeps the signer's name.                 *)
LEMMA CloneCaseBacked ==
  ASSUME NEW c \in Cases, NEW files, Backed(c, files),
         \A n \in Names : JsonText[n] = n
  PROVE  Backed(CloneCase(c), files)
  <1> DEFINE d == CloneCase(c)
  <1>1. /\ \A f \in Findings : d.findings[f].evidence = c.findings[f].evidence
        /\ d.certificate = [c.certificate EXCEPT !.signer = NameAfterJson(@)]
    BY CloneCaseFields
  <1> HIDE DEF d
  <1>2. c.certificate \in Certificates
    BY DEF Cases
  <1>3. NameAfterJson(c.certificate.signer) = c.certificate.signer
    BY <1>2 DEF Certificates, NameAfterJson
  <1>4. d.certificate = c.certificate
    BY <1>1, <1>2, <1>3 DEF Certificates
  <1> QED
    BY <1>1, <1>4 DEF Backed, HasCertificate, d

=============================================================================
