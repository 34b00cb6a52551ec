------------------------ MODULE CaseLifecycleProofs ------------------------
(***************************************************************************)
(* The properties of CaseLifecycle for every set of plans, findings, files *)
(* and names and for every bound.                                          *)
(*                                                                         *)
(* ReleaseIsJustified is not inductive: that the certificate a caller may  *)
(* still hold covers this plan and seals itself (IssuedInv) and that what  *)
(* is accepted has evidence (CaseInv) must be known before the release.    *)
(***************************************************************************)
EXTENDS CaseLifecycle, ClearanceLemmas

(* A certificate is issued only after the plan was locked by an evaluation,*)
(* so its digest stays the digest of the plan.                             *)
IssuedInv ==
  issued # NoCertificate =>
    /\ VerifyCertificate(issued)
    /\ issued.planDigest = PlanDigest(case)
    /\ case.status \in {"remediation", "pending_review", "released"}

CertificateVerifies ==
  case.status = "released" => VerifyCertificate(case.certificate)

IInv ==
  /\ TypeOK
  /\ CaseInv(case)
  /\ IssuedInv
  /\ CertificateVerifies

----------------------------------------------------------------------------
(* The invariant holds first and is kept by every call.                    *)

LEMMA InitInv == Init => IInv
  BY NewCaseFields, NewCaseInv, NoCertificateType
  DEF Init, IInv, TypeOK, IssuedInv, CertificateVerifies

LEMMA ReplacePlanInv ==
  ASSUME IInv, NEW plan \in Plans, CallReplacePlan(plan)
  PROVE  IInv'
  <1>1. /\ case \in Cases /\ CaseInv(case) /\ CanReplacePlan(case, plan)
        /\ case' = ReplacePlan(case, plan) /\ issued' = issued
        /\ case.status = "draft"
    BY DEF CallReplacePlan, IInv, TypeOK, CanReplacePlan
  <1>2. CaseInv(case')
    BY <1>1, ReplacePlanKeeps
  <1>3. case' \in Cases /\ case'.status = "draft"
    BY <1>1, ReplacePlanFields
  <1> QED
    BY <1>1, <1>2, <1>3 DEF IInv, TypeOK, IssuedInv, CertificateVerifies

LEMMA SubmitEvaluationInv ==
  ASSUME IInv, CallSubmitEvaluation
  PROVE  IInv'
  <1>1. /\ case \in Cases /\ CaseInv(case) /\ CanSubmitEvaluation(case)
        /\ case' = SubmitEvaluation(case) /\ issued' = issued
        /\ case.status = "draft"
    BY DEF CallSubmitEvaluation, IInv, TypeOK, CanSubmitEvaluation
  <1>2. CaseInv(case')
    BY <1>1, SubmitEvaluationKeeps
  <1>3. case' \in Cases /\ case'.status = "pending_evaluation"
    BY <1>1, SubmitEvaluationFields
  <1> QED
    BY <1>1, <1>2, <1>3 DEF IInv, TypeOK, IssuedInv, CertificateVerifies

LEMMA ApplyEvaluationInv ==
  ASSUME IInv, NEW found \in SUBSET Findings, CallApplyEvaluation(found)
  PROVE  IInv'
  <1>1. /\ case \in Cases /\ CaseInv(case) /\ CanApplyEvaluation(case)
        /\ case' = ApplyEvaluation(case, found) /\ issued' = issued
        /\ case.status = "pending_evaluation"
    BY DEF CallApplyEvaluation, IInv, TypeOK, CanApplyEvaluation
  <1>2. CaseInv(case')
    BY <1>1, ApplyEvaluationKeeps
  <1>3. case' \in Cases /\ case'.status # "released"
    BY <1>1, ApplyEvaluationFields
  <1> QED
    BY <1>1, <1>2, <1>3 DEF IInv, TypeOK, IssuedInv, CertificateVerifies

LEMMA AddEvidenceInv ==
  ASSUME IInv, NEW f \in Findings, NEW content \in Contents, NEW note \in BOOLEAN,
         CallAddEvidence(f, content, note)
  PROVE  IInv'
  <1>1. /\ case \in Cases /\ CaseInv(case) /\ CanAddEvidence(case, f, note)
        /\ case' = AddEvidence(case, f, content) /\ issued' = issued
        /\ case.status = "remediation"
    BY DEF CallAddEvidence, IInv, TypeOK, CanAddEvidence
  <1>2. CaseInv(case')
    BY <1>1, AddEvidenceKeeps
  <1>3. /\ case' \in Cases /\ case'.status = "remediation"
        /\ case'.plan = case.plan /\ case'.ruleVersion = case.ruleVersion
    BY <1>1, AddEvidenceFields
  <1> QED
    BY <1>1, <1>2, <1>3
    DEF IInv, TypeOK, IssuedInv, CertificateVerifies, PlanDigest

LEMMA RequestReviewInv ==
  ASSUME IInv, CallRequestReview
  PROVE  IInv'
  <1>1. /\ case \in Cases /\ CaseInv(case) /\ CanRequestReview(case)
        /\ case' = RequestReview(case) /\ issued' = issued
    BY DEF CallRequestReview, IInv, TypeOK
  <1>2. CaseInv(case')
    BY <1>1, RequestReviewKeeps
  <1>3. /\ case' \in Cases /\ case'.status = "pending_review"
        /\ case'.plan = case.plan /\ case'.ruleVersion = case.ruleVersion
    BY <1>1, RequestReviewFields
  <1> QED
    BY <1>1, <1>2, <1>3
    DEF IInv, TypeOK, IssuedInv, CertificateVerifies, PlanDigest

LEMMA ReviewFindingInv ==
  ASSUME IInv, NEW f \in Findings, NEW verdict \in Verdicts, NEW note \in BOOLEAN,
         NEW reviewer \in Names, CallReviewFinding(f, verdict, note, reviewer)
  PROVE  IInv'
  <1>1. /\ case \in Cases /\ CaseInv(case)
        /\ CanReviewFinding(case, f, verdict, note)
        /\ case' = ReviewFinding(case, f, verdict, reviewer) /\ issued' = issued
        /\ case.status = "pending_review"
    BY DEF CallReviewFinding, IInv, TypeOK, CanReviewFinding
  <1>2. CaseInv(case')
    BY <1>1, ReviewFindingKeeps
  <1>3. /\ case' \in Cases
        /\ case'.status = IF verdict = "accepted" THEN case.status ELSE "remediation"
        /\ case'.plan = case.plan /\ case'.ruleVersion = case.ruleVersion
    BY <1>1, ReviewFindingFields
  <1> QED
    BY <1>1, <1>2, <1>3
    DEF IInv, TypeOK, IssuedInv, CertificateVerifies, PlanDigest

LEMMA NewCertificateInv ==
  ASSUME IInv, NEW signer \in Names, CallNewCertificate(signer)
  PROVE  IInv'
  <1>1. /\ case \in Cases /\ case' = case
        /\ issued' = NewCertificate(case, signer)
        /\ case.status = "pending_review"
    BY DEF CallNewCertificate, CanNewCertificate, IInv, TypeOK
  <1>2. /\ issued' \in Certificates /\ VerifyCertificate(issued')
        /\ issued'.planDigest = PlanDigest(case)
    BY <1>1, NewCertificateFields
  <1> QED
    BY <1>1, <1>2 DEF IInv, TypeOK, IssuedInv, CertificateVerifies

LEMMA MarkReleasedInv ==
  ASSUME IInv, CallMarkReleased
  PROVE  IInv'
  <1>1. /\ case \in Cases /\ CaseInv(case) /\ issued \in Certificates
        /\ CanMarkReleased(case, issued)
        /\ case' = MarkReleased(case, issued) /\ issued' = issued
        /\ issued.planDigest = PlanDigest(case) /\ VerifyCertificate(issued)
    BY DEF CallMarkReleased, IInv, TypeOK, IssuedInv
  <1>2. CaseInv(case')
    BY <1>1, MarkReleasedKeeps
  <1>3. /\ case' \in Cases /\ case'.status = "released"
        /\ case'.certificate = issued
        /\ case'.plan = case.plan /\ case'.ruleVersion = case.ruleVersion
    BY <1>1, MarkReleasedFields
  <1> QED
    BY <1>1, <1>2, <1>3
    DEF IInv, TypeOK, IssuedInv, CertificateVerifies, PlanDigest

LEMMA NextInv == IInv /\ [Next]_vars => IInv'
  <1> SUFFICES ASSUME IInv, [Next]_vars PROVE IInv'
    OBVIOUS
  <1>1. CASE \E plan \in Plans : CallReplacePlan(plan)
    BY <1>1, ReplacePlanInv
  <1>2. CASE CallSubmitEvaluation
    BY <1>2, SubmitEvaluationInv
  <1>3. CASE \E found \in SUBSET Findings : CallApplyEvaluation(found)
    BY <1>3, ApplyEvaluationInv
  <1>4. CASE \E f \in Findings, content \in Contents, note \in BOOLEAN :
               CallAddEvidence(f, content, note)
    BY <1>4, AddEvidenceInv
  <1>5. CASE CallRequestReview
    BY <1>5, RequestReviewInv
  <1>6. CASE \E f \in Findings, verdict \in Verdicts, note \in BOOLEAN, reviewer \in Names :
               CallReviewFinding(f, verdict, note, reviewer)
    BY <1>6, ReviewFindingInv
  <1>7. CASE \E signer \in Names : CallNewCertificate(signer)
    BY <1>7, NewCertificateInv
  <1>8. CASE CallMarkReleased
    BY <1>8, MarkReleasedInv
  <1>9. CASE UNCHANGED vars
    BY <1>9 DEF vars, IInv, TypeOK, IssuedInv, CertificateVerifies
  <1> QED
    BY <1>1, <1>2, <1>3, <1>4, <1>5, <1>6, <1>7, <1>8, <1>9 DEF Next

LEMMA Invariance == Spec => []IInv
  BY InitInv, NextInv, PTL DEF Spec

----------------------------------------------------------------------------
(* What every call leaves standing.                                        *)

LEMMA UnchangedFindingsStand ==
  ASSUME IInv, case' \in Cases, case'.findings = case.findings,
         case.status # "released",
         case.status # "draft" => case'.plan = case.plan
  PROVE  AcceptanceStands /\ EvaluationStands
  <1>1. Found(case') = Found(case)
    BY DEF Found
  <1> QED
    BY <1>1 DEF AcceptanceStands, EvaluationStands

LEMMA StepStands == IInv /\ [Next]_vars => AcceptanceStands /\ EvaluationStands
  <1> SUFFICES ASSUME IInv, [Next]_vars
               PROVE  AcceptanceStands /\ EvaluationStands
    OBVIOUS
  <1> USE DEF IInv, TypeOK
  <1>1. ASSUME NEW plan \in Plans, CallReplacePlan(plan)
        PROVE  AcceptanceStands /\ EvaluationStands
    BY <1>1, ReplacePlanFields, UnchangedFindingsStand
    DEF CallReplacePlan, CanReplacePlan
  <1>2. ASSUME CallSubmitEvaluation
        PROVE  AcceptanceStands /\ EvaluationStands
    BY <1>2, SubmitEvaluationFields, UnchangedFindingsStand
    DEF CallSubmitEvaluation, CanSubmitEvaluation
  <1>3. ASSUME NEW found \in SUBSET Findings, CallApplyEvaluation(found)
        PROVE  AcceptanceStands /\ EvaluationStands
    <2>1. case.status = "pending_evaluation" /\ case'.plan = case.plan
      BY <1>3, ApplyEvaluationFields DEF CallApplyEvaluation, CanApplyEvaluation
    <2>2. \A f \in Findings : case.findings[f].status = "absent"
      BY <2>1 DEF CaseInv, PlanBehindFindings, Found
    <2> QED
      BY <2>1, <2>2 DEF AcceptanceStands, EvaluationStands
  <1>4. ASSUME NEW f \in Findings, NEW content \in Contents, NEW note \in BOOLEAN,
               CallAddEvidence(f, content, note)
        PROVE  AcceptanceStands /\ EvaluationStands
    <2>1. /\ case \in Cases /\ case' = AddEvidence(case, f, content)
          /\ CanAddEvidence(case, f, note)
      BY <1>4 DEF CallAddEvidence
    <2>2. Found(case') = Found(case)
      BY <2>1, AddEvidenceKeeps
    <2>3. /\ case'.plan = case.plan
          /\ \A g \in Findings \ {f} : case'.findings[g] = case.findings[g]
      BY <2>1, AddEvidenceFields
    <2>4. case.status = "remediation" /\ case.findings[f].status # "accepted"
      BY <2>1 DEF CanAddEvidence
    <2> QED
      BY <2>2, <2>3, <2>4 DEF AcceptanceStands, EvaluationStands
  <1>5. ASSUME CallRequestReview
        PROVE  AcceptanceStands /\ EvaluationStands
    BY <1>5, RequestReviewFields, UnchangedFindingsStand
    DEF CallRequestReview, CanRequestReview
  <1>6. ASSUME NEW f \in Findings, NEW verdict \in Verdicts, NEW note \in BOOLEAN,
               NEW reviewer \in Names, CallReviewFinding(f, verdict, note, reviewer)
        PROVE  AcceptanceStands /\ EvaluationStands
    <2>1. /\ case \in Cases /\ case' = ReviewFinding(case, f, verdict, reviewer)
          /\ CanReviewFinding(case, f, verdict, note)
      BY <1>6 DEF CallReviewFinding
    <2>2. Found(case') = Found(case)
      BY <2>1, ReviewFindingKeeps
    <2>3. /\ case'.plan = case.plan
          /\ case'.findings[f] = Judged(case.findings[f], verdict, reviewer)
          /\ \A g \in Findings \ {f} : case'.findings[g] = case.findings[g]
      BY <2>1, ReviewFindingFields
    <2>4. case.findings[f] \in FindingRecords
      BY <2>1 DEF Cases
    <2>5. /\ case'.findings[f].status = verdict
          /\ case'.findings[f].evidence = case.findings[f].evidence
      BY <2>3, <2>4, JudgedFields
    <2>6. /\ case.status = "pending_review"
          /\ case.findings[f].status = "accepted" => verdict = "returned"
      BY <2>1 DEF CanReviewFinding, Verdicts
    <2> QED
      BY <2>2, <2>3, <2>5, <2>6 DEF AcceptanceStands, EvaluationStands
  <1>7. ASSUME NEW signer \in Names, CallNewCertificate(signer)
        PROVE  AcceptanceStands /\ EvaluationStands
    BY <1>7 DEF CallNewCertificate, AcceptanceStands, EvaluationStands
  <1>8. ASSUME CallMarkReleased
        PROVE  AcceptanceStands /\ EvaluationStands
    BY <1>8, MarkReleasedFields, UnchangedFindingsStand
    DEF CallMarkReleased, CanMarkReleased
  <1>9. CASE UNCHANGED vars
    BY <1>9 DEF vars, AcceptanceStands, EvaluationStands
  <1> QED
    BY <1>1, <1>2, <1>3, <1>4, <1>5, <1>6, <1>7, <1>8, <1>9 DEF Next

----------------------------------------------------------------------------
(* The events explain the findings.  Not inductive alone: an evaluation    *)
(* opens findings no event has mentioned, because no event is about a      *)
(* finding the case does not have.                                         *)

EventsAboutFound ==
  \A i \in DOMAIN case.pendingEvents :
    case.pendingEvents[i].finding \in Found(case) \cup {None}

EventsInv == EventsAboutFound /\ EventsExplainFindings

LEMMA OneMoreEvent ==
  ASSUME NEW old \in Seq(Events), NEW e
  PROVE  /\ DOMAIN Append(old, e) = DOMAIN old \cup {Len(old) + 1}
         /\ \A i \in DOMAIN old : Append(old, e)[i] = old[i] /\ i < Len(old) + 1
         /\ Append(old, e)[Len(old) + 1] = e
         /\ Len(old) + 1 \in Nat /\ DOMAIN old \subseteq Nat
  OBVIOUS

(* An event about something else leaves a finding explained.               *)
LEMMA EventElsewhere ==
  ASSUME NEW c \in Cases, NEW d \in Cases, NEW e, NEW f \in Findings,
         d.pendingEvents = Append(c.pendingEvents, e), e.finding # f,
         d.findings[f].status = c.findings[f].status, Explained(c, f)
  PROVE  Explained(d, f)
  <1> DEFINE n == Len(c.pendingEvents) + 1
             about == {i \in DOMAIN c.pendingEvents : c.pendingEvents[i].finding = f}
  <1>1. c.pendingEvents \in Seq(Events)
    BY DEF Cases
  <1>2. /\ DOMAIN d.pendingEvents = DOMAIN c.pendingEvents \cup {n}
        /\ \A i \in DOMAIN c.pendingEvents : d.pendingEvents[i] = c.pendingEvents[i]
        /\ d.pendingEvents[n] = e
    BY <1>1, OneMoreEvent
  <1> HIDE DEF n
  <1>3. about = {i \in DOMAIN d.pendingEvents : d.pendingEvents[i].finding = f}
    BY <1>2
  <1>4. IF about = {} THEN c.findings[f].status = "open"
        ELSE \E last \in about :
               /\ \A i \in about : i <= last
               /\ c.findings[f].status = StatusAfter(c.pendingEvents[last].type)
    BY DEF Explained
  <1>5. \A i \in about : d.pendingEvents[i] = c.pendingEvents[i]
    BY <1>2
  <1> HIDE DEF about
  <1> QED
    BY <1>3, <1>4, <1>5 DEF Explained

(* An event about a finding explains the status it gives it.               *)
LEMMA EventHere ==
  ASSUME NEW c \in Cases, NEW d \in Cases, NEW e, NEW f \in Findings,
         d.pendingEvents = Append(c.pendingEvents, e), e.finding = f,
         d.findings[f].status = StatusAfter(e.type)
  PROVE  Explained(d, f)
  <1> DEFINE n == Len(c.pendingEvents) + 1
             about == {i \in DOMAIN d.pendingEvents : d.pendingEvents[i].finding = f}
  <1>1. c.pendingEvents \in Seq(Events)
    BY DEF Cases
  <1>2. /\ DOMAIN d.pendingEvents = DOMAIN c.pendingEvents \cup {n}
        /\ \A i \in DOMAIN d.pendingEvents : i <= n
        /\ d.pendingEvents[n] = e
    BY <1>1, OneMoreEvent
  <1> HIDE DEF n
  <1>3. n \in about /\ \A i \in about : i <= n
    BY <1>2
  <1> HIDE DEF about
  <1>4. /\ about # {}
        /\ \E last \in about :
             /\ \A i \in about : i <= last
             /\ d.findings[f].status = StatusAfter(d.pendingEvents[last].type)
    BY <1>2, <1>3
  <1> QED
    BY <1>4 DEF Explained, about

(* A call that queues an event about no finding and keeps the findings.    *)
LEMMA EventOfTheCase ==
  ASSUME IInv, EventsInv, NEW e, e.finding = None, case' \in Cases,
         case'.pendingEvents = Append(case.pendingEvents, e),
         case'.findings = case.findings
  PROVE  EventsInv'
  <1>1. case \in Cases /\ case.pendingEvents \in Seq(Events)
    BY DEF IInv, TypeOK, Cases
  <1>2. Found(case') = Found(case) /\ Found(case) \subseteq Findings
    BY DEF Found
  <1>3. EventsAboutFound'
    BY <1>1, <1>2, OneMoreEvent DEF EventsInv, EventsAboutFound
  <1>4. \A f \in Found(case') : Explained(case', f)
    BY <1>1, <1>2, NoneFacts, EventElsewhere DEF EventsInv, EventsExplainFindings
  <1> QED
    BY <1>3, <1>4 DEF EventsInv, EventsExplainFindings

(* A call that queues an event about f and gives f the status it tells.    *)
LEMMA EventOfAFinding ==
  ASSUME IInv, EventsInv, NEW f \in Found(case), NEW e, e.finding = f,
         case' \in Cases, Found(case') = Found(case),
         case'.pendingEvents = Append(case.pendingEvents, e),
         case'.findings[f].status = StatusAfter(e.type),
         \A g \in Findings \ {f} : case'.findings[g] = case.findings[g]
  PROVE  EventsInv'
  <1>1. case \in Cases /\ case.pendingEvents \in Seq(Events)
    BY DEF IInv, TypeOK, Cases
  <1>2. Found(case) \subseteq Findings
    BY DEF Found
  <1>3. EventsAboutFound'
    BY <1>1, OneMoreEvent DEF EventsInv, EventsAboutFound
  <1>4. ASSUME NEW g \in Found(case') PROVE Explained(case', g)
    <2>1. CASE g = f
      BY <1>1, <1>2, <2>1, EventHere
    <2>2. CASE g # f
      <3>1. case'.findings[g].status = case.findings[g].status /\ g \in Findings
        BY <1>2, <2>2
      <3>2. Explained(case, g)
        BY DEF EventsInv, EventsExplainFindings
      <3> QED
        BY <1>1, <2>2, <3>1, <3>2, EventElsewhere
    <2> QED
      BY <2>1, <2>2
  <1> QED
    BY <1>3, <1>4 DEF EventsInv, EventsExplainFindings

LEMMA ApplyEvaluationEvents ==
  ASSUME IInv, EventsInv, NEW found \in SUBSET Findings, CallApplyEvaluation(found)
  PROVE  EventsInv'
  <1> DEFINE e == Event(case.revision + 1, "evaluation.completed", None)
  <1>1. /\ case \in Cases /\ case.pendingEvents \in Seq(Events)
        /\ case' = ApplyEvaluation(case, found)
        /\ case.status = "pending_evaluation"
    BY DEF CallApplyEvaluation, CanApplyEvaluation, IInv, TypeOK, Cases
  <1>2. Found(case) = {}
    BY <1>1 DEF IInv, CaseInv, PlanBehindFindings
  <1>3. /\ case'.pendingEvents = Append(case.pendingEvents, e)
        /\ case'.findings = [f \in Findings |->
                               IF f \in found THEN OpenFinding ELSE NoFinding]
        /\ Found(case') = found
    BY <1>1, ApplyEvaluationFields, ApplyEvaluationFound
  <1>4. e.finding = None
    BY DEF Event
  <1> HIDE DEF e
  <1>5. \A i \in DOMAIN case'.pendingEvents : case'.pendingEvents[i].finding = None
    BY <1>1, <1>2, <1>3, <1>4, OneMoreEvent DEF EventsInv, EventsAboutFound
  <1>6. \A f \in found : case'.findings[f].status = "open"
    BY <1>3 DEF OpenFinding
  <1>7. \A f \in found : {i \in DOMAIN case'.pendingEvents :
                           case'.pendingEvents[i].finding = f} = {}
    BY <1>5, NoneFacts
  <1>8. \A f \in found : Explained(case', f)
    BY <1>6, <1>7 DEF Explained
  <1> QED
    BY <1>3, <1>5, <1>8 DEF EventsInv, EventsAboutFound, EventsExplainFindings

LEMMA EventsStep ==
  ASSUME IInv, EventsInv, [Next]_vars
  PROVE  EventsInv'
  <1>0. case \in Cases /\ issued \in Certificates
    BY DEF IInv, TypeOK
  <1> DEFINE e(type, f) == Event(case.revision + 1, type, f)
  <1>1. ASSUME NEW plan \in Plans, CallReplacePlan(plan)
        PROVE  EventsInv'
    <2>1. /\ case' \in Cases /\ case'.findings = case.findings
          /\ case'.pendingEvents = Append(case.pendingEvents, e("plan.updated", None))
      BY <1>0, <1>1, ReplacePlanFields DEF CallReplacePlan
    <2>2. e("plan.updated", None).finding = None
      BY DEF Event
    <2> QED
      BY <2>1, <2>2, EventOfTheCase
  <1>2. ASSUME CallSubmitEvaluation
        PROVE  EventsInv'
    <2>1. /\ case' \in Cases /\ case'.findings = case.findings
          /\ case'.pendingEvents =
               Append(case.pendingEvents, e("evaluation.requested", None))
      BY <1>0, <1>2, SubmitEvaluationFields DEF CallSubmitEvaluation
    <2>2. e("evaluation.requested", None).finding = None
      BY DEF Event
    <2> QED
      BY <2>1, <2>2, EventOfTheCase
  <1>3. ASSUME NEW found \in SUBSET Findings, CallApplyEvaluation(found)
        PROVE  EventsInv'
    BY <1>3, ApplyEvaluationEvents
  <1>4. ASSUME NEW f \in Findings, NEW content \in Contents, NEW note \in BOOLEAN,
               CallAddEvidence(f, content, note)
        PROVE  EventsInv'
    <2>1. CanAddEvidence(case, f, note) /\ case' = AddEvidence(case, f, content)
      BY <1>4 DEF CallAddEvidence
    <2>2. f \in Found(case) /\ Found(case') = Found(case)
      BY <1>0, <2>1, AddEvidenceKeeps DEF IInv, CanAddEvidence
    <2>3. /\ case' \in Cases
          /\ case'.findings[f] = [status |-> "evidence_submitted",
                                   evidence |-> content, reviewer |-> None]
          /\ \A g \in Findings \ {f} : case'.findings[g] = case.findings[g]
          /\ case'.pendingEvents =
               Append(case.pendingEvents, e("evidence.submitted", f))
      BY <1>0, <2>1, AddEvidenceFields
    <2>4. /\ e("evidence.submitted", f).finding = f
          /\ case'.findings[f].status = StatusAfter(e("evidence.submitted", f).type)
      BY <2>3 DEF Event, StatusAfter
    <2> QED
      BY <2>2, <2>3, <2>4, EventOfAFinding
  <1>5. ASSUME CallRequestReview
        PROVE  EventsInv'
    <2>1. /\ case' \in Cases /\ case'.findings = case.findings
          /\ case'.pendingEvents =
               Append(case.pendingEvents, e("review.requested", None))
      BY <1>0, <1>5, RequestReviewFields DEF CallRequestReview
    <2>2. e("review.requested", None).finding = None
      BY DEF Event
    <2> QED
      BY <2>1, <2>2, EventOfTheCase
  <1>6. ASSUME NEW f \in Findings, NEW verdict \in Verdicts, NEW note \in BOOLEAN,
               NEW reviewer \in Names, CallReviewFinding(f, verdict, note, reviewer)
        PROVE  EventsInv'
    <2>1. /\ CanReviewFinding(case, f, verdict, note)
          /\ case' = ReviewFinding(case, f, verdict, reviewer)
      BY <1>6 DEF CallReviewFinding
    <2>2. f \in Found(case) /\ Found(case') = Found(case)
      BY <1>0, <2>1, ReviewFindingKeeps DEF IInv, CanReviewFinding
    <2>3. /\ case' \in Cases
          /\ case'.findings[f] = Judged(case.findings[f], verdict, reviewer)
          /\ \A g \in Findings \ {f} : case'.findings[g] = case.findings[g]
          /\ case'.pendingEvents =
               Append(case.pendingEvents, e(ReviewEvent(verdict), f))
      BY <1>0, <2>1, ReviewFindingFields
    <2>4. case'.findings[f].status = verdict
      BY <1>0, <2>3, JudgedFields DEF Cases
    <2>5. /\ e(ReviewEvent(verdict), f).finding = f
          /\ e(ReviewEvent(verdict), f).type = ReviewEvent(verdict)
      BY DEF Event
    <2>6. StatusAfter(ReviewEvent(verdict)) = verdict
      BY DEF StatusAfter, ReviewEvent, Verdicts
    <2> QED
      BY <2>2, <2>3, <2>4, <2>5, <2>6, EventOfAFinding
  <1>7. ASSUME NEW signer \in Names, CallNewCertificate(signer)
        PROVE  EventsInv'
    BY <1>7 DEF CallNewCertificate, EventsInv, EventsAboutFound, EventsExplainFindings
  <1>8. ASSUME CallMarkReleased
        PROVE  EventsInv'
    <2>1. /\ case' \in Cases /\ case'.findings = case.findings
          /\ case'.pendingEvents = Append(case.pendingEvents, e("case.released", None))
      BY <1>0, <1>8, MarkReleasedFields DEF CallMarkReleased
    <2>2. e("case.released", None).finding = None
      BY DEF Event
    <2> QED
      BY <2>1, <2>2, EventOfTheCase
  <1>9. CASE UNCHANGED vars
    BY <1>9 DEF vars, EventsInv, EventsAboutFound, EventsExplainFindings
  <1> QED
    BY <1>1, <1>2, <1>3, <1>4, <1>5, <1>6, <1>7, <1>8, <1>9 DEF Next

----------------------------------------------------------------------------
(* The theorems.                                                           *)

(* The object and the certificate a caller holds keep their types.         *)
THEOREM TypeCorrect == Spec => []TypeOK
  <1>1. IInv => TypeOK
    BY DEF IInv
  <1> QED
    BY <1>1, Invariance, PTL

(* A case is only released on accepted evidence, by a seal over its last   *)
(* revision and its plan, however many certificates were issued before.    *)
THEOREM ReleaseJustified == Spec => []ReleaseIsJustified
  <1>1. IInv => ReleaseIsJustified
    BY DEF IInv, ReleaseIsJustified, CaseInv, CertifiedIfReleased, AllAccepted,
           JudgedOnEvidence, PlanBehindFindings, PlanDigest, CertificateVerifies
  <1> QED
    BY <1>1, Invariance, PTL

(* The reviewer can judge every finding of a case that waits for review.   *)
THEOREM AlwaysReviewable == Spec => []ReviewableFindings
  <1>1. IInv => ReviewableFindings
    BY DEF IInv, CaseInv, ReviewableFindings
  <1> QED
    BY <1>1, Invariance, PTL

(* Evidence under an acceptance is not replaced: the finding is returned   *)
(* first, with the evidence that was accepted.                             *)
THEOREM AcceptedEvidenceFrozen == Spec => AcceptedEvidenceIsFrozen
  <1>1. IInv /\ [Next]_vars => [AcceptanceStands]_vars
    BY StepStands
  <1> QED
    BY <1>1, Invariance, PTL DEF Spec, AcceptedEvidenceIsFrozen

(* The evaluated plan and its findings stay, and a release is final.       *)
THEOREM EvaluatedPlanLocked == Spec => EvaluatedPlanIsLocked
  <1>1. IInv /\ [Next]_vars => [EvaluationStands]_vars
    BY StepStands
  <1> QED
    BY <1>1, Invariance, PTL DEF Spec, EvaluatedPlanIsLocked

(* The queued events tell the status of every finding.                     *)
THEOREM EventsExplain == Spec => []EventsExplainFindings
  <1>1. Init => EventsInv
    <2> SUFFICES ASSUME Init PROVE EventsInv
      OBVIOUS
    <2>1. /\ case.pendingEvents = <<Event(1, "case.created", None)>>
          /\ case.findings = [f \in Findings |-> NoFinding]
      BY NewCaseFields DEF Init
    <2>2. Found(case) = {}
      BY <2>1 DEF Found, NoFinding
    <2>3. EventsAboutFound
      BY <2>1 DEF EventsAboutFound, Event
    <2> QED
      BY <2>2, <2>3 DEF EventsInv, EventsExplainFindings
  <1>2. IInv /\ EventsInv /\ [Next]_vars => EventsInv'
    BY EventsStep
  <1>3. EventsInv => EventsExplainFindings
    BY DEF EventsInv
  <1> QED
    BY <1>1, <1>2, <1>3, Invariance, PTL DEF Spec

============================================================================
