------------------------- MODULE ClearanceCommands -------------------------
(***************************************************************************)
(* The commands of internal/application/service.go as pure functions: the  *)
(* cases a command can compute from the copy of the case it has read, as a *)
(* set that is empty when the command is refused.  What a command does to  *)
(* the stored snapshot, and when, is the business of SerialClearance (all  *)
(* at once) and of ClearanceService (in the steps of the code).            *)
(*                                                                         *)
(* A command never reaches these operators with a wrong role, a blank name *)
(* or a blank request id: validateActor and prepareChange answer it first  *)
(* and touch nothing.  The role is therefore part of who may issue the     *)
(* command, not of what it computes.                                       *)
(***************************************************************************)
EXTENDS ClearanceDomain

CONSTANTS
  EvaluablePlans,   \* valid plans the rule engine evaluates without error
  RuleFindings,     \* the findings the engine derives from such a plan
  CaseKeys          \* creations clients may ask for: <<actor name, request>>

(* A snapshot is what one file of cases/ holds.                            *)
Snapshots == [case : Cases, audit : Seq(Events)]

ASSUME CommandsAssumption ==
  /\ EvaluablePlans \subseteq ValidPlans
  /\ RuleFindings \in [EvaluablePlans -> SUBSET Findings]
  /\ CaseKeys \subseteq Names \X Requests
  /\ None \notin CaseKeys \cup Snapshots

----------------------------------------------------------------------------

(* writeSnapshot: the case as JSON keeps it and all audit events so far.   *)
Saved(audit, c) ==
  [case |-> CloneCase(c), audit |-> audit \o c.pendingEvents]

(* prepareChange: a request id used before is answered from the table or   *)
(* refused, and the expected revision must be that of the copy.            *)
Prepared(c, r) == IsNewRequest(c, r) /\ c.revision < MaxRevision

CreatedCase(key) == RecordRequest(NewCase, key[2], "create_case")

ReplacePlanResults(c, r, plan) ==
  IF CanReplacePlan(c, plan)
  THEN {RecordRequest(ReplacePlan(c, plan), r, "replace_plan")}
  ELSE {}

(* Fault: the case is saved as soon as the evaluation is requested.        *)
SubmitOnlyResults(c, r) ==
  IF CanSubmitEvaluation(c)
  THEN {RecordRequest(SubmitEvaluation(c), r, "evaluate")}
  ELSE {}

(* Both domain steps and the engine between them happen before the only    *)
(* save, so pending_evaluation is a state of the copy alone.               *)
EvaluateResults(c, r) ==
  LET asked == SubmitEvaluation(c)
      found == RuleFindings[c.plan]
  IN  IF /\ CanSubmitEvaluation(c)
         /\ c.plan \in EvaluablePlans
         /\ CanApplyEvaluation(asked)
      THEN {RecordRequest(ApplyEvaluation(asked, found), r, "evaluate")}
      ELSE {}

EvidenceResults(c, r, f, content, note) ==
  IF CanAddEvidence(c, f, note)
  THEN {RecordRequest(AddEvidence(c, f, content), r, "submit_evidence")}
  ELSE {}

RequestReviewResults(c, r) ==
  IF CanRequestReview(c)
  THEN {RecordRequest(RequestReview(c), r, "request_review")}
  ELSE {}

ReviewFindingResults(c, r, f, verdict, note, who) ==
  IF CanReviewFinding(c, f, verdict, note)
  THEN {RecordRequest(ReviewFinding(c, f, verdict, who), r, "review_finding")}
  ELSE {}

SignResults(c, r, who) ==
  LET cert == NewCertificate(c, who)
  IN  IF CanNewCertificate(c) /\ CanMarkReleased(c, cert)
      THEN {RecordRequest(MarkReleased(c, cert), r, "sign")}
      ELSE {}

(* All that some client's command with this request id can make of a case. *)
Results(c, r) ==
  UNION ({ReplacePlanResults(c, r, plan) : plan \in Plans}
           \cup {EvaluateResults(c, r), RequestReviewResults(c, r)}
           \cup {EvidenceResults(c, r, f, content, note) :
                   f \in Findings, content \in Contents, note \in BOOLEAN}
           \cup {ReviewFindingResults(c, r, f, verdict, note, who) :
                   f \in Findings, verdict \in Verdicts, note \in BOOLEAN,
                   who \in Names}
           \cup {SignResults(c, r, who) : who \in Names})

============================================================================
