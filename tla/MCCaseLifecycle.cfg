\* Two findings, so that one is accepted while the other is returned; two
\* evidence files, so that evidence is replaced; two valid plans, so that the
\* plan is replaced, and one that is not valid; two names, so that reviewer and
\* signer can differ. Revisions enough for a return before the release of
\* both (create 1, plan 2, evaluate 4, evidence 6, review 7, return 8,
\* evidence 9, review 10, accept 12, release 13).
CONSTANTS
  n1 = n1
  n2 = n2
  Plans = {p1, p2, bad}
  ValidPlans = {p1, p2}
  Findings = {f1, f2}
  Contents = {e1, e2}
  Names <- MCNames
  JsonText <- MCJsonText
  Requests = {}
  None = None
  MaxRevision = 13
SPECIFICATION Spec
INVARIANTS ReleaseIsJustified ReviewableFindings EventsExplainFindings
PROPERTIES AcceptedEvidenceIsFrozen EvaluatedPlanIsLocked
CHECK_DEADLOCK FALSE
