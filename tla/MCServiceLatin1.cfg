\* A signer whose name is not UTF-8: latin1 is read back as replaced. One worker
\* and the plan without findings, for the shortest way to a certificate
\* (create 1, plan 2, evaluate 4, release 5).
CONSTANTS
  ascii = ascii
  latin1 = latin1
  replaced = replaced
  clear = clear
  risky = risky
  invalid = invalid
  f1 = f1
  NumRequests = 4
  Plans = {clear}
  ValidPlans = {clear}
  EvaluablePlans <- MCEvaluablePlans
  RuleFindings <- MCRuleFindings
  Findings = {f1}
  Contents = {e1}
  Names = {latin1, replaced}
  JsonText <- MCJsonText
  Requests <- MCRequests
  CaseKeys <- MCCaseKeys
  Workers = {w1}
  None = None
  MaxRevision = 5
SPECIFICATION Spec
INVARIANT SignedIsVerifiable
ACTION_CONSTRAINT LowestFresh
SYMMETRY WorkerSymmetry
