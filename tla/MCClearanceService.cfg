\* Two commands at a time on one case with one finding, revisions enough for a
\* return and a resubmission (create 1, plan 2, evaluate 4, evidence 5, review 6,
\* return 7, evidence 8) or for the release (accept 7, release 8).
CONSTANTS
  ascii = ascii
  latin1 = latin1
  replaced = replaced
  clear = clear
  risky = risky
  invalid = invalid
  f1 = f1
  NumRequests = 8
  Plans = {risky, invalid}
  ValidPlans = {risky}
  EvaluablePlans <- MCEvaluablePlans
  RuleFindings <- MCRuleFindings
  Findings = {f1}
  Contents = {e1}
  Names = {ascii}
  JsonText <- MCJsonText
  Requests <- MCRequests
  CaseKeys <- MCCaseKeys
  Workers = {w1, w2}
  None = None
  MaxRevision = 8
SPECIFICATION Spec
INVARIANTS ExactlyOnce Recoverable
PROPERTIES ImplementsSerial HistoryOnlyGrows
ACTION_CONSTRAINT LowestFresh
SYMMETRY WorkerSymmetry
