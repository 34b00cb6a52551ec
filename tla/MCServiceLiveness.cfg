\* Liveness: two commands at a time on one case and four request ids, up to the
\* first evidence (create 1, plan 2, evaluate 4, evidence 5). What the workers
\* do next depends on their step and not on the status of the case, so a longer
\* life of the case would only repeat these states. No symmetry: it is unsound
\* for liveness.
CONSTANTS
  ascii = ascii
  latin1 = latin1
  replaced = replaced
  clear = clear
  risky = risky
  invalid = invalid
  f1 = f1
  NumRequests = 4
  Plans = {risky, invalid}
  ValidPlans = {risky}
  EvaluablePlans <- MCEvaluablePlans
  RuleFindings <- MCRuleFindings
  Findings = {f1}
  Contents = {e1}
  Names = {ascii}
  JsonText <- MCJsonText
  Requests <- MCRequests
  CaseKeys <- MCCaseKeys
  Workers = {w1, w2}
  None = None
  MaxRevision = 5
SPECIFICATION FairSpec
PROPERTIES EveryRequestEnds ServiceReturns
