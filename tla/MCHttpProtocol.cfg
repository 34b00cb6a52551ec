\* One case with one finding; revisions enough for a return and the release
\* after it (create 1, plan 2, evaluate 4, evidence 5, review 6, return 7,
\* evidence 8, review 9, accept 10, release 11).  A file may have 2 units, the
\* rest of a form 1.
CONSTANTS
  ascii = ascii
  clear = clear
  risky = risky
  f1 = f1
  NumRequests = 10
  Plans = {clear, risky, invalid}
  ValidPlans = {clear, risky}
  EvaluablePlans = {clear, risky}
  RuleFindings <- MCRuleFindings
  Findings = {f1}
  Contents = {e1}
  Names = {ascii}
  JsonText <- MCJsonText
  Requests <- MCRequests
  CaseKeys <- MCCaseKeys
  None = None
  MaxRevision = 11
  MaxEvidenceBytes = 2
  MultipartOverhead = 1
  FileSizes = {0, 2, 3}
  FormSizes = {0, 1, 2}
SPECIFICATION HttpSpec
INVARIANTS RetryIsAnswered AcceptedAsSeen ReleaseTakesAllRoles UploadLimitIsExact
PROPERTIES ImplementsSerial
ACTION_CONSTRAINT LowestFresh
CHECK_DEADLOCK FALSE
