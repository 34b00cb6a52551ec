\* Two findings of the main case, so that one is accepted when the other is
\* returned, and revisions enough for a return, a resubmission and a release
\* of both (create 1, plan 2, evaluate 4, evidence 6, review 7, accept 8,
\* return 9, evidence 10, review 11, accept 12, release 13).  A neighbour is
\* released without findings.
CONSTANTS
  ascii = ascii
  clear = clear
  risky = risky
  broken = broken
  f1 = f1
  f2 = f2
  NumRequests = 12
  Plans = {clear, risky, broken, invalid}
  ValidPlans = {clear, risky, broken}
  EvaluablePlans = {clear, risky}
  RuleFindings <- MCRuleFindings
  Findings = {f1, f2}
  Contents = {e1}
  Names = {ascii}
  JsonText <- MCJsonText
  Requests <- MCRequests
  CaseKeys <- MCCaseKeys
  None = None
  MaxRevision = 13
  Schedules <- MCSchedules
  CaseRank <- MCCaseRank
  ClearanceNumber <- MCClearanceNumber
SPECIFICATION QuerySpec
INVARIANTS TimelineIsTrue NeverStranded ReleasedIsJustified
INVARIANTS ProgressTellsStatus QueueIsWork PublishedStaysValid
ACTION_CONSTRAINTS LowestFresh NeighbourIsPlain
CHECK_DEADLOCK FALSE
