\* The service with two connections, so that one request can be answered while
\* another is cut off, and ports at both limits; up to three self tests, in
\* temporary directories or in one that is kept.
CONSTANTS
  director = director
  reviewer = reviewer
  smoke = smoke
  f1 = f1
  f2 = f2
  f3 = f3
  f4 = f4
  Plans = {smoke}
  ValidPlans = {smoke}
  EvaluablePlans = {smoke}
  RuleFindings <- MCRuleFindings
  Findings = {f1, f2, f3, f4}
  Contents = {e1}
  Names = {director, reviewer}
  JsonText <- MCJsonText
  Requests <- MCRequests
  CaseKeys <- MCCaseKeys
  None = None
  MaxRevision = 20
  SmokePlan = smoke
  SmokeFindings <- MCSmokeFindings
  SmokeContent = e1
  Director = director
  Reviewer = reviewer
  MinFindings = 4
  MinEvents = 10
  MaxTests = 3
  Connections = {c1, c2}
  Hosts <- MCHosts
  LoopbackHosts = {"127.0.0.1", "localhost"}
  Ports <- MCPorts
SPECIFICATION FairSpec
INVARIANTS VerdictTells ExitCodeTells
PROPERTIES ProcessEnds
CHECK_DEADLOCK FALSE
