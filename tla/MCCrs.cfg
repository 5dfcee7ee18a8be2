SPECIFICATION Spec
CONSTANTS
  c1 = c1
  c2 = c2
  main = main
  Callers <- MCCallers
  Main = main
  ProfileFiles <- MCProfileFiles
  FileContent <- MCFileContent
  RuleText <- MCRuleText
  Asked <- MCAsked
  None = None
  Clash = Clash
  MaxProtections = 2
  MaxVersions = 2
  MaxRuleSets = 3
  MaxRequests = 2
  MaxRuleId = 12
  MaxFaults = 1
INVARIANTS TypeOK AnsweredRulesKept   ClonedOnce RoundTrip
 
SYMMETRY Handlers
