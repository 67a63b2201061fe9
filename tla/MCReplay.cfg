SPECIFICATION FairSpec
CONSTANTS
  Plan <- MCPlan
  Rules <- MCRules
  RuleKind <- MCRuleKind
  MaxApplications <- MCMaxApplications
  Callers <- AllCallers
INVARIANTS
  TypeOK
  RiskyNeedsApproval
  NeverActsTwice
  RecordsTellTheTruth
PROPERTIES
  ActsWhereAllowed
  KeepsContract
  EndsOrWaits
