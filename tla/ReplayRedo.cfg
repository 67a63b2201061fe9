SPECIFICATION Spec
CONSTANTS
  Plan <- FormPlan
  Rules <- NoRules
  RuleKind <- NoRuleKind
  MaxApplications <- NoMaxApplications
  Callers <- AnyAction
PROPERTIES
  NeverRedoesVerified
