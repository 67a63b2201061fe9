SPECIFICATION Spec
CONSTANTS
  Plan <- FormPlan
  Rules <- MCRules
  RuleKind <- MCRuleKind
  MaxApplications <- MCMaxApplications
  Callers <- AnyAction
INVARIANTS
  SuccessCarriesOutputs
