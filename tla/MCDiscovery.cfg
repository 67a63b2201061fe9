SPECIFICATION FairSpec
CONSTANTS
  Urls = {"/member", "/form", "about:blank"}
  entry_url = "/member"
  Blank = "about:blank"
  Allowed = {"/member", "/form"}
  Outputs = {"balance"}
  max_steps = 3
  approve_risky = FALSE
INVARIANTS
  TypeOK
  FlowHasNoGaps
  ArtifactReadsOutputs
PROPERTIES
  RiskyIsApproved
  Ends
