SPECIFICATION Spec
CONSTANTS
  Rule = {"delete", "script", "taint"}
  Family = {"host_safety", "path", "taint"}
  Gap = {"no_profile", "missing_name"}
  Payload = {"static", "dynamic"}
  Name = {"make"}
  FamilyOf <- MCFamilyOf
  DefaultRule <- MCDefaultRule
  DefaultGap <- MCDefaultGap
  DefaultPayload <- MCDefaultPayload
  FloorRules = {"delete"}
  TrustedRules = {"script"}
  None = None
  Hook = {h1}
  Content = {"plain", "lax", "strict", "lowered"}
  RawOf <- MCRawOf
  Setting <- MCSetting
  Default = "plain"
  Unreadable = "unreadable"
  IssueSets <- MCIssueSets
  MaxEdits = 3
INVARIANTS TypeOK PolicyWasCurrent AnswerIsJustified FloorStands TrustKeepsActions
CHECK_DEADLOCK FALSE
