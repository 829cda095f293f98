SPECIFICATION Spec
CONSTANTS
  None = None
  MaxTip = 2
  MaxStash = 1
  UserRefs <- MCAnyRefs
INVARIANTS AutostashRestored ReportedPinHolds
