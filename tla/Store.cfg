SPECIFICATION Spec
CONSTANTS
  Keys = {"x", "y"}
  Urls = {"u"}
  Terms = {"a"}
  Payloads <- MCPayloads
  Origins = {"user"}
  TTLs = {1}
  Graces = {0, 1}
  Ids = {1, 2, 3}
  EndOfTime = 2
  MaxHits = 1
  AuditRows <- MCAudit
  None = None
  FeedFilters <- MCFilters
  Calls = {c1}
  Archiving = TRUE
  Budgets <- MCBudgets
INVARIANTS
  IndexesAgree
  FeedAgrees
  ClicksShowTheirQuery
  AuditTrail
PROPERTIES
  RefinesStore
  GraceKept
CHECK_DEADLOCK FALSE
