SPECIFICATION Spec
CONSTANTS
  Merchants <- Tenants1
  Sources <- Gdpr
  Webhooks <- GdprHooks
  Kind <- GdprKind
  Tenant <- GdprTenant
  Drainers = {d1}
  Failures = {}
  BatchSize = 2
  MaxAttempts = 2
  MaxRows = 3
  MaxCrashes = 0
  MaxAborts = 0
  MaxOps = 0
INVARIANTS
  HealthyEventsSucceed
CHECK_DEADLOCK FALSE
