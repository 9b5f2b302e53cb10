SPECIFICATION FairSpec

CONSTANTS
  Merchants <- Tenants1
  Sources <- Erasing
  Webhooks <- ErasingHooks
  Kind <- ErasingKind
  Tenant <- ErasingTenant
  Drainers = {d1, d2}
  Failures = {"retryable", "permanent"}
  BatchSize = 2
  MaxAttempts = 2
  MaxRows = 3
  MaxCrashes = 1
  MaxAborts = 0
  MaxOps = 1

INVARIANTS
  ErasedLeavesNothing

PROPERTIES
  EveryRowSettles

CHECK_DEADLOCK FALSE
