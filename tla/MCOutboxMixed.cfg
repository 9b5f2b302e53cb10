SPECIFICATION Spec
CONSTANTS
  Merchants <- Tenants1
  Sources <- Mixed
  Webhooks <- MixedHooks
  Kind <- MixedKind
  Tenant <- MixedTenant
  Drainers = {d1, d2}
  Failures = {"retryable", "permanent"}
  BatchSize = 2
  MaxAttempts = 2
  MaxRows = 3
  MaxCrashes = 1
  MaxAborts = 1
  MaxOps = 2
INVARIANTS
  TypeOK
  ClaimsAreExclusive
  ProcessedWasHandled
  RedeliveryOnlyAfterRollback
  DeferredAtMostOnce
  AttemptsCeiling
  IngestedExactlyOnce
  OnlyFailedTicksSilence
PROPERTIES
  DeliversEvents
SYMMETRY DrainerSymmetry
CHECK_DEADLOCK FALSE
