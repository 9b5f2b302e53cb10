SPECIFICATION FairSpec

CONSTANTS
  Runners = {e1, e2}
  MaxItems = 3
  Malformed = {1}
  PageSize = 1
  PageLimit = 3
  Web = web
  Sweep = sweep
  MaxInstalls = 2
  MaxMishaps = 1

INVARIANTS
  TypeOK
  CursorCovers
  CompletedCovers

PROPERTIES
  EnrichedInTheEnd

CHECK_DEADLOCK FALSE
