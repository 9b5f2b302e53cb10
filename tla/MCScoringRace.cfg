SPECIFICATION Spec

CONSTANTS
  ActiveMax = 0
  WarmMax = 0
  AtRiskMax = 0
  DormantMax = 1
  Threshold = 1
  Customers <- Ann
  Orders <- OneOrder
  Buyer <- AnnBuys
  Born <- BornFirst
  Dates <- AnyDate
  Ahead = 1
  Handlers = {h1, h2}
  Forced = FALSE
  PageSize = 1
  MaxDay = 2
  MaxRuns = 3
  MaxMishaps = 1

INVARIANTS
  ScoreAndStateAgree
  EchoOnlyFromOverlap
  SilentUntilBaselined

PROPERTIES
  PurchaseCounts

SYMMETRY HandlerSymmetry

CHECK_DEADLOCK FALSE
