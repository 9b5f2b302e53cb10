SPECIFICATION FairSpec

CONSTANTS
  ActiveMax = 0
  WarmMax = 0
  AtRiskMax = 0
  DormantMax = 1
  Threshold = 0
  Customers <- Couple
  Orders <- OneOrder
  Buyer <- SecondBuys
  Born <- BornApart
  Dates <- TodayOrAhead
  Ahead = 1
  Handlers = {h1}
  Forced = FALSE
  PageSize = 1
  MaxDay = 2
  MaxRuns = 1
  MaxMishaps = 1

INVARIANTS
  TypeOK

PROPERTIES
  BaselineComplete
  BandsSettle

CHECK_DEADLOCK FALSE
