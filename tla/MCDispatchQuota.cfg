SPECIFICATION Spec
CONSTANTS
  AnnsDrafts = {a1, a2, a3}
  BobsDrafts = {b1, b2}
  Messages <- Busy
  Customers <- Both
  Customer <- Addressee
  NoAddress = {}
  Workers = {w1, w2}
  MaxTries = 2
  DailyCap = 2
  MonthlyCap = 6
  Cooldown = 0
  MaxDaily = 1
  StaleDays = 0
  OtherCampaign = TRUE
  MaxDay = 0
  MaxJobs = 1
  MaxFaults = 0
  MaxCrashes = 0
  MaxLocks = 0
  MaxFlips = 0
INVARIANTS
  QuotaOvershootBounded
  FrequencyOvershootBounded
SYMMETRY Symmetry
CHECK_DEADLOCK FALSE
