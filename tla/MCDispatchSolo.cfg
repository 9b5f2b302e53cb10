SPECIFICATION FairSpec

CONSTANTS
  Messages <- Pair
  Customers <- Ann
  Customer <- SameCustomer
  NoAddress = {}
  Workers = {w1}
  MaxTries = 2
  DailyCap = 2
  MonthlyCap = 3
  Cooldown = 2
  MaxDaily = 1
  StaleDays = 1
  OtherCampaign = TRUE
  MaxDay = 2
  MaxJobs = 1
  MaxFaults = 1
  MaxCrashes = 0
  MaxLocks = 0
  MaxFlips = 1

INVARIANTS
  CooldownKept

PROPERTIES
  ClaimedIsDecided

CHECK_DEADLOCK FALSE
