SPECIFICATION Spec
CONSTANTS
  Messages <- Single
  Customers <- Ann
  Customer <- OneCustomer
  NoAddress = {}
  Workers = {w1, w2}
  MaxTries = 2
  DailyCap = 1
  MonthlyCap = 3
  Cooldown = 1
  MaxDaily = 1
  StaleDays = 0
  OtherCampaign = TRUE
  MaxDay = 1
  MaxJobs = 2
  MaxFaults = 0
  MaxCrashes = 0
  MaxLocks = 0
  MaxFlips = 0
INVARIANTS
  SuppressedWasNotSent
CHECK_DEADLOCK FALSE
