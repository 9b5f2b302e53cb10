SPECIFICATION Spec
CONSTANTS
  Messages <- Single
  Customers <- Ann
  Customer <- OneCustomer
  NoAddress = {}
  Workers = {w1, w2}
  MaxTries = 2
  DailyCap = 1
  MonthlyCap = 3
  Cooldown = 1
  MaxDaily = 1
  StaleDays = 0
  OtherCampaign = TRUE
  MaxDay = 1
  MaxJobs = 2
  MaxFaults = 2
  MaxCrashes = 1
  MaxLocks = 1
  MaxFlips = 1
INVARIANTS
  TypeOK
  TargetMessageAgree
  OneSender
  ResentOnlyAfterLostAck
  SentIsCountedOnce
PROPERTIES
  ResolvedStaysResolved
  MailsAsPromised
SYMMETRY WorkerSymmetry
CHECK_DEADLOCK FALSE
