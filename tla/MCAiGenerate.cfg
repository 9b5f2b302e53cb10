SPECIFICATION FairSpec

CONSTANTS
  Events <- Single
  Customers <- Ann
  Customer <- OneCustomer
  Processes = {p1, p2}
  MaxDeliveries = 3
  MaxTries = 2
  HourlyCap = 1
  SpendCap = 7
  Provider = "openai"
  Model = "gpt-4.1"
  MaxTokens = 300
  Errors <- Throttled
  Answers <- TwoAnswers
  StaleAfter = 0
  MonthLength = 1
  MaxGens = 2
  MaxHour = 1
  MaxMishaps = 1
  MaxFlips = 1

INVARIANTS
  TypeOK
  SpendCountedOnce
  CompletedIsWhole
  DuplicatesOnlyFromRedelivery
  HourlyCapHolds
  LateGenerationsBounded

PROPERTIES
  QueuedIsDecided

CHECK_DEADLOCK FALSE
