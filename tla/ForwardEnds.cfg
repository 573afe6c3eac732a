SPECIFICATION FairSpec
CONSTANTS
  a1 = a1
  m1 = m1
  Requests = {r1}
  Accounts = {a1, a2, a3, a4}
  Models = {m1}
  NoModel = NoModel
  NoAccount = NoAccount
  Windows = {"minute", "day"}
  Span <- MCSpan
  Retention = 2
  Limit <- MCLimit
  Mapped <- MCServed
  Wildcards = {}
  Filters <- MCAnyFilter
  ThresholdNum = 9
  ThresholdDen = 10
  CooldownSeconds = 1
  TransportRest = 1
  ModelRest = 1
  MediaRest = 1
  RetryAfters = {0}
  ThrottleShift = 1
  ThrottleCap = 2
  CreditShift = 1
  CreditCap = 2
  StrikeTTL = 2
  StrikesCanBeLost = TRUE
  MaxTime = 0
PROPERTIES EveryRequestEnds
CHECK_DEADLOCK FALSE
