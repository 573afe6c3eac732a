SPECIFICATION Spec
CONSTANTS
  a1 = a1
  m1 = m1
  Requests = {r1, r2}
  Accounts = {a1, a2}
  Models = {m1}
  NoModel = NoModel
  NoAccount = NoAccount
  Windows = {"minute", "day"}
  Span <- MCSpan
  Retention = 2
  Limit <- MCLimit
  Mapped <- MCServed
  Wildcards = {}
  Filters <- MCFilters
  ThresholdNum = 9
  ThresholdDen = 10
  CooldownSeconds = 1
  TransportRest = 1
  ModelRest = 1
  MediaRest = 1
  RetryAfters = {0, 2}
  ThrottleShift = 1
  ThrottleCap = 2
  CreditShift = 1
  CreditCap = 2
  StrikeTTL = 2
  StrikesCanBeLost = FALSE
  MaxTime = 1
INVARIANTS  RestsAfterFailure
PROPERTIES AllowanceSurvives KeepsPromise
CHECK_DEADLOCK FALSE
SYMMETRY MCSymmetry
