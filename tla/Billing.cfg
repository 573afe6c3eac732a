SPECIFICATION BillingSpec
CONSTANTS
  Users = {u}
  NoUser = nobody
  Handlers = {h1, h2}
  PaidPlans = {pro}
  Free = free
  NoSub = none
  Sales = {s1, s2}
  NoSale = nosale
  MaxDay = 2
  MaxRequests = 2
  MaxEvents = 3
INVARIANTS ConfirmedOnce StripeFollows
CHECK_DEADLOCK FALSE
SYMMETRY Symmetric
