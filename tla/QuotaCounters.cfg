SPECIFICATION Spec
CONSTANTS
  Calls = {c1, c2, c3}
  Activations = {j1, j2}
  Plans = {"free", "pro", "business"}
  FreePlan = "free"
  NoPlan = NoPlan
  Limits <- MCLimits
  Days = {"monday", "tuesday"}
  Months = {"june"}
  DayOf <- MCDayOf
  MonthOf <- MCMonthOf
  GatewayDB = 0
  ControlDB = 0
  LimitsTTL = 1
  CommandsCanFail = TRUE
  MaxTime = 1
CHECK_DEADLOCK FALSE
INVARIANTS CountersBalance QuotaHeld RefusedWhenUsedUp
SYMMETRY MCSymmetry
