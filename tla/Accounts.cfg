SPECIFICATION Spec
CONSTANTS
  Handlers = {h1, h2}
  Links = {t1, t2}
  NoLink = nolink
  MaxSignups = 1
  MaxPassword = 2
  MaxMishaps = 1
INVARIANTS  WayIn
CHECK_DEADLOCK FALSE
