SPECIFICATION FairSpec
CONSTANTS
  Handlers = {h1, h2}
  MaxFails = 3
  RecoveryCodes = {c1, c2}
  MaxSecret = 2
  MaxMishaps = 1
INVARIANTS TriesBounded
PROPERTIES  LockOpens
CHECK_DEADLOCK FALSE
