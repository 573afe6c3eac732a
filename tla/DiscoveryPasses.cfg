SPECIFICATION FairSpec
CONSTANTS
  a1 = a1
  m1 = m1
  m2 = m2
  t1 = t1
  w1 = w1
  g1 = g1
  g2 = g2
  Passes = {t1, w1}
  Replicas = {g1, g2}
  At <- MCAt
  Triggered = {w1}
  NoPass = NoPass
  Accounts = {a1}
  NoAccount = NoAccount
  Models = {m1, m2}
  Serves <- MCServes
  Deprecated = {m2}
  MaxTroubles = 1
INVARIANTS OneDiscovers PolicyHolds 
 
CHECK_DEADLOCK FALSE
