SPECIFICATION FairSpec
CONSTANTS
  r1 = r1
  r2 = r2
  r3 = r3
  a1 = a1
  k1 = k1
  Request = {r1, r2}
  Account = {a1}
  Key = {k1}
  Body <- TwoBodies
  ProcessingDelay = 1
  MaxTime = 3
  Skew = 0
  Lease = 1
  FaultsUntil = 1
PROPERTIES
  EveryoneAnswered
CHECK_DEADLOCK FALSE
