SPECIFICATION FairSpec
CONSTANTS
  r1 = r1
  r2 = r2
  w1 = w1
  c1 = c1
  a1 = a1
  k1 = k1
  Request = {r1, r2}
  Worker = {w1}
  RetryRequest = {c1}
  Account = {a1}
  Key = {k1}
  Body <- OneBody
  EventSets <- RejectedEvents
  ProcessingDelay = 0
  MaxTime = 2
  Skew = 0
  Lease = 1
  BatchSize = 2
  FaultsUntil <- Never
PROPERTIES
  RequestedIsSettled
CHECK_DEADLOCK FALSE
