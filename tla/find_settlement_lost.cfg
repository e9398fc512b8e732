SPECIFICATION FairSpec
CONSTANTS
  w1 = w1
  w2 = w2
  c1 = c1
  a1 = a1
  k1 = k1
  Worker = {w1}
  RetryRequest = {}
  Account = {a1}
  Key = {k1}
  Body <- ApprovedBody
  EventSets <- TerminalEvents
  ProcessingDelay = 1
  MaxTime = 2
  Skew = 0
  BatchSize = 2
  FaultsUntil = 1
  q1 = q1
  CreateRequest = {q1}
PROPERTIES
  ProcessingEnds
CHECK_DEADLOCK FALSE
