SPECIFICATION FairSpec
CONSTANTS
  w1 = w1
  w2 = w2
  c1 = c1
  a1 = a1
  k1 = k1
  Worker = {w1, w2}
  RetryRequest = {c1}
  Account = {a1}
  Key = {k1}
  Body <- ApprovedBody
  EventSets <- AllEvents
  ProcessingDelay = 1
  MaxTime = 1
  Skew = 0
  BatchSize = 2
  FaultsUntil <- Never
  q1 = q1
  CreateRequest = {q1}
INVARIANTS
  AttemptsCounted
  NothingStranded
PROPERTIES
  ProcessingEnds
  DeliveriesConclude
CHECK_DEADLOCK FALSE
