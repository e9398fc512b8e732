SPECIFICATION FairSpec
CONSTANTS
  w1 = w1
  w2 = w2
  c1 = c1
  a1 = a1
  k1 = k1
  Worker = {w1}
  RetryRequest = {c1}
  Account = {a1}
  Key = {k1}
  Body <- BothBodies
  EventSets <- SomeEvents
  ProcessingDelay = 3
  MaxTime = 3
  Skew = 1
  BatchSize = 1
  FaultsUntil = 2
  q1 = q1
  CreateRequest = {q1}
INVARIANTS
  NothingEarly
  EventsAnnounced
PROPERTIES
  EveryRowTaken
CHECK_DEADLOCK FALSE
