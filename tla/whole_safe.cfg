SPECIFICATION Spec
CONSTANTS
  r1 = r1
  r2 = r2
  w1 = w1
  c1 = c1
  a1 = a1
  k1 = k1
  Request = {r1, r2}
  Worker = {w1}
  RetryRequest = {}
  Account = {a1}
  Key = {k1}
  Body <- OneBody
  EventSets <- SomeEvents
  ProcessingDelay = 1
  MaxTime = 2
  Skew = 0
  Lease = 1
  BatchSize = 2
  FaultsUntil = 2
SYMMETRY Symmetry
INVARIANTS
  OnePaymentOneAnswer
  CommittedTogether
  TerminalEventAnnounced
PROPERTIES
  PromiseKept
CHECK_DEADLOCK FALSE
