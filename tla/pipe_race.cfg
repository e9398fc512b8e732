SPECIFICATION Spec
CONSTANTS
  w1 = w1
  w2 = w2
  c1 = c1
  a1 = a1
  k1 = k1
  Worker = {w1, w2}
  RetryRequest = {c1}
  Account = {a1}
  Key = {k1}
  Body <- ApprovedBody
  EventSets <- AllEvents
  ProcessingDelay = 1
  MaxTime = 2
  Skew = 0
  BatchSize = 2
  FaultsUntil = 2
  q1 = q1
  CreateRequest = {q1}
SYMMETRY Symmetry
INVARIANTS
  TypeOK
  RowInOneHand
  OneDeliveryPerEvent
  PostsAreAskedFor
  OutcomeIsOfAPost
PROPERTIES
  SettledOnce
  HandsOutOnce
CHECK_DEADLOCK FALSE
