SPECIFICATION Spec
CONSTANTS
  r1 = r1
  r2 = r2
  r3 = r3
  a1 = a1
  k1 = k1
  Request = {r1, r2, r3}
  Account = {a1}
  Key = {k1}
  Body <- TwoBodies
  ProcessingDelay = 1
  MaxTime = 3
  Skew = 1
  Lease = 1
  FaultsUntil = 3
SYMMETRY Symmetry
INVARIANTS
  TypeOK
  AtMostOnePayment
  CompletedIffPayment
  OwnersHaveOwnTokens
  AnswersAgree
PROPERTIES
  RecordMovesForward
  LosesOnlyToLaterClaim
  KeepsPromise
CHECK_DEADLOCK FALSE
