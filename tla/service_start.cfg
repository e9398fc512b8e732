SPECIFICATION FairSpec
CONSTANTS
  p1 = p1
  p2 = p2
  Process = {p1, p2}
  Env <- Environments
  Header <- Headers
  PaymentPost <- PaymentPosts
  SubscriptionPost <- SubscriptionPosts
  DeliveryID <- DeliveryIDs
  MaxPayments = 1
  MaxCrashes = 2
INVARIANTS
  SameKeySameAccount
  ActsForItsCaller
  SubscriberCanVerify
  ServesAMigratedSchema
  RunsWithinAssumptions
  OwnersGetIn
PROPERTIES
  SomebodyServes
CHECK_DEADLOCK FALSE
