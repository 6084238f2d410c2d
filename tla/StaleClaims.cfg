SPECIFICATION FairDeliverySpec
CONSTANTS
  Senders = {s1}
  MaxSnapshots = 1
  MaxAttempts = 2
  MaxDeaths = 1
  MaxRequeues = 0
PROPERTY ClaimsAreRecovered
CHECK_DEADLOCK FALSE
