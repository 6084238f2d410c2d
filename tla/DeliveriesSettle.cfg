SPECIFICATION FairDeliverySpec
CONSTANTS
  Senders = {s1, s2}
  MaxSnapshots = 1
  MaxAttempts = 2
  MaxDeaths = 1
  MaxRequeues = 1
PROPERTY DeliveriesSettle
