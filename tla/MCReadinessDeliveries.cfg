SPECIFICATION DeliverySpec
CONSTANTS
  Senders = {s1, s2}
  MaxSnapshots = 2
  MaxAttempts = 2
  MaxDeaths = 1
  MaxRequeues = 0
SYMMETRY SenderSymmetry
INVARIANTS DeliveryTypeOK NotificationsHaveCause NotifiedMeansDelivered
PROPERTIES DeliveredIsFinal KeepsPromise
