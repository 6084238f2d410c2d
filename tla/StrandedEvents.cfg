SPECIFICATION FairSpec
CONSTANTS
  Records = {r1}
  Requests = {q1}
  Workers = {w1}
  Actions = {"changed"}
  ClaimLimit = 1
  MaxAttempts = 2
  MaxChanges = 1
  MaxBuckets = 1
  MaxRecoveries = 0
  MaxFaults = 0
PROPERTY ClaimedIsSettled
CHECK_DEADLOCK FALSE
