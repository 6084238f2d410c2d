SPECIFICATION Spec
CONSTANTS
  Records = {r1}
  Requests = {q1}
  Workers = {w1}
  Actions = {"changed", "deleted"}
  ClaimLimit = 2
  MaxAttempts = 2
  MaxChanges = 1
  MaxBuckets = 1
  MaxRecoveries = 0
  MaxFaults = 1
PROPERTY AcknowledgedIsQueued
