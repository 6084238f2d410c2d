SPECIFICATION Spec
CONSTANTS
  Records = {r1}
  Requests = {q1}
  Workers = {w1}
  Actions = {"changed", "deleted"}
  ClaimLimit = 2
  MaxAttempts = 2
  MaxChanges = 2
  MaxBuckets = 2
  MaxRecoveries = 1
  MaxFaults = 1
INVARIANTS TypeOK CompletedIsMirrored ProcessingIsHeld
PROPERTY SettledIsFinal
