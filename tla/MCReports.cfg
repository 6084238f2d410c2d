SPECIFICATION ReportsSpec
CONSTANTS
  Requests = {r1, r2}
  NoRequest = none
  Workers = {w1, w2}
  ExportAttempts = 2
  ExportsPerHour = 1
  StallLimit = 1
  MaxDeaths = 2
  MaxOverruns = 1
  Exports = {1, 2, 3}
  Pollers = {p1, p2}
  Senders = {s1, s2}
  MaxClock = 2
  Skew = 1
  Periods = {1, 2}
  MaxEdits = 1
  MaxSends = 2
  MaxCrashes = 1
  FirstPoller = p1
INVARIANTS ReportsTypeOK FinishedIsDecided OneExportPerOccurrence DeliveriesAreJustified
PROPERTIES ImplementsExportLifecycle ExportsSettle OccurrencesRun
CHECK_DEADLOCK FALSE
