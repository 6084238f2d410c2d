SPECIFICATION FairSpec
CONSTANTS
  Evaluators = {e1, e2}
  Monitors = {m1}
  MaxSnapshots = 4
  MinimumSnapshots = 1
INVARIANTS TypeOK OccurrencesCountRegressions SystemResolutionIsReady
PROPERTIES ImplementsLifecycle LatestRegressionIsRecorded
