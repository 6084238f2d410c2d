SPECIFICATION Spec
CONSTANTS
  Evaluators = {e1}
  Monitors = {m1, m2}
  MaxSnapshots = 3
  MinimumSnapshots = 1
INVARIANT OccurrencesCountRegressions
