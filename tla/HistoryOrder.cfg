SPECIFICATION Spec
CONSTANTS
  Evaluators = {e1, e2}
  Monitors = {m1}
  MaxSnapshots = 3
  MinimumSnapshots = 1
INVARIANT HistoryIsOrdered
