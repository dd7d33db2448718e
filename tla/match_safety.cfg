SPECIFICATION MatchSpec
CONSTANTS
  Prevs = {1, 2, 3}
  Currs = {1, 2, 3}
  Costs = {1, 2}
  Sentinel = 100
  ScanPairs <- MatchPairs
  Step = 1
  Ticks = 1000
CHECK_DEADLOCK FALSE
INVARIANTS GlobalOptimum
