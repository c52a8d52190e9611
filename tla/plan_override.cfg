SPECIFICATION Spec
CONSTANTS
  Ring = 4
  Lengths = {1, 3}
  FeedRates = {2}
  RapidRate = 2
  Junctions = {2, 9}
  FeedOverrides = {1, 2}
  RapidOverrides = {2}
  Full = 2
  Fast = 9
INVARIANT PlanFeasible
