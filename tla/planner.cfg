SPECIFICATION Spec
CONSTANTS
  Ring = 4
  Lengths = {1, 3}
  FeedRates = {1}
  RapidRate = 2
  Junctions = {2, 9}
  FeedOverrides = {2}
  RapidOverrides = {1, 2}
  Full = 2
  Fast = 9
INVARIANTS PlanOptimal PlanFollowed
PROPERTIES SpeedContinuous
