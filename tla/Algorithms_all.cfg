\* Lines of up to five characters; three feedback packets of each method with the parameters
\* epsilon 1/2, beta 3/2 and alpha 1/2, of which the file holds none to all three.
SPECIFICATION Spec
CONSTANTS
  Letters = {"a", "b"}
  MaxLen = 5
  Blocksize = 60
  Target = 4
  MaxLoad = 8
  Consumption = 3
  EpsilonN = 1
  BetaN = 3
  AlphaN = 1
  K = 2
  StartRates = {0, 1, 1000}
  MaxFeedback = 3
  Scale = 216
INVARIANTS
  ArgumentsExact
  ControlTypeOK
PROPERTIES
  RateFollowsLoad
  IntervalFollowsRate
CHECK_DEADLOCK FALSE
