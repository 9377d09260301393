SPECIFICATION FairSpec
CONSTANTS
  Operators = {o1, o2, o3}
  Sequential = TRUE
  Rounds = 1
INVARIANT OwnEndsOnly
PROPERTY EachDrains
