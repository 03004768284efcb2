CONSTANTS
  Outside = {a, b}
  Worker = w
  Priorities = {0, 1}
  Counts = {1, 2}
  MaxPosts = 2
  BlockSize = 1
  JobsDone = TRUE
SPECIFICATION FairSpec
INVARIANTS NoLostWakeup NoWakeAfterTeardown
PROPERTY WorkRunsAndTeardownEnds
