CONSTANTS
  Outside = {a}
  Worker = w
  Priorities = {0, 1}
  Counts = {1}
  MaxPosts = 2
  BlockSize = 2
  JobsDone = FALSE
SPECIFICATION FairSpec
PROPERTY TeardownEnds
