CONSTANTS
  Threads = {0, 1}
  Priorities = {0, 1}
  Outside = {e1}
  Partitions <- MCPartitions
  InboxSize = 1
  Hints <- MCHints
  MaxPosts = 2
  Overtake = FALSE
SPECIFICATION Spec
INVARIANTS NoLostWakeup BitsMatchThreads
