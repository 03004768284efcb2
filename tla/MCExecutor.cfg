CONSTANTS
  Threads = {0, 1}
  Priorities = {0, 1}
  Outside = {e1}
  Partitions <- MCShared
  InboxSize = 1
  Hints <- MCHints
  MaxPosts = 1
  Overtake = TRUE
  Kinds = {"workers", "layout"}
  Layouts <- MCLayouts
  PlatformBits = 8
SPECIFICATION MCSpec
INVARIANTS NoUseAfterTeardown ThreadsAsAsked VictimOrders
PROPERTIES WorkRunsAndTeardownEnds
