CONSTANTS
  Threads = {0, 1}
  Priorities = {0, 1}
  Outside = {e1}
  Partitions <- MCShared
  InboxSize = 1
  Hints <- MCHints
  MaxPosts = 2
  Overtake = FALSE
  Kinds = {"layout"}
  Layouts <- MCOddLayouts
  PlatformBits = 8
SPECIFICATION MCSpec
INVARIANT EveryInboxExists
