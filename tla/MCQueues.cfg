CONSTANTS
  Producers = {p1, p2}
  Producer = p1
  Consumer = c
  None = None
  Queues = {"spsc_bounded", "mpsc_bounded", "spsc_unbounded", "mpsc_unbounded"}
  Capacities = {1, 2}
  IndexRange = 8
  BlockIds = {b1, b2, b3, b4, b5}
  BlockSizes = {1, 2}
  MaxPushes = 3
  MaxTickets = 4
  MaxPosts = 5
  MaxBounded = 9
  MaxBulk = 2
  CloseBy = 2
SPECIFICATION MCSpec
INVARIANTS SlotsInTurn BlocksInPlace NothingLeaks
PROPERTIES IsClosableQueue WaitersGoOn
