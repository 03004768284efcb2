CONSTANTS
  Thieves = {s1, s2}
  HalfWord = 16
  InitialCapacity = 1
  Starts = {1, 14, 15}
  MaxItems = 3
  MaxBulk = 2
  MaxRetries = 1
  Tasks = {t1, t2, t3}
  Threads = {w1, w2, w3}
  NoTask = NoTask
  Values = {0, 1}
  MaxRounds = 2
  MaxStores = 2
  InboxSize = 2
SPECIFICATION MCSpec
SYMMETRY MCSymmetry
INVARIANTS EachWaiterOnce NoWaiterMissed
PROPERTIES AreWorkQueues GiveUpRightly
