CONSTANTS
  Tasks = {t1, t2, t3}
  Runners = {r1, r2, r3}
  Threads = {w1, w2, w3}
  NULL = NULL
  NoTask = NoTask
  Count = 2
  LockRounds = 1
  MaxRounds = 2
SPECIFICATION MCSpec
INVARIANTS OneRunner FreedLast ReadersXorWriter WakingIsExclusive NobodyLeftBehind EveryWaiterListed NobodyReleasedEarly SafeToDestroy
PROPERTY WaitersGoOn
