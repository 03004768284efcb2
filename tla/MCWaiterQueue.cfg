CONSTANTS
  Tasks = {t1, t2, t3}
  Threads = {w1, w2, w3}
  NoTask = NoTask
  MaxRounds = 2
  InitialCount = 1
  MaxRelease = 2
  MaxPermits = 2
  InitiallySet = FALSE
SPECIFICATION MCSpec
INVARIANTS OnePermit SingleWaker WakeIsCovered NoLateTouch
PROPERTIES IsFIFO WaitersGoOn
