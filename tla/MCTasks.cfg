CONSTANTS
  Tokens = {"p", "c", "x"}
  None = None
  BlockIds = {b1, b2, b3, b4, b5}
  BlockSizes = {2}
  ReuseBlocks = TRUE
  Programs <- Workloads
  BulkSizes = {3}
  Kids = {k1, k2, k3}
  NoKid = NoKid
  NumSlots = 3
  Endless = {2, 3}
SPECIFICATION MCSpec
PROPERTY CallsReturn
INVARIANTS BlocksInPlace EveryItemOnce CountMatches OneResumer ParentAfterChildren EachResultOnce
CHECK_DEADLOCK FALSE
