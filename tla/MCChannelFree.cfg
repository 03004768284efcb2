CONSTANTS
  Tokens = {"p", "c", "x"}
  None = None
  BlockIds = {b1, b2, b3, b4, b5}
  BlockSizes = {2}
  ReuseBlocks = FALSE
  Programs <- TwoReclaims
  BulkSizes = {8}
SPECIFICATION Spec
INVARIANT NoUseAfterFree
CHECK_DEADLOCK FALSE
