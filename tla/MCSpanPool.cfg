CONSTANTS
  Threads = {t1, t2, t3}
  Count = 5
  RunSizes <- MCRunSizes
  MaxNext = 14
SPECIFICATION Spec
SYMMETRY Symmetry
INVARIANTS
  HandedOutOnce
  WasteBounded
  PoolInv
PROPERTY RollbackReturnsOwnTail
CHECK_DEADLOCK FALSE
