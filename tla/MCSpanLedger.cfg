SPECIFICATION Spec
CONSTANTS
  Threads = {t1, t2, t3, t4}
  Blocks = {b1, b2, b3, b4}
  RAW = RAW
  NONE = NONE
  PUBLIC = PUBLIC
  Nobody = Nobody
  NoBlock = NoBlock
  StoreBuffering = TRUE
SYMMETRY Symmetry
INVARIANTS
  BlocksPartitioned
  GCountsFreedBlocks
  OwnerExclusive
  PublicIsFull
  DiscardedIsExhausted
CHECK_DEADLOCK FALSE
