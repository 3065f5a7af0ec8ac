SPECIFICATION Spec
CONSTANTS
  Threads = {t1, t2, t3}
  Blocks = {b1, b2, b3}
  RAW = RAW
  NONE = NONE
  PUBLIC = PUBLIC
  Nobody = Nobody
  NoBlock = NoBlock
  StoreBuffering = TRUE
SYMMETRY Symmetry
INVARIANT DiscardedIsClaimed
