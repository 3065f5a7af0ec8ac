SPECIFICATION Spec
CONSTANTS
  SPAN_SIZE = 16
  SPAN_HEADER_RESERVE = 4
  MIN_BLOCK_SIZE = 2
  MAX_BLOCK_SIZE = 4
  C = 2
  MAX_LARGE_RUN_CLASSES = 3
  MAX_HUGE_RUN_CLASSES = 3
  HUGE_GRANULE_SPANS = 1
  HDR_SIZE = 4
  HDR_ALIGN = 2
  HEADER_SIZE = 6
  HEADER_ALIGN = 2
  WORD_BITS = 8
  RegionPtr = 7
  RegionLen = 60
  AllLayouts <- MCRequests
  Requests <- MCRequests
  None = None
  Threads = {t1, t2}
  PerClass = 2
  MaxNext = 7
  NoBase = NoBase
SYMMETRY Symmetry
INVARIANTS
  ClaimIsExclusive
  StateTellsBase
  RunsDisjoint
  FreeFindsItsSlot
CHECK_DEADLOCK FALSE
