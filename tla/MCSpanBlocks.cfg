SPECIFICATION FairSpec
CONSTANTS
  Threads = {t1, t2, t3}
  M = 3
  RAW = RAW
  NONE = NONE
  PUBLIC = PUBLIC
  Nobody = Nobody
  NULL = NULL
  UNLINKED = UNLINKED
  USER = USER
INVARIANTS
  LocalListWellFormed
  ChainsTerminate
  UserDataIntact
  WalkBoundIsEnough
PROPERTIES
  ImplementsLedger
  DiscardedIsReused
