SPECIFICATION WaitFreeSpec
CONSTANTS
  Max = 2
  Count = 2
  Blocks = {b1, b2}
  K = 1
  RAW = RAW
  NONE = NONE
  PUBLIC = PUBLIC
  Nobody = Nobody
  NoBlock = NoBlock
  NULL = NULL
INVARIANTS
  ListsWellFormed
  PoolOnlyWhenDry
  QuiescentVerified
PROPERTIES
  ImplementsLedgers
  OperationReturns
CHECK_DEADLOCK FALSE
