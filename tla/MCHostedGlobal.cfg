SPECIFICATION Spec
CONSTANTS
  Threads = {t1, t2, t3}
  Slots = 2
  MaxShards = 2
  Blocks = {b1, b2}
  Nobody = Nobody
  NoBlock = NoBlock
SYMMETRY Symmetry
INVARIANTS
  TokenSharedOnlyAfterFailedMove
  TokensHaveHolders
  ShardsAccountedFor
