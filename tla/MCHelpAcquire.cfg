SPECIFICATION WaitFreeSpec
CONSTANTS
  N = 2
  H = 1
  Spans = {s1, s2}
  NULL = NULL
  MaxPhase = 2
  LLSC = TRUE
INVARIANTS
  SpanInOnePlace
  PendingOnlyInCall
  HeldSpanIsPlaced
PROPERTY CallReturns
CHECK_DEADLOCK FALSE
