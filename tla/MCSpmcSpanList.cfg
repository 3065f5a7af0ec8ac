SPECIFICATION Spec
CONSTANTS
  Threads = {t1, t2}
  Spans = {s1, s2}
  NULL = NULL
  MaxVersion = 3
  LLSC = TRUE
SYMMETRY Symmetry
INVARIANTS
  ExclusiveUntilMisread
  ConservedUntilMisread
PROPERTIES
  QueueUntilMisread
  MisreadNeedsAnotherPop
CHECK_DEADLOCK FALSE
