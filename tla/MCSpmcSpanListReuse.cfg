SPECIFICATION Spec
CONSTANTS
  Threads = {t1, t2}
  Spans = {s1, s2}
  NULL = NULL
  MaxVersion = 2
  LLSC = FALSE
SYMMETRY Symmetry
INVARIANT SpanExclusive
CHECK_DEADLOCK FALSE
