----------------------------- MODULE MCSpanPool -----------------------------
(* SpanPool for TLC: three callers of a five-span region.  The run sizes   *)
(* make carves that fit, carves that overshoot by part of their length,    *)
(* and one that the region could never hold.                               *)
EXTENDS SpanPool, TLC

MCRunSizes == {1, 2, 4, 7}

Symmetry == Permutations(Threads)
=============================================================================
