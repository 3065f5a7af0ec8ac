--------------------------- MODULE MCSpmcSpanList ---------------------------
(* Small instances of SpmcSpanList for model checking.                     *)
EXTENDS SpmcSpanList, TLC

Symmetry == Permutations(Threads) \cup Permutations(Spans)
=============================================================================
