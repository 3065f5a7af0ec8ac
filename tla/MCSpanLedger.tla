---------------------------- MODULE MCSpanLedger ----------------------------
(* Small instances of SpanLedger for model checking.                       *)
EXTENDS SpanLedger, TLC

Symmetry == Permutations(Threads) \cup Permutations(Blocks)
=============================================================================
