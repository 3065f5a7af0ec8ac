---------------------------- MODULE MCThreadHeap ----------------------------
(* ThreadHeap for TLC: two threads, two spans of two blocks, K = 1.  The   *)
(* configuration states fairness, so it uses no symmetry.                  *)
EXTENDS ThreadHeap
=============================================================================
