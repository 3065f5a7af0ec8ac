---------------------------- MODULE MCHugeArena -----------------------------
(* A small instance of HugeArena for model checking.  A granule is a span  *)
(* of 16 bytes; one layout needs two granules for its alignment only, and  *)
(* one needs four, more than the region has.                               *)
EXTENDS HugeArena, TLC

MCRequests == {[size |-> 16, align |-> 1], [size |-> 16, align |-> 32], [size |-> 40, align |-> 1]}

Symmetry == Permutations(Threads)
=============================================================================
