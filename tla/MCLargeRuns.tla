---------------------------- MODULE MCLargeRuns -----------------------------
(* A small instance of LargeRuns for model checking.  A span has 16 bytes  *)
(* and the region begins off the span boundary; one layout needs a run for *)
(* its size, one for its alignment within a span, one for an alignment     *)
(* above that of a run.                                                    *)
EXTENDS LargeRuns, TLC

MCRequests == {[size |-> 7, align |-> 2], [size |-> 6, align |-> 16], [size |-> 4, align |-> 32]}

MCLayouts == [size : 0 .. 150, align : {1, 2, 4, 8, 16, 32, 64}]

Symmetry == Permutations(Threads)
=============================================================================
