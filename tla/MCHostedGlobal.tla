--------------------------- MODULE MCHostedGlobal ---------------------------
(* Small instances of HostedGlobal for model checking.                     *)
EXTENDS HostedGlobal, TLC

Symmetry == Permutations(Threads) \cup Permutations(Blocks)
=============================================================================
