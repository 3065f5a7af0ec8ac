--------------------------- MODULE MCHelpAcquire ----------------------------
(* Small instances of HelpAcquire for model checking.                      *)
EXTENDS HelpAcquire, TLC

Symmetry == Permutations(Spans)
=============================================================================
