---------------------------- MODULE MCSpanBlocks ----------------------------
(* A small instance of SpanBlocks for model checking.                      *)
EXTENDS SpanBlocks
=============================================================================
