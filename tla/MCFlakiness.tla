----------------------------- MODULE MCFlakiness -----------------------------
(* An instance of Flakiness: three runs, and as many directory names.       *)
EXTENDS Flakiness

MCTempDir == {"d1", "d2", "d3"}
=============================================================================
