-------------------------------- MODULE MCMetrics --------------------------------
(***************************************************************************)
(* Instances of Metrics for TLC: the sessions are interchangeable.         *)
(***************************************************************************)
EXTENDS Metrics, TLC

Symmetry == Permutations(Sessions)

================================================================================
