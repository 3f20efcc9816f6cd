--------------------------------- MODULE MCRelay ---------------------------------
(***************************************************************************)
(* Instances of Relay for TLC: the flows are interchangeable.              *)
(***************************************************************************)
EXTENDS Relay, TLC

Symmetry == Permutations(Sessions)

================================================================================
