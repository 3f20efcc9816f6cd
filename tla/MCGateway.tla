-------------------------------- MODULE MCGateway --------------------------------
(***************************************************************************)
(* Instances of Gateway for TLC: the sessions are interchangeable, and so  *)
(* are the descriptors.                                                    *)
(***************************************************************************)
EXTENDS Gateway, TLC

Symmetry == Permutations(Sessions) \cup Permutations(Fds)

================================================================================
