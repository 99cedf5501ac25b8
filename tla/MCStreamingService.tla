------------------------ MODULE MCStreamingService ------------------------
(* The streaming service on two networks that may stand for each other. *)
EXTENDS StreamingService, TLC

Symmetry == Permutations(Networks)
===========================================================================
